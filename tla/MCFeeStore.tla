----------------------------- MODULE MCFeeStore -----------------------------
(* FeeStore with two runs, two executions, two transactions and concurrent  *)
(* requests.  t1 pays e1's fee only, t2 the fee of either (same payer,     *)
(* same amount); one receipt dates from before the store.                   *)
EXTENDS FeeStore, TLC

CONSTANTS r1, r2, e1, e2, t1, t2, q1, q2

TwoRuns == {r1, r2}
TwoExecutions == {e1, e2}
TwoTxs == {t1, t2}
SomePay == (TwoTxs \X {e1}) \cup {<<t2, e2>>}
OneLegacy == {[run |-> r1, exe |-> e1, tx |-> t1]}
=============================================================================
