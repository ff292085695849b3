----------------------------- MODULE FeeLedger ------------------------------
(***************************************************************************)
(* What the durable fee store promises: a run is settled by at most one    *)
(* fee transaction, for ever, and a transaction settles at most one run.   *)
(***************************************************************************)
CONSTANTS Run, Tx, NoTx

VARIABLE settledBy      \* settledBy[r]: the transaction that paid for r, or NoTx

Init == settledBy = [r \in Run |-> NoTx]

Settle(r, t) ==
  /\ settledBy[r] = NoTx
  /\ \A x \in Run : settledBy[x] # t
  /\ settledBy' = [settledBy EXCEPT ![r] = t]

Next == \E r \in Run, t \in Tx : Settle(r, t)

Spec == Init /\ [][Next]_settledBy
=============================================================================
