----------------------------- MODULE MCAgentFlows -----------------------------
(* AgentFlows within five sizes: one run that is left and shown again, alone, *)
(* with a stage more to repeat, or while balances move; two runs that change  *)
(* places while balances move, or with a stage more to repeat.                *)
EXTENDS AgentFlows

Size(r, t, v, m) == [runs |-> r, txs |-> t, views |-> v, moves |-> m]

Sizes ==
  {Size(1, 2, 3, 0), Size(1, 3, 2, 0), Size(1, 3, 1, 1), Size(2, 2, 1, 1), Size(2, 3, 1, 0)}
=============================================================================
