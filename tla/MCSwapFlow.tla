----------------------------- MODULE MCSwapFlow -----------------------------
(* SwapFlow with the three plans of buildStarknetAgentPlan's modes.         *)
EXTENDS SwapFlow

Plans == [m \in Mode |-> CASE m = "normal"   -> <<"swap">>
                          [] m = "shield"   -> <<"swap", "shield">>
                          [] m = "unshield" -> <<"unshield", "swap">>]
=============================================================================
