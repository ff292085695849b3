----------------------------- MODULE MCFeeGate ------------------------------
(* FeeGate with two plans, in a mode each.                         *)
EXTENDS FeeGate, TLC

CONSTANTS p1, p2, m1, m2, v1, v2

TwoPlans == {p1, p2}
TwoModes == {m1, m2}
TwoEffects == {v1, v2}
ModeEach == p1 :> m1 @@ p2 :> m2
=============================================================================
