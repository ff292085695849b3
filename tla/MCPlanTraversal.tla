--------------------------- MODULE MCPlanTraversal --------------------------
(* Every list of up to MaxStages stages over three ids.                     *)
EXTENDS PlanTraversal

CONSTANTS a, b, c

ThreeIds == {a, b, c}
=============================================================================
