----------------------------- MODULE MCAgentRun -----------------------------
(* AgentRun over every valid plan of three stages (chains, forks, joins).   *)
EXTENDS AgentRun

CONSTANTS a, b, c

ThreeStages == {a, b, c}
=============================================================================
