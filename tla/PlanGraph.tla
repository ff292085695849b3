----------------------------- MODULE PlanGraph ------------------------------
(***************************************************************************)
(* The dependency graph of an Agent plan: the meaning of the two checks    *)
(* that lib/agent/state-machine.ts computes by depth-first search.         *)
(* PlanTraversal models the searches and compares them with this meaning;  *)
(* AgentRun uses the meaning.                                              *)
(***************************************************************************)
EXTENDS FiniteSets

CONSTANT Stage          \* the ids of the stages of the plan

ASSUME StageAssumption == IsFiniteSet(Stage) /\ Stage # {}

\* No dependency cycle: every nonempty set of stages has a member that depends
\* on no other member.  (A stage that depends on itself is a cycle.)
Acyclic(deps) ==
  \A S \in SUBSET Stage : S # {} => \E s \in S : deps[s] \cap S = {}

\* The least set that holds the dependencies of s and is closed under deps.
ClosedSets(deps, s) ==
  {C \in SUBSET Stage : deps[s] \subseteq C /\ \A c \in C : deps[c] \subseteq C}

TransitiveDependencies(deps, s) ==
  {d \in Stage : \A C \in ClosedSets(deps, s) : d \in C}
=============================================================================
