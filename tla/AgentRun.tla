------------------------------ MODULE AgentRun ------------------------------
(***************************************************************************)
(* The Agent run state machine, lib/agent/state-machine.ts.                *)
(*                                                                         *)
(* A plan is a list of stages with dependencies.  A run gives each stage a *)
(* status; the user drives it stage by stage.  The code keeps a run as an  *)
(* immutable value: every operation returns a new one.  Here `stages' is   *)
(* the value the page currently holds, and sent / final / refunded record  *)
(* what the stages' transactions and provider orders have really done,     *)
(* which survives when the page (and the run with it) is lost.             *)
(*                                                                         *)
(* The plan is chosen in Init among ALL the plans validatePlan accepts.    *)
(***************************************************************************)
EXTENDS PlanGraph

VARIABLES
  plan,                 \* [ready: plan.status = "ready", dependsOn: stage -> stages]
  stages,               \* AgentRun.stages: the status of every stage
  sent,                 \* stages some transaction or order of which was submitted
  final,                \* stages whose transaction or order is final and successful
  refunded              \* stages whose provider order ended expired or refunded

vars == <<plan, stages, sent, final, refunded>>

StageStatus == {"locked", "review", "submitted", "confirmed", "failed"}

-----------------------------------------------------------------------------
(* Plans *)

\* Mutant: the search for cycles is forgotten.
ValidPlan_CycleAllowed(p) == p \in [ready : BOOLEAN, dependsOn : [Stage -> SUBSET Stage]]

\* validatePlan: what a plan must satisfy for a run to be created from it.
\* Duplicate ids cannot be expressed: Stage is a set.
ValidPlan(p) ==
  /\ p \in [ready : BOOLEAN, dependsOn : [Stage -> SUBSET Stage]]
  /\ Acyclic(p.dependsOn)

-----------------------------------------------------------------------------
(* Runs *)

\* Mutant: some instead of every.
DependenciesConfirmed_Some(st, s) ==
  plan.dependsOn[s] = {} \/ \E d \in plan.dependsOn[s] : st[d] = "confirmed"

DependenciesConfirmed(st, s) == \A d \in plan.dependsOn[s] : st[d] = "confirmed"

\* Mutant: nothing is unlocked.
UnlockStages_None(st) == st

UnlockStages(st) ==
  [s \in Stage |-> IF st[s] = "locked" /\ DependenciesConfirmed(st, s)
                   THEN "review" ELSE st[s]]

\* Mutant: the run's status is given to the stages of a plan that is not ready.
CreatedStages_Blocked(p) ==
  [s \in Stage |-> IF ~p.ready THEN "blocked"
                   ELSE IF p.dependsOn[s] = {} THEN "review" ELSE "locked"]

\* createAgentRun
CreatedStages(p) ==
  [s \in Stage |-> IF p.ready /\ p.dependsOn[s] = {} THEN "review" ELSE "locked"]

\* Mutant: all the other stages are taken for dependencies.
RestoredStages_AllConfirmed(p, target) ==
  [s \in Stage |-> IF s = target THEN "submitted" ELSE "confirmed"]

\* restoreSubmittedAgentRun, before unlockStages
RestoredStages(p, target) ==
  LET deps == TransitiveDependencies(p.dependsOn, target)
  IN  [s \in Stage |-> IF s \in deps THEN "confirmed"
                       ELSE IF s = target THEN "submitted"
                       ELSE CreatedStages(p)[s]]

\* deriveRunStatus.  Every operation recomputes AgentRun.status with it, so the
\* status is a function of the stages.
DeriveRunStatus(p, st) ==
  IF ~p.ready THEN "blocked"
  ELSE IF \E s \in Stage : st[s] = "failed"    THEN "failed"
  ELSE IF \A s \in Stage : st[s] = "confirmed" THEN "completed"
  ELSE IF \E s \in Stage : st[s] = "submitted" THEN "executing"
  ELSE IF \E s \in Stage : st[s] = "review"    THEN "review"
  ELSE "waiting"

RunStatus == DeriveRunStatus(plan, stages)

-----------------------------------------------------------------------------
Init ==
  /\ plan \in {p \in [ready : BOOLEAN, dependsOn : [Stage -> SUBSET Stage]] : ValidPlan(p)}
  /\ stages = CreatedStages(plan)
  /\ sent = {} /\ final = {} /\ refunded = {}

\* Mutant: the status and the dependencies are not checked.
Submit_Unchecked(s) ==
  /\ stages' = [stages EXCEPT ![s] = "submitted"]
  /\ sent' = sent \cup {s}
  /\ UNCHANGED <<plan, final, refunded>>

\* submitAgentStage: the stage's transaction or order has been handed over.
Submit(s) ==
  /\ stages[s] = "review"
  /\ DependenciesConfirmed(stages, s)
  /\ stages' = [stages EXCEPT ![s] = "submitted"]
  /\ sent' = sent \cup {s}
  /\ UNCHANGED <<plan, final, refunded>>

\* confirmAgentStage, which the runtimes call once the transaction is accepted
\* (waitForTransaction) or the provider reports the order completed.
Confirm(s) ==
  /\ stages[s] = "submitted"
  /\ s \in final
  /\ stages' = UnlockStages([stages EXCEPT ![s] = "confirmed"])
  /\ UNCHANGED <<plan, sent, final, refunded>>

\* failAgentStage, which the bridge runtime calls for an expired or refunded order.
Fail(s) ==
  /\ stages[s] = "submitted"
  /\ s \in refunded
  /\ stages' = [stages EXCEPT ![s] = "failed"]
  /\ UNCHANGED <<plan, sent, final, refunded>>

\* The page is reloaded and restoreSubmittedAgentRun rebuilds the run around a
\* stage that was really submitted.  The controllers ask for a ready plan first.
Restore(s) ==
  /\ plan.ready
  /\ s \in sent
  /\ stages' = UnlockStages(RestoredStages(plan, s))
  /\ UNCHANGED <<plan, sent, final, refunded>>

\* External: the chain accepts the stage's transaction, the provider completes
\* the order.
Finalize(s) ==
  /\ s \in sent \ (final \cup refunded)
  /\ final' = final \cup {s}
  /\ UNCHANGED <<plan, stages, sent, refunded>>

\* External: the provider lets the order expire, or refunds it.
Refund(s) ==
  /\ s \in sent \ (final \cup refunded)
  /\ refunded' = refunded \cup {s}
  /\ UNCHANGED <<plan, stages, sent, final>>

Next ==
  \E s \in Stage :
    Submit(s) \/ Confirm(s) \/ Fail(s) \/ Restore(s) \/ Finalize(s) \/ Refund(s)

Spec == Init /\ [][Next]_vars

-----------------------------------------------------------------------------
(* Properties *)

\* Type invariant.
TypeOK ==
  /\ ValidPlan(plan)
  /\ stages \in [Stage -> StageStatus]
  /\ sent \in SUBSET Stage
  /\ final \in SUBSET Stage
  /\ refunded \in SUBSET Stage

\* A stage past "locked" has every dependency confirmed, whatever the shape of
\* the plan and wherever in it the run was restored.  In particular what depends
\* on a failed stage stays locked ("failed Borrow stops the run and keeps Shield
\* locked", tests/agent-state-machine.test.cjs:334).
DependenciesBeforeStage ==
  \A s \in Stage : stages[s] # "locked" =>
    \A d \in plan.dependsOn[s] : stages[d] = "confirmed"

\* unlockStages never forgets a stage: in a ready plan a stage stays locked only
\* while one of its dependencies is unconfirmed.
NothingLockedForever ==
  plan.ready => \A s \in Stage : stages[s] = "locked" =>
                  \E d \in plan.dependsOn[s] : stages[d] # "confirmed"

\* A ready run always has something to do or has ended: deriveRunStatus's last
\* answer, "waiting", is never reached.  Rests on the plan having no cycle.
NeverWaiting == RunStatus # "waiting"

\* Restoring a run fabricates nothing ("No future stage is fabricated as
\* confirmed", state-machine.ts:476): what the run calls confirmed is final, and
\* what it calls submitted was handed over.
NothingFabricated ==
  \A s \in Stage : /\ stages[s] = "confirmed" => s \in final
                   /\ stages[s] \in {"submitted", "failed"} => s \in sent

\* What the outside world sees of a run: no stage is handed over before all its
\* dependencies are final, across any number of reloads.
Order == INSTANCE OrderedExecution WITH dependsOn <- plan.dependsOn

OrderedExecution == Order!Spec
=============================================================================
