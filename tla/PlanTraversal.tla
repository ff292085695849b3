--------------------------- MODULE PlanTraversal ----------------------------
(***************************************************************************)
(* The two depth-first searches of lib/agent/state-machine.ts, step by     *)
(* step: validatePlan (which accepts or rejects a plan) and, for a plan it *)
(* accepts, transitiveStageDependencies (which a restored run is built     *)
(* from).  A call of the local function `visit' is a frame on `stack'.     *)
(*                                                                         *)
(* The plan is any list of up to MaxStages stages: ids may repeat, and a   *)
(* stage may depend on itself or on an id no stage has.                    *)
(***************************************************************************)
EXTENDS PlanGraph, Naturals, Sequences

CONSTANT MaxStages      \* bound on the length of the list of stages

ASSUME MaxStagesAssumption == MaxStages \in Nat

VARIABLES
  list,                 \* plan.stages: a sequence of [id, dependsOn]
  phase,                \* where the code is
  next,                 \* validatePlan's outer loop: index of the next root
  stack,                \* open calls of visit: [id, todo], todo the dependencies left
  visited,              \* visited (validatePlan), result (transitiveStageDependencies)
  target                \* the stage whose dependencies are collected

searchVars == <<list, phase, next, stack, visited, target>>

StageRecord == [id : Stage, dependsOn : SUBSET Stage]

Ids == {list[i].id : i \in 1..Len(list)}

\* byId.get(id).dependsOn; {} for an id no stage has.
DependsOf(id) == UNION {list[i].dependsOn : i \in {j \in 1..Len(list) : list[j].id = id}}

OnStack == {stack[i].id : i \in 1..Len(stack)}

Push(st, id) == Append(st, [id |-> id, todo |-> DependsOf(id)])

Pop(st) == SubSeq(st, 1, Len(st) - 1)

WithoutTodo(st, d) == [st EXCEPT ![Len(st)].todo = @ \ {d}]

-----------------------------------------------------------------------------
SearchInit ==
  /\ list \in UNION {[1..n -> StageRecord] : n \in 0..MaxStages}
  /\ phase = "check"
  /\ next = 1
  /\ stack = <<>>
  /\ visited = {}
  /\ target \in Stage

\* The loops before the search: duplicate ids, self and unknown dependencies.
CheckStages ==
  /\ phase = "check"
  /\ phase' = IF /\ \A i, j \in 1..Len(list) : list[i].id = list[j].id => i = j
                 /\ \A i \in 1..Len(list) : list[i].dependsOn \subseteq Ids \ {list[i].id}
              THEN "roots" ELSE "rejected"
  /\ UNCHANGED <<list, next, stack, visited, target>>

\* Mutant: a stage is marked visited when its visit starts.
VisitRoot_MarksEarly ==
  /\ phase = "roots" /\ stack = <<>>
  /\ next <= Len(list)
  /\ next' = next + 1
  /\ visited' = visited \cup {list[next].id}
  /\ stack' = IF list[next].id \in visited THEN <<>> ELSE Push(<<>>, list[next].id)
  /\ UNCHANGED <<list, phase, target>>

\* for (const stage of plan.stages) visit(stage.id)
VisitRoot ==
  /\ phase = "roots" /\ stack = <<>>
  /\ next <= Len(list)
  /\ next' = next + 1
  /\ stack' = IF list[next].id \in visited THEN <<>> ELSE Push(<<>>, list[next].id)
  /\ UNCHANGED <<list, phase, visited, target>>

\* Mutant: a stage that is being visited is skipped, not rejected.
VisitDependency_NoCycleCheck ==
  /\ phase = "roots" /\ stack # <<>>
  /\ \E d \in stack[Len(stack)].todo :
       stack' = IF d \in visited \cup OnStack THEN WithoutTodo(stack, d)
                ELSE Push(WithoutTodo(stack, d), d)
  /\ UNCHANGED <<list, phase, next, visited, target>>

\* Mutant: the loop over the dependencies does not advance.
VisitDependency_NoAdvance ==
  /\ phase = "roots" /\ stack # <<>>
  /\ \E d \in stack[Len(stack)].todo :
       stack' = IF d \in visited \cup OnStack THEN stack ELSE Push(stack, d)
  /\ UNCHANGED <<list, phase, next, visited, target>>

\* visit calls itself for a dependency d: already visited, or a cycle, or deeper.
VisitDependency ==
  /\ phase = "roots" /\ stack # <<>>
  /\ \E d \in stack[Len(stack)].todo :
       /\ phase' = IF d \notin visited /\ d \in OnStack THEN "rejected" ELSE phase
       /\ stack' = IF d \in visited \cup OnStack THEN WithoutTodo(stack, d)
                   ELSE Push(WithoutTodo(stack, d), d)
  /\ UNCHANGED <<list, next, visited, target>>

\* visit returns: visiting.delete, visited.add.
FinishVisit ==
  /\ phase = "roots" /\ stack # <<>>
  /\ stack[Len(stack)].todo = {}
  /\ visited' = visited \cup {stack[Len(stack)].id}
  /\ stack' = Pop(stack)
  /\ UNCHANGED <<list, phase, next, target>>

\* validatePlan returns; transitiveStageDependencies starts if the target exists.
StartCollect ==
  /\ phase = "roots" /\ stack = <<>>
  /\ next > Len(list)
  /\ phase' = IF target \in Ids THEN "collect" ELSE "unknown"
  /\ stack' = IF target \in Ids THEN Push(<<>>, target) ELSE <<>>
  /\ visited' = {}
  /\ UNCHANGED <<list, next, target>>

\* Mutant: only the direct dependencies are collected.
CollectDependency_Direct ==
  /\ phase = "collect" /\ stack # <<>>
  /\ \E d \in stack[Len(stack)].todo :
       /\ visited' = visited \cup {d}
       /\ stack' = WithoutTodo(stack, d)
  /\ UNCHANGED <<list, phase, next, target>>

\* Here visit adds to the result before it goes deeper, and has no cycle check.
CollectDependency ==
  /\ phase = "collect" /\ stack # <<>>
  /\ \E d \in stack[Len(stack)].todo :
       /\ visited' = visited \cup {d}
       /\ stack' = IF d \in visited THEN WithoutTodo(stack, d)
                   ELSE Push(WithoutTodo(stack, d), d)
  /\ UNCHANGED <<list, phase, next, target>>

FinishCollect ==
  /\ phase = "collect" /\ stack # <<>>
  /\ stack[Len(stack)].todo = {}
  /\ stack' = Pop(stack)
  /\ phase' = IF Len(stack) = 1 THEN "done" ELSE phase
  /\ UNCHANGED <<list, next, visited, target>>

SearchNext ==
  \/ CheckStages
  \/ VisitRoot \/ VisitDependency \/ FinishVisit
  \/ StartCollect \/ CollectDependency \/ FinishCollect

\* The functions are synchronous: once called they run.
SearchSpec == SearchInit /\ [][SearchNext]_searchVars /\ WF_searchVars(SearchNext)

-----------------------------------------------------------------------------
(* Properties *)

Deps == [s \in Stage |-> DependsOf(s)]

WellFormed ==
  /\ \A i, j \in 1..Len(list) : list[i].id = list[j].id => i = j
  /\ UNION {list[i].dependsOn : i \in 1..Len(list)} \subseteq Ids
  /\ Acyclic(Deps)

\* validatePlan accepts exactly the well-formed plans: the search with its
\* visiting and visited sets misses no cycle and invents none.
ValidateExact ==
  /\ phase = "rejected" => ~WellFormed
  /\ phase \in {"unknown", "collect", "done"} => WellFormed

\* A stage marked visited has its whole dependency cone visited and can reach no
\* cycle: the search may skip it.
VisitedSettled ==
  phase = "roots" =>
    \A v \in visited : /\ DependsOf(v) \subseteq visited
                       /\ v \notin TransitiveDependencies(Deps, v)

\* transitiveStageDependencies collects exactly the transitive dependencies: the
\* stages a restored run calls confirmed, no more and no fewer.
CollectExact ==
  phase = "done" => visited = TransitiveDependencies(Deps, target)

\* Both searches end, on every list: the second has no cycle check of its own and
\* relies on the result set.
SearchEnds == <>(phase \in {"rejected", "unknown", "done"})
=============================================================================
