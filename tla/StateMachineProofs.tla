------------------------- MODULE StateMachineProofs -------------------------
(***************************************************************************)
(* Proofs about lib/agent/state-machine.ts: the searches of PlanTraversal  *)
(* for every list of stages, then AgentRun for every valid plan.           *)
(*                                                                         *)
(* Nothing is proved by induction over paths.  A set of stages without a   *)
(* cycle is one of which every nonempty subset has a member that depends   *)
(* on no other of it; the visited stages are such a set, closed under      *)
(* dependsOn, and stay one when a visit ends.                              *)
(*                                                                         *)
(* The invariant of a run adds to the checked properties what a restore    *)
(* relies on: what was sent was sent in dependency order, so the set of    *)
(* final stages is closed under dependsOn around anything that was sent.   *)
(***************************************************************************)
EXTENDS PlanTraversal, AgentRun, SequenceTheorems, TLAPS

Frame == [id : Stage, todo : SUBSET Stage]

Graph == [Stage -> SUBSET Stage]

Closed(D, V) == \A v \in V : D[v] \subseteq V

AcyclicOn(D, V) == \A S \in SUBSET V : S # {} => \E s \in S : D[s] \cap S = {}

\* Each open visit was started by the one below it.
IsPath(D, st) == \A i \in 1..Len(st) : i + 1 \in 1..Len(st) => st[i + 1].id \in D[st[i].id]

\* A dependency of an open visit is visited, still to do, or being visited next.
Accounted(D, st, V) ==
  \A i \in 1..Len(st) :
    /\ st[i].todo \subseteq D[st[i].id]
    /\ \A d \in D[st[i].id] :
         d \in V \/ d \in st[i].todo \/ (i + 1 \in 1..Len(st) /\ d = st[i + 1].id)

\* No stage that is being visited is visited, nor visited twice at once.
NoRepeat(st, V) ==
  \A i \in 1..Len(st) : st[i].id \notin V /\ \A j \in 1..Len(st) : st[i].id = st[j].id => i = j

Search(D, st, V) ==
  IsPath(D, st) /\ Accounted(D, st, V) /\ NoRepeat(st, V) /\ Closed(D, V) /\ AcyclicOn(D, V)

\* What is collected is reachable, and what it depends on is collected or to do.
Collection(D, st, V, t) ==
  /\ V \subseteq TransitiveDependencies(D, t)
  /\ \A i \in 1..Len(st) : /\ st[i].id \in {t} \cup TransitiveDependencies(D, t)
                           /\ st[i].todo \subseteq D[st[i].id]
  /\ \A v \in {t} \cup V : \A d \in D[v] :
       d \in V \/ \E i \in 1..Len(st) : st[i].id = v /\ d \in st[i].todo

-----------------------------------------------------------------------------
(* The invariant of the searches *)

Typed ==
  /\ list \in Seq(StageRecord)
  /\ next \in 1..(Len(list) + 1)
  /\ stack \in Seq(Frame)
  /\ visited \in SUBSET Stage
  /\ target \in Stage

NotStarted == phase = "check" => next = 1 /\ stack = <<>> /\ visited = {}

DistinctIds == \A i, j \in 1..Len(list) : list[i].id = list[j].id => i = j

KnownDependencies == \A i \in 1..Len(list) : list[i].dependsOn \subseteq Ids \ {list[i].id}

Checked == phase = "roots" => DistinctIds /\ KnownDependencies

RootsDone == \A i \in 1..Len(list) : i < next => list[i].id \in visited \cup OnStack

Searching == phase = "roots" => Search(Deps, stack, visited) /\ RootsDone

Collecting == phase \in {"collect", "done"} => Collection(Deps, stack, visited, target)

DoneEmpty == phase = "done" => stack = <<>>

SearchInv ==
  /\ Typed /\ NotStarted /\ Checked /\ Searching /\ Collecting /\ DoneEmpty
  /\ phase \in {"check", "roots", "rejected", "unknown", "collect", "done"}
  /\ ValidateExact

-----------------------------------------------------------------------------
(* Graphs *)

LEMMA TransitiveClosed ==
  ASSUME NEW D \in Graph, NEW t \in Stage
  PROVE  /\ TransitiveDependencies(D, t) \subseteq Stage
         /\ D[t] \subseteq TransitiveDependencies(D, t)
         /\ Closed(D, TransitiveDependencies(D, t))
<1>1. D[t] \subseteq Stage /\ \A d \in Stage : D[d] \subseteq Stage
  BY DEF Graph
<1>2. ASSUME NEW d \in TransitiveDependencies(D, t), NEW e \in D[d]
      PROVE  e \in TransitiveDependencies(D, t)
  BY <1>1, <1>2 DEF TransitiveDependencies, ClosedSets
<1>3. QED
  BY <1>1, <1>2 DEF TransitiveDependencies, ClosedSets, Closed

LEMMA TransitiveLeast ==
  ASSUME NEW D \in Graph, NEW t \in Stage, NEW C \in SUBSET Stage, D[t] \subseteq C, Closed(D, C)
  PROVE  TransitiveDependencies(D, t) \subseteq C
BY DEF TransitiveDependencies, ClosedSets, Closed

\* A transitive dependency is a dependency, or one of a dependency.
LEMMA TransitiveStep ==
  ASSUME NEW D \in Graph, NEW t \in Stage, NEW e \in TransitiveDependencies(D, t)
  PROVE  e \in D[t] \/ \E d \in D[t] : e \in TransitiveDependencies(D, d)
<1> DEFINE C == {c \in Stage : c \in D[t] \/ \E d \in D[t] : c \in TransitiveDependencies(D, d)}
<1>1. D[t] \subseteq Stage /\ \A d \in Stage : D[d] \subseteq Stage
  BY DEF Graph
<1>2. ASSUME NEW c \in C, NEW f \in D[c] PROVE f \in C
  <2>1. CASE c \in D[t]
    BY <1>1, <1>2, <2>1, TransitiveClosed
  <2>2. CASE \E d \in D[t] : c \in TransitiveDependencies(D, d)
    BY <1>1, <1>2, <2>2, TransitiveClosed DEF Closed
  <2>3. QED
    BY <2>1, <2>2
<1>3. C \in SUBSET Stage /\ D[t] \subseteq C /\ Closed(D, C)
  BY <1>1, <1>2 DEF Closed
<1>4. TransitiveDependencies(D, t) \subseteq C
  BY <1>3, TransitiveLeast
<1>5. QED
  BY <1>4

\* No stage of a closed set without a cycle depends on itself.
LEMMA Settled ==
  ASSUME NEW D \in Graph, NEW V \in SUBSET Stage, Closed(D, V), AcyclicOn(D, V), NEW v \in V
  PROVE  v \notin TransitiveDependencies(D, v)
<1>1. SUFFICES ASSUME v \in TransitiveDependencies(D, v) PROVE FALSE
  OBVIOUS
<1> DEFINE S == {s \in V : v \in TransitiveDependencies(D, s)}
<1>2. v \in S
  BY <1>1
<1>3. ASSUME NEW s \in S PROVE D[s] \cap S # {}
  <2>1. D[s] \subseteq V /\ s \in Stage
    BY DEF Closed
  <2>2. CASE v \in D[s]
    BY <1>2, <2>2
  <2>3. CASE \E d \in D[s] : v \in TransitiveDependencies(D, d)
    BY <2>1, <2>3
  <2>4. QED
    BY <2>1, <2>2, <2>3, TransitiveStep
<1>4. QED
  BY <1>2, <1>3 DEF AcyclicOn

\* A stage whose dependencies are all in a closed set may join it.
LEMMA AcyclicGrows ==
  ASSUME NEW D \in Graph, NEW V \in SUBSET Stage, Closed(D, V), AcyclicOn(D, V),
         NEW t \in Stage, t \notin V, D[t] \subseteq V
  PROVE  Closed(D, V \cup {t}) /\ AcyclicOn(D, V \cup {t})
<1>1. Closed(D, V \cup {t})
  BY DEF Closed
<1>2. ASSUME NEW S \in SUBSET (V \cup {t}), S # {} PROVE \E s \in S : D[s] \cap S = {}
  <2>1. CASE S \ {t} = {}
    <3>1. t \in S /\ S = {t}
      BY <1>2, <2>1
    <3>2. D[t] \cap {t} = {}
      OBVIOUS
    <3>3. QED
      BY <3>1, <3>2
  <2>2. CASE S \ {t} # {}
    <3>1. S \ {t} \in SUBSET V
      BY <1>2
    <3>2. PICK s \in S \ {t} : D[s] \cap (S \ {t}) = {}
      BY <2>2, <3>1 DEF AcyclicOn
    <3>3. t \notin D[s]
      BY <3>1, <3>2 DEF Closed
    <3>4. QED
      BY <3>2, <3>3
  <2>3. QED
    BY <2>1, <2>2
<1>3. QED
  BY <1>1, <1>2 DEF AcyclicOn

\* Stages that depend on nothing make no cycle.
LEMMA AcyclicAll ==
  ASSUME NEW D \in Graph, NEW V \in SUBSET Stage, AcyclicOn(D, V), \A s \in Stage \ V : D[s] = {}
  PROVE  Acyclic(D)
<1>1. ASSUME NEW S \in SUBSET Stage, S # {} PROVE \E s \in S : D[s] \cap S = {}
  <2>1. CASE S \in SUBSET V
    BY <1>1, <2>1 DEF AcyclicOn
  <2>2. CASE S \notin SUBSET V
    <3>1. PICK s \in S : s \notin V
      BY <2>2
    <3>2. D[s] = {}
      BY <3>1
    <3>3. QED
      BY <3>2
  <2>3. QED
    BY <2>1, <2>2
<1>2. QED
  BY <1>1 DEF Acyclic

-----------------------------------------------------------------------------
(* The stack *)

\* Everything stack[..] is: the open visits with what they have left to do.
LEMMA PushFacts ==
  ASSUME NEW st \in Seq(Frame), NEW id \in Stage, DependsOf(id) \in SUBSET Stage
  PROVE  /\ Push(st, id) \in Seq(Frame) /\ Len(Push(st, id)) = Len(st) + 1 /\ Len(st) \in Nat
         /\ \A i \in 1..Len(st) : Push(st, id)[i] = st[i]
         /\ Push(st, id)[Len(st) + 1].id = id
         /\ Push(st, id)[Len(st) + 1].todo = DependsOf(id)
<1> DEFINE f == [id |-> id, todo |-> DependsOf(id)]
<1>1. f \in Frame /\ f.id = id /\ f.todo = DependsOf(id)
  BY DEF Frame
<1> HIDE DEF f
<1>2. Push(st, id) = Append(st, f)
  BY DEF Push, f
<1>3. QED
  BY <1>1, <1>2, AppendProperties, LenProperties

LEMMA WithoutFacts ==
  ASSUME NEW st \in Seq(Frame), st # <<>>, NEW d
  PROVE  /\ WithoutTodo(st, d) \in Seq(Frame) /\ Len(WithoutTodo(st, d)) = Len(st)
         /\ Len(st) \in Nat /\ Len(st) \in 1..Len(st)
         /\ \A i \in 1..Len(st) : /\ WithoutTodo(st, d)[i].id = st[i].id
                                  /\ i # Len(st) => WithoutTodo(st, d)[i].todo = st[i].todo
         /\ WithoutTodo(st, d)[Len(st)].todo = st[Len(st)].todo \ {d}
<1> DEFINE n == Len(st)
           f == [st[n] EXCEPT !.todo = @ \ {d}]
<1>1. n \in Nat /\ n \in 1..n
  BY EmptySeq, LenProperties
<1>2. st[n] \in Frame
  BY <1>1, ElementOfSeq
<1>3. f \in Frame /\ f.id = st[n].id /\ f.todo = st[n].todo \ {d}
  BY <1>2 DEF Frame
<1>4. WithoutTodo(st, d) = [st EXCEPT ![n] = f]
  BY <1>1, <1>2 DEF WithoutTodo
<1> HIDE DEF n, f
<1>5. n = Len(st)
  BY DEF n
<1>6. QED
  BY <1>1, <1>3, <1>4, <1>5, ExceptSeq

LEMMA PopFacts ==
  ASSUME NEW st \in Seq(Frame), st # <<>>
  PROVE  /\ Pop(st) \in Seq(Frame) /\ Len(Pop(st)) = Len(st) - 1
         /\ Len(st) \in Nat /\ Len(st) \in 1..Len(st)
         /\ \A i \in 1..(Len(st) - 1) : Pop(st)[i] = st[i]
<1>1. Len(st) \in Nat /\ Len(st) \in 1..Len(st)
  BY EmptySeq, LenProperties
<1> DEFINE n == Len(st)
<1>2. n \in Nat /\ n \in 1..n
  BY <1>1
<1>3. Pop(st) = SubSeq(st, 1, n - 1)
  BY DEF Pop
<1>4. \A i \in 1..(n - 1) : st[i] \in Frame
  BY <1>2, ElementOfSeq
<1> HIDE DEF n
<1>5. Len(Pop(st)) = n - 1
  BY <1>2, <1>3, <1>4, SubSeqProperties
<1>6. QED
  BY <1>1, <1>2, <1>3, <1>4, <1>5, SubSeqProperties DEF n

\* The last of n visits starts that of its dependency d.
Descended(D, st, n, d, w) ==
  /\ Len(st) = n /\ Len(w) = n + 1
  /\ \A i \in 1..n : w[i].id = st[i].id /\ (i # n => w[i].todo = st[i].todo)
  /\ w[n].todo = st[n].todo \ {d} /\ w[n + 1].id = d /\ w[n + 1].todo = D[d]

-----------------------------------------------------------------------------
(* The search of validatePlan *)

\* A visit starts from the loop.
LEMMA SearchStarts ==
  ASSUME NEW D \in Graph, NEW V \in SUBSET Stage, Search(D, <<>>, V), NEW d \in Stage, d \notin V,
         NEW st, Len(st) = 1, st[1].id = d, st[1].todo = D[d]
  PROVE  Search(D, st, V)
BY DEF Search, IsPath, Accounted, NoRepeat

\* A visit starts from the visit of a stage that depends on it.
LEMMA SearchDescends ==
  ASSUME NEW D \in Graph, NEW V \in SUBSET Stage, NEW st, NEW n \in Nat, n > 0, Search(D, st, V),
         NEW d \in st[n].todo, d \notin V, \A i \in 1..n : st[i].id # d,
         NEW w, Descended(D, st, n, d, w)
  PROVE  Search(D, w, V)
<1> USE DEF Descended
<1>0. n \in 1..n /\ \A i \in 1..(n + 1) : i \in 1..n \/ i = n + 1
  OBVIOUS
<1>1. \A i \in 1..n : st[i].todo \subseteq D[st[i].id]
  BY DEF Search, Accounted
<1>2. d \in D[st[n].id]
  BY <1>0, <1>1
<1>3. IsPath(D, w)
  BY <1>0, <1>2 DEF Search, IsPath
<1>4. ASSUME NEW i \in 1..(n + 1)
      PROVE  /\ w[i].todo \subseteq D[w[i].id]
             /\ \A e \in D[w[i].id] :
                  e \in V \/ e \in w[i].todo \/ (i + 1 \in 1..(n + 1) /\ e = w[i + 1].id)
  <2>1. CASE i = n + 1
    BY <2>1
  <2>2. CASE i = n
    <3>1. ASSUME NEW e \in D[st[n].id] PROVE e \in V \/ e \in st[n].todo
      BY <1>0, <3>1 DEF Search, Accounted
    <3>2. QED
      BY <1>0, <1>1, <2>2, <3>1
  <2>3. CASE i # n /\ i # n + 1
    <3>1. i \in 1..n /\ i + 1 \in 1..n
      BY <2>3
    <3>2. w[i].id = st[i].id /\ w[i].todo = st[i].todo /\ w[i + 1].id = st[i + 1].id
      BY <2>3, <3>1
    <3>3. QED
      BY <3>1, <3>2 DEF Search, Accounted
  <2>4. QED
    BY <2>1, <2>2, <2>3
<1>5. Accounted(D, w, V)
  BY <1>4 DEF Accounted
<1>6. NoRepeat(w, V)
  BY <1>0 DEF Search, NoRepeat
<1>7. QED
  BY <1>3, <1>5, <1>6 DEF Search

\* A dependency that is visited is passed over.
LEMMA SearchSkips ==
  ASSUME NEW D \in Graph, NEW V \in SUBSET Stage, NEW st, NEW n \in Nat, n > 0, Len(st) = n,
         Search(D, st, V), NEW d \in V,
         NEW w, Len(w) = n,
         \A i \in 1..n : w[i].id = st[i].id /\ (i # n => w[i].todo = st[i].todo),
         w[n].todo = st[n].todo \ {d}
  PROVE  Search(D, w, V)
<1>1. IsPath(D, w)
  BY DEF Search, IsPath
<1>2. ASSUME NEW i \in 1..n
      PROVE  /\ w[i].todo \subseteq D[w[i].id]
             /\ \A e \in D[w[i].id] :
                  e \in V \/ e \in w[i].todo \/ (i + 1 \in 1..n /\ e = w[i + 1].id)
  <2>1. /\ st[i].todo \subseteq D[st[i].id]
        /\ \A e \in D[st[i].id] : e \in V \/ e \in st[i].todo \/ (i + 1 \in 1..n /\ e = st[i + 1].id)
    BY DEF Search, Accounted
  <2>2. w[i].id = st[i].id /\ (w[i].todo = st[i].todo \/ w[i].todo = st[i].todo \ {d})
    OBVIOUS
  <2>3. i + 1 \in 1..n => w[i + 1].id = st[i + 1].id
    OBVIOUS
  <2>4. QED
    BY <2>1, <2>2, <2>3
<1>3. Accounted(D, w, V)
  BY <1>2 DEF Accounted
<1>4. NoRepeat(w, V)
  BY DEF Search, NoRepeat
<1>5. QED
  BY <1>1, <1>3, <1>4 DEF Search

\* A visit with nothing left to do ends: its stage joins the visited ones.
LEMMA SearchReturns ==
  ASSUME NEW D \in Graph, NEW V \in SUBSET Stage, NEW st, NEW n \in Nat, n > 0, Len(st) = n,
         Search(D, st, V), st[n].id \in Stage, st[n].todo = {},
         NEW w, Len(w) = n - 1, \A i \in 1..(n - 1) : w[i] = st[i]
  PROVE  Search(D, w, V \cup {st[n].id})
<1> DEFINE t == st[n].id
<1>0. n \in 1..n /\ n + 1 \notin 1..n
  OBVIOUS
<1>1. t \in Stage /\ t \notin V /\ D[t] \subseteq V
  <2>1. \A e \in D[t] : e \in V \/ e \in st[n].todo
    BY <1>0 DEF Search, Accounted
  <2>2. QED
    BY <1>0, <2>1 DEF Search, NoRepeat
<1>2. Closed(D, V \cup {t}) /\ AcyclicOn(D, V \cup {t})
  BY <1>1, AcyclicGrows DEF Search
<1>3. IsPath(D, w)
  BY DEF Search, IsPath
<1>4. ASSUME NEW i \in 1..(n - 1)
      PROVE  /\ w[i].todo \subseteq D[w[i].id]
             /\ \A e \in D[w[i].id] :
                  e \in V \cup {t} \/ e \in w[i].todo \/ (i + 1 \in 1..(n - 1) /\ e = w[i + 1].id)
  <2>1. i \in 1..n /\ i + 1 \in 1..n /\ w[i] = st[i] /\ (i + 1 \in 1..(n - 1) \/ i + 1 = n)
    OBVIOUS
  <2>2. /\ st[i].todo \subseteq D[st[i].id]
        /\ \A e \in D[st[i].id] : e \in V \/ e \in st[i].todo \/ e = st[i + 1].id
    BY <2>1 DEF Search, Accounted
  <2>3. CASE i + 1 = n
    BY <2>1, <2>2, <2>3
  <2>4. CASE i + 1 \in 1..(n - 1)
    BY <2>1, <2>2, <2>4
  <2>5. QED
    BY <2>1, <2>3, <2>4
<1>5. Accounted(D, w, V \cup {t})
  BY <1>4 DEF Accounted
<1>6. NoRepeat(w, V \cup {t})
  BY <1>0 DEF Search, NoRepeat
<1>7. QED
  BY <1>2, <1>3, <1>5, <1>6 DEF Search

\* A dependency that is being visited closes a cycle: the visits from its own to
\* the last one.
LEMMA CycleFound ==
  ASSUME NEW D \in Graph, NEW V \in SUBSET Stage, NEW st, NEW n \in Nat, n > 0, Len(st) = n,
         Search(D, st, V), \A i \in 1..n : st[i].id \in Stage,
         NEW k \in 1..n, st[k].id \in st[n].todo
  PROVE  ~Acyclic(D)
<1> DEFINE S == {st[i].id : i \in k..n}
<1>1. S \in SUBSET Stage /\ st[k].id \in S /\ S # {}
  OBVIOUS
<1>2. ASSUME NEW i \in k..n PROVE D[st[i].id] \cap S # {}
  <2>1. CASE i = n
    <3>1. st[n].todo \subseteq D[st[n].id]
      BY DEF Search, Accounted
    <3>2. QED
      BY <1>1, <2>1, <3>1
  <2>2. CASE i # n
    <3>1. i \in 1..n /\ i + 1 \in 1..n /\ i + 1 \in k..n
      BY <2>2
    <3>2. st[i + 1].id \in D[st[i].id]
      BY <3>1 DEF Search, IsPath
    <3>3. st[i + 1].id \in S
      BY <3>1
    <3>4. QED
      BY <3>2, <3>3
  <2>3. QED
    BY <2>1, <2>2
<1>3. \A s \in S : D[s] \cap S # {}
  BY <1>2
<1> HIDE DEF S
<1>4. QED
  BY <1>1, <1>3 DEF Acyclic

-----------------------------------------------------------------------------
(* The search of transitiveStageDependencies *)

LEMMA CollectionStarts ==
  ASSUME NEW D \in Graph, NEW t \in Stage, NEW st, Len(st) = 1, st[1].id = t, st[1].todo = D[t]
  PROVE  Collection(D, st, {}, t)
<1>1. 1 \in 1..Len(st)
  OBVIOUS
<1>2. QED
  BY <1>1 DEF Collection

\* What a visit finds is reachable from the target.
LEMMA FoundReachable ==
  ASSUME NEW D \in Graph, NEW t \in Stage, NEW V \in SUBSET Stage, NEW st,
         Collection(D, st, V, t), NEW n \in 1..Len(st), NEW d \in st[n].todo
  PROVE  d \in TransitiveDependencies(D, t)
<1>1. d \in D[st[n].id] /\ st[n].id \in {t} \cup TransitiveDependencies(D, t)
  BY DEF Collection
<1>2. QED
  BY <1>1, TransitiveClosed DEF Closed

LEMMA CollectionSkips ==
  ASSUME NEW D \in Graph, NEW V \in SUBSET Stage, NEW t \in Stage, NEW st, NEW n \in Nat, n > 0,
         Len(st) = n, Collection(D, st, V, t), NEW d \in V, d \in st[n].todo,
         NEW w, Len(w) = n,
         \A i \in 1..n : w[i].id = st[i].id /\ (i # n => w[i].todo = st[i].todo),
         w[n].todo = st[n].todo \ {d}
  PROVE  Collection(D, w, V, t)
<1>1. \A i \in 1..n : w[i].id = st[i].id /\ (w[i].todo = st[i].todo \/ w[i].todo = st[i].todo \ {d})
  OBVIOUS
<1>2. \A i \in 1..n : w[i].id \in {t} \cup TransitiveDependencies(D, t) /\ w[i].todo \subseteq D[w[i].id]
  BY <1>1 DEF Collection
<1>3. ASSUME NEW v \in {t} \cup V, NEW e \in D[v]
      PROVE  e \in V \/ \E i \in 1..n : w[i].id = v /\ e \in w[i].todo
  BY <1>1, <1>3 DEF Collection
<1>4. QED
  BY <1>2, <1>3 DEF Collection

LEMMA CollectionDescends ==
  ASSUME NEW D \in Graph, NEW V \in SUBSET Stage, NEW t \in Stage, NEW st, NEW n \in Nat, n > 0,
         Collection(D, st, V, t), NEW d \in st[n].todo, NEW w, Descended(D, st, n, d, w)
  PROVE  Collection(D, w, V \cup {d}, t)
<1> USE DEF Descended
<1>0. n \in 1..n /\ n + 1 \in 1..(n + 1) /\ \A i \in 1..(n + 1) : i \in 1..n \/ i = n + 1
  OBVIOUS
<1>1. \A i \in 1..n : w[i].id = st[i].id /\ (w[i].todo = st[i].todo \/ w[i].todo = st[i].todo \ {d})
  OBVIOUS
<1>2. d \in TransitiveDependencies(D, t)
  BY <1>0, FoundReachable
<1>3. \A i \in 1..(n + 1) :
        w[i].id \in {t} \cup TransitiveDependencies(D, t) /\ w[i].todo \subseteq D[w[i].id]
  BY <1>0, <1>1, <1>2 DEF Collection
<1>4. ASSUME NEW v \in {t} \cup (V \cup {d}), NEW e \in D[v]
      PROVE  e \in V \cup {d} \/ \E i \in 1..(n + 1) : w[i].id = v /\ e \in w[i].todo
  <2>1. CASE v = d
    BY <1>0, <2>1
  <2>2. CASE v \in {t} \cup V
    <3>1. e \in V \/ \E i \in 1..n : st[i].id = v /\ e \in st[i].todo
      BY <2>2 DEF Collection
    <3>2. ASSUME NEW i \in 1..n, st[i].id = v, e \in st[i].todo
          PROVE  e \in V \cup {d} \/ (w[i].id = v /\ e \in w[i].todo)
      BY <1>1, <3>2
    <3>3. \A i \in 1..n : i \in 1..(n + 1)
      OBVIOUS
    <3>4. QED
      BY <3>1, <3>2, <3>3
  <2>3. QED
    BY <2>1, <2>2
<1>5. V \cup {d} \subseteq TransitiveDependencies(D, t)
  BY <1>2 DEF Collection
<1>6. QED
  BY <1>3, <1>4, <1>5 DEF Collection

LEMMA CollectionReturns ==
  ASSUME NEW D \in Graph, NEW V \in SUBSET Stage, NEW t \in Stage, NEW st, NEW n \in Nat, n > 0,
         Len(st) = n, Collection(D, st, V, t), st[n].todo = {},
         NEW w, Len(w) = n - 1, \A i \in 1..(n - 1) : w[i] = st[i]
  PROVE  Collection(D, w, V, t)
<1>1. \A i \in 1..n : i = n \/ (i \in 1..(n - 1) /\ w[i] = st[i])
  OBVIOUS
<1>2. \A i \in 1..(n - 1) : i \in 1..n
  OBVIOUS
<1>3. \A v \in {t} \cup V : \A d \in D[v] :
        d \in V \/ \E i \in 1..(n - 1) : w[i].id = v /\ d \in w[i].todo
  BY <1>1 DEF Collection
<1>4. QED
  BY <1>2, <1>3 DEF Collection

\* With no visit open, everything reachable is collected.
LEMMA CollectionComplete ==
  ASSUME NEW D \in Graph, NEW V \in SUBSET Stage, NEW t \in Stage, Collection(D, <<>>, V, t)
  PROVE  V = TransitiveDependencies(D, t)
<1>1. D[t] \subseteq V /\ Closed(D, V)
  BY DEF Collection, Closed
<1>2. QED
  BY <1>1, TransitiveLeast DEF Collection

-----------------------------------------------------------------------------
(* The plan *)

LEMMA DependsOfElements ==
  ASSUME NEW id, NEW d
  PROVE  d \in DependsOf(id) <=> \E i \in 1..Len(list) : list[i].id = id /\ d \in list[i].dependsOn
BY DEF DependsOf

LEMMA DepsFacts ==
  ASSUME list \in Seq(StageRecord)
  PROVE  /\ Deps \in Graph
         /\ \A s \in Stage : Deps[s] = DependsOf(s)
         /\ \A i \in 1..Len(list) : list[i].id \in Stage /\ list[i].dependsOn \in SUBSET Stage
<1>1. \A i \in 1..Len(list) : list[i] \in StageRecord
  BY ElementOfSeq
<1>2. \A i \in 1..Len(list) : list[i].id \in Stage /\ list[i].dependsOn \in SUBSET Stage
  BY <1>1 DEF StageRecord
<1>3. \A s \in Stage : DependsOf(s) \in SUBSET Stage
  BY <1>2, DependsOfElements
<1>4. QED
  BY <1>2, <1>3 DEF Deps, Graph

\* An id that no stage has depends on nothing.
LEMMA UnknownDependsOnNothing ==
  ASSUME NEW s, s \notin Ids PROVE DependsOf(s) = {}
BY DependsOfElements DEF Ids

\* The checks before the search reject nothing that is well formed.
LEMMA RejectedEarly ==
  ASSUME list \in Seq(StageRecord), ~(DistinctIds /\ KnownDependencies)
  PROVE  ~WellFormed
<1>1. CASE ~DistinctIds
  BY <1>1 DEF DistinctIds, WellFormed
<1>2. CASE ~KnownDependencies
  <2>0. PICK i \in 1..Len(list) : ~(list[i].dependsOn \subseteq Ids \ {list[i].id})
    BY <1>2 DEF KnownDependencies
  <2>1. PICK d \in list[i].dependsOn : d \notin Ids \/ d = list[i].id
    BY <2>0
  <2>2. CASE d \notin Ids
    BY <2>1, <2>2 DEF WellFormed
  <2>3. CASE d = list[i].id
    <3>1. d \in Stage /\ d \in Deps[d]
      BY <2>1, <2>3, DepsFacts, DependsOfElements
    <3>2. {d} \in SUBSET Stage /\ \A s \in {d} : Deps[s] \cap {d} # {}
      BY <3>1
    <3>3. ~Acyclic(Deps)
      BY <3>2 DEF Acyclic
    <3>4. QED
      BY <3>3 DEF WellFormed
  <2>4. QED
    BY <2>1, <2>2, <2>3
<1>3. QED
  BY <1>1, <1>2

\* When every stage was visited, the plan is well formed.
LEMMA Accepted ==
  ASSUME list \in Seq(StageRecord), DistinctIds, KnownDependencies,
         NEW V \in SUBSET Stage, AcyclicOn(Deps, V), Ids \subseteq V
  PROVE  WellFormed
<1>1. \A s \in Stage \ V : Deps[s] = {}
  BY DepsFacts, UnknownDependsOnNothing
<1>2. Acyclic(Deps)
  BY <1>1, DepsFacts, AcyclicAll
<1>3. UNION {list[i].dependsOn : i \in 1..Len(list)} \subseteq Ids
  BY DEF KnownDependencies
<1>4. QED
  BY <1>2, <1>3 DEF WellFormed, DistinctIds

\* No action changes the plan.
LEMMA PlanStays ==
  ASSUME UNCHANGED list
  PROVE  /\ Deps' = Deps /\ Ids' = Ids
         /\ DistinctIds' <=> DistinctIds
         /\ KnownDependencies' <=> KnownDependencies
         /\ WellFormed' <=> WellFormed
BY DEF Deps, Ids, DependsOf, DistinctIds, KnownDependencies, WellFormed

-----------------------------------------------------------------------------
(* It is inductive *)

LEMMA InitSearchInv == SearchInit => SearchInv
<1> SUFFICES ASSUME SearchInit PROVE SearchInv
  OBVIOUS
<1>1. PICK n \in 0..MaxStages : list \in [1..n -> StageRecord]
  BY DEF SearchInit
<1>2. list \in Seq(StageRecord) /\ Len(list) \in Nat
  BY <1>1, MaxStagesAssumption
<1>3. Typed
  BY <1>2 DEF SearchInit, Typed
<1>4. NotStarted
  BY DEF SearchInit, NotStarted
<1>5. phase = "check"
  BY DEF SearchInit
<1>6. QED
  BY <1>3, <1>4, <1>5 DEF SearchInv, Checked, Searching, Collecting, DoneEmpty, ValidateExact

LEMMA CheckStagesKeeps == ASSUME SearchInv, CheckStages PROVE SearchInv'
<1>1. list \in Seq(StageRecord) /\ next = 1 /\ stack = <<>> /\ visited = {}
  BY DEF SearchInv, Typed, NotStarted, CheckStages
<1>2. phase' = IF DistinctIds /\ KnownDependencies THEN "roots" ELSE "rejected"
  BY DEF CheckStages, DistinctIds, KnownDependencies
<1>3. UNCHANGED <<list, next, stack, visited, target>>
  BY DEF CheckStages
<1>4. Typed'
  BY <1>3 DEF SearchInv, Typed
<1>5. Checked' /\ ValidateExact'
  BY <1>1, <1>2, <1>3, PlanStays, RejectedEarly DEF Checked, ValidateExact
<1>6. Search(Deps, <<>>, {})
  BY DEF Search, IsPath, Accounted, NoRepeat, Closed, AcyclicOn
<1>7. RootsDone'
  BY <1>1, <1>3 DEF RootsDone
<1>8. Searching'
  BY <1>1, <1>3, <1>6, <1>7, PlanStays DEF Searching
<1>9. QED
  BY <1>2, <1>4, <1>5, <1>8 DEF SearchInv, NotStarted, Collecting, DoneEmpty

LEMMA VisitRootKeeps == ASSUME SearchInv, VisitRoot PROVE SearchInv'
<1> DEFINE id == list[next].id
<1>1. /\ phase = "roots" /\ stack = <<>> /\ next \in 1..Len(list) /\ next' = next + 1
      /\ UNCHANGED <<list, phase, visited, target>> /\ Typed /\ list \in Seq(StageRecord)
      /\ stack' = IF id \in visited THEN <<>> ELSE Push(<<>>, id)
  BY DEF VisitRoot, SearchInv, Typed
<1>2. id \in Stage /\ Deps \in Graph /\ DependsOf(id) = Deps[id] /\ DependsOf(id) \in SUBSET Stage
  <2>1. id \in Stage
    BY <1>1, DepsFacts
  <2>2. QED
    BY <1>1, <2>1, DepsFacts DEF Graph
<1>3. Search(Deps, <<>>, visited) /\ RootsDone
  BY <1>1 DEF SearchInv, Searching
<1>4. CASE id \in visited
  <2>1. stack' = stack
    BY <1>1, <1>4
  <2>a. next' \in 1..(Len(list) + 1)
    BY <1>1, LenProperties
  <2>b. stack' \in Seq(Frame)
    BY <1>1, <2>1 DEF Typed
  <2>2. Typed'
    BY <1>1, <2>a, <2>b DEF Typed
  <2>3. RootsDone'
    BY <1>1, <1>3, <1>4, <2>1 DEF RootsDone, OnStack
  <2>4. Searching'
    BY <1>1, <1>3, <2>1, <2>3, PlanStays DEF Searching
  <2>5. QED
    BY <1>1, <2>2, <2>4, PlanStays DEF SearchInv, NotStarted, Checked, Collecting, DoneEmpty, ValidateExact
<1>5. CASE id \notin visited
  <2>1. stack' = Push(<<>>, id) /\ <<>> \in Seq(Frame) /\ Len(<<>>) = 0
    BY <1>1, <1>5
  <2>2. stack' \in Seq(Frame) /\ Len(stack') = 1 /\ stack'[1].id = id /\ stack'[1].todo = Deps[id]
    <3>1. /\ Push(<<>>, id) \in Seq(Frame) /\ Len(Push(<<>>, id)) = 0 + 1
          /\ Push(<<>>, id)[0 + 1].id = id /\ Push(<<>>, id)[0 + 1].todo = DependsOf(id)
      BY <1>2, <2>1, PushFacts
    <3>2. QED
      BY <1>2, <2>1, <3>1
  <2>3. Typed'
    BY <1>1, <2>2 DEF Typed
  <2>4. Search(Deps, stack', visited)
    BY <1>1, <1>2, <1>3, <1>5, <2>2, SearchStarts DEF Typed
  <2>5. RootsDone'
    <3>1. \A i \in 1..Len(list) : i < next + 1 => i < next \/ i = next
      BY <1>1
    <3>2. OnStack = {} /\ id \in OnStack'
      BY <1>1, <2>2 DEF OnStack
    <3>3. QED
      BY <1>1, <1>3, <3>1, <3>2 DEF RootsDone
  <2>6. Searching'
    BY <1>1, <2>4, <2>5, PlanStays DEF Searching
  <2>7. QED
    BY <1>1, <2>3, <2>6, PlanStays DEF SearchInv, NotStarted, Checked, Collecting, DoneEmpty, ValidateExact
<1>6. QED
  BY <1>4, <1>5

\* What a dependency of the last visit is.
LEMMA DependencyFacts ==
  ASSUME Typed, stack # <<>>, NEW d \in stack[Len(stack)].todo
  PROVE  /\ d \in Stage /\ Deps \in Graph /\ DependsOf(d) = Deps[d] /\ DependsOf(d) \in SUBSET Stage
         /\ \A i \in 1..Len(stack) : stack[i].id \in Stage
         /\ Len(stack) \in Nat /\ Len(stack) > 0
<1>1. stack \in Seq(Frame) /\ Len(stack) \in Nat /\ Len(stack) \in 1..Len(stack)
  BY EmptySeq, LenProperties DEF Typed
<1>2. \A i \in 1..Len(stack) : stack[i] \in Frame
  BY <1>1, ElementOfSeq
<1>3. d \in Stage
  BY <1>1, <1>2 DEF Frame
<1>4. QED
  BY <1>1, <1>2, <1>3, DepsFacts DEF Typed, Frame, Graph

\* A root that was visited stays so while nothing leaves the stack unvisited.
LEMMA RootsStay ==
  ASSUME RootsDone, list' = list, next' = next, OnStack \subseteq OnStack', visited' = visited
  PROVE  RootsDone'
BY DEF RootsDone

LEMMA VisitDependencyKeeps == ASSUME SearchInv, VisitDependency PROVE SearchInv'
<1>1. PICK d \in stack[Len(stack)].todo :
        /\ phase' = IF d \notin visited /\ d \in OnStack THEN "rejected" ELSE phase
        /\ stack' = IF d \in visited \cup OnStack THEN WithoutTodo(stack, d)
                    ELSE Push(WithoutTodo(stack, d), d)
  BY DEF VisitDependency
<1> DEFINE n == Len(stack)
           w == WithoutTodo(stack, d)
<1>2. phase = "roots" /\ stack # <<>> /\ UNCHANGED <<list, next, visited, target>> /\ Typed
  BY DEF VisitDependency, SearchInv
<1>3. /\ d \in Stage /\ Deps \in Graph /\ DependsOf(d) = Deps[d] /\ DependsOf(d) \in SUBSET Stage
      /\ \A i \in 1..n : stack[i].id \in Stage
      /\ n \in Nat /\ n > 0
  BY <1>1, <1>2, DependencyFacts
<1>4. Search(Deps, stack, visited) /\ RootsDone /\ visited \in SUBSET Stage /\ stack \in Seq(Frame)
  BY <1>2 DEF SearchInv, Searching, Typed
<1>5. /\ w \in Seq(Frame) /\ Len(w) = n
      /\ \A i \in 1..n : w[i].id = stack[i].id /\ (i # n => w[i].todo = stack[i].todo)
      /\ w[n].todo = stack[n].todo \ {d}
  BY <1>2, <1>4, WithoutFacts
<1> HIDE DEF n, w
<1>n. n = Len(stack)
  BY DEF n
<1>6. CASE d \in visited
  <2>1. stack' = w /\ phase' = "roots"
    BY <1>1, <1>2, <1>6 DEF w
  <2>2. Search(Deps, stack', visited')
    BY <1>2, <1>3, <1>4, <1>5, <1>6, <1>n, <2>1, SearchSkips
  <2>3. RootsDone'
    <3>1. OnStack \subseteq OnStack'
      <4>1. ASSUME NEW i \in 1..n PROVE stack[i].id = stack'[i].id /\ i \in 1..Len(stack')
        BY <1>5, <2>1
      <4>2. QED
        BY <1>n, <4>1 DEF OnStack
    <3>2. QED
      BY <1>2, <1>4, <3>1, RootsStay
  <2>4. Typed'
    BY <1>2, <1>5, <2>1 DEF Typed
  <2>5. QED
    BY <1>2, <2>1, <2>2, <2>3, <2>4, PlanStays
    DEF SearchInv, NotStarted, Checked, Searching, Collecting, DoneEmpty, ValidateExact
<1>7. CASE d \notin visited /\ d \in OnStack
  <2>1. stack' = w /\ phase' = "rejected"
    BY <1>1, <1>7 DEF w
  <2>2. PICK k \in 1..n : stack[k].id = d
    BY <1>7, <1>n DEF OnStack
  <2>3. ~Acyclic(Deps)
    BY <1>1, <1>3, <1>4, <1>n, <2>2, CycleFound
  <2>4. ~WellFormed'
    BY <1>2, <2>3, PlanStays DEF WellFormed
  <2>5. Typed'
    BY <1>2, <1>5, <2>1 DEF Typed
  <2>6. QED
    BY <2>1, <2>4, <2>5 DEF SearchInv, NotStarted, Checked, Searching, Collecting, DoneEmpty, ValidateExact
<1>8. CASE d \notin visited /\ d \notin OnStack
  <2>1. stack' = Push(w, d) /\ phase' = "roots"
    BY <1>1, <1>2, <1>8 DEF w
  <2>a. /\ Push(w, d) \in Seq(Frame) /\ Len(Push(w, d)) = Len(w) + 1
        /\ \A i \in 1..Len(w) : Push(w, d)[i] = w[i]
        /\ Push(w, d)[Len(w) + 1].id = d /\ Push(w, d)[Len(w) + 1].todo = DependsOf(d)
    BY <1>3, <1>5, PushFacts
  <2>2. /\ stack' \in Seq(Frame) /\ Len(stack') = n + 1
        /\ \A i \in 1..n : stack'[i] = w[i]
        /\ stack'[n + 1].id = d /\ stack'[n + 1].todo = Deps[d]
    BY <1>3, <1>5, <2>1, <2>a
  <2>3. /\ \A i \in 1..n : stack'[i].id = stack[i].id /\ (i # n => stack'[i].todo = stack[i].todo)
        /\ stack'[n].todo = stack[n].todo \ {d}
    BY <1>3, <1>5, <2>2
  <2>4. \A i \in 1..n : stack[i].id # d
    BY <1>8, <1>n DEF OnStack
  <2>b. d \in stack[n].todo /\ Search(Deps, stack, visited) /\ Len(stack) = n /\ n > 0
    BY <1>1, <1>3, <1>4, <1>n
  <2>c. Search(Deps, stack', visited)
    <3>1. Descended(Deps, stack, n, d, stack')
      BY <2>2, <2>3, <2>b DEF Descended
    <3>2. QED
      BY <1>3, <1>4, <1>8, <2>4, <2>b, <3>1, SearchDescends
  <2>5. Search(Deps, stack', visited')
    BY <1>2, <2>c
  <2>6. RootsDone'
    <3>1. OnStack \subseteq OnStack'
      BY <1>3, <1>n, <2>2, <2>3 DEF OnStack
    <3>2. QED
      BY <1>2, <1>4, <3>1 DEF RootsDone
  <2>7. Typed'
    BY <1>2, <2>2 DEF Typed
  <2>8. QED
    BY <1>2, <2>1, <2>5, <2>6, <2>7, PlanStays
    DEF SearchInv, NotStarted, Checked, Searching, Collecting, DoneEmpty, ValidateExact
<1>9. QED
  BY <1>6, <1>7, <1>8

LEMMA FinishVisitKeeps == ASSUME SearchInv, FinishVisit PROVE SearchInv'
<1> DEFINE n == Len(stack)
           t == stack[n].id
<1>1. /\ phase = "roots" /\ stack # <<>> /\ stack[n].todo = {}
      /\ visited' = visited \cup {t} /\ stack' = Pop(stack)
      /\ UNCHANGED <<list, phase, next, target>> /\ Typed
  BY DEF FinishVisit, SearchInv
<1>2. /\ Search(Deps, stack, visited) /\ RootsDone /\ visited \in SUBSET Stage /\ stack \in Seq(Frame)
      /\ Deps \in Graph
  BY <1>1, DepsFacts DEF SearchInv, Searching, Typed
<1>3. stack' \in Seq(Frame) /\ Len(stack') = n - 1 /\ n \in Nat /\ n \in 1..n
      /\ \A i \in 1..(n - 1) : stack'[i] = stack[i]
  BY <1>1, <1>2, PopFacts
<1>f. stack[n] \in Frame
  BY <1>2, <1>3, ElementOfSeq
<1>4. t \in Stage
  BY <1>f DEF Frame
<1> HIDE DEF n
<1>n. n = Len(stack)
  BY DEF n
<1>5. Search(Deps, stack', visited')
  BY <1>1, <1>2, <1>3, <1>4, <1>n, SearchReturns
<1>6. RootsDone'
  <2>1. ASSUME NEW x \in OnStack PROVE x \in visited' \cup OnStack'
    <3>1. PICK i \in 1..n : x = stack[i].id
      BY <1>n DEF OnStack
    <3>2. CASE i = n
      BY <1>1, <3>1, <3>2
    <3>3. CASE i # n
      BY <1>3, <3>1, <3>3 DEF OnStack
    <3>4. QED
      BY <3>2, <3>3
  <2>2. QED
    BY <1>1, <1>2, <2>1 DEF RootsDone
<1>7. Typed'
  BY <1>1, <1>2, <1>3, <1>4 DEF Typed
<1>8. QED
  BY <1>1, <1>5, <1>6, <1>7, PlanStays
  DEF SearchInv, NotStarted, Checked, Searching, Collecting, DoneEmpty, ValidateExact

LEMMA StartCollectKeeps == ASSUME SearchInv, StartCollect PROVE SearchInv'
<1>1. /\ phase = "roots" /\ stack = <<>> /\ next > Len(list) /\ visited' = {}
      /\ UNCHANGED <<list, next, target>> /\ Typed /\ list \in Seq(StageRecord)
      /\ phase' = IF target \in Ids THEN "collect" ELSE "unknown"
      /\ stack' = IF target \in Ids THEN Push(<<>>, target) ELSE <<>>
  BY DEF StartCollect, SearchInv, Typed
<1>2. /\ target \in Stage /\ Deps \in Graph /\ DependsOf(target) = Deps[target]
      /\ DependsOf(target) \in SUBSET Stage
  BY <1>1, DepsFacts DEF Typed, Graph
<1>3. WellFormed'
  <2>1. Ids \subseteq visited
    <3>1. \A i \in 1..Len(list) : i < next
      BY <1>1 DEF Typed
    <3>2. OnStack = {}
      BY <1>1 DEF OnStack
    <3>3. QED
      BY <1>1, <3>1, <3>2 DEF SearchInv, Searching, RootsDone, Ids
  <2>2. AcyclicOn(Deps, visited) /\ DistinctIds /\ KnownDependencies /\ visited \in SUBSET Stage
    BY <1>1 DEF SearchInv, Searching, Search, Checked, Typed
  <2>3. QED
    BY <1>1, <2>1, <2>2, Accepted, PlanStays
<1>4. CASE target \notin Ids
  <2>1. Typed'
    BY <1>1, <1>4 DEF Typed
  <2>2. QED
    BY <1>1, <1>3, <1>4, <2>1 DEF SearchInv, NotStarted, Checked, Searching, Collecting, DoneEmpty, ValidateExact
<1>5. CASE target \in Ids
  <2>1. /\ Push(<<>>, target) \in Seq(Frame) /\ Len(Push(<<>>, target)) = 0 + 1
        /\ Push(<<>>, target)[0 + 1].id = target /\ Push(<<>>, target)[0 + 1].todo = DependsOf(target)
    <3>1. <<>> \in Seq(Frame) /\ Len(<<>>) = 0
      OBVIOUS
    <3>2. QED
      BY <1>2, <3>1, PushFacts
  <2>2. stack' \in Seq(Frame) /\ Len(stack') = 1 /\ stack'[1].id = target /\ stack'[1].todo = Deps[target]
    BY <1>1, <1>2, <1>5, <2>1
  <2>3. Collection(Deps, stack', visited', target')
    BY <1>1, <1>2, <2>2, CollectionStarts
  <2>4. Typed'
    BY <1>1, <2>2 DEF Typed
  <2>5. QED
    BY <1>1, <1>3, <1>5, <2>3, <2>4, PlanStays
    DEF SearchInv, NotStarted, Checked, Searching, Collecting, DoneEmpty, ValidateExact
<1>6. QED
  BY <1>4, <1>5

LEMMA CollectDependencyKeeps == ASSUME SearchInv, CollectDependency PROVE SearchInv'
<1>1. PICK d \in stack[Len(stack)].todo :
        /\ visited' = visited \cup {d}
        /\ stack' = IF d \in visited THEN WithoutTodo(stack, d) ELSE Push(WithoutTodo(stack, d), d)
  BY DEF CollectDependency
<1> DEFINE n == Len(stack)
           w == WithoutTodo(stack, d)
<1>2. phase = "collect" /\ stack # <<>> /\ UNCHANGED <<list, phase, next, target>> /\ Typed
  BY DEF CollectDependency, SearchInv
<1>3. /\ d \in Stage /\ Deps \in Graph /\ DependsOf(d) = Deps[d] /\ DependsOf(d) \in SUBSET Stage
      /\ n \in Nat /\ n > 0
  BY <1>1, <1>2, DependencyFacts
<1>4. /\ Collection(Deps, stack, visited, target) /\ visited \in SUBSET Stage /\ stack \in Seq(Frame)
      /\ target \in Stage
  BY <1>2 DEF SearchInv, Collecting, Typed
<1>5. /\ w \in Seq(Frame) /\ Len(w) = n
      /\ \A i \in 1..n : w[i].id = stack[i].id /\ (i # n => w[i].todo = stack[i].todo)
      /\ w[n].todo = stack[n].todo \ {d}
  BY <1>2, <1>4, WithoutFacts
<1> HIDE DEF n, w
<1>n. n = Len(stack)
  BY DEF n
<1>6. stack' \in Seq(Frame) /\ Collection(Deps, stack', visited', target)
  <2>1. CASE d \in visited
    <3>1. stack' = w /\ visited' = visited
      BY <1>1, <2>1 DEF w
    <3>2. d \in stack[n].todo /\ Len(stack) = n
      BY <1>1, <1>n
    <3>3. Collection(Deps, w, visited, target)
      BY <1>3, <1>4, <1>5, <2>1, <3>2, CollectionSkips
    <3>4. QED
      BY <1>5, <3>1, <3>3
  <2>2. CASE d \notin visited
    <3>1. stack' = Push(w, d)
      BY <1>1, <2>2 DEF w
    <3>a. /\ Push(w, d) \in Seq(Frame) /\ Len(Push(w, d)) = Len(w) + 1
          /\ \A i \in 1..Len(w) : Push(w, d)[i] = w[i]
          /\ Push(w, d)[Len(w) + 1].id = d /\ Push(w, d)[Len(w) + 1].todo = DependsOf(d)
      BY <1>3, <1>5, PushFacts
    <3>2. /\ stack' \in Seq(Frame) /\ Len(stack') = n + 1
          /\ \A i \in 1..n : stack'[i] = w[i]
          /\ stack'[n + 1].id = d /\ stack'[n + 1].todo = Deps[d]
      BY <1>3, <1>5, <3>1, <3>a
    <3>3. /\ \A i \in 1..n : stack'[i].id = stack[i].id /\ (i # n => stack'[i].todo = stack[i].todo)
          /\ stack'[n].todo = stack[n].todo \ {d}
      BY <1>3, <1>5, <3>2
    <3>b. d \in stack[n].todo /\ Descended(Deps, stack, n, d, stack')
      BY <1>1, <1>n, <3>2, <3>3 DEF Descended
    <3>4. Collection(Deps, stack', visited \cup {d}, target)
      BY <1>3, <1>4, <3>b, CollectionDescends
    <3>5. QED
      BY <1>1, <3>2, <3>4
  <2>3. QED
    BY <2>1, <2>2
<1>7. Typed'
  BY <1>1, <1>2, <1>3, <1>4, <1>6 DEF Typed
<1>8. QED
  BY <1>2, <1>6, <1>7, PlanStays
  DEF SearchInv, NotStarted, Checked, Searching, Collecting, DoneEmpty, ValidateExact

LEMMA FinishCollectKeeps == ASSUME SearchInv, FinishCollect PROVE SearchInv'
<1> DEFINE n == Len(stack)
<1>1. /\ phase = "collect" /\ stack # <<>> /\ stack[n].todo = {} /\ stack' = Pop(stack)
      /\ phase' = IF n = 1 THEN "done" ELSE phase
      /\ UNCHANGED <<list, next, visited, target>> /\ Typed
  BY DEF FinishCollect, SearchInv
<1>2. /\ Collection(Deps, stack, visited, target) /\ visited \in SUBSET Stage /\ stack \in Seq(Frame)
      /\ target \in Stage /\ Deps \in Graph
  BY <1>1, DepsFacts DEF SearchInv, Collecting, Typed
<1>3. stack' \in Seq(Frame) /\ Len(stack') = n - 1 /\ n \in Nat /\ n \in 1..n
      /\ \A i \in 1..(n - 1) : stack'[i] = stack[i]
  BY <1>1, <1>2, PopFacts
<1> HIDE DEF n
<1>n. n = Len(stack)
  BY DEF n
<1>4. Collection(Deps, stack', visited, target)
  BY <1>1, <1>2, <1>3, <1>n, CollectionReturns
<1>5. phase' \in {"collect", "done"} /\ (phase' = "done" => stack' = <<>>)
  BY <1>1, <1>3, EmptySeq
<1>6. Typed'
  BY <1>1, <1>3 DEF Typed
<1>7. QED
  BY <1>1, <1>4, <1>5, <1>6, PlanStays
  DEF SearchInv, NotStarted, Checked, Searching, Collecting, DoneEmpty, ValidateExact

LEMMA AlwaysSearchInv == SearchSpec => []SearchInv
<1>1. SearchInv /\ UNCHANGED searchVars => SearchInv'
  <2> SUFFICES ASSUME SearchInv, UNCHANGED searchVars PROVE SearchInv'
    OBVIOUS
  <2>1. UNCHANGED <<list, phase, next, stack, visited, target>>
    BY DEF searchVars
  <2>2. Typed' /\ NotStarted' /\ DoneEmpty' /\ RootsDone' = RootsDone
    BY <2>1 DEF SearchInv, Typed, NotStarted, DoneEmpty, RootsDone, OnStack
  <2>3. QED
    BY <2>1, <2>2, PlanStays DEF SearchInv, Checked, Searching, Collecting, ValidateExact
<1>2. SearchInv /\ [SearchNext]_searchVars => SearchInv'
  BY <1>1, CheckStagesKeeps, VisitRootKeeps, VisitDependencyKeeps, FinishVisitKeeps,
     StartCollectKeeps, CollectDependencyKeeps, FinishCollectKeeps DEF SearchNext
<1>3. QED
  BY InitSearchInv, <1>2, PTL DEF SearchSpec

-----------------------------------------------------------------------------
(* The searches are exact *)

\* validatePlan rejects a plan exactly when it has a duplicate id, an unknown
\* dependency or a cycle: the stages it visits never hide one from it.
THEOREM ValidationExact == SearchSpec => []ValidateExact
<1>1. SearchInv => ValidateExact
  BY DEF SearchInv
<1>2. QED
  BY <1>1, AlwaysSearchInv, PTL

\* A stage validatePlan has marked visited, which it never looks at again, has all
\* its dependencies visited and reaches no cycle.
THEOREM VisitedAreSettled == SearchSpec => []VisitedSettled
<1>1. ASSUME SearchInv PROVE VisitedSettled
  <2>1. Typed /\ (phase = "roots" => Closed(Deps, visited) /\ AcyclicOn(Deps, visited))
    BY <1>1 DEF SearchInv, Searching, Search
  <2>2. Deps \in Graph /\ visited \in SUBSET Stage /\ \A v \in visited : Deps[v] = DependsOf(v)
    BY <2>1, DepsFacts DEF Typed
  <2>3. QED
    BY <2>1, <2>2, Settled DEF VisitedSettled, Closed
<1>2. QED
  BY <1>1, AlwaysSearchInv, PTL

\* transitiveStageDependencies returns the transitive dependencies of its stage,
\* all of them and nothing else, although it never looks for a cycle.
THEOREM CollectionExact == SearchSpec => []CollectExact
<1>1. ASSUME SearchInv PROVE CollectExact
  <2>1. CASE phase = "done"
    <3>1. /\ Collection(Deps, <<>>, visited, target) /\ visited \in SUBSET Stage /\ target \in Stage
          /\ Deps \in Graph
      BY <1>1, <2>1, DepsFacts DEF SearchInv, Collecting, DoneEmpty, Typed
    <3>2. QED
      BY <3>1, CollectionComplete DEF CollectExact
  <2>2. QED
    BY <2>1 DEF CollectExact
<1>2. QED
  BY <1>1, AlwaysSearchInv, PTL

-----------------------------------------------------------------------------
(* A run takes over from the searches *)

ServesRuns ==
  /\ phase \in {"unknown", "collect", "done"} =>
       \A r \in BOOLEAN : ValidPlan([ready |-> r, dependsOn |-> Deps])
  /\ phase = "done" =>
       \A r \in BOOLEAN, s \in Stage :
         RestoredStages([ready |-> r, dependsOn |-> Deps], target)[s] = "confirmed"
           <=> s \in visited

\* The searches hand a run what it takes for granted: the plans they accept are the valid
\* ones, and the stages they collect are those a restored run calls confirmed.
THEOREM SearchesServeRuns == SearchSpec => []ServesRuns
<1>1. ASSUME SearchInv, CollectExact PROVE ServesRuns
  <2>1. Deps \in Graph
    BY <1>1, DepsFacts DEF SearchInv, Typed
  <2>2. phase \in {"unknown", "collect", "done"} =>
          \A r \in BOOLEAN : ValidPlan([ready |-> r, dependsOn |-> Deps])
    BY <1>1, <2>1 DEF SearchInv, ValidateExact, WellFormed, ValidPlan, Graph
  <2>3. ASSUME phase = "done", NEW r \in BOOLEAN, NEW s \in Stage
        PROVE  RestoredStages([ready |-> r, dependsOn |-> Deps], target)[s] = "confirmed"
                 <=> s \in visited
    BY <1>1, <2>3 DEF RestoredStages, CreatedStages, CollectExact
  <2>4. QED
    BY <2>2, <2>3 DEF ServesRuns
<1>2. QED
  BY <1>1, AlwaysSearchInv, CollectionExact, PTL

-----------------------------------------------------------------------------
(* A run *)

SentInOrder ==
  /\ final \subseteq sent
  /\ \A s \in sent : plan.dependsOn[s] \subseteq final

IInv ==
  /\ TypeOK
  /\ DependenciesBeforeStage
  /\ NothingLockedForever
  /\ NothingFabricated
  /\ SentInOrder

-----------------------------------------------------------------------------
(* Operators of a run *)

\* unlockStages changes only locked stages, and those to "review".
LEMMA UnlockFacts ==
  ASSUME NEW st \in [Stage -> StageStatus]
  PROVE  /\ UnlockStages(st) \in [Stage -> StageStatus]
         /\ \A s \in Stage : st[s] # "locked" => UnlockStages(st)[s] = st[s]
         /\ \A s \in Stage : st[s] = "locked" =>
              UnlockStages(st)[s] =
                IF DependenciesConfirmed(st, s) THEN "review" ELSE "locked"
         /\ \A s \in Stage : UnlockStages(st)[s] = "confirmed" <=> st[s] = "confirmed"
BY DEF UnlockStages, StageStatus

\* After unlockStages the first two invariants hold, if before it every stage
\* past "locked" has its dependencies confirmed.
LEMMA UnlockSound ==
  ASSUME TypeOK, NEW st \in [Stage -> StageStatus],
         \A s \in Stage : st[s] # "locked" => DependenciesConfirmed(st, s)
  PROVE  LET un == UnlockStages(st) IN
         /\ \A s \in Stage : un[s] # "locked" =>
              \A d \in plan.dependsOn[s] : un[d] = "confirmed"
         /\ \A s \in Stage : un[s] = "locked" =>
              \E d \in plan.dependsOn[s] : un[d] # "confirmed"
<1> DEFINE un == UnlockStages(st)
<1>1. \A s \in Stage : plan.dependsOn[s] \subseteq Stage
  BY DEF TypeOK, ValidPlan
<1>2. \A s \in Stage : un[s] = "confirmed" <=> st[s] = "confirmed"
  BY UnlockFacts
<1>3. \A s \in Stage : DependenciesConfirmed(st, s) <=>
                         \A d \in plan.dependsOn[s] : un[d] = "confirmed"
  BY <1>1, <1>2 DEF DependenciesConfirmed
<1>4. \A s \in Stage : un[s] # "locked" <=> DependenciesConfirmed(st, s)
  BY UnlockFacts
<1>5. QED
  BY <1>3, <1>4

-----------------------------------------------------------------------------
(* The invariant of a run *)

LEMMA InitIInv == Init => IInv
<1> SUFFICES ASSUME Init PROVE IInv
  OBVIOUS
<1>1. TypeOK
  BY DEF Init, TypeOK, CreatedStages, StageStatus
<1>2. ValidPlan(plan) /\ \A s \in Stage : stages[s] \in {"review", "locked"}
  BY DEF Init, CreatedStages
<1>3. DependenciesBeforeStage /\ NothingLockedForever
  BY <1>2 DEF Init, CreatedStages, DependenciesBeforeStage, NothingLockedForever, ValidPlan
<1>4. NothingFabricated /\ SentInOrder
  BY <1>2 DEF Init, NothingFabricated, SentInOrder
<1>5. QED
  BY <1>1, <1>3, <1>4 DEF IInv

\* Restoring around a sent stage: the stages it calls confirmed are final.
LEMMA RestoredFacts ==
  ASSUME IInv, NEW t \in sent, plan.ready
  PROVE  LET st == RestoredStages(plan, t) IN
         /\ st \in [Stage -> StageStatus]
         /\ \A s \in Stage : st[s] # "locked" => DependenciesConfirmed(st, s)
         /\ \A s \in Stage : st[s] = "confirmed" => s \in final
         /\ \A s \in Stage : st[s] \in {"submitted", "failed"} => s \in sent
<1> DEFINE st == RestoredStages(plan, t)
           deps == TransitiveDependencies(plan.dependsOn, t)
<1>1. t \in Stage /\ plan.dependsOn \in [Stage -> SUBSET Stage] /\ final \in SUBSET Stage
  BY DEF IInv, TypeOK, ValidPlan
<1>2. /\ deps \subseteq Stage
      /\ plan.dependsOn[t] \subseteq deps
      /\ \A d \in deps : plan.dependsOn[d] \subseteq deps
  BY <1>1, TransitiveClosed DEF Graph, Closed
<1>3. deps \subseteq final
  <2>1. plan.dependsOn[t] \subseteq final /\ \A c \in final : plan.dependsOn[c] \subseteq final
    BY DEF IInv, SentInOrder
  <2>2. QED
    BY <1>1, <2>1, TransitiveLeast DEF Graph, Closed
<1>4. \A s \in Stage :
        st[s] = IF s \in deps THEN "confirmed"
                ELSE IF s = t THEN "submitted"
                ELSE IF plan.dependsOn[s] = {} THEN "review" ELSE "locked"
  BY DEF RestoredStages, CreatedStages
<1>5. st \in [Stage -> StageStatus]
  BY DEF RestoredStages, CreatedStages, StageStatus
<1>6. ASSUME NEW s \in Stage, st[s] # "locked"
      PROVE  DependenciesConfirmed(st, s)
  <2>1. plan.dependsOn[s] \subseteq deps
    BY <1>1, <1>2, <1>4, <1>6
  <2>2. QED
    BY <1>2, <1>4, <2>1 DEF DependenciesConfirmed
<1>7. QED
  BY <1>3, <1>4, <1>5, <1>6

LEMMA NextIInv == IInv /\ [Next]_vars => IInv'
<1> SUFFICES ASSUME IInv, [Next]_vars PROVE IInv'
  OBVIOUS
<1> USE DEF IInv
<1>t. /\ plan.dependsOn \in [Stage -> SUBSET Stage]
      /\ stages \in [Stage -> StageStatus]
      /\ sent \subseteq Stage /\ final \subseteq Stage /\ refunded \subseteq Stage
  BY DEF TypeOK, ValidPlan
<1>1. ASSUME NEW s \in Stage, Submit(s) PROVE IInv'
  <2>1. /\ stages[s] = "review" /\ DependenciesConfirmed(stages, s)
        /\ plan' = plan /\ final' = final /\ refunded' = refunded
        /\ stages' = [stages EXCEPT ![s] = "submitted"]
        /\ sent' = sent \cup {s}
    BY <1>1 DEF Submit
  <2>2. \A x \in Stage : stages'[x] = IF x = s THEN "submitted" ELSE stages[x]
    BY <1>t, <2>1
  <2>3. TypeOK'
    BY <1>t, <2>1 DEF TypeOK, StageStatus, ValidPlan, Acyclic
  <2>4. DependenciesBeforeStage' /\ NothingLockedForever'
    BY <1>t, <2>1, <2>2 DEF DependenciesBeforeStage, NothingLockedForever, DependenciesConfirmed
  <2>5. NothingFabricated'
    BY <2>1, <2>2 DEF NothingFabricated
  <2>6. SentInOrder'
    BY <1>t, <2>1 DEF SentInOrder, NothingFabricated, DependenciesConfirmed
  <2>7. QED
    BY <2>3, <2>4, <2>5, <2>6
<1>2. ASSUME NEW s \in Stage, Confirm(s) PROVE IInv'
  <2> DEFINE st == [stages EXCEPT ![s] = "confirmed"]
  <2>1. /\ stages[s] = "submitted" /\ s \in final
        /\ plan' = plan /\ final' = final /\ refunded' = refunded /\ sent' = sent
        /\ stages' = UnlockStages(st)
    BY <1>2 DEF Confirm
  <2>2. st \in [Stage -> StageStatus]
        /\ \A x \in Stage : st[x] = IF x = s THEN "confirmed" ELSE stages[x]
    BY <1>t DEF StageStatus
  <2>3. \A x \in Stage : st[x] # "locked" => DependenciesConfirmed(st, x)
    BY <1>t, <2>1, <2>2 DEF DependenciesBeforeStage, DependenciesConfirmed
  <2>4. TypeOK'
    BY <1>t, <2>1, <2>2, UnlockFacts DEF TypeOK, ValidPlan, Acyclic
  <2>5. DependenciesBeforeStage' /\ NothingLockedForever'
    <3>1. /\ \A x \in Stage : UnlockStages(st)[x] # "locked" =>
               \A d \in plan.dependsOn[x] : UnlockStages(st)[d] = "confirmed"
          /\ \A x \in Stage : UnlockStages(st)[x] = "locked" =>
               \E d \in plan.dependsOn[x] : UnlockStages(st)[d] # "confirmed"
      <4> HIDE DEF st
      <4>1. QED
        BY <2>2, <2>3, UnlockSound
    <3>2. QED
      BY <2>1, <3>1 DEF DependenciesBeforeStage, NothingLockedForever
  <2>6. NothingFabricated'
    <3>1. ASSUME NEW x \in Stage, stages'[x] \in {"confirmed", "submitted", "failed"}
          PROVE  stages'[x] = st[x]
      BY <2>1, <2>2, <3>1, UnlockFacts DEF StageStatus
    <3>2. QED
      BY <2>1, <2>2, <3>1 DEF NothingFabricated
  <2>7. SentInOrder'
    BY <2>1 DEF SentInOrder
  <2>8. QED
    BY <2>4, <2>5, <2>6, <2>7
<1>3. ASSUME NEW s \in Stage, Fail(s) PROVE IInv'
  <2>1. /\ stages[s] = "submitted"
        /\ plan' = plan /\ final' = final /\ refunded' = refunded /\ sent' = sent
        /\ stages' = [stages EXCEPT ![s] = "failed"]
    BY <1>3 DEF Fail
  <2>2. \A x \in Stage : stages'[x] = IF x = s THEN "failed" ELSE stages[x]
    BY <1>t, <2>1
  <2>3. TypeOK'
    BY <1>t, <2>1 DEF TypeOK, StageStatus, ValidPlan, Acyclic
  <2>4. DependenciesBeforeStage' /\ NothingLockedForever'
    BY <1>t, <2>1, <2>2 DEF DependenciesBeforeStage, NothingLockedForever
  <2>5. NothingFabricated' /\ SentInOrder'
    BY <2>1, <2>2 DEF NothingFabricated, SentInOrder
  <2>6. QED
    BY <2>3, <2>4, <2>5
<1>4. ASSUME NEW t \in Stage, Restore(t) PROVE IInv'
  <2> DEFINE st == RestoredStages(plan, t)
  <2>1. /\ plan.ready /\ t \in sent
        /\ plan' = plan /\ final' = final /\ refunded' = refunded /\ sent' = sent
        /\ stages' = UnlockStages(st)
    BY <1>4 DEF Restore
  <2>2. /\ st \in [Stage -> StageStatus]
        /\ \A s \in Stage : st[s] # "locked" => DependenciesConfirmed(st, s)
        /\ \A s \in Stage : st[s] = "confirmed" => s \in final
        /\ \A s \in Stage : st[s] \in {"submitted", "failed"} => s \in sent
    BY <2>1, RestoredFacts
  <2>3. TypeOK'
    BY <1>t, <2>1, <2>2, UnlockFacts DEF TypeOK, ValidPlan, Acyclic
  <2>4. DependenciesBeforeStage' /\ NothingLockedForever'
    <3>1. /\ \A x \in Stage : UnlockStages(st)[x] # "locked" =>
               \A d \in plan.dependsOn[x] : UnlockStages(st)[d] = "confirmed"
          /\ \A x \in Stage : UnlockStages(st)[x] = "locked" =>
               \E d \in plan.dependsOn[x] : UnlockStages(st)[d] # "confirmed"
      <4> HIDE DEF st
      <4>1. QED
        BY <2>2, UnlockSound
    <3>2. QED
      BY <2>1, <3>1 DEF DependenciesBeforeStage, NothingLockedForever
  <2>5. NothingFabricated'
    <3>1. ASSUME NEW x \in Stage, stages'[x] \in {"confirmed", "submitted", "failed"}
          PROVE  stages'[x] = st[x]
      BY <2>1, <2>2, <3>1, UnlockFacts DEF StageStatus
    <3>2. QED
      BY <2>1, <2>2, <3>1 DEF NothingFabricated
  <2>6. SentInOrder'
    BY <2>1 DEF SentInOrder
  <2>7. QED
    BY <2>3, <2>4, <2>5, <2>6
<1>5. ASSUME NEW s \in Stage, Finalize(s) PROVE IInv'
  BY <1>5, <1>t DEF Finalize, TypeOK, ValidPlan, Acyclic, DependenciesBeforeStage,
       NothingLockedForever, NothingFabricated, SentInOrder
<1>6. ASSUME NEW s \in Stage, Refund(s) PROVE IInv'
  BY <1>6, <1>t DEF Refund, TypeOK, ValidPlan, Acyclic, DependenciesBeforeStage,
       NothingLockedForever, NothingFabricated, SentInOrder
<1>7. CASE UNCHANGED vars
  BY <1>7 DEF vars, TypeOK, ValidPlan, Acyclic, DependenciesBeforeStage,
       NothingLockedForever, NothingFabricated, SentInOrder
<1>8. QED
  BY <1>1, <1>2, <1>3, <1>4, <1>5, <1>6, <1>7 DEF Next

LEMMA AlwaysIInv == Spec => []IInv
BY InitIInv, NextIInv, PTL DEF Spec

-----------------------------------------------------------------------------
(* What holds of every run *)

\* Every reachable run is well typed, in particular its plan stays valid.
THEOREM TypeCorrect == Spec => []TypeOK
<1>1. IInv => TypeOK
  BY DEF IInv
<1>2. QED
  BY <1>1, AlwaysIInv, PTL

\* No stage leaves "locked" before all its dependencies are confirmed, for every
\* plan and every point of restore.
THEOREM DependenciesFirst == Spec => []DependenciesBeforeStage
<1>1. IInv => DependenciesBeforeStage
  BY DEF IInv
<1>2. QED
  BY <1>1, AlwaysIInv, PTL

\* No stage stays locked once its dependencies are confirmed: every operation
\* that confirms a stage, or restores one, unlocks what it was waiting for.
THEOREM NothingStaysLocked == Spec => []NothingLockedForever
<1>1. IInv => NothingLockedForever
  BY DEF IInv
<1>2. QED
  BY <1>1, AlwaysIInv, PTL

\* A restored run calls confirmed only what is final and submitted only what was
\* handed over.
THEOREM RestoreFabricatesNothing == Spec => []NothingFabricated
<1>1. IInv => NothingFabricated
  BY DEF IInv
<1>2. QED
  BY <1>1, AlwaysIInv, PTL

\* A ready run is never stuck: apply acyclicity to the set of the unconfirmed
\* stages; the member that depends on no other of them cannot be locked.
THEOREM RunNeverWaiting == Spec => []NeverWaiting
<1>1. ASSUME IInv PROVE NeverWaiting
  <2> DEFINE Open == {s \in Stage : stages[s] # "confirmed"}
  <2>1. CASE ~plan.ready \/ Open = {}
    BY <2>1 DEF NeverWaiting, RunStatus, DeriveRunStatus
  <2>2. CASE plan.ready /\ Open # {}
    <3>1. PICK s \in Open : plan.dependsOn[s] \cap Open = {}
      BY <1>1, <2>2 DEF IInv, TypeOK, ValidPlan, Acyclic
    <3>2. \A d \in plan.dependsOn[s] : stages[d] = "confirmed"
      BY <1>1, <3>1 DEF IInv, TypeOK, ValidPlan
    <3>3. stages[s] \in {"review", "submitted", "failed"}
      BY <1>1, <2>2, <3>2 DEF IInv, TypeOK, StageStatus, NothingLockedForever
    <3>4. QED
      BY <3>3 DEF NeverWaiting, RunStatus, DeriveRunStatus
  <2>3. QED
    BY <2>1, <2>2
<1>2. QED
  BY <1>1, AlwaysIInv, PTL

\* The run implements OrderedExecution: whatever is reloaded and restored, the
\* chain sees no stage before all its dependencies are final.
THEOREM RunImplementsOrder == Spec => OrderedExecution
<1>1. Init => Order!Init
  BY DEF Init, ValidPlan, Order!Init
<1>2. IInv /\ [Next]_vars => [Order!Next]_(Order!vars)
  <2> SUFFICES ASSUME IInv, [Next]_vars PROVE [Order!Next]_(Order!vars)
    OBVIOUS
  <2>1. ASSUME NEW s \in Stage, Submit(s) PROVE Order!Send(s)
    BY <2>1 DEF IInv, TypeOK, ValidPlan, NothingFabricated, Submit, DependenciesConfirmed, Order!Send
  <2>2. ASSUME NEW s \in Stage, Finalize(s) PROVE Order!Finish(s)
    BY <2>2 DEF Finalize, Order!Finish
  <2>3. ASSUME NEW s \in Stage, Confirm(s) \/ Fail(s) \/ Restore(s) \/ Refund(s)
        PROVE  UNCHANGED Order!vars
    BY <2>3 DEF Confirm, Fail, Restore, Refund, Order!vars
  <2>4. CASE UNCHANGED vars
    BY <2>4 DEF vars, Order!vars
  <2>5. QED
    BY <2>1, <2>2, <2>3, <2>4 DEF Next, Order!Next
<1>3. QED
  BY <1>1, <1>2, AlwaysIInv, PTL DEF Spec, OrderedExecution, Order!Spec
=============================================================================
