--------------------------- MODULE AgentFlowsProofs ---------------------------
(***************************************************************************)
(* The borrow, staking and lend pages send no stage before the one before  *)
(* it succeeded and show none as done that did not, for any number of runs,*)
(* transactions, mounts and reloads, the calls of unmounted controllers    *)
(* going on.  Whatever refers to a stage (the page, a call, a recovery, a  *)
(* capsule) refers to one whose predecessors succeeded, and success is     *)
(* never undone.  And no mount of them sends a stage of a run twice.       *)
(***************************************************************************)
EXTENDS AgentFlows, FiniteSetTheorems, SequenceTheorems, TLAPS

Run == [tool : Tool, mode : Mode]
Tx == [run : Nat, stage : Nat, status : {"pending", "succeeded", "reverted"}, mount : Nat,
       runtime : 0..4, before : Int]
Balance == [public : Nat, position : [Tool -> Nat]]

\* A session that is not null; a capsule; a call.
Shown == [run : Nat \ {0}, stage : Nat, status : {"review", "submitted", "completed"}, tx : Nat]
Bundle == [run : Nat \ {0}, stage : Nat, tx : Nat]
Await == {"fee", "prepare", "wallet", "sent", "bind", "receipt", "verify", "refresh"}
By == {"startFlow", "startAgentLend", "startUnshieldBorrow", "executeBorrow", "executeNextStage",
       "shieldBorrowProceeds", "confirmSubmitted"} \cup ClearsAtOnce
        \cup {"refreshUnshieldConfirmation", "refreshShieldBorrowConfirmation"}
CallRecord ==
  [by : By, pc : Await, mount : Nat, tool : Tool, mode : Mode, session : Shown,
   runtime : 0..4, clears : BOOLEAN, before : Int, tx : Nat, confirmed : BOOLEAN]
GateRecord == [run : Nat, started : BOOLEAN]
Cancelled == [run : Nat, mount : Nat, view : Nat]

\* x is a stage of a run in R; it is the stage of its transaction in T.
StageOf(x, R) == x.run \in 1..Len(R) /\ x.stage \in 1..Len(PlanOf[R[x.run].tool][R[x.run].mode])
Refers(r, i, t, T) == t \in 1..Len(T) /\ T[t].run = r /\ T[t].stage = i

\* If the wallet's wait confirms the stage; the last of a plan may be of that kind.
Waited(s, R) == PlanOf[R[s.run].tool][R[s.run].mode][s.stage][2].settled

\* A transaction of the stage succeeded; of all before stage i; of all that are not
\* confirmed by the wallet's wait.
Succeeds(r, i, T) ==
  \E t \in 1..Len(T) : T[t].run = r /\ T[t].stage = i /\ T[t].status = "succeeded"
Backed(r, i, T) == \A j \in 1..i - 1 : Succeeds(r, j, T)
AllDone(r, R, T) ==
  \A i \in 1..Len(PlanOf[R[r].tool][R[r].mode]) :
    PlanOf[R[r].tool][R[r].mode][i][2].settled \/ Succeeds(r, i, T)

\* What a session says is so.
Sound(s, R, T) ==
  /\ s \in Shown /\ StageOf(s, R)
  /\ Backed(s.run, s.stage, T)
  /\ s.status = "submitted" => Refers(s.run, s.stage, s.tx, T)
  /\ s.status = "completed" => AllDone(s.run, R, T)

\* A call knows its session at every await, and its transaction from the wallet on.
CallSound(c, R, T) ==
  /\ c \in CallRecord
  /\ Sound(c.session, R, T)
  /\ c.pc = "bind" /\ c.confirmed => Waited(c.session, R)
  /\ c.pc \in {"sent", "bind"} => Refers(c.session.run, c.session.stage, c.tx, T)
  /\ c.pc \in {"receipt", "verify"} => c.session.status = "submitted"
  /\ c.pc = "verify" => T[c.session.tx].status = "succeeded"

TypeInv ==
  /\ tool \in Tool /\ mode \in Mode /\ mount \in Nat \ {0}
  /\ runtime \in 0..4 /\ reviewed \in BOOLEAN /\ views \in Nat
  /\ runs \in Seq(Run) /\ txs \in Seq(Tx) /\ balance \in Balance
  /\ pointer \in [Tool -> Nat \X Nat] /\ capsules \subseteq Bundle

\* A transaction is of a stage whose predecessors succeeded.
Behind(x, R, T) == StageOf(x, R) /\ Backed(x.run, x.stage, T)

TxsSound == \A t \in 1..Len(txs) : Behind(txs[t], runs, txs)
SessionSound == session = NoSession \/ Sound(session, runs, txs)
RecoverySound == recovering = NoRecovery \/ Sound(recovering, runs, txs)
CapsulesSound == \A k \in capsules : Refers(k.run, k.stage, k.tx, txs)
PointersSound == \A t \in Tool : pointer[t] = NoPointer \/ pointer[t][1] \in 1..Len(runs)
GatesSound ==
  /\ gates \in Seq(GateRecord) /\ Len(gates) = mount
  /\ \A m \in 1..mount : gates[m].run \in 0..Len(runs)
Resumable(o, m, R) == o \in Cancelled /\ o.mount \in 1..m /\ o.run \in 1..Len(R)
CancelledSound == \A o \in resuming : Resumable(o, mount, runs)
CallsSound == \A c \in calls : c.mount \in 1..mount /\ CallSound(c, runs, txs)

\* There are at most two calls, each of a mount of its own.
CallsApart ==
  /\ IsFiniteSet(calls)
  /\ \A c, d, e \in calls : c = d \/ c = e \/ d = e
  /\ \A c, d \in calls : c.mount = d.mount => c = d

IInv ==
  /\ TypeInv /\ TxsSound /\ SessionSound /\ RecoverySound /\ CapsulesSound
  /\ PointersSound /\ CallsSound /\ CallsApart
  /\ GatesSound /\ CancelledSound

-----------------------------------------------------------------------------
(* The plans *)

\* A plan has one stage or two, whose executors add whole amounts; only the wait for
\* the last may confirm it.
Adds(e) == e.public \in Int /\ e.position \in Int
Fits(p) ==
  /\ Len(p) \in 1..2
  /\ \A i \in 1..Len(p) : Adds(p[i][2]) /\ (p[i][2].settled => i = Len(p))

LEMMA OneStage == ASSUME NEW a, NEW e, Adds(e) PROVE Fits(<< <<a, e>> >>)
BY DEF Fits

LEMMA TwoStages ==
  ASSUME NEW a, NEW e, Adds(e), ~e.settled, NEW b, NEW f, Adds(f) PROVE Fits(<< <<a, e>>, <<b, f>> >>)
<1> DEFINE p == << <<a, e>>, <<b, f>> >>
<1>1. Len(p) = 2 /\ p[1][2] = e /\ p[2][2] = f
  OBVIOUS
<1> HIDE DEF p
<1>2. Fits(p)
  BY <1>1 DEF Fits
<1>3. QED
  BY <1>2 DEF p

LEMMA PlanType == \A r \in Run : Fits(PlanOf[r.tool][r.mode])
<1>1. /\ Adds(borrowExecutor) /\ Adds(unshieldForBorrow) /\ Adds(shieldExecutor)
      /\ Adds(stakeExecutor) /\ Adds(shieldStake) /\ Adds(unshieldForStaking)
      /\ Adds(lendExecutor) /\ Adds(shieldLend) /\ Adds(unshieldForLend)
  BY DEF Adds, borrowExecutor, unshieldForBorrow, shieldExecutor, stakeExecutor, shieldStake,
         unshieldForStaking, lendExecutor, shieldLend, unshieldForLend, Unshield
<1>A. /\ ~borrowExecutor.settled /\ ~unshieldForBorrow.settled
      /\ ~unshieldForStaking.settled /\ ~unshieldForLend.settled
  BY DEF borrowExecutor, unshieldForBorrow, unshieldForStaking, unshieldForLend, Unshield
<1>2. Fits(BorrowPlan["normal"]) /\ Fits(BorrowPlan["shield"]) /\ Fits(BorrowPlan["unshield"])
  BY <1>1, <1>A, OneStage, TwoStages DEF BorrowPlan
<1>3. Fits(StakingPlan["normal"]) /\ Fits(StakingPlan["shield"]) /\ Fits(StakingPlan["unshield"])
  BY <1>1, <1>A, OneStage, TwoStages DEF StakingPlan
<1>4. Fits(LendPlan["normal"]) /\ Fits(LendPlan["shield"]) /\ Fits(LendPlan["unshield"])
  BY <1>1, <1>A, OneStage, TwoStages DEF LendPlan
<1>5. ASSUME NEW t \in {"borrow", "staking", "lend"}, NEW m \in {"normal", "shield", "unshield"}
      PROVE  Fits(PlanOf[t][m])
  BY <1>2, <1>3, <1>4 DEF PlanOf
<1>6. QED
  BY <1>5, AgentFlowsAssumption DEF Run, PlanOf

-----------------------------------------------------------------------------
(* Lemmas about runs and transactions *)

\* Runs and transactions stay, with their stages, and a success is never undone.
RunsKept(R, S) == Len(R) <= Len(S) /\ \A r \in 1..Len(R) : S[r] = R[r]
Kept(T, U) ==
  /\ Len(T) <= Len(U)
  /\ \A t \in 1..Len(T) : /\ U[t].run = T[t].run /\ U[t].stage = T[t].stage
                          /\ T[t].status = "succeeded" => U[t].status = "succeeded"

LEMMA SucceedsKept ==
  ASSUME NEW T \in Seq(Tx), NEW U \in Seq(Tx), Kept(T, U), NEW r, NEW i, Succeeds(r, i, T)
  PROVE  Succeeds(r, i, U)
<1>1. PICK t \in 1..Len(T) : T[t].run = r /\ T[t].stage = i /\ T[t].status = "succeeded"
  BY DEF Succeeds
<1>2. t \in 1..Len(U) /\ U[t].run = r /\ U[t].stage = i /\ U[t].status = "succeeded"
  <2>1. Len(T) \in Nat /\ Len(U) \in Nat
    OBVIOUS
  <2>2. QED
    BY <1>1, <2>1 DEF Kept
<1>3. QED
  BY <1>2 DEF Succeeds

LEMMA BackedKept ==
  ASSUME NEW T \in Seq(Tx), NEW U \in Seq(Tx), Kept(T, U), NEW r, NEW i, Backed(r, i, T)
  PROVE  Backed(r, i, U)
BY SucceedsKept DEF Backed

LEMMA RefersKept ==
  ASSUME NEW T \in Seq(Tx), NEW U \in Seq(Tx), Kept(T, U), NEW r, NEW i, NEW t, Refers(r, i, t, T)
  PROVE  Refers(r, i, t, U)
<1>1. Len(T) \in Nat /\ Len(U) \in Nat
  OBVIOUS
<1>2. QED
  BY <1>1 DEF Refers, Kept

LEMMA StageKept ==
  ASSUME NEW R \in Seq(Run), NEW S \in Seq(Run), RunsKept(R, S), NEW x, StageOf(x, R)
  PROVE  StageOf(x, S) /\ S[x.run] = R[x.run]
<1>1. Len(R) \in Nat /\ Len(S) \in Nat
  OBVIOUS
<1>2. x.run \in 1..Len(S) /\ S[x.run] = R[x.run]
  BY <1>1 DEF RunsKept, StageOf
<1>3. QED
  BY <1>2 DEF StageOf

LEMMA SoundKept ==
  ASSUME NEW T \in Seq(Tx), NEW U \in Seq(Tx), Kept(T, U),
         NEW R \in Seq(Run), NEW S \in Seq(Run), RunsKept(R, S),
         NEW s, Sound(s, R, T)
  PROVE  Sound(s, S, U)
<1>1. s \in Shown /\ StageOf(s, S) /\ S[s.run] = R[s.run]
  BY StageKept DEF Sound
<1>2. Backed(s.run, s.stage, U)
  BY BackedKept DEF Sound
<1>3. s.status = "submitted" => Refers(s.run, s.stage, s.tx, U)
  BY RefersKept DEF Sound
<1>4. s.status = "completed" => AllDone(s.run, S, U)
  BY <1>1, SucceedsKept DEF Sound, AllDone
<1>5. QED
  BY <1>1, <1>2, <1>3, <1>4 DEF Sound

LEMMA CallKept ==
  ASSUME NEW T \in Seq(Tx), NEW U \in Seq(Tx), Kept(T, U),
         NEW R \in Seq(Run), NEW S \in Seq(Run), RunsKept(R, S),
         NEW c, CallSound(c, R, T)
  PROVE  CallSound(c, S, U)
<1>1. Sound(c.session, S, U)
  BY SoundKept DEF CallSound
<1>5. c.pc = "bind" /\ c.confirmed => Waited(c.session, S)
  BY StageKept DEF CallSound, Sound, Waited
<1>2. c.pc \in {"sent", "bind"} => Refers(c.session.run, c.session.stage, c.tx, U)
  BY RefersKept DEF CallSound
<1>3. c.pc = "verify" => U[c.session.tx].status = "succeeded"
  <2>1. ASSUME c.pc = "verify" PROVE U[c.session.tx].status = "succeeded"
    <3>1. /\ Sound(c.session, R, T) /\ c.session.status = "submitted"
          /\ T[c.session.tx].status = "succeeded"
      BY <2>1 DEF CallSound
    <3>2. c.session.tx \in 1..Len(T)
      BY <3>1 DEF Sound, Refers
    <3>3. QED
      BY <3>1, <3>2 DEF Kept
  <2>2. QED
    BY <2>1
<1>4. QED
  BY <1>1, <1>2, <1>3, <1>5 DEF CallSound

LEMMA BehindKept ==
  ASSUME NEW T \in Seq(Tx), NEW U \in Seq(Tx), Kept(T, U),
         NEW R \in Seq(Run), NEW S \in Seq(Run), RunsKept(R, S),
         NEW t \in 1..Len(T), Behind(T[t], R, T)
  PROVE  Behind(U[t], S, U)
<1>1. StageOf(T[t], S) /\ U[t].run = T[t].run /\ U[t].stage = T[t].stage
  BY StageKept DEF Behind, Kept
<1>2. Backed(T[t].run, T[t].stage, U)
  BY BackedKept DEF Behind
<1>3. QED
  BY <1>1, <1>2 DEF Behind, StageOf

\* Nothing happened to runs or to transactions.
LEMMA KeptSame ==
  ASSUME NEW T \in Seq(Tx), NEW R \in Seq(Run)
  PROVE  Kept(T, T) /\ RunsKept(R, R)
<1>1. Len(T) \in Nat /\ Len(R) \in Nat
  OBVIOUS
<1>2. QED
  BY <1>1 DEF Kept, RunsKept

\* What a step owes the invariant: of what it writes, that it is sound.
LEMMA Step ==
  ASSUME IInv,
         tool' \in Tool, mode' \in Mode, mount' \in Nat \ {0}, mount <= mount',
         runtime' \in 0..4, reviewed' \in BOOLEAN, balance' \in Balance, views' = views \/ views' \in Nat,
         runs' \in Seq(Run), RunsKept(runs, runs'), txs' \in Seq(Tx), Kept(txs, txs'),
         \A t \in 1..Len(txs') : t \in 1..Len(txs) \/ Behind(txs'[t], runs', txs'),
         session' = session \/ session' = NoSession \/ Sound(session', runs', txs'),
         recovering' = recovering \/ recovering' = NoRecovery \/ Sound(recovering', runs', txs'),
         pointer' \in [Tool -> Nat \X Nat],
         \A t \in Tool : pointer'[t] \in {pointer[t], NoPointer} \/ pointer'[t][1] \in 1..Len(runs'),
         \A k \in capsules' : k \in capsules \/ (k \in Bundle /\ Refers(k.run, k.stage, k.tx, txs')),
         \A c \in calls' : c \in calls \/ (c.mount \in 1..mount' /\ CallSound(c, runs', txs')),
         CallsApart', GatesSound',
         \A o \in resuming' : o \in resuming \/ Resumable(o, mount', runs')
  PROVE  IInv'
<1>1. /\ runs \in Seq(Run) /\ txs \in Seq(Tx) /\ mount \in Nat /\ views \in Nat /\ capsules \subseteq Bundle
      /\ Len(runs) \in Nat /\ Len(runs') \in Nat /\ Len(runs) <= Len(runs')
  <2>1. TypeInv
    BY DEF IInv
  <2>2. /\ runs \in Seq(Run) /\ txs \in Seq(Tx) /\ mount \in Nat /\ views \in Nat
        /\ capsules \subseteq Bundle
    BY <2>1 DEF TypeInv
  <2>3. Len(runs) \in Nat /\ Len(runs') \in Nat
    BY <2>2
  <2>4. Len(runs) <= Len(runs')
    BY DEF RunsKept
  <2>5. QED
    BY <2>2, <2>3, <2>4
<1>2. TypeInv'
  BY <1>1 DEF TypeInv
<1>3. TxsSound'
  <2>1. ASSUME NEW t \in 1..Len(txs) PROVE Behind(txs'[t], runs', txs')
    BY <1>1, BehindKept DEF IInv, TxsSound
  <2>2. QED
    BY <2>1 DEF TxsSound
<1>4. SessionSound'
  <2>1. Sound(session, runs, txs) => Sound(session, runs', txs')
    BY <1>1, SoundKept
  <2>2. QED
    BY <2>1 DEF IInv, SessionSound, NoSession
<1>5. RecoverySound'
  <2>1. Sound(recovering, runs, txs) => Sound(recovering, runs', txs')
    BY <1>1, SoundKept
  <2>2. QED
    BY <2>1 DEF IInv, RecoverySound, NoRecovery
<1>6. CapsulesSound'
  <2>1. ASSUME NEW k \in capsules PROVE Refers(k.run, k.stage, k.tx, txs')
    BY <1>1, RefersKept DEF IInv, CapsulesSound
  <2>2. QED
    BY <2>1 DEF CapsulesSound
<1>7. PointersSound'
  <2>1. ASSUME NEW t \in Tool PROVE pointer'[t] = NoPointer \/ pointer'[t][1] \in 1..Len(runs')
    <3>1. pointer[t] = NoPointer \/ pointer[t][1] \in 1..Len(runs)
      BY DEF IInv, PointersSound
    <3>2. QED
      BY <1>1, <3>1
  <2>2. QED
    BY <2>1 DEF PointersSound, NoPointer
<1>8. CallsSound'
  <2>1. ASSUME NEW c \in calls PROVE c.mount \in 1..mount' /\ CallSound(c, runs', txs')
    <3>1. c.mount \in 1..mount /\ CallSound(c, runs, txs)
      BY DEF IInv, CallsSound
    <3>2. QED
      BY <1>1, <3>1, CallKept
  <2>2. QED
    BY <2>1 DEF CallsSound
<1>9. CancelledSound'
  <2>1. ASSUME NEW o \in resuming PROVE Resumable(o, mount', runs')
    <3>1. Resumable(o, mount, runs)
      BY DEF IInv, CancelledSound
    <3>2. QED
      BY <1>1, <3>1 DEF Resumable
  <2>2. QED
    BY <2>1 DEF CancelledSound
<1>10. QED
  BY <1>2, <1>3, <1>4, <1>5, <1>6, <1>7, <1>8, <1>9 DEF IInv

\* The gates, when nothing happens to them, or one of them gets a run there is.
LEMMA GatesSame ==
  ASSUME IInv, gates' = gates, mount' = mount, RunsKept(runs, runs'), runs' \in Seq(Run)
  PROVE  GatesSound'
<1>1. /\ gates \in Seq(GateRecord) /\ Len(gates) = mount /\ mount \in Nat
      /\ \A m \in 1..mount : gates[m].run \in 0..Len(runs)
      /\ Len(runs) \in Nat /\ Len(runs') \in Nat /\ Len(runs) <= Len(runs')
  BY DEF IInv, TypeInv, GatesSound, RunsKept
<1>2. QED
  BY <1>1 DEF GatesSound

LEMMA GateSet ==
  ASSUME IInv, NEW m \in 1..mount, NEW g \in GateRecord, g.run \in 0..Len(runs'),
         gates' = [gates EXCEPT ![m] = g],
         mount' = mount, RunsKept(runs, runs'), runs' \in Seq(Run)
  PROVE  GatesSound'
<1>1. /\ gates \in Seq(GateRecord) /\ Len(gates) = mount /\ mount \in Nat
      /\ \A n \in 1..mount : gates[n].run \in 0..Len(runs)
      /\ Len(runs) \in Nat /\ Len(runs') \in Nat /\ Len(runs) <= Len(runs')
  BY DEF IInv, TypeInv, GatesSound, RunsKept
<1>2. /\ gates' \in Seq(GateRecord) /\ Len(gates') = Len(gates)
      /\ \A n \in 1..Len(gates) : gates'[n] = IF n = m THEN g ELSE gates[n]
  BY <1>1, ExceptSeq
<1>3. \A n \in 1..mount : gates'[n].run \in 0..Len(runs')
  BY <1>1, <1>2
<1>4. QED
  BY <1>1, <1>2, <1>3 DEF GatesSound

-----------------------------------------------------------------------------
(* Lemmas about calls, runtimes and stages *)

LEMMA CallAdded ==
  ASSUME IInv, ~Busy, Room, NEW d, d.mount = mount, calls' = calls \cup {d}
  PROVE  CallsApart'
<1>1. IsFiniteSet(calls) /\ \A c \in calls : c.mount # mount
  BY DEF IInv, CallsApart, Busy
<1>2. ASSUME NEW c \in calls, NEW e \in calls, c # e PROVE FALSE
  <2>1. IsFiniteSet({c, e}) /\ Cardinality({c, e}) = 2
    <3>1. IsFiniteSet({c}) /\ Cardinality({c}) = 1
      BY FS_Singleton
    <3>2. {c, e} = {c} \cup {e} /\ e \notin {c}
      BY <1>2
    <3>3. QED
      BY <3>1, <3>2, FS_AddElement
  <2>2. {c, e} \in SUBSET calls
    OBVIOUS
  <2>3. Cardinality({c, e}) <= Cardinality(calls)
    BY <1>1, <2>2, FS_Subset
  <2>4. Cardinality(calls) \in Nat
    BY <1>1, FS_CardinalityType
  <2>5. QED
    BY <2>1, <2>3, <2>4 DEF Room
<1>3. IsFiniteSet(calls')
  BY <1>1, FS_AddElement
<1>4. QED
  BY <1>1, <1>2, <1>3 DEF CallsApart

LEMMA CallGoes ==
  ASSUME IInv, NEW c \in calls, NEW d, d.mount = c.mount, Goes(c, d)
  PROVE  CallsApart'
<1>1. IsFiniteSet(calls') /\ calls' = (calls \ {c}) \cup {d}
  BY FS_RemoveElement, FS_AddElement DEF Goes, IInv, CallsApart
<1>2. \A e \in calls' : \E b \in calls : b.mount = e.mount /\ (e = b \/ (b = c /\ e = d))
  BY <1>1
<1>3. /\ \A a, b, e \in calls : a = b \/ a = e \/ b = e
      /\ \A a, b \in calls : a.mount = b.mount => a = b
  BY DEF IInv, CallsApart
<1>4. \A a, b \in calls' : a.mount = b.mount => a = b
  BY <1>1, <1>3
<1>5. \A a, b, e \in calls' : a = b \/ a = e \/ b = e
  BY <1>1, <1>3
<1>6. QED
  BY <1>1, <1>4, <1>5 DEF CallsApart

LEMMA CallsFewer == ASSUME IInv, calls' \subseteq calls PROVE CallsApart'
<1>1. IsFiniteSet(calls')
  BY FS_Subset DEF IInv, CallsApart
<1>2. QED
  BY <1>1 DEF IInv, CallsApart

\* A runtime can always be made: at most three numbers are taken.
LEMMA FreshRuntimeType == ASSUME IInv PROVE FreshRuntime \in 1..4
<1>1. ASSUME \A n \in 1..4 : n = runtime \/ \E c \in calls : n = c.runtime PROVE FALSE
  <2>1. PICK i \in 1..4, j \in 1..4, k \in 1..4 :
          i # j /\ i # k /\ j # k /\ i # runtime /\ j # runtime /\ k # runtime
    <3>1. runtime \in {0, 1, 2, 3, 4}
      BY DEF IInv, TypeInv
    <3>2. CASE runtime \in {0, 4}
      <4>1. 1 \in 1..4 /\ 2 \in 1..4 /\ 3 \in 1..4
        OBVIOUS
      <4>2. QED
        BY <3>2, <4>1
    <3>3. CASE runtime = 1
      <4>1. 2 \in 1..4 /\ 3 \in 1..4 /\ 4 \in 1..4
        OBVIOUS
      <4>2. QED
        BY <3>3, <4>1
    <3>4. CASE runtime = 2
      <4>1. 1 \in 1..4 /\ 3 \in 1..4 /\ 4 \in 1..4
        OBVIOUS
      <4>2. QED
        BY <3>4, <4>1
    <3>5. CASE runtime = 3
      <4>1. 1 \in 1..4 /\ 2 \in 1..4 /\ 4 \in 1..4
        OBVIOUS
      <4>2. QED
        BY <3>5, <4>1
    <3>6. QED
      BY <3>1, <3>2, <3>3, <3>4, <3>5
  <2>2. PICK c \in calls, d \in calls, e \in calls : c.runtime = i /\ d.runtime = j /\ e.runtime = k
    BY <1>1, <2>1
  <2>3. c # d /\ c # e /\ d # e
    BY <2>1, <2>2
  <2>4. QED
    BY <2>3 DEF IInv, CallsApart
<1>2. \E n \in 1..4 : n # runtime /\ \A c \in calls : n # c.runtime
  BY <1>1
<1>3. QED
  BY <1>2 DEF FreshRuntime

LEMMA ForgetKeeps ==
  ASSUME IInv, NEW n, Forget(n)
  PROVE  txs' \in Seq(Tx) /\ Len(txs') = Len(txs) /\ Kept(txs, txs')
<1>1. txs \in Seq(Tx) /\ Len(txs) \in Nat /\ \A t \in 1..Len(txs) : txs[t] \in Tx
  BY DEF IInv, TypeInv
<1>2. ASSUME NEW t \in 1..Len(txs)
      PROVE  /\ txs'[t] \in Tx /\ txs'[t].run = txs[t].run /\ txs'[t].stage = txs[t].stage
             /\ txs'[t].status = txs[t].status
  <2>1. txs'[t] = IF txs[t].runtime = n THEN [txs[t] EXCEPT !.runtime = 0] ELSE txs[t]
    BY DEF Forget
  <2>2. txs[t] \in Tx /\ 0 \in 0..4
    BY <1>1
  <2>3. QED
    BY <2>1, <2>2 DEF Tx
<1>3. DOMAIN txs' = 1..Len(txs)
  BY DEF Forget
<1>4. txs' \in [1..Len(txs) -> Tx]
  <2>1. txs' = [t \in 1..Len(txs) |-> IF txs[t].runtime = n THEN [txs[t] EXCEPT !.runtime = 0] ELSE txs[t]]
    BY DEF Forget
  <2>2. \A t \in 1..Len(txs) :
          (IF txs[t].runtime = n THEN [txs[t] EXCEPT !.runtime = 0] ELSE txs[t]) \in Tx
    BY <1>2, <2>1
  <2>3. QED
    BY <2>1, <2>2
<1>5. txs' \in Seq(Tx)
  BY <1>1, <1>4, SeqDef
<1>6. Len(txs') = Len(txs)
  BY <1>1, <1>3, <1>5, LenProperties
<1>7. QED
  BY <1>1, <1>2, <1>5, <1>6 DEF Kept

LEMMA WatchedType == ASSUME IInv, NEW c, c.tool \in Tool PROVE Watched(c) \in Int
<1>1. balance.public \in Int /\ balance.position[c.tool] \in Int
  BY DEF IInv, TypeInv, Balance
<1>2. QED
  BY <1>1 DEF Watched

\* What is known of a call in flight.
LEMMA CallKnown ==
  ASSUME IInv, NEW c \in calls
  PROVE  /\ c \in CallRecord /\ c.mount \in 1..mount /\ CallSound(c, runs, txs)
         /\ c.tool \in Tool /\ c.mode \in Mode /\ c.pc \in Await /\ c.runtime \in 0..4
         /\ mount \in Nat /\ c.mount \in Nat
BY DEF IInv, CallsSound, CallSound, CallRecord, TypeInv

\* The stage of a session that succeeded, or that the wallet's wait confirmed: the next
\* is shown, or the plan is done.
LEMMA ConfirmedSound ==
  ASSUME runs \in Seq(Run), NEW s, NEW T, Sound(s, runs, T),
         Waited(s, runs) \/ Succeeds(s.run, s.stage, T)
  PROVE  Sound(Confirmed(s), runs, T) /\ Confirmed(s).run = s.run
<1> DEFINE p == PlanOf[runs[s.run].tool][runs[s.run].mode]
<1>1. /\ s \in Shown /\ s.run \in 1..Len(runs) /\ s.stage \in 1..Len(p) /\ Backed(s.run, s.stage, T)
      /\ StageOf(s, runs)
  BY DEF Sound, StageOf
<1>2. Len(p) \in Nat /\ (s.stage # Len(p) => ~Waited(s, runs))
  <2>1. runs[s.run] \in Run
    BY <1>1
  <2>2. Fits(p)
    BY <2>1, PlanType
  <2>4. Waited(s, runs) <=> p[s.stage][2].settled
    BY DEF Waited
  <2> HIDE DEF p
  <2>3. QED
    BY <1>1, <2>2, <2>4 DEF Fits
<1>3. CASE s.stage = Len(p)
  <2> DEFINE n == [s EXCEPT !.status = "completed"]
  <2>1. Confirmed(s) = n
    BY <1>3 DEF Confirmed, Plan
  <2>2. n \in Shown /\ n.run = s.run /\ n.stage = s.stage /\ n.status = "completed"
    BY <1>1 DEF Shown
  <2> HIDE DEF n
  <2>3. \A i \in 1..Len(p) : p[i][2].settled \/ Succeeds(s.run, i, T)
    <3>1. Waited(s, runs) <=> p[s.stage][2].settled
      BY DEF Waited
    <3> HIDE DEF p
    <3>2. QED
      BY <1>1, <1>2, <1>3, <3>1 DEF Backed
  <2>4. AllDone(n.run, runs, T)
    BY <2>2, <2>3 DEF AllDone
  <2>5. QED
    BY <1>1, <2>1, <2>2, <2>4 DEF Sound, StageOf
<1>4. CASE s.stage # Len(p)
  <2> DEFINE n == At(s.run, s.stage + 1, "review", 0)
  <2>1. Confirmed(s) = n
    BY <1>4 DEF Confirmed, Plan
  <2>2. n \in Shown /\ n.run = s.run /\ n.stage = s.stage + 1 /\ n.status = "review"
    BY <1>1, <1>2 DEF Shown, At
  <2> HIDE DEF n
  <2>3. n.stage \in 1..Len(p)
    BY <1>1, <1>2, <1>4, <2>2, SMTT(30)
  <2>4. Backed(n.run, n.stage, T)
    BY <1>1, <1>2, <1>4, <2>2 DEF Backed
  <2>5. QED
    BY <1>1, <2>1, <2>2, <2>3, <2>4 DEF Sound, StageOf
<1>5. QED
  BY <1>3, <1>4

\* The stage of a transaction: it is of a run, and those before it succeeded.
LEMMA RefersSound ==
  ASSUME IInv, NEW r \in Nat \ {0}, NEW i \in Nat, NEW t \in Nat, Refers(r, i, t, txs)
  PROVE  Sound(At(r, i, "submitted", t), runs, txs)
<1> DEFINE n == At(r, i, "submitted", t)
<1>1. n \in Shown /\ n.run = r /\ n.stage = i /\ n.tx = t /\ n.status = "submitted"
  BY DEF At, Shown
<1> HIDE DEF n
<1>2. StageOf(txs[t], runs) /\ Backed(r, i, txs)
  BY DEF IInv, TxsSound, Refers, Behind
<1>3. Sound(n, runs, txs)
  BY <1>1, <1>2 DEF Sound, StageOf, Refers
<1>4. QED
  BY <1>3 DEF n

\* The first stage of a run has nothing before it.
LEMMA FirstSound ==
  ASSUME NEW R \in Seq(Run), NEW T, NEW r \in 1..Len(R)
  PROVE  Sound(At(r, 1, "review", 0), R, T)
<1> DEFINE s == At(r, 1, "review", 0)
<1>1. s \in Shown /\ s.run = r /\ s.stage = 1 /\ s.status = "review"
  BY DEF At, Shown
<1> HIDE DEF s
<1>2. StageOf(s, R)
  <2>1. R[r] \in Run
    OBVIOUS
  <2> DEFINE n == Len(PlanOf[R[r].tool][R[r].mode])
  <2>2. n \in 1..2
    BY <2>1, PlanType DEF Fits
  <2>3. 1 \in 1..n
    <3> HIDE DEF n
    <3>1. QED
      BY <2>2
  <2>4. QED
    BY <1>1, <2>3 DEF StageOf
<1>3. Backed(s.run, s.stage, T)
  BY <1>1 DEF Backed
<1>4. Sound(s, R, T)
  BY <1>1, <1>2, <1>3 DEF Sound
<1>5. QED
  BY <1>4 DEF s

-----------------------------------------------------------------------------
(* Steps that only start a call, move it on or end it *)

LEMMA Calling ==
  ASSUME IInv, UNCHANGED <<view, flow, storage, runs, chain>>, CallsApart',
         \A c \in calls' : c \in calls \/ (c.mount \in 1..mount /\ CallSound(c, runs, txs))
  PROVE  IInv'
<1>1. UNCHANGED <<tool, mode, mount, views, reviewed, session, runtime, gates, resuming, recovering,
                  pointer, capsules, runs, txs, balance>>
  BY DEF view, flow, fees, storage, chain
<1>2. /\ tool \in Tool /\ mode \in Mode /\ mount \in Nat \ {0} /\ runtime \in 0..4
      /\ reviewed \in BOOLEAN /\ views \in Nat /\ runs \in Seq(Run) /\ txs \in Seq(Tx)
      /\ balance \in Balance /\ pointer \in [Tool -> Nat \X Nat]
      /\ Kept(txs, txs) /\ RunsKept(runs, runs)
  BY KeptSame DEF IInv, TypeInv
<1>3. GatesSound'
  BY <1>1, <1>2, GatesSame
<1>4. QED
  BY <1>1, <1>2, <1>3, Step

\* A press that makes a call.
LEMMA Presses ==
  ASSUME IInv, ~Busy, Room, UNCHANGED <<view, flow, storage, runs, chain>>,
         NEW h \in By, NEW pc \in {"prepare", "receipt"}, NEW s, NEW rt \in 0..4, NEW b \in BOOLEAN,
         calls' = calls \cup {Call(h, pc, s, rt, b)},
         Sound(s, runs, txs),
         pc = "receipt" => s.status = "submitted"
  PROVE  IInv'
<1> DEFINE d == Call(h, pc, s, rt, b)
<1>1. tool \in Tool /\ mode \in Mode /\ mount \in Nat \ {0}
  BY DEF IInv, TypeInv
<1>2. s \in Shown
  BY DEF Sound
<1>3. d \in CallRecord /\ d.pc = pc /\ d.session = s /\ d.mount = mount
  BY <1>1, <1>2 DEF Call, CallRecord, Await
<1> HIDE DEF d
<1>4. CallSound(d, runs, txs) /\ d.mount \in 1..mount
  BY <1>1, <1>3 DEF CallSound
<1>5. calls' = calls \cup {d}
  BY DEF d
<1>6. CallsApart'
  BY <1>3, <1>5, CallAdded
<1>7. QED
  BY <1>4, <1>5, <1>6, Calling

\* The session shown, and the runtime.
LEMMA ShowingSound ==
  ASSUME IInv, NEW status, Showing(status)
  PROVE  Sound(session, runs, txs) /\ session.status = status
BY DEF Showing, IInv, SessionSound, NoSession

LEMMA StartsStep ==
  ASSUME IInv, ~Busy, NEW h \in By, NEW b \in BOOLEAN, Starts(h, b) PROVE IInv'
<1>1. PICK r \in {gates[mount].run, Len(runs) + 1} :
        /\ Active(r)
        /\ gates' = [gates EXCEPT ![mount] = [run |-> r, started |-> FALSE]]
        /\ calls' = calls \cup {Call(h, "fee", At(r, 1, "review", 0), 0, b)}
  BY DEF Starts
<1> DEFINE new == [tool |-> tool, mode |-> mode]
           s == At(r, 1, "review", 0)
           d == Call(h, "fee", s, 0, b)
           g == [run |-> r, started |-> FALSE]
<1>2. /\ Room
      /\ UNCHANGED <<tool, mode, mount, views, reviewed, session, runtime, recovering, resuming, pointer,
                     capsules, txs, balance>>
  BY DEF Starts, view, storage, chain
<1>3. /\ tool \in Tool /\ mode \in Mode /\ mount \in Nat \ {0} /\ runtime \in 0..4
      /\ reviewed \in BOOLEAN /\ runs \in Seq(Run) /\ Len(runs) \in Nat /\ txs \in Seq(Tx)
      /\ balance \in Balance /\ pointer \in [Tool -> Nat \X Nat]
      /\ Kept(txs, txs) /\ RunsKept(runs, runs)
      /\ gates[mount].run \in 0..Len(runs)
  BY KeptSame DEF IInv, TypeInv, GatesSound
<1>4. runs' \in Seq(Run) /\ RunsKept(runs, runs') /\ r \in 1..Len(runs')
  <2>1. CASE runs' = runs /\ r = gates[mount].run /\ r # 0
    BY <1>3, <2>1
  <2>2. CASE r = Len(runs) + 1 /\ runs' = Append(runs, new)
    <3>1. new \in Run
      BY <1>3 DEF Run
    <3> HIDE DEF new
    <3>2. /\ runs' \in Seq(Run) /\ Len(runs') = Len(runs) + 1
          /\ \A q \in 1..Len(runs) : runs'[q] = runs[q]
      BY <1>3, <2>2, <3>1, AppendProperties
    <3>3. QED
      BY <1>3, <2>2, <3>2 DEF RunsKept
  <2>3. QED
    BY <1>1, <2>1, <2>2 DEF Active
<1>5. Sound(s, runs', txs)
  BY <1>4, FirstSound
<1> HIDE DEF s
<1>6. d \in CallRecord /\ d.pc = "fee" /\ d.session = s /\ d.mount = mount
  BY <1>3, <1>5 DEF Call, CallRecord, Await, Sound
<1>7. calls' = calls \cup {d}
  BY <1>1 DEF s
<1> HIDE DEF d
<1>8. CallSound(d, runs', txs) /\ d.mount \in 1..mount
  BY <1>3, <1>5, <1>6 DEF CallSound
<1>9. CallsApart'
  BY <1>2, <1>6, <1>7, CallAdded
<1>10. g \in GateRecord /\ g.run \in 0..Len(runs')
  BY <1>4 DEF GateRecord
<1>11. gates' = [gates EXCEPT ![mount] = g] /\ mount \in 1..mount
  BY <1>1, <1>3
<1> HIDE DEF g
<1>12. GatesSound'
  BY <1>2, <1>4, <1>10, <1>11, GateSet
<1>13. QED
  BY <1>2, <1>3, <1>4, <1>7, <1>8, <1>9, <1>12, Step

LEMMA StartingStep == ASSUME IInv, Starting PROVE IInv'
<1>1. ASSUME ~Busy, NEW h \in By, NEW b \in BOOLEAN, Starts(h, b) PROVE IInv'
  BY <1>1, StartsStep
<1>2. /\ "startFlow" \in By /\ "startAgentLend" \in By /\ "startUnshieldBorrow" \in By
      /\ "executeBorrow" \in By
  BY DEF By
<1>3. CASE StakingStart
  BY <1>1, <1>2, <1>3 DEF StakingStart
<1>4. CASE LendStart
  BY <1>1, <1>2, <1>4 DEF LendStart
<1>5. CASE BorrowStartUnshield
  BY <1>1, <1>2, <1>5 DEF BorrowStartUnshield
<1>6. CASE BorrowStartShield
  BY <1>1, <1>2, <1>6 DEF BorrowStartShield
<1>7. CASE BorrowStartNormal
  <2> DEFINE b == session = NoSession \/ session.status = "review"
  <2>1. ~Busy /\ Starts("executeBorrow", b) /\ b \in BOOLEAN
    BY <1>7 DEF BorrowStartNormal
  <2> HIDE DEF b
  <2>2. QED
    BY <1>1, <1>2, <2>1
<1>8. QED
  BY <1>3, <1>4, <1>5, <1>6, <1>7 DEF Starting

\* A review, and what invalidates it.
LEMMA ReviewStep == ASSUME IInv, Review \/ Invalidate PROVE IInv'
<1>1. /\ reviewed' \in BOOLEAN
      /\ UNCHANGED <<tool, mode, mount, views, session, runtime, gates, resuming, recovering, calls,
                     pointer, capsules, runs, txs, balance>>
  BY DEF Review, Invalidate, flow, fees, storage, chain
<1>2. /\ tool \in Tool /\ mode \in Mode /\ mount \in Nat \ {0} /\ runtime \in 0..4
      /\ runs \in Seq(Run) /\ txs \in Seq(Tx)
      /\ balance \in Balance /\ pointer \in [Tool -> Nat \X Nat]
      /\ Kept(txs, txs) /\ RunsKept(runs, runs)
  BY KeptSame DEF IInv, TypeInv
<1>3. CallsApart' /\ GatesSound'
  BY <1>1, <1>2, CallsFewer, GatesSame
<1>4. QED
  BY <1>1, <1>2, <1>3, Step

\* The next stage is executed, with the runtime shown or with a new one.
LEMMA ContinuesOld ==
  ASSUME IInv, ~Busy, Showing("review"), NEW h \in By, Executes(h, runtime),
         UNCHANGED <<view, flow, storage, runs, chain>>
  PROVE  IInv'
<1>1. Sound(session, runs, txs) /\ runtime \in 0..4
  BY ShowingSound DEF IInv, TypeInv
<1>2. Room /\ calls' = calls \cup {Call(h, "prepare", session, runtime, FALSE)}
  BY DEF Executes
<1>3. QED
  BY <1>1, <1>2, Presses

LEMMA ContinuesNew ==
  ASSUME IInv, ~Busy, Showing("review"), NEW h \in By,
         runtime' = FreshRuntime, Forget(FreshRuntime), Executes(h, runtime'),
         UNCHANGED <<view, session, recovering, asked, fees, storage, runs, balance, moves>>
  PROVE  IInv'
<1> DEFINE d == Call(h, "prepare", session, runtime', FALSE)
<1>1. UNCHANGED <<tool, mode, mount, views, reviewed, session, gates, resuming, recovering, pointer,
                  capsules, runs, balance>>
  BY DEF view, fees, storage
<1>2. /\ tool \in Tool /\ mode \in Mode /\ mount \in Nat \ {0}
      /\ reviewed \in BOOLEAN /\ runs \in Seq(Run) /\ txs \in Seq(Tx)
      /\ balance \in Balance /\ pointer \in [Tool -> Nat \X Nat] /\ RunsKept(runs, runs)
  BY KeptSame DEF IInv, TypeInv
<1>3. txs' \in Seq(Tx) /\ Len(txs') = Len(txs) /\ Kept(txs, txs')
  BY ForgetKeeps
<1>4. runtime' \in 0..4
  BY FreshRuntimeType
<1>5. Sound(session, runs, txs')
  BY <1>2, <1>3, ShowingSound, SoundKept
<1>6. session \in Shown
  BY <1>5 DEF Sound
<1>7. d \in CallRecord /\ d.pc = "prepare" /\ d.session = session /\ d.mount = mount
     
  BY <1>2, <1>4, <1>6 DEF Call, CallRecord, Await
<1>8. Room /\ calls' = calls \cup {d}
  BY DEF Executes
<1> HIDE DEF d
<1>9. CallSound(d, runs, txs') /\ d.mount \in 1..mount
  BY <1>2, <1>5, <1>7 DEF CallSound
<1>10. CallsApart' /\ GatesSound'
  BY <1>1, <1>2, <1>7, <1>8, CallAdded, GatesSame
<1>11. QED
  BY <1>1, <1>2, <1>3, <1>4, <1>8, <1>9, <1>10, Step

LEMMA ContinuingStep == ASSUME IInv, Continuing PROVE IInv'
<1>1. "executeNextStage" \in By /\ "executeBorrow" \in By /\ "shieldBorrowProceeds" \in By
  BY DEF By
<1>2. CASE StakingExecuteNext
  BY <1>1, <1>2, ContinuesOld DEF StakingExecuteNext
<1>3. CASE LendExecuteNext
  BY <1>1, <1>3, ContinuesNew DEF LendExecuteNext
<1>4. CASE BorrowExecuteUnshielded
  BY <1>1, <1>4, ContinuesNew DEF BorrowExecuteUnshielded
<1>5. CASE ShieldBorrowProceeds
  BY <1>1, <1>5, ContinuesOld DEF ShieldBorrowProceeds
<1>6. QED
  BY <1>2, <1>3, <1>4, <1>5 DEF Continuing

\* A confirmation is pressed.
LEMMA ConfirmingStep == ASSUME IInv, Confirming PROVE IInv'
<1>1. ASSUME NEW h \in By, Confirms(h) PROVE IInv'
  <2>1. Sound(session, runs, txs) /\ session.status = "submitted" /\ runtime \in 0..4
    BY <1>1, ShowingSound DEF Confirms, IInv, TypeInv
  <2>2. /\ ~Busy /\ Room /\ calls' = calls \cup {Call(h, "receipt", session, runtime, FALSE)}
        /\ UNCHANGED <<view, flow, storage, runs, chain>>
    BY <1>1 DEF Confirms
  <2>3. QED
    BY <2>1, <2>2, Presses
<1>2. /\ "confirmSubmitted" \in By /\ "refreshNormalBorrowConfirmation" \in By
      /\ "refreshUnshieldConfirmation" \in By /\ "refreshUnshieldBorrowConfirmation" \in By
      /\ "refreshShieldBorrowConfirmation" \in By /\ "refreshShieldStageConfirmation" \in By
  BY DEF By, ClearsAtOnce
<1>3. \E h \in By : Confirms(h)
  BY <1>2 DEF Confirming, StakingConfirm, LendConfirm, RefreshNormalBorrow, RefreshUnshield,
              RefreshUnshieldBorrow, RefreshShieldBorrow, RefreshShieldStage, BorrowConfirms
<1>4. QED
  BY <1>1, <1>3

\* A call goes on as d.
LEMMA Goes1 ==
  ASSUME IInv, NEW c \in calls, NEW d, Goes(c, d), d.mount = c.mount, CallSound(d, runs, txs),
         UNCHANGED <<view, flow, storage, runs, chain>>
  PROVE  IInv'
<1>1. CallsApart'
  BY CallGoes
<1>2. calls' = (calls \ {c}) \cup {d} /\ d.mount \in 1..mount
  BY CallKnown DEF Goes
<1>3. QED
  BY <1>1, <1>2, Calling

LEMMA PreparedStep ==
  ASSUME IInv, NEW c \in calls, BorrowPrepared(c) \/ StakingPrepared(c) \/ LendPrepared(c)
  PROVE  IInv'
<1> DEFINE d == [c EXCEPT !.pc = "wallet", !.before = Watched(c)]
<1>1. /\ c.pc = "prepare" /\ Goes(c, d)
      /\ UNCHANGED <<view, flow, storage, runs, chain>>
  BY DEF BorrowPrepared, StakingPrepared, LendPrepared, Prepares
<1>2. c \in CallRecord /\ Watched(c) \in Int /\ CallSound(c, runs, txs)
  BY CallKnown, WatchedType
<1>3. d \in CallRecord /\ d.pc = "wallet" /\ d.session = c.session /\ d.mount = c.mount
  BY <1>2 DEF CallRecord, Await
<1> HIDE DEF d
<1>4. CallSound(d, runs, txs)
  BY <1>1, <1>2, <1>3 DEF CallSound
<1>5. QED
  BY <1>1, <1>3, <1>4, Goes1

LEMMA ReturnedStep == ASSUME IInv, NEW c \in calls, Returned(c) PROVE IInv'
<1>4. PICK a \in BOOLEAN : /\ a => ExecutorOf(c.session).settled
                         /\ Goes(c, [c EXCEPT !.pc = "bind", !.confirmed = a])
  BY DEF Returned
<1> DEFINE d == [c EXCEPT !.pc = "bind", !.confirmed = a]
<1>1. c.pc = "sent" /\ Goes(c, d) /\ UNCHANGED <<view, flow, storage, runs, chain>>
  BY <1>4 DEF Returned
<1>2. c \in CallRecord /\ CallSound(c, runs, txs)
  BY CallKnown
<1>3. /\ d \in CallRecord /\ d.pc = "bind" /\ d.session = c.session /\ d.mount = c.mount
      /\ d.tx = c.tx /\ d.confirmed = a
  BY <1>2 DEF CallRecord, Await
<1> HIDE DEF d
<1>5. CallSound(d, runs, txs)
  BY <1>1, <1>2, <1>3, <1>4 DEF CallSound, Waited, ExecutorOf, Plan
<1>6. QED
  BY <1>1, <1>3, <1>5, Goes1

LEMMA ReceiptReadStep == ASSUME IInv, NEW c \in calls, ReceiptRead(c) PROVE IInv'
<1> DEFINE d == [c EXCEPT !.pc = "verify"]
<1>1. /\ c.pc = "receipt" /\ txs[c.session.tx].status = "succeeded" /\ Goes(c, d)
      /\ UNCHANGED <<view, flow, storage, runs, chain>>
  BY DEF ReceiptRead, Accepted
<1>2. c \in CallRecord /\ CallSound(c, runs, txs)
  BY CallKnown
<1>3. d \in CallRecord /\ d.pc = "verify" /\ d.session = c.session /\ d.mount = c.mount
  BY <1>2 DEF CallRecord, Await
<1> HIDE DEF d
<1>4. CallSound(d, runs, txs)
  BY <1>1, <1>2, <1>3 DEF CallSound
<1>5. QED
  BY <1>1, <1>3, <1>4, Goes1

LEMMA UnverifiedStep == ASSUME IInv, NEW c \in calls, Unverified(c) PROVE IInv'
<1>1. calls' \subseteq calls /\ UNCHANGED <<view, flow, storage, runs, chain>>
  BY DEF Unverified, Ends
<1>2. CallsApart'
  BY <1>1, CallsFewer
<1>3. QED
  BY <1>1, <1>2, Calling

-----------------------------------------------------------------------------
(* The other steps of a call *)

\* What is there is well-typed, and kept by a step that leaves it.
LEMMA Typed ==
  ASSUME IInv
  PROVE  /\ tool \in Tool /\ mode \in Mode /\ mount \in Nat \ {0} /\ runtime \in 0..4
         /\ reviewed \in BOOLEAN /\ runs \in Seq(Run) /\ txs \in Seq(Tx)
         /\ balance \in Balance /\ pointer \in [Tool -> Nat \X Nat] /\ capsules \subseteq Bundle
         /\ Len(runs) \in Nat /\ Len(txs) \in Nat /\ gates[mount].run \in 0..Len(runs)
         /\ Kept(txs, txs) /\ RunsKept(runs, runs)
BY KeptSame DEF IInv, TypeInv, GatesSound

LEMMA FeeGrantedStep == ASSUME IInv, NEW c \in calls, FeeGranted(c) PROVE IInv'
<1> DEFINE s == c.session
           d == [c EXCEPT !.pc = "prepare", !.runtime = FreshRuntime]
<1>1. /\ Forget(FreshRuntime)
      /\ session' = s \/ session' = session
      /\ runtime' = FreshRuntime \/ runtime' = runtime
      /\ Goes(c, d)
      /\ UNCHANGED <<tool, mode, mount, views, reviewed, recovering, gates, resuming, pointer, capsules,
                     runs, balance>>
  BY DEF FeeGranted, Shows, view, fees, storage
<1>2. /\ c \in CallRecord /\ c.mount \in 1..mount /\ c.mount \in Nat
      /\ Sound(s, runs, txs)
  BY CallKnown DEF CallSound
<1>3. /\ tool \in Tool /\ mode \in Mode /\ mount \in Nat \ {0} /\ reviewed \in BOOLEAN
      /\ balance \in Balance /\ pointer \in [Tool -> Nat \X Nat] /\ runs \in Seq(Run)
      /\ txs \in Seq(Tx) /\ RunsKept(runs, runs)
  BY Typed
<1>4. txs' \in Seq(Tx) /\ Len(txs') = Len(txs) /\ Kept(txs, txs')
  BY <1>1, ForgetKeeps
<1>5. Sound(s, runs, txs')
  BY <1>2, <1>3, <1>4, SoundKept
<1>6. FreshRuntime \in 0..4 /\ runtime' \in 0..4
  BY <1>1, FreshRuntimeType, Typed
<1>7. d \in CallRecord /\ d.pc = "prepare" /\ d.session = s /\ d.mount = c.mount
  BY <1>2, <1>6 DEF CallRecord, Await
<1> HIDE DEF d, s
<1>8. CallSound(d, runs, txs')
  BY <1>2, <1>5, <1>7 DEF CallSound
<1>9. CallsApart' /\ GatesSound'
  BY <1>1, <1>3, <1>7, CallGoes, GatesSame
<1>10. calls' = (calls \ {c}) \cup {d}
  BY <1>1 DEF Goes
<1>11. QED
  BY <1>1, <1>2, <1>3, <1>4, <1>5, <1>6, <1>7, <1>8, <1>9, <1>10, Step

LEMMA RefusedStep == ASSUME IInv, NEW c \in calls, Refused(c) PROVE IInv'
<1>1. /\ calls' \subseteq calls
      /\ \/ session' = NoSession /\ runtime' = 0
         \/ session' = session /\ runtime' = runtime
      /\ UNCHANGED <<tool, mode, mount, views, reviewed, gates, resuming, recovering, pointer, capsules,
                     runs, txs, balance>>
  BY DEF Refused, Fails, Ends, view, fees, storage, chain
<1>2. CallsApart' /\ GatesSound'
  BY <1>1, CallsFewer, GatesSame, Typed
<1>3. QED
  BY <1>1, <1>2, Typed, Step

\* What a bound stage adds to the capsules is of its transaction.
LEMMA BoundSound ==
  ASSUME IInv, NEW c \in calls, c.pc = "bind", NEW C \in Bound(c)
  PROVE  \A k \in C : k \in capsules \/ (k \in Bundle /\ Refers(k.run, k.stage, k.tx, txs))
<1>1. /\ c \in CallRecord /\ Sound(c.session, runs, txs)
      /\ Refers(c.session.run, c.session.stage, c.tx, txs)
  BY CallKnown DEF CallSound
<1>2. c.tx \in Nat /\ c.session.run \in Nat \ {0} /\ c.session.stage \in Nat
  BY <1>1 DEF Sound, CallRecord, Shown
<1> DEFINE b == [run |-> c.session.run, stage |-> c.session.stage, tx |-> c.tx]
<1>3. b \in Bundle /\ Refers(b.run, b.stage, b.tx, txs)
  BY <1>1, <1>2 DEF Bundle
<1>4. C \subseteq capsules \cup {b}
  BY DEF Bound, RemoveCapsule
<1> HIDE DEF b
<1>5. QED
  BY <1>3, <1>4

LEMMA MarkThrowsStep == ASSUME IInv, NEW c \in calls, MarkThrows(c) PROVE IInv'
<1>1. /\ c.pc = "bind" /\ capsules' \in Bound(c) /\ calls' \subseteq calls
      /\ \/ session' = NoSession /\ runtime' = 0
         \/ session' = session /\ runtime' = runtime
      /\ UNCHANGED <<tool, mode, mount, views, reviewed, gates, resuming, recovering, pointer,
                     runs, txs, balance>>
  BY DEF MarkThrows, Fails, Ends, view, fees, chain
<1>2. CallsApart' /\ GatesSound'
  BY <1>1, CallsFewer, GatesSame, Typed
<1>3. PICK C : C = capsules'
  OBVIOUS
<1>4. \A k \in C : k \in capsules \/ (k \in Bundle /\ Refers(k.run, k.stage, k.tx, txs))
  BY <1>1, <1>3, BoundSound
<1>5. QED
  BY <1>1, <1>2, <1>3, <1>4, Typed, Step

LEMMA BroadcastStep == ASSUME IInv, NEW c \in calls, Broadcast(c) PROVE IInv'
<1> DEFINE x == [run |-> c.session.run, stage |-> c.session.stage, status |-> "pending",
                 mount |-> c.mount, runtime |-> c.runtime, before |-> c.before]
           d == [c EXCEPT !.pc = "sent", !.tx = Len(txs')]
<1>1. /\ c.pc = "wallet" /\ txs' = Append(txs, x) /\ Goes(c, d)
      /\ UNCHANGED <<tool, mode, mount, views, reviewed, session, runtime, gates, resuming, recovering,
                     pointer, capsules, runs, balance>>
  BY DEF Broadcast, view, flow, fees, storage
<1>2. /\ c \in CallRecord /\ c.mount \in 1..mount /\ c.mount \in Nat /\ c.runtime \in 0..4
      /\ Sound(c.session, runs, txs)
  BY <1>1, CallKnown DEF CallSound
<1>3. c.session \in Shown /\ StageOf(c.session, runs) /\ Backed(c.session.run, c.session.stage, txs)
  BY <1>2 DEF Sound
<1>4. c.before \in Int
  BY <1>2 DEF CallRecord
<1>5. x \in Tx /\ x.run = c.session.run /\ x.stage = c.session.stage
  BY <1>2, <1>3, <1>4 DEF Tx, Shown
<1> HIDE DEF x
<1>6. /\ txs \in Seq(Tx) /\ runs \in Seq(Run) /\ Len(txs) \in Nat /\ RunsKept(runs, runs)
  BY Typed
<1>7. /\ txs' \in Seq(Tx) /\ Len(txs') = Len(txs) + 1 /\ txs'[Len(txs) + 1] = x
      /\ \A t \in 1..Len(txs) : txs'[t] = txs[t]
  BY <1>1, <1>5, <1>6, AppendProperties
<1>8. Kept(txs, txs')
  BY <1>6, <1>7 DEF Kept
<1>9. Sound(c.session, runs, txs') /\ Backed(c.session.run, c.session.stage, txs')
  BY <1>2, <1>3, <1>6, <1>7, <1>8, SoundKept, BackedKept
<1>10. Behind(x, runs, txs')
  BY <1>3, <1>5, <1>9 DEF Behind, StageOf
<1>11. \A t \in 1..Len(txs') : t \in 1..Len(txs) \/ Behind(txs'[t], runs, txs')
  BY <1>6, <1>7, <1>10
<1>12. Refers(c.session.run, c.session.stage, Len(txs'), txs') /\ Len(txs') \in Nat
  BY <1>5, <1>6, <1>7 DEF Refers
<1>13. /\ d \in CallRecord /\ d.pc = "sent" /\ d.session = c.session /\ d.mount = c.mount
       /\ d.tx = Len(txs')
  BY <1>2, <1>12 DEF CallRecord, Await
<1>14. CallSound(d, runs, txs')
  <2> HIDE DEF d
  <2>1. QED
    BY <1>2, <1>9, <1>12, <1>13 DEF CallSound
<1>15. CallsApart'
  <2>1. Goes(c, d) /\ d.mount = c.mount
    BY <1>1, <1>13
  <2> HIDE DEF d
  <2>2. QED
    BY <2>1, CallGoes
<1>16. calls' = (calls \ {c}) \cup {d} /\ d.mount \in 1..mount
  BY <1>1, <1>2, <1>13 DEF Goes
<1> HIDE DEF d
<1>17. GatesSound'
  BY <1>1, <1>6, GatesSame
<1>18. QED
  BY <1>1, <1>6, <1>7, <1>8, <1>11, <1>14, <1>15, <1>16, <1>17, Typed, Step

\* What the pointers and the capsules may become.
PointersBecome(R) ==
  /\ pointer' \in [Tool -> Nat \X Nat]
  /\ \A t \in Tool : pointer'[t] \in {pointer[t], NoPointer} \/ pointer'[t][1] \in 1..Len(R)

LEMMA PointerCleared ==
  ASSUME IInv, NEW t \in Tool, NEW C, ClearPointer(t, C), NEW R
  PROVE  PointersBecome(R) /\ capsules' \subseteq C
<1>1. pointer \in [Tool -> Nat \X Nat] /\ NoPointer \in Nat \X Nat
  BY Typed DEF NoPointer
<1>2. QED
  BY <1>1 DEF ClearPointer, RemoveCapsule, PointersBecome

LEMMA PointerSaved ==
  ASSUME IInv, NEW t \in Tool, NEW s, StageOf(s, runs), s \in Shown, NEW C, SavePointer(t, KeyOf(s), C)
  PROVE  PointersBecome(runs) /\ capsules' \subseteq C
<1> DEFINE key == KeyOf(s)
<1>1. key \in Nat \X Nat /\ key[1] \in 1..Len(runs)
  BY DEF KeyOf, Shown, StageOf
<1>2. pointer' = [pointer EXCEPT ![t] = key] /\ capsules' \subseteq C
  BY DEF SavePointer, RemoveCapsule
<1> HIDE DEF key
<1>3. pointer \in [Tool -> Nat \X Nat]
  BY Typed
<1>4. QED
  BY <1>1, <1>2, <1>3 DEF PointersBecome

LEMMA PointersSame == ASSUME IInv, UNCHANGED pointer, NEW R PROVE PointersBecome(R)
BY Typed DEF PointersBecome

LEMMA ExecutedStep == ASSUME IInv, NEW c \in calls, Executed(c) PROVE IInv'
<1> DEFINE s == At(c.session.run, c.session.stage, "submitted", c.tx)
           next == IF c.confirmed THEN Confirmed(s) ELSE s
<1>1. /\ c.pc = "bind"
      /\ \E C \in Bound(c) : ClearPointer(c.tool, C) \/ SavePointer(c.tool, KeyOf(c.session), C)
      /\ session' = session \/ session' = next
      /\ gates' = gates \/ gates' = [gates EXCEPT ![c.mount].started = TRUE]
      /\ reviewed' \in BOOLEAN
      /\ calls' \subseteq calls
      /\ UNCHANGED <<tool, mode, mount, views, runtime, resuming, recovering, runs, txs, balance>>
  BY DEF Executed, Shows, GateAfter, Ends, chain
<1>2. /\ c.tool \in Tool /\ c \in CallRecord /\ Sound(c.session, runs, txs)
      /\ Refers(c.session.run, c.session.stage, c.tx, txs)
      /\ c.confirmed => Waited(c.session, runs)
  BY <1>1, CallKnown DEF CallSound
<1>3. /\ c.session \in Shown /\ StageOf(c.session, runs) /\ c.tx \in Nat
      /\ c.session.run \in Nat \ {0} /\ c.session.stage \in Nat
  BY <1>2 DEF Sound, CallRecord, Shown
<1>4. Sound(s, runs, txs) /\ s.run = c.session.run /\ s.stage = c.session.stage
  BY <1>2, <1>3, RefersSound DEF At
<1> HIDE DEF s
<1>5. Sound(next, runs, txs)
  <2>1. ASSUME c.confirmed PROVE Sound(Confirmed(s), runs, txs)
    <3>1. Waited(s, runs)
      BY <1>2, <1>4, <2>1 DEF Waited
    <3>2. QED
      BY <1>4, <3>1, ConfirmedSound, Typed
  <2>2. QED
    BY <1>4, <2>1
<1> HIDE DEF next
<1>6. PICK C \in Bound(c) : ClearPointer(c.tool, C) \/ SavePointer(c.tool, KeyOf(c.session), C)
  BY <1>1
<1>7. PointersBecome(runs) /\ capsules' \subseteq C
  BY <1>2, <1>3, <1>6, PointerCleared, PointerSaved
<1>8. \A k \in C : k \in capsules \/ (k \in Bundle /\ Refers(k.run, k.stage, k.tx, txs))
  BY <1>1, <1>6, BoundSound
<1>9. CallsApart'
  BY <1>1, CallsFewer
<1>10. GatesSound'
  <2>1. CASE gates' = gates
    BY <1>1, <2>1, GatesSame, Typed
  <2>2. CASE gates' = [gates EXCEPT ![c.mount].started = TRUE]
    <3> DEFINE g == [gates[c.mount] EXCEPT !.started = TRUE]
    <3>1. c.mount \in 1..mount
      BY CallKnown
    <3>2. gates[c.mount] \in GateRecord /\ gates[c.mount].run \in 0..Len(runs)
      BY <3>1 DEF IInv, GatesSound
    <3>3. g \in GateRecord /\ g.run \in 0..Len(runs)
      BY <3>2 DEF GateRecord
    <3>4. gates' = [gates EXCEPT ![c.mount] = g]
      BY <2>2
    <3> HIDE DEF g
    <3>5. QED
      BY <1>1, <3>1, <3>3, <3>4, GateSet, Typed
  <2>3. QED
    BY <1>1, <2>1, <2>2
<1>11. QED
  BY <1>1, <1>5, <1>7, <1>8, <1>9, <1>10, Typed, Step DEF PointersBecome

LEMMA VerifiedStep == ASSUME IInv, NEW c \in calls, Verified(c) PROVE IInv'
<1> DEFINE next == Confirmed(c.session)
           d == [c EXCEPT !.pc = "refresh", !.session = next]
<1>1. /\ c.pc = "verify"
      /\ session' = session \/ session' = next
      /\ ClearPointer(c.tool, capsules) \/ UNCHANGED <<pointer, capsules>>
      /\ reviewed' \in BOOLEAN
      /\ Goes(c, d)
      /\ UNCHANGED <<tool, mode, mount, views, runtime, gates, resuming, recovering, runs, txs, balance>>
  BY DEF Verified, Shows, fees, chain, storage
<1>2. /\ c.tool \in Tool /\ c \in CallRecord /\ Sound(c.session, runs, txs) /\ c.mount \in 1..mount
      /\ c.session.status = "submitted" /\ txs[c.session.tx].status = "succeeded"
  BY <1>1, CallKnown DEF CallSound
<1>3. Succeeds(c.session.run, c.session.stage, txs)
  BY <1>2 DEF Sound, Refers, Succeeds
<1>4. Sound(next, runs, txs)
  BY <1>2, <1>3, ConfirmedSound, Typed
<1> HIDE DEF next
<1>5. next \in Shown
  BY <1>4 DEF Sound
<1>6. d \in CallRecord /\ d.pc = "refresh" /\ d.session = next /\ d.mount = c.mount
  BY <1>2, <1>5 DEF CallRecord, Await
<1> HIDE DEF d
<1>7. CallSound(d, runs, txs)
  BY <1>4, <1>6 DEF CallSound
<1>8. CallsApart' /\ calls' = (calls \ {c}) \cup {d} /\ d.mount \in 1..mount
  BY <1>1, <1>2, <1>6, CallGoes DEF Goes
<1>9. PointersBecome(runs) /\ capsules' \subseteq capsules
  BY <1>1, <1>2, PointerCleared, PointersSame
<1>10. GatesSound'
  BY <1>1, GatesSame, Typed
<1>11. QED
  BY <1>1, <1>4, <1>7, <1>8, <1>9, <1>10, Typed, Step DEF PointersBecome

LEMMA RefreshedStep == ASSUME IInv, NEW c \in calls, Refreshed(c) PROVE IInv'
<1>1. /\ ClearPointer(c.tool, capsules) \/ UNCHANGED <<pointer, capsules>>
      /\ calls' \subseteq calls
      /\ UNCHANGED <<tool, mode, mount, views, reviewed, session, runtime, gates, resuming, recovering,
                     runs, txs, balance>>
  BY DEF Refreshed, Ends, view, flow, fees, storage, chain
<1>2. c.tool \in Tool
  BY CallKnown
<1>3. PointersBecome(runs) /\ capsules' \subseteq capsules
  BY <1>1, <1>2, PointerCleared, PointersSame
<1>4. CallsApart' /\ GatesSound'
  BY <1>1, CallsFewer, GatesSame, Typed
<1>5. QED
  BY <1>1, <1>3, <1>4, Typed, Step DEF PointersBecome

LEMMA ResetStep == ASSUME IInv, Reset PROVE IInv'
<1>1. /\ session' = NoSession /\ runtime' = 0 /\ ClearPointer(tool, capsules)
      /\ UNCHANGED <<tool, mode, mount, views, reviewed, gates, resuming, recovering, calls, runs, txs,
                     balance>>
  BY DEF Reset, view, fees, chain
<1>2. PointersBecome(runs) /\ capsules' \subseteq capsules
  BY <1>1, PointerCleared, Typed
<1>3. CallsApart' /\ GatesSound'
  BY <1>1, CallsFewer, GatesSame, Typed
<1>4. QED
  BY <1>1, <1>2, <1>3, Typed, Step DEF PointersBecome

-----------------------------------------------------------------------------
(* Recovery and what the workspace shows *)

LEMMA RestoresStep == ASSUME IInv, Restores PROVE IInv'
<1> DEFINE g == [run |-> recovering.run, started |-> TRUE]
<1>1. /\ session' = recovering /\ recovering # NoRecovery
      /\ runtime' = FreshRuntime /\ Forget(FreshRuntime)
      /\ gates' = [gates EXCEPT ![mount] = g] /\ recovering' = NoRecovery
      /\ UNCHANGED <<tool, mode, mount, views, reviewed, resuming, calls, pointer, capsules, runs,
                     balance>>
  BY DEF Restores, view, storage, NoRecovery
<1>2. txs' \in Seq(Tx) /\ Len(txs') = Len(txs) /\ Kept(txs, txs')
  BY <1>1, ForgetKeeps
<1>3. Sound(recovering, runs, txs') /\ Sound(recovering, runs, txs)
  BY <1>1, <1>2, SoundKept, Typed DEF IInv, RecoverySound
<1>4. runtime' \in 0..4
  BY <1>1, FreshRuntimeType
<1>5. g \in GateRecord /\ g.run \in 0..Len(runs) /\ mount \in 1..mount
  BY <1>3, Typed DEF GateRecord, Sound, StageOf
<1> HIDE DEF g
<1>6. CallsApart' /\ GatesSound'
  BY <1>1, <1>5, CallsFewer, GateSet, Typed
<1>7. QED
  BY <1>1, <1>2, <1>3, <1>4, <1>6, Typed, Step

\* Only what the effects know of a recovery moves.
LEMMA EffectMoves ==
  ASSUME IInv, recovering' \in {recovering, NoRecovery}, GatesSound', resuming' \subseteq resuming,
         UNCHANGED <<view, session, runtime, calls, storage, runs, chain>>
  PROVE  IInv'
<1>1. UNCHANGED <<tool, mode, mount, views, reviewed, session, runtime, calls, pointer, capsules, runs,
                  txs, balance>>
  BY DEF view, storage, chain
<1>2. CallsApart'
  BY <1>1, CallsFewer
<1>3. QED
  BY <1>1, <1>2, Typed, Step

LEMMA CancelledResumesStep == ASSUME IInv, NEW o \in resuming, CancelledResumes(o) PROVE IInv'
<1> DEFINE g == [run |-> o.run, started |-> FALSE]
<1>1. /\ gates' = [gates EXCEPT ![o.mount] = g] /\ resuming' \subseteq resuming
      /\ UNCHANGED <<view, session, runtime, recovering, calls, storage, runs, chain>>
  BY DEF CancelledResumes
<1>2. o \in Cancelled /\ o.mount \in 1..mount /\ o.run \in 1..Len(runs)
  BY DEF IInv, CancelledSound, Resumable
<1>3. g \in GateRecord /\ g.run \in 0..Len(runs)
  BY <1>2, Typed DEF GateRecord, Cancelled
<1>4. runs' = runs /\ mount' = mount
  BY <1>1 DEF view
<1> HIDE DEF g
<1>5. GatesSound'
  BY <1>1, <1>2, <1>3, <1>4, GateSet, Typed
<1>6. QED
  BY <1>1, <1>5, EffectMoves

LEMMA RecoveringStep == ASSUME IInv, Recovering PROVE IInv'
<1>1. CASE Restores
  BY <1>1, RestoresStep
<1>2. CASE Resumes \/ RecoveryFails
  <2>1. /\ recovering' \in {recovering, NoRecovery} /\ gates' = gates /\ resuming' = resuming
        /\ UNCHANGED <<view, session, runtime, calls, storage, runs, chain>>
    BY <1>2 DEF Resumes, RecoveryFails, fees
  <2>2. GatesSound'
    BY <2>1, GatesSame, Typed DEF view
  <2>3. QED
    BY <2>1, <2>2, EffectMoves
<1>3. ASSUME NEW o \in resuming, CancelledFails(o) PROVE IInv'
  <2>1. /\ recovering' = recovering /\ gates' = gates /\ resuming' \subseteq resuming
        /\ UNCHANGED <<view, session, runtime, calls, storage, runs, chain>>
    BY <1>3 DEF CancelledFails
  <2>2. GatesSound'
    BY <2>1, GatesSame, Typed DEF view
  <2>3. QED
    BY <2>1, <2>2, EffectMoves
<1>4. QED
  BY <1>1, <1>2, <1>3, CancelledResumesStep
     DEF Recovering, BorrowRecovered, StakingRecovered, LendRecovered

\* A capsule is of a transaction, so what is recovered is sound.
LEMMA RecoveryForSound ==
  ASSUME IInv, NEW t, NEW m
  PROVE  RecoveryFor(t, m) = NoRecovery \/ Sound(RecoveryFor(t, m), runs, txs)
<1> DEFINE found == {c \in capsules : KeyOf(c) = pointer[t]}
           k == CHOOSE c \in found : TRUE
<1>1. CASE RecoveryFor(t, m) = NoRecovery
  BY <1>1
<1>2. CASE found # {} /\ RecoveryFor(t, m) = At(k.run, k.stage, "submitted", k.tx)
  <2>1. k \in capsules
    BY <1>2
  <2> HIDE DEF k
  <2>2. k \in Bundle /\ Refers(k.run, k.stage, k.tx, txs)
    BY <2>1, Typed DEF IInv, CapsulesSound
  <2>3. k.run \in Nat \ {0} /\ k.stage \in Nat /\ k.tx \in Nat
    BY <2>2 DEF Bundle
  <2>4. QED
    BY <1>2, <2>2, <2>3, RefersSound
<1>3. QED
  BY <1>1, <1>2 DEF RecoveryFor

\* A recovery that is cancelled keeps its run and its mount.
LEMMA RecoversSound ==
  ASSUME IInv, NEW t, NEW m, Recovers(t, m), views \in Nat
  PROVE  /\ recovering' = NoRecovery \/ Sound(recovering', runs, txs)
         /\ \A o \in resuming' : o \in resuming \/ Resumable(o, mount, runs)
<1> DEFINE n == [run |-> recovering.run, mount |-> mount, view |-> views]
<1>1. recovering.run # 0 => Resumable(n, mount, runs)
  <2>1. ASSUME recovering.run # 0 PROVE recovering.run \in 1..Len(runs)
    BY <2>1 DEF IInv, RecoverySound, NoRecovery, Sound, StageOf
  <2>2. mount \in 1..mount /\ mount \in Nat /\ Len(runs) \in Nat
    BY Typed
  <2>3. QED
    BY <2>1, <2>2 DEF Resumable, Cancelled
<1>2. recovering' = RecoveryFor(t, m) /\ \A o \in resuming' : o \in resuming \/ (recovering.run # 0 /\ o = n)
  BY DEF Recovers
<1> HIDE DEF n
<1>3. QED
  BY <1>1, <1>2, RecoveryForSound

LEMMA ViewingStep == ASSUME IInv, Viewing PROVE IInv'
<1>6. views \in Nat
  BY DEF IInv, TypeInv
<1>1. ASSUME NEW m \in Mode, Switch(m) PROVE IInv'
  <2>1. /\ mode' = m /\ session' = NoSession /\ runtime' = 0 /\ Recovers(tool, m)
        /\ UNCHANGED <<tool, mount, reviewed, gates, calls, pointer, capsules, runs, txs, balance>>
    BY <1>1 DEF Switch, storage, chain
  <2>2. /\ recovering' = NoRecovery \/ Sound(recovering', runs, txs)
        /\ \A o \in resuming' : o \in resuming \/ Resumable(o, mount, runs)
    BY <1>6, <2>1, RecoversSound
  <2>3. CallsApart' /\ GatesSound'
    BY <2>1, CallsFewer, GatesSame, Typed
  <2>4. QED
    BY <1>1, <1>6, <2>1, <2>2, <2>3, Typed, Step DEF Switch
<1>2. ASSUME NEW t \in Tool, Mounts(t), calls' \subseteq calls,
             recovering' = NoRecovery \/ Sound(recovering', runs, txs),
             \A o \in resuming' : o \in resuming \/ Resumable(o, mount, runs),
             UNCHANGED <<mode, storage, runs, chain>>
      PROVE  IInv'
  <2>1. /\ tool' = t /\ mount' = mount + 1 /\ session' = NoSession /\ runtime' = 0
        /\ views' = views + 1 /\ gates' = Append(gates, NoGate)
        /\ UNCHANGED <<mode, pointer, capsules, runs, txs, balance>>
    BY <1>2 DEF Mounts, storage, chain
  <2>2. CallsApart'
    BY <1>2, CallsFewer
  <2>3. mount' \in Nat \ {0} /\ mount <= mount' /\ views' \in Nat
    BY <1>6, <2>1, Typed
  <2>4. \A c \in calls' : c \in calls
    BY <1>2
  <2>5. reviewed' \in BOOLEAN
    BY <1>2, Zenon DEF Mounts
  <2>6. GatesSound'
    <3>1. gates \in Seq(GateRecord) /\ Len(gates) = mount /\ \A m \in 1..mount : gates[m].run \in 0..Len(runs)
      BY DEF IInv, GatesSound
    <3>2. NoGate \in GateRecord /\ NoGate.run = 0 /\ mount \in Nat /\ Len(runs) \in Nat
      BY Typed DEF NoGate, GateRecord
    <3>3. /\ gates' \in Seq(GateRecord) /\ Len(gates') = mount + 1 /\ gates'[mount + 1] = NoGate
          /\ \A m \in 1..mount : gates'[m] = gates[m]
      BY <2>1, <3>1, <3>2, AppendProperties
    <3>4. \A m \in 1..mount + 1 : gates'[m].run \in 0..Len(runs)
      BY <3>1, <3>2, <3>3
    <3>5. QED
      BY <2>1, <3>3, <3>4 DEF GatesSound
  <2>7. \A o \in resuming' : o \in resuming \/ Resumable(o, mount', runs)
    BY <1>2, <2>1, Typed DEF Resumable
  <2>8. QED
    BY <1>2, <2>1, <2>2, <2>3, <2>4, <2>5, <2>6, <2>7, Typed, Step
<1>3. CASE Reload
  <2>1. /\ Mounts(tool) /\ recovering' = RecoveryFor(tool, mode) /\ resuming' = {} /\ calls' = {}
        /\ UNCHANGED <<mode, storage, runs, chain>>
    BY <1>3 DEF Reload
  <2>2. recovering' = NoRecovery \/ Sound(recovering', runs, txs)
    BY <2>1, RecoveryForSound
  <2>3. QED
    BY <1>2, <2>1, <2>2, Typed
<1>4. ASSUME NEW t \in Tool, Show(t) PROVE IInv'
  <2>1. /\ Mounts(t) /\ Recovers(t, mode) /\ calls' = calls
        /\ UNCHANGED <<mode, storage, runs, chain>>
    BY <1>4 DEF Show
  <2>2. QED
    BY <1>2, <1>6, <2>1, RecoversSound
<1>5. QED
  BY <1>1, <1>3, <1>4 DEF Viewing

-----------------------------------------------------------------------------
(* The chain *)

\* A transaction gets a status, none that succeeded another.
LEMMA StatusSet ==
  ASSUME IInv, NEW t \in 1..Len(txs), txs[t].status = "pending", NEW status \in {"succeeded", "reverted"},
         txs' = [txs EXCEPT ![t].status = status]
  PROVE  txs' \in Seq(Tx) /\ Len(txs') = Len(txs) /\ Kept(txs, txs')
<1> DEFINE x == [txs[t] EXCEPT !.status = status]
<1>1. txs \in Seq(Tx) /\ txs[t] \in Tx /\ Len(txs) \in Nat
  BY Typed
<1>2. x \in Tx /\ x.run = txs[t].run /\ x.stage = txs[t].stage
  BY <1>1 DEF Tx
<1>3. txs' = [txs EXCEPT ![t] = x]
  OBVIOUS
<1> HIDE DEF x
<1>4. /\ txs' \in Seq(Tx) /\ Len(txs') = Len(txs)
      /\ \A u \in 1..Len(txs) : txs'[u] = IF u = t THEN x ELSE txs[u]
  BY <1>1, <1>2, <1>3, ExceptSeq
<1>5. QED
  BY <1>1, <1>2, <1>4 DEF Kept

\* The chain moves and nothing else does.
LEMMA ChainMoves ==
  ASSUME IInv, txs' \in Seq(Tx), Len(txs') = Len(txs), Kept(txs, txs'), balance' \in Balance,
         UNCHANGED <<view, flow, calls, storage, runs>>
  PROVE  IInv'
<1>1. UNCHANGED <<tool, mode, mount, views, reviewed, session, runtime, gates, resuming, recovering,
                  calls, pointer, capsules, runs>>
  BY DEF view, flow, fees, storage
<1>2. CallsApart' /\ GatesSound'
  BY <1>1, CallsFewer, GatesSame, Typed
<1>3. QED
  BY <1>1, <1>2, Typed, Step

\* What is covered leaves no balance below nothing.
LEMMA AfterType ==
  ASSUME IInv, NEW t \in 1..Len(txs), Covered(t)
  PROVE  After(t) \in Balance
<1> DEFINE e == ExecutorOf(txs[t])
           of == runs[txs[t].run].tool
           p == [balance.position EXCEPT ![of] = @ + e.position]
           b == After(t)
<1>1. StageOf(txs[t], runs)
  BY DEF IInv, TxsSound, Behind
<1>2. Adds(e) /\ of \in Tool
  <2>1. runs[txs[t].run] \in Run
    BY <1>1, Typed DEF StageOf
  <2>2. Fits(PlanOf[of][runs[txs[t].run].mode]) /\ of \in Tool
    BY <2>1, PlanType DEF Run
  <2>3. QED
    BY <1>1, <2>2 DEF Fits, ExecutorOf, Plan, StageOf
<1>3. /\ balance \in Balance /\ balance.public \in Nat /\ balance.position \in [Tool -> Nat]
  BY Typed DEF Balance
<1>4. b = [public |-> balance.public + e.public, position |-> p]
  BY DEF After
<1> HIDE DEF e, of, b
<1>5. \A u \in Tool : p[u] \in Int
  BY <1>2, <1>3 DEF Adds
<1>6. balance.public + e.public \in Int
  BY <1>2, <1>3 DEF Adds
<1>7. b.public >= 0 /\ \A u \in Tool : b.position[u] >= 0
  BY DEF Covered, b
<1>8. DOMAIN p = Tool
  BY <1>3
<1>9. p = [u \in Tool |-> p[u]]
  BY <1>3
<1> HIDE DEF p
<1>10. \A u \in Tool : p[u] \in Nat
  BY <1>4, <1>5, <1>7
<1>11. balance.public + e.public \in Nat
  BY <1>4, <1>6, <1>7
<1>12. p \in [Tool -> Nat]
  BY <1>9, <1>10
<1>13. b \in Balance
  BY <1>4, <1>11, <1>12 DEF Balance
<1>14. QED
  BY <1>13 DEF b

LEMMA ChainStep == ASSUME IInv, Chain PROVE IInv'
<1>1. balance \in Balance /\ balance.public \in Nat /\ balance.position \in [Tool -> Nat]
  BY Typed DEF Balance
<1>2. ASSUME NEW b \in Balance, Moves(b) PROVE IInv'
  BY <1>2, Typed, ChainMoves DEF Moves
<1>3. CASE Deposit
  <2>1. [balance EXCEPT !.public = balance.public + 1] \in Balance
    BY <1>1 DEF Balance
  <2>2. ASSUME NEW t \in Tool PROVE [balance EXCEPT !.position[t] = balance.position[t] + 1] \in Balance
    <3>1. [balance.position EXCEPT ![t] = balance.position[t] + 1] \in [Tool -> Nat]
      BY <1>1
    <3>2. [balance EXCEPT !.position = [balance.position EXCEPT ![t] = balance.position[t] + 1]] \in Balance
      BY <1>1, <3>1 DEF Balance
    <3>3. QED
      BY <3>2
  <2>3. QED
    BY <1>2, <1>3, <2>1, <2>2 DEF Deposit
<1>4. CASE PositionAction
  <2> DEFINE p == [balance.position EXCEPT !["staking"] = balance.position["staking"] - 1]
  <2>1. tool = "staking" /\ balance.position["staking"] > 0 /\ "staking" \in Tool
    BY <1>4, Typed DEF PositionAction
  <2>2. balance.position["staking"] - 1 \in Nat
    BY <1>1, <2>1
  <2>3. p \in [Tool -> Nat]
    BY <1>1, <2>1, <2>2
  <2>4. Moves([balance EXCEPT !.position = p])
    BY <1>4 DEF PositionAction
  <2> HIDE DEF p
  <2>5. [balance EXCEPT !.position = p] \in Balance
    BY <1>1, <2>3 DEF Balance
  <2>6. QED
    BY <1>2, <2>4, <2>5
<1>5. ASSUME NEW t \in 1..Len(txs), Succeed(t) PROVE IInv'
  <2>1. /\ txs[t].status = "pending" /\ Covered(t) /\ balance' = After(t)
        /\ txs' = [txs EXCEPT ![t].status = "succeeded"]
        /\ UNCHANGED <<view, flow, calls, storage, runs>>
    BY <1>5 DEF Succeed
  <2>2. QED
    BY <2>1, AfterType, StatusSet, ChainMoves
<1>6. ASSUME NEW t \in 1..Len(txs), Revert(t) PROVE IInv'
  <2>1. /\ txs[t].status = "pending" /\ balance' = balance
        /\ txs' = [txs EXCEPT ![t].status = "reverted"]
        /\ UNCHANGED <<view, flow, calls, storage, runs>>
    BY <1>6 DEF Revert
  <2>2. QED
    BY <1>1, <2>1, StatusSet, ChainMoves
<1>7. QED
  BY <1>3, <1>4, <1>5, <1>6 DEF Chain

-----------------------------------------------------------------------------
(* The invariant *)

LEMMA InitIInv == ASSUME Init PROVE IInv
<1>1. runs = <<>> /\ txs = <<>> /\ calls = {} /\ capsules = {} /\ mount = 1
      /\ session = NoSession /\ recovering = NoRecovery
  BY DEF Init
<1>2. TypeInv
  <2>1. balance \in Balance
    BY AgentFlowsAssumption DEF Init, Balance
  <2>2. pointer \in [Tool -> Nat \X Nat]
    BY DEF Init, NoPointer
  <2>3. runs \in Seq(Run) /\ txs \in Seq(Tx) /\ Len(runs) = 0
    BY <1>1
  <2>4. reviewed \in BOOLEAN
    BY Zenon DEF Init
  <2>5. tool \in Tool /\ mode \in Mode /\ runtime \in 0..4 /\ views \in Nat
    BY DEF Init
  <2>6. QED
    BY <1>1, <2>1, <2>2, <2>3, <2>4, <2>5 DEF TypeInv
<1>3. PointersSound
  BY DEF Init, PointersSound
<1>4. CallsApart
  BY <1>1, FS_EmptySet DEF CallsApart
<1>5. TxsSound /\ SessionSound /\ RecoverySound /\ CapsulesSound /\ CallsSound
  BY <1>1 DEF TxsSound, SessionSound, RecoverySound, CapsulesSound, CallsSound
<1>6. GatesSound /\ CancelledSound
  <2>1. gates = <<NoGate>> /\ resuming = {}
    BY DEF Init
  <2>2. NoGate \in GateRecord /\ NoGate.run = 0 /\ Len(runs) = 0
    BY <1>1 DEF NoGate, GateRecord
  <2>3. gates \in Seq(GateRecord) /\ Len(gates) = 1 /\ gates[1] = NoGate
    BY <2>1, <2>2
  <2>4. QED
    BY <1>1, <2>1, <2>2, <2>3 DEF GatesSound, CancelledSound
<1>7. QED
  BY <1>2, <1>3, <1>4, <1>5, <1>6 DEF IInv

LEMMA Stutter == ASSUME IInv, UNCHANGED vars PROVE IInv'
<1>1. UNCHANGED <<view, flow, storage, runs, chain>> /\ calls' = calls
  BY DEF vars
<1>2. CallsApart'
  BY <1>1, CallsFewer
<1>3. QED
  BY <1>1, <1>2, Calling

\* Every step preserves the invariant.
LEMMA NextIInv == ASSUME IInv, Next PROVE IInv'
<1>1. CASE Starting \/ Review \/ Invalidate \/ Continuing \/ Confirming \/ Reset
  BY <1>1, StartingStep, ReviewStep, ContinuingStep, ConfirmingStep, ResetStep
<1>2. ASSUME NEW c \in calls, Executing(c) PROVE IInv'
  BY <1>2, FeeGrantedStep, PreparedStep, RefusedStep, BroadcastStep, ReturnedStep, ExecutedStep,
     MarkThrowsStep DEF Executing
<1>3. ASSUME NEW c \in calls, Reading(c) PROVE IInv'
  BY <1>3, ReceiptReadStep, VerifiedStep, RefreshedStep, UnverifiedStep DEF Reading
<1>4. CASE Recovering \/ Viewing \/ Chain
  BY <1>4, RecoveringStep, ViewingStep, ChainStep
<1>5. QED
  BY <1>1, <1>2, <1>3, <1>4 DEF Next

\* The invariant of the specification: whatever refers to a stage, on a page or in
\* storage, refers to one whose predecessors succeeded.
THEOREM Inductive == Spec => []IInv
<1>1. Init => IInv
  BY InitIInv
<1>2. IInv /\ [Next]_vars => IInv'
  BY NextIInv, Stutter
<1>3. QED
  BY <1>1, <1>2, PTL DEF Spec

\* What succeeded, in the words of the specification.
LEMMA SucceedsIs ==
  ASSUME NEW r, NEW i, Succeeds(r, i, txs)
  PROVE  Succeeded(r, i)
BY DEF Succeeds, Succeeded, TxIds, KeyOf

LEMMA SoundOK ==
  ASSUME NEW s, Sound(s, runs, txs)
  PROVE  SessionOK(s)
BY DEF Sound, Shown, StageOf, Refers, SessionOK, RunIds, TxIds, KeyOf, Plan

\* Sessions, pointers, capsules and the calls in flight refer to runs and
\* transactions there are, one call to a mount, and no public balance is negative.
THEOREM TypeCorrect == Spec => []TypeOK
<1>1. ASSUME IInv PROVE TypeOK
  <2>1. (session = NoSession \/ SessionOK(session)) /\ (recovering = NoRecovery \/ SessionOK(recovering))
    BY <1>1, SoundOK DEF IInv, SessionSound, RecoverySound
  <2>2. \A c \in calls : c.mount \in 1..mount /\ SessionOK(c.session)
    BY <1>1, SoundOK DEF IInv, CallsSound, CallSound
  <2>3. \A c, d \in calls : c.mount = d.mount => c = d
    BY <1>1 DEF IInv, CallsApart
  <2>4. \A t \in Tool : pointer[t] # NoPointer => pointer[t][1] \in RunIds
    BY <1>1 DEF IInv, PointersSound, RunIds
  <2>5. \A k \in capsules : k.tx \in TxIds /\ KeyOf(txs[k.tx]) = KeyOf(k)
    BY <1>1 DEF IInv, CapsulesSound, Refers, TxIds, KeyOf
  <2>6. balance.public \in Nat
    BY <1>1 DEF IInv, TypeInv, Balance
  <2>7. Len(gates) = mount /\ \A m \in 1..mount : gates[m].run \in 0..Len(runs)
    BY <1>1 DEF IInv, GatesSound
  <2>8. QED
    BY <1>1, <2>1, <2>2, <2>3, <2>4, <2>5, <2>6, <2>7 DEF IInv, TypeInv, TypeOK
<1>2. QED
  BY <1>1, Inductive, PTL

\* A stage is only sent when a transaction of the stage before it succeeded, also by a
\* call of an unmounted controller and after a reload (useBorrowController.ts:1790).
THEOREM StagesInOrder == Spec => []StageAfterSuccess
<1>1. ASSUME IInv PROVE StageAfterSuccess
  <2>1. ASSUME NEW t \in TxIds, txs[t].stage > 1 PROVE Succeeded(txs[t].run, txs[t].stage - 1)
    <3>1. txs[t] \in Tx /\ Backed(txs[t].run, txs[t].stage, txs)
      BY <1>1, <2>1, Typed DEF TxIds, IInv, TxsSound, Behind
    <3>2. txs[t].stage \in Nat
      BY <3>1 DEF Tx
    <3>3. txs[t].stage - 1 \in 1..txs[t].stage - 1
      BY <2>1, <3>2
    <3>4. QED
      BY <3>1, <3>3, SucceedsIs DEF Backed
  <2>2. QED
    BY <2>1 DEF StageAfterSuccess
<1>2. QED
  BY <1>1, Inductive, PTL

\* A stage the page shows as done has succeeded, whatever was restored or switched; but
\* the last stage of a private borrow, which the wallet's wait confirms, may have reverted.
THEOREM DoneHasSucceeded == Spec => []DoneSucceeded
<1>1. ASSUME IInv PROVE DoneSucceeded
  <2>1. ASSUME session.run # 0, NEW i \in 1..Len(Plan(session.run)),
               i < session.stage \/ session.status = "completed",
               ~Plan(session.run)[i][2].settled
        PROVE  Succeeded(session.run, i)
    <3>1. Sound(session, runs, txs)
      BY <1>1, <2>1 DEF IInv, SessionSound, NoSession
    <3>2. CASE session.status = "completed"
      BY <2>1, <3>1, <3>2, SucceedsIs DEF Sound, AllDone, Plan
    <3>3. CASE i < session.stage
      <4>1. session.stage \in Nat /\ Len(Plan(session.run)) \in Nat
        <5>1. runs[session.run] \in Run
          BY <1>1, <3>1, Typed DEF Sound, StageOf
        <5>2. QED
          BY <3>1, <5>1, PlanType, SMTT(30) DEF Sound, Shown, Fits, Plan
      <4>2. i \in 1..session.stage - 1
        <5> DEFINE n == Len(Plan(session.run))
        <5>1. i \in 1..n /\ n \in Nat
          BY <4>1
        <5> HIDE DEF n
        <5>2. QED
          BY <3>3, <4>1, <5>1
      <4>3. QED
        BY <3>1, <4>2, SucceedsIs DEF Sound, Backed
    <3>4. QED
      BY <2>1, <3>2, <3>3
  <2>2. QED
    BY <2>1 DEF DoneSucceeded, Done
<1>2. QED
  BY <1>1, Inductive, PTL

-----------------------------------------------------------------------------
(* Whatever is sent twice is sent by two mounts *)

Exec == {"prepare", "wallet", "sent", "bind"}
Under == Exec \cup {"fee"}
Flight == {"sent", "bind"}
Has(x, r, i) == x.run = r /\ x.stage = i
Stale(s, rt) == txs[s.tx].runtime # rt

\* Without a fee policy a run that a cancelled recovery made active may be sent again.
Reusable(r) == ~FeeOn /\ r \in reopened

\* Sessions, recoveries, pointers and calls are of the tool they are for; a call at the
\* fee is of a first stage, and only one for the borrow page may leave the flow when it
\* is refused.
Origin(c, R, m, u) ==
  /\ c.mount = m => c.tool = u
  /\ c.pc = "fee" =>
       c.session.stage = 1 /\ c.session.status = "review" /\ (c.tool # "borrow" => c.clears)
  /\ R[c.session.run].tool = c.tool
Origins ==
  /\ session.run # 0 => runs[session.run].tool = tool
  /\ recovering.run # 0 => recovering.status = "submitted" /\ runs[recovering.run].tool = tool
  /\ \A t \in Tool : pointer[t] # NoPointer => runs[pointer[t][1]].tool = t
  /\ \A c \in calls : Origin(c, runs, mount, tool)
  /\ \A t \in 1..Len(txs) : txs[t].mount <= mount

\* What was resumed had been sent; where a fee is asked none of it is started again.
SentRun(r, T) == \E t \in 1..Len(T) : T[t].run = r
Reopenings ==
  /\ \A r \in reopened : SentRun(r, txs)
  /\ \A o \in resuming : SentRun(o.run, txs)
  /\ FeeOn => \A c \in calls : c.pc \in Exec /\ c.session.stage = 1 => c.session.run \notin reopened

\* A run whose first stage may still be sent, and that was not made active again: the
\* gate would give it, or a call executes it.  Then nothing else knows the run.
Gives(g, r) == g.run = r /\ ~g.started
Owned(r) ==
  /\ r \notin reopened
  /\ Gives(gates[mount], r) \/ \E c \in calls : c.pc \in Under /\ Has(c.session, r, 1)
OneCall(r) ==
  \A c \in calls : c.session.run = r =>
    /\ c.pc \in Under /\ c.session.stage = 1
    /\ Gives(gates[mount], r) => Attached(c)
    /\ \A d \in calls : d.session.run = r => d = c
ByItsCall(r) ==
  \A t \in 1..Len(txs) : txs[t].run = r =>
    \E c \in calls : c.pc \in Flight /\ c.session.run = r /\ c.tx = t
Unknown(r) ==
  /\ recovering.run # r /\ \A o \in resuming : o.run # r
  /\ \A t \in Tool : pointer[t][1] # r
  /\ session.run = r => session.stage = 1 /\ session.status = "review"
Unused(r) == Unknown(r) /\ (\A k \in capsules : k.run # r) /\ OneCall(r) /\ ByItsCall(r)
FirstOwned == \A r \in 1..Len(runs) : Owned(r) => Unused(r)

\* On the staking and lend pages the first stage is only for review under its call.
FirstShown == session.run # 0 /\ session.stage = 1 /\ session.status = "review"
FirstBusy ==
  tool # "borrow" /\ FirstShown => \E c \in calls : Attached(c) /\ c.pc \in Exec /\ c.clears

\* A run that a throwing mark left behind: nothing but its capsule knows of it.
Abandoned(r) ==
  Unknown(r) /\ ~Gives(gates[mount], r) /\ \A c \in calls : c.session.run # r

\* The capsule of a first stage that a second follows is the one the pointer names.
Pointed ==
  \A k \in capsules :
    k.stage = 1 /\ Len(Plan(k.run)) = 2 =>
      Reusable(k.run) \/ Abandoned(k.run) \/ pointer[runs[k.run].tool] = <<k.run, 1>>

\* This mount sent the second stage of the run and the call has returned: what is
\* left of the first stage can no longer be verified.
Sent(r) == \E t \in 1..Len(txs) : Has(txs[t], r, 2) /\ txs[t].mount = mount
Flying(r) == \E c \in calls : Attached(c) /\ c.pc \in Flight /\ Has(c.session, r, 2)
NoCapsule(r) == \A k \in capsules : ~Has(k, r, 1)
PastSession(r) ==
  session.run = r =>
    IF session.stage = 1 THEN session.status = "submitted" /\ (runtime = 0 \/ Stale(session, runtime))
    ELSE session.status # "review"
PastCalls(r) ==
  \A c \in calls : Attached(c) /\ c.pc \in {"receipt", "verify"} /\ Has(c.session, r, 1) =>
    c.pc = "receipt" /\ c.runtime # 0 /\ Stale(c.session, c.runtime)
SecondPast ==
  \A r \in 1..Len(runs) :
    ~Reusable(r) /\ Sent(r) /\ ~Flying(r) => NoCapsule(r) /\ PastSession(r) /\ PastCalls(r)

\* Before a second stage is sent its mount did not send it.
NotYet ==
  \A c \in calls : c.pc \in {"prepare", "wallet"} /\ c.session.stage = 2 =>
    \/ Reusable(c.session.run)
    \/ \A t \in 1..Len(txs) : Has(txs[t], c.session.run, 2) => txs[t].mount # c.mount

Once ==
  /\ Origins /\ Reopenings /\ FirstOwned /\ FirstBusy /\ Pointed /\ SecondPast /\ NotYet
  /\ RepeatedOnlyElsewhere

-----------------------------------------------------------------------------
(* Lemmas about what is left alone *)

\* Transactions stay, though a runtime may forget some; and none is added.
TxsStay ==
  /\ Len(txs) <= Len(txs')
  /\ \A t \in 1..Len(txs) : /\ txs'[t].run = txs[t].run /\ txs'[t].stage = txs[t].stage
                            /\ txs'[t].mount = txs[t].mount
                            /\ txs'[t].runtime \in {txs[t].runtime, 0}
TxsAlike == TxsStay /\ Len(txs') = Len(txs)

\* No run gets known again that was left behind, and none that was reopened is not.
LeftStay ==
  /\ \A r \in 1..Len(runs) : Abandoned(r) => Abandoned(r)'
  /\ reopened \subseteq reopened'

\* What a sound session says in short.
LEMMA StageKnown ==
  ASSUME IInv, NEW s, Sound(s, runs, txs)
  PROVE  /\ s.run \in 1..Len(runs) /\ s.run # 0 /\ s.run \in Nat /\ s.stage \in {1, 2}
         /\ s.stage = 2 => Len(Plan(s.run)) = 2
         /\ s.status \in {"review", "submitted", "completed"}
         /\ s.status = "submitted" => s.tx \in 1..Len(txs)
<1> DEFINE p == Plan(s.run)
<1>1. s \in Shown /\ s.run \in 1..Len(runs) /\ s.stage \in 1..Len(p) /\ runs \in Seq(Run)
  BY DEF Sound, StageOf, Plan, IInv, TypeInv
<1>2. runs[s.run] \in Run
  BY <1>1
<1>3. Fits(p)
  BY <1>2, PlanType DEF Plan
<1> HIDE DEF p
<1>4. s.stage \in {1, 2} /\ (s.stage = 2 => Len(p) = 2)
  BY <1>1, <1>3 DEF Fits
<1>5. s.status = "submitted" => s.tx \in 1..Len(txs)
  BY DEF Sound, Refers
<1>6. QED
  BY <1>1, <1>4, <1>5 DEF p, Shown

LEMMA SessionKnown ==
  ASSUME IInv, session.run # 0 PROVE Sound(session, runs, txs)
BY DEF IInv, SessionSound, NoSession

LEMMA RecoveringKnown ==
  ASSUME IInv, recovering.run # 0 PROVE Sound(recovering, runs, txs)
BY DEF IInv, RecoverySound, NoRecovery

LEMMA HeldKnown ==
  ASSUME IInv, NEW c \in calls PROVE Sound(c.session, runs, txs) /\ c.session.run \in 1..Len(runs)
BY CallKnown, StageKnown DEF CallSound

LEMMA GateKnown ==
  ASSUME IInv
  PROVE  /\ gates \in Seq(GateRecord) /\ Len(gates) = mount /\ mount \in Nat \ {0} /\ mount \in 1..mount
         /\ Len(runs) \in Nat /\ gates[mount].run \in 0..Len(runs)
BY Typed DEF IInv, GatesSound

\* The transaction of a stage of a run is of that run and in its plan.
LEMMA TxKnown ==
  ASSUME IInv, NEW t \in 1..Len(txs)
  PROVE  /\ txs[t].run \in 1..Len(runs) /\ txs[t].stage \in {1, 2} /\ txs[t].mount \in Nat
         /\ txs[t].stage = 2 => Len(Plan(txs[t].run)) = 2
<1> DEFINE p == Plan(txs[t].run)
<1>1. /\ txs[t] \in Tx /\ txs[t].run \in 1..Len(runs) /\ txs[t].stage \in 1..Len(p)
      /\ runs \in Seq(Run) /\ txs \in Seq(Tx)
  <2>1. TypeInv /\ TxsSound
    BY DEF IInv
  <2>2. runs \in Seq(Run) /\ txs \in Seq(Tx)
    BY <2>1 DEF TypeInv
  <2>3. txs[t] \in Tx
    BY <2>2
  <2>4. Behind(txs[t], runs, txs)
    BY <2>1 DEF TxsSound
  <2>5. txs[t].run \in 1..Len(runs) /\ txs[t].stage \in 1..Len(p)
    BY <2>4 DEF Behind, StageOf, Plan
  <2>6. QED
    BY <2>2, <2>3, <2>5
<1>2. runs[txs[t].run] \in Run
  BY <1>1
<1>3. Fits(p)
  BY <1>2, PlanType DEF Plan
<1> HIDE DEF p
<1>4. txs[t].stage \in {1, 2} /\ (txs[t].stage = 2 => Len(p) = 2)
  BY <1>1, <1>3 DEF Fits
<1>5. txs[t].mount \in Nat
  BY <1>1 DEF Tx
<1>6. QED
  BY <1>1, <1>4, <1>5 DEF p

\* A first stage that is executed is of an owned run, unless it may be sent again.
LEMMA ExecOwned ==
  ASSUME IInv, Once, NEW c \in calls, c.pc \in Exec, c.session.stage = 1, ~Reusable(c.session.run)
  PROVE  Owned(c.session.run)
BY DEF Once, Reopenings, Reusable, Owned, Has, Under

\* A transaction of a run whose first stage is owned is of that stage.
LEMMA OwnedFirst ==
  ASSUME IInv, Once, NEW t \in 1..Len(txs), Owned(txs[t].run)
  PROVE  txs[t].stage = 1
<1> DEFINE r == txs[t].run
<1>1. Unused(r)
  BY TxKnown DEF Once, FirstOwned
<1>2. PICK c \in calls : c.pc \in Flight /\ c.session.run = r /\ c.tx = t
  BY <1>1 DEF Unused, ByItsCall
<1>3. c.session.stage = 1
  BY <1>1, <1>2 DEF Unused, OneCall
<1>4. Refers(c.session.run, c.session.stage, c.tx, txs)
  BY <1>2, CallKnown DEF CallSound, Flight
<1>5. QED
  BY <1>2, <1>3, <1>4 DEF Refers

LEMMA SentNotOwned ==
  ASSUME IInv, Once, NEW r, Sent(r) PROVE ~Owned(r)
BY OwnedFirst DEF Sent, Has

\* A session that is past review is not of an owned run.
LEMMA ShownNotOwned ==
  ASSUME IInv, Once, session.run # 0, session.stage # 1 \/ session.status # "review"
  PROVE  ~Owned(session.run)
<1>1. session.run \in 1..Len(runs)
  BY SessionKnown, StageKnown
<1>2. QED
  BY <1>1 DEF Once, FirstOwned, Unused, Unknown

\* Nor is that of a call which is not executing its first stage.
LEMMA HeldNotOwned ==
  ASSUME IInv, Once, NEW c \in calls, c.pc \notin Under \/ c.session.stage # 1
  PROVE  ~Owned(c.session.run)
<1>1. c.session.run \in 1..Len(runs)
  BY HeldKnown
<1>2. QED
  BY <1>1 DEF Once, FirstOwned, Unused, OneCall

\* A recovery is of a run that was sent.
LEMMA RecoveringSent ==
  ASSUME IInv, Once, recovering.run # 0
  PROVE  /\ recovering.run \in 1..Len(runs) /\ ~Owned(recovering.run)
         /\ SentRun(recovering.run, txs) /\ ~Abandoned(recovering.run)
<1>1. Sound(recovering, runs, txs) /\ recovering.run \in 1..Len(runs)
  BY RecoveringKnown, StageKnown
<1>2. ~Owned(recovering.run) /\ ~Abandoned(recovering.run)
  BY <1>1 DEF Once, FirstOwned, Unused, Abandoned, Unknown
<1>3. recovering.status = "submitted"
  BY DEF Once, Origins
<1>4. SentRun(recovering.run, txs)
  BY <1>1, <1>3 DEF Sound, Refers, SentRun
<1>5. QED
  BY <1>1, <1>2, <1>4

LEMMA ReopenedKnown ==
  ASSUME IInv, Once, NEW r \in reopened PROVE r \in 1..Len(runs)
BY TxKnown DEF Once, Reopenings, SentRun

\* A capsule is of a run, and of none that is owned.
LEMMA CapsuleKnown ==
  ASSUME IInv, Once, NEW k \in capsules PROVE k.run \in 1..Len(runs) /\ ~Owned(k.run)
<1>1. k.run \in 1..Len(runs)
  BY TxKnown DEF IInv, CapsulesSound, Refers
<1>2. QED
  BY <1>1 DEF Once, FirstOwned, Unused

LEMMA AlikeSame == ASSUME IInv, txs' = txs PROVE TxsAlike
BY DEF TxsAlike, TxsStay, IInv, TypeInv

LEMMA ForgetAlike ==
  ASSUME IInv, NEW n \in 1..4, Forget(n)
  PROVE  TxsAlike /\ \A t \in 1..Len(txs) : txs'[t].runtime # n
<1>1. txs \in Seq(Tx) /\ \A t \in 1..Len(txs) : txs[t] \in Tx
  BY DEF IInv, TypeInv
<1>2. Len(txs') = Len(txs)
  BY ForgetKeeps
<1>3. ASSUME NEW t \in 1..Len(txs)
      PROVE  /\ txs'[t].run = txs[t].run /\ txs'[t].stage = txs[t].stage /\ txs'[t].mount = txs[t].mount
             /\ txs'[t].runtime \in {txs[t].runtime, 0} /\ txs'[t].runtime # n
  <2>1. txs'[t] = IF txs[t].runtime = n THEN [txs[t] EXCEPT !.runtime = 0] ELSE txs[t]
    BY DEF Forget
  <2>2. txs[t] \in Tx
    BY <1>1
  <2>3. QED
    BY <2>1, <2>2 DEF Tx
<1>4. QED
  BY <1>1, <1>2, <1>3 DEF TxsAlike, TxsStay

\* What is stale stays so.
LEMMA StaleKept ==
  ASSUME IInv, TxsStay, NEW s, Sound(s, runs, txs), s.status = "submitted", NEW rt, rt # 0, Stale(s, rt)
  PROVE  txs'[s.tx].runtime # rt
BY StageKnown DEF Stale, TxsStay

LEMMA SentRunKept ==
  ASSUME IInv, TxsStay, Len(txs') \in Nat, NEW r, SentRun(r, txs) PROVE SentRun(r, txs')
<1>1. PICK t \in 1..Len(txs) : txs[t].run = r
  BY DEF SentRun
<1>2. txs \in Seq(Tx) /\ Len(txs) \in Nat
  BY Typed
<1>4. QED
  BY <1>1, <1>2 DEF TxsStay, SentRun

-----------------------------------------------------------------------------
(* What a step owes each part of the invariant *)

\* Nothing new knows the run.
LEMMA UnknownKept ==
  ASSUME NEW r, r # 0, Unknown(r),
         recovering' \in {recovering, NoRecovery} \/ recovering'.run # r,
         \A o \in resuming' : o \in resuming \/ o.run = recovering.run,
         \A t \in Tool : pointer'[t] \in {pointer[t], NoPointer} \/ pointer'[t][1] # r,
         session' \in {session, NoSession} \/ session'.run # r
  PROVE  Unknown(r)'
<1>1. recovering'.run # r /\ \A o \in resuming' : o.run # r
  BY DEF Unknown, NoRecovery
<1>2. \A t \in Tool : pointer'[t][1] # r
  BY DEF Unknown, NoPointer
<1>3. session'.run = r => session'.stage = 1 /\ session'.status = "review"
  BY DEF Unknown, NoSession
<1>4. QED
  BY <1>1, <1>2, <1>3 DEF Unknown

LEMMA AbandonedKept ==
  ASSUME NEW r, r # 0, Abandoned(r),
         recovering' \in {recovering, NoRecovery} \/ recovering'.run # r,
         \A o \in resuming' : o \in resuming \/ o.run = recovering.run,
         \A t \in Tool : pointer'[t] \in {pointer[t], NoPointer} \/ pointer'[t][1] # r,
         session' \in {session, NoSession} \/ session'.run # r,
         Gives(gates[mount], r)' => Gives(gates[mount], r),
         \A d \in calls' : d \in calls \/ d.session.run # r
  PROVE  Abandoned(r)'
<1>1. Unknown(r)'
  BY UnknownKept DEF Abandoned
<1>2. QED
  BY <1>1 DEF Abandoned

LEMMA UnusedKept ==
  ASSUME IInv, Once, TxsAlike, NEW r \in 1..Len(runs), Owned(r)',
         calls' \subseteq calls, reopened \subseteq reopened',
         Gives(gates[mount], r)' => Gives(gates[mount], r) /\ mount' = mount,
         recovering' \in {recovering, NoRecovery} \/ recovering'.run # r,
         \A o \in resuming' : o \in resuming \/ o.run = recovering.run,
         \A t \in Tool : pointer'[t] \in {pointer[t], NoPointer} \/ pointer'[t][1] # r,
         \A k \in capsules' : k \in capsules \/ k.run # r,
         session' \in {session, NoSession} \/ session'.run # r,
         \A c \in calls \ calls' : c.session.run = r => c.pc \notin Flight
  PROVE  Unused(r)'
<1>1. r # 0 /\ Owned(r)
  BY DEF Owned
<1>2. Unused(r)
  BY <1>1 DEF Once, FirstOwned
<1>3. Unknown(r)'
  BY <1>1, <1>2, UnknownKept DEF Unused
<1>4. \A k \in capsules' : k.run # r
  BY <1>2 DEF Unused
<1>5. OneCall(r)'
  BY <1>2 DEF Unused, OneCall, Attached
<1>6. ByItsCall(r)'
  BY <1>2 DEF Unused, ByItsCall, TxsAlike, TxsStay
<1>7. QED
  BY <1>3, <1>4, <1>5, <1>6 DEF Unused

\* A call goes on with its run: with its stage if it executes one.
LEMMA OneCallGoes ==
  ASSUME IInv, Once, UNCHANGED <<gates, mount, reopened>>, NEW r \in 1..Len(runs), Owned(r)',
         NEW c \in calls, NEW d, Goes(c, d),
         d.mount = c.mount, d.session.run = c.session.run,
         \/ c.pc \notin Under /\ d.pc \notin Under
         \/ c.pc \in Under /\ d.pc \in Under /\ d.session = c.session
  PROVE  Owned(r) /\ Unused(r) /\ OneCall(r)' /\ (c.pc \notin Under => c.session.run # r)
<1>1. calls' = (calls \ {c}) \cup {d}
  BY DEF Goes
<1>2. Owned(r)
  BY <1>1 DEF Owned, Has
<1>3. Unused(r)
  BY <1>2 DEF Once, FirstOwned
<1>4. c.pc \notin Under => c.session.run # r
  BY <1>2, HeldNotOwned
<1>5. ASSUME NEW e \in calls', e.session.run = r
      PROVE  \E b \in calls : /\ b.session.run = r /\ e.mount = b.mount
                              /\ (b = c => e = d) /\ (b # c => e = b)
                              /\ e.pc \in Under /\ e.session.stage = 1
  <2>1. CASE e = d
    <3>1. c.session.run = r /\ c.pc \in Under
      BY <1>4, <1>5, <2>1
    <3>2. c.session.stage = 1
      BY <1>3, <3>1 DEF Unused, OneCall
    <3>3. QED
      BY <2>1, <3>1, <3>2
  <2>2. CASE e # d
    <3>1. e \in calls /\ e # c
      BY <1>1, <2>2
    <3>2. e.pc \in Under /\ e.session.stage = 1
      BY <1>3, <1>5, <3>1 DEF Unused, OneCall
    <3>3. QED
      BY <1>5, <3>1, <3>2
  <2>3. QED
    BY <2>1, <2>2
<1>6. OneCall(r)'
  BY <1>3, <1>5 DEF Unused, OneCall, Attached
<1>7. QED
  BY <1>2, <1>3, <1>4, <1>6

LEMMA OwnedGoes ==
  ASSUME IInv, Once, TxsAlike, UNCHANGED <<gates, resuming, reopened, recovering, mount, runs>>,
         capsules' \subseteq capsules, \A t \in Tool : pointer'[t] \in {pointer[t], NoPointer},
         NEW c \in calls, NEW d, Goes(c, d),
         d.mount = c.mount, d.session.run = c.session.run, d.tx = c.tx,
         \/ c.pc \notin Under /\ d.pc \notin Under
         \/ /\ c.pc \in Under /\ d.pc \in Under /\ d.session = c.session
            /\ c.pc \in Flight => d.pc \in Flight,
         \/ session' = session
         \/ session'.run = c.session.run /\ c.pc \notin Under
         \/ session' = c.session /\ session'.stage = 1 /\ session'.status = "review"
  PROVE  FirstOwned'
<1>1. ASSUME NEW r \in 1..Len(runs), Owned(r)' PROVE Unused(r)'
  <2>1. calls' = (calls \ {c}) \cup {d}
    BY DEF Goes
  <2>2. Unused(r) /\ OneCall(r)' /\ (c.pc \notin Under => c.session.run # r)
    BY <1>1, OneCallGoes
  <2>3. ByItsCall(r)'
    <3>1. ASSUME NEW t \in 1..Len(txs), txs[t].run = r
          PROVE  \E e \in calls' : e.pc \in Flight /\ e.session.run = r /\ e.tx = t
      <4>1. PICK e \in calls : e.pc \in Flight /\ e.session.run = r /\ e.tx = t
        BY <2>2, <3>1 DEF Unused, ByItsCall
      <4>2. CASE e = c
        BY <2>1, <4>1, <4>2 DEF Flight, Under, Exec
      <4>3. CASE e # c
        BY <2>1, <4>1, <4>3
      <4>4. QED
        BY <4>2, <4>3
    <3>2. QED
      BY <3>1 DEF ByItsCall, TxsAlike, TxsStay
  <2>4. Unknown(r)'
    <3>1. recovering'.run # r /\ (\A o \in resuming' : o.run # r) /\ \A t \in Tool : pointer'[t][1] # r
      BY <2>2 DEF Unused, Unknown, NoPointer
    <3>2. session'.run = r => session'.stage = 1 /\ session'.status = "review"
      BY <2>2 DEF Unused, Unknown
    <3>3. QED
      BY <3>1, <3>2 DEF Unknown
  <2>5. QED
    BY <2>2, <2>3, <2>4 DEF Unused
<1>2. QED
  BY <1>1 DEF FirstOwned

\* What was sent was sent before, and its call has returned before, unless it just did.
LEMMA SentKept ==
  ASSUME IInv, Once, TxsAlike, mount' = mount, NEW r \in 1..Len(runs), Sent(r)', ~Flying(r)',
         reopened \subseteq reopened', ~Reusable(r)', Flying(r) => Flying(r)'
  PROVE  /\ Sent(r) /\ ~Reusable(r) /\ ~Flying(r)
         /\ NoCapsule(r) /\ PastSession(r) /\ PastCalls(r)
<1>1. Sent(r) /\ ~Reusable(r)
  BY DEF Sent, Has, TxsAlike, TxsStay, Reusable
<1>2. QED
  BY <1>1 DEF Once, SecondPast

LEMMA PastSessionKept ==
  ASSUME IInv, TxsStay, NEW r, r # 0, PastSession(r),
         \/ session' = NoSession
         \/ session' = session /\ runtime' \in {runtime, 0}
         \/ session' = session /\ \A t \in 1..Len(txs) : txs'[t].runtime # runtime'
  PROVE  PastSession(r)'
<1>1. CASE session' = NoSession
  BY <1>1 DEF PastSession, NoSession
<1>2. CASE session' = session /\ session.run = r
  <2>1. Sound(session, runs, txs)
    BY <1>2, SessionKnown
  <2>2. CASE session.stage = 1
    <3>1. session.status = "submitted" /\ (runtime = 0 \/ Stale(session, runtime))
      BY <1>2, <2>2 DEF PastSession
    <3>2. session.tx \in 1..Len(txs)
      BY <2>1, <3>1, StageKnown
    <3>3. runtime' = 0 \/ txs'[session.tx].runtime # runtime'
      <4>1. runtime # 0 /\ Stale(session, runtime) => txs'[session.tx].runtime # runtime
        BY <2>1, <3>1, StaleKept
      <4>2. QED
        <5>1. ASSUME runtime' # 0, session' # NoSession PROVE txs'[session.tx].runtime # runtime'
          BY <3>1, <3>2, <4>1, <5>1
        <5>2. session' # NoSession
          BY <1>2, <2>1, StageKnown DEF NoSession
        <5>3. QED
          BY <5>1, <5>2
    <3>4. QED
      BY <1>2, <2>2, <3>1, <3>3 DEF PastSession, Stale
  <2>3. CASE session.stage # 1
    BY <1>2, <2>3 DEF PastSession
  <2>4. QED
    BY <2>2, <2>3
<1>3. CASE session' = session /\ session.run # r
  BY <1>3 DEF PastSession
<1>4. QED
  BY <1>1, <1>2, <1>3

LEMMA PastCallsKept ==
  ASSUME IInv, TxsStay, mount' = mount, NEW r, PastCalls(r),
         \A d \in calls' : d \in calls \/ d.pc \notin {"receipt", "verify"} \/ ~Has(d.session, r, 1)
  PROVE  PastCalls(r)'
<1>1. ASSUME NEW c \in calls, Attached(c), c.pc \in {"receipt", "verify"}, Has(c.session, r, 1)
      PROVE  c.pc = "receipt" /\ c.runtime # 0 /\ txs'[c.session.tx].runtime # c.runtime
  <2>1. c.pc = "receipt" /\ c.runtime # 0 /\ Stale(c.session, c.runtime)
    BY <1>1 DEF PastCalls
  <2>2. Sound(c.session, runs, txs) /\ c.session.status = "submitted"
    BY <2>1, HeldKnown, CallKnown DEF CallSound
  <2>3. QED
    BY <2>1, <2>2, StaleKept
<1>2. QED
  BY <1>1 DEF PastCalls, Attached, Stale

LEMMA RepeatedKept ==
  ASSUME RepeatedOnlyElsewhere, TxsAlike, reopened \subseteq reopened' PROVE RepeatedOnlyElsewhere'
BY DEF RepeatedOnlyElsewhere, TxsAlike, TxsStay, TxIds, KeyOf

LEMMA NotYetKept ==
  ASSUME IInv, NotYet, TxsAlike, reopened \subseteq reopened',
         \A d \in calls' : d \in calls \/ d.pc \notin {"prepare", "wallet"} \/ d.session.stage # 2
           \/ \E c \in calls : c.pc \in {"prepare", "wallet"} /\ c.session = d.session /\ c.mount = d.mount
  PROVE  NotYet'
<1>1. \A r : Reusable(r) => Reusable(r)'
  BY DEF Reusable
<1>2. QED
  BY <1>1 DEF NotYet, TxsAlike, TxsStay, Has

LEMMA OriginsKept ==
  ASSUME IInv, Origins, TxsAlike, UNCHANGED <<runs, mount, tool>>,
         session' \in {session, NoSession} \/ runs[session'.run].tool = tool,
         recovering' \in {recovering, NoRecovery},
         \A t \in Tool : pointer'[t] \in {pointer[t], NoPointer} \/ runs[pointer'[t][1]].tool = t,
         \A d \in calls' : d \in calls \/ Origin(d, runs, mount, tool)
  PROVE  Origins'
<1>1. (session.run # 0 => runs[session.run].tool = tool)'
  BY DEF Origins, NoSession
<1>2. (recovering.run # 0 => recovering.status = "submitted" /\ runs[recovering.run].tool = tool)'
  BY DEF Origins, NoRecovery
<1>3. ASSUME NEW t \in Tool, pointer'[t] # NoPointer PROVE runs[pointer'[t][1]].tool = t
  BY <1>3 DEF Origins
<1>4. \A t \in 1..Len(txs) : txs'[t].mount <= mount
  BY DEF Origins, TxsAlike, TxsStay
<1>5. \A d \in calls' : Origin(d, runs, mount, tool)
  BY DEF Origins
<1>6. QED
  BY <1>1, <1>2, <1>3, <1>4, <1>5 DEF Origins, TxsAlike

LEMMA ReopeningsKept ==
  ASSUME IInv, Once, TxsStay, Len(txs') \in Nat, reopened' = reopened,
         \A o \in resuming' : o \in resuming \/ (recovering.run # 0 /\ o.run = recovering.run),
         \A d \in calls' : d \in calls \/ d.pc \notin Exec \/ d.session.stage # 1
           \/ (FeeOn => d.session.run \notin reopened)
           \/ \E c \in calls : c.pc \in Exec /\ c.session = d.session
  PROVE  Reopenings'
<1>1. \A r \in reopened : SentRun(r, txs')
  BY SentRunKept DEF Once, Reopenings
<1>2. \A o \in resuming' : SentRun(o.run, txs')
  <2>1. \A o \in resuming : SentRun(o.run, txs')
    BY SentRunKept DEF Once, Reopenings
  <2>2. recovering.run # 0 => SentRun(recovering.run, txs')
    BY SentRunKept, RecoveringSent
  <2>3. QED
    BY <2>1, <2>2
<1>3. FeeOn => \A c \in calls' : c.pc \in Exec /\ c.session.stage = 1 => c.session.run \notin reopened
  BY DEF Once, Reopenings
<1>4. QED
  BY <1>1, <1>2, <1>3 DEF Reopenings

LEMMA AlikeLen == ASSUME IInv, TxsAlike PROVE TxsStay /\ Len(txs') \in Nat
BY Typed DEF TxsAlike

\* The capsules kept are among those of C without the one of the pointer replaced.
LEMMA PointedCleared ==
  ASSUME IInv, Once, runs' = runs, LeftStay, NEW t \in Tool, NEW C, ClearPointer(t, C),
         \A k \in C : k \in capsules \/ k.stage # 1 \/ Len(Plan(k.run)) # 2
  PROVE  Pointed'
<1>1. ASSUME NEW k \in capsules', k.stage = 1, Len(Plan(k.run)) = 2,
             ~Reusable(k.run)', ~Abandoned(k.run)'
      PROVE  pointer'[runs[k.run].tool] = <<k.run, 1>>
  <2>1. k \in capsules /\ KeyOf(k) # pointer[t]
    BY <1>1 DEF ClearPointer, RemoveCapsule
  <2>2. pointer[runs[k.run].tool] = <<k.run, 1>>
    BY <1>1, <2>1, CapsuleKnown DEF Once, Pointed, LeftStay, Reusable
  <2>3. runs[k.run].tool # t
    BY <1>1, <2>1, <2>2 DEF KeyOf
  <2>4. runs[k.run] \in Run
    BY <2>1, CapsuleKnown, Typed
  <2>5. QED
    BY <2>2, <2>3, <2>4 DEF ClearPointer, IInv, TypeInv, Run
<1>2. QED
  BY <1>1 DEF Pointed, Plan

LEMMA PointedSaved ==
  ASSUME IInv, Once, runs' = runs, LeftStay, NEW t \in Tool, NEW key, NEW C, SavePointer(t, key, C),
         \A k \in C : k \in capsules \/ (KeyOf(k) = key /\ runs[k.run].tool = t)
  PROVE  Pointed'
<1>1. ASSUME NEW k \in capsules', k.stage = 1, Len(Plan(k.run)) = 2,
             ~Reusable(k.run)', ~Abandoned(k.run)'
      PROVE  pointer'[runs[k.run].tool] = <<k.run, 1>>
  <2>1. k \in C /\ (pointer[t] # key => KeyOf(k) # pointer[t])
    BY <1>1 DEF SavePointer, RemoveCapsule
  <2>2. pointer \in [Tool -> Nat \X Nat] /\ pointer' = [pointer EXCEPT ![t] = key]
    BY DEF SavePointer, IInv, TypeInv
  <2>3. CASE KeyOf(k) = key /\ runs[k.run].tool = t
    BY <1>1, <2>2, <2>3 DEF KeyOf
  <2>4. CASE k \in capsules /\ ~(KeyOf(k) = key /\ runs[k.run].tool = t)
    <3>1. pointer[runs[k.run].tool] = KeyOf(k)
      BY <1>1, <2>4, CapsuleKnown DEF Once, Pointed, KeyOf, LeftStay, Reusable
    <3>2. runs[k.run].tool # t
      BY <2>1, <2>4, <3>1
    <3>3. runs[k.run].tool \in Tool
      <4>1. runs[k.run] \in Run
        BY <2>4, CapsuleKnown, Typed
      <4>2. QED
        BY <4>1 DEF Run
    <3>4. QED
      BY <1>1, <2>2, <3>1, <3>2, <3>3 DEF KeyOf
  <2>5. QED
    BY <2>1, <2>3, <2>4
<1>2. QED
  BY <1>1 DEF Pointed, Plan

LEMMA PointersFewer ==
  ASSUME IInv, UNCHANGED <<pointer, capsules>> \/ \E t \in Tool : ClearPointer(t, capsules)
  PROVE  /\ capsules' \subseteq capsules
         /\ \A t \in Tool : pointer'[t] \in {pointer[t], NoPointer}
BY DEF ClearPointer, RemoveCapsule, IInv, TypeInv

LEMMA PointedKept ==
  ASSUME IInv, Once, runs' = runs, LeftStay,
         UNCHANGED <<pointer, capsules>> \/ \E t \in Tool : ClearPointer(t, capsules)
  PROVE  Pointed'
<1>1. CASE UNCHANGED <<pointer, capsules>>
  <2>1. ASSUME NEW k \in capsules, k.stage = 1, Len(Plan(k.run)) = 2,
               ~Reusable(k.run)', ~Abandoned(k.run)'
        PROVE  pointer[runs[k.run].tool] = <<k.run, 1>>
    BY <2>1, CapsuleKnown DEF Once, Pointed, LeftStay, Reusable
  <2>2. QED
    BY <1>1, <2>1 DEF Pointed, Plan
<1>2. ASSUME NEW t \in Tool, ClearPointer(t, capsules) PROVE Pointed'
  BY <1>2, PointedCleared
<1>3. QED
  BY <1>1, <1>2

-----------------------------------------------------------------------------
(* Steps after which less is under way, and steps of a call *)

\* What a mount whose second stage was sent before keeps.
LEMMA SecondKept ==
  ASSUME IInv, Once, TxsAlike, UNCHANGED <<mount, runs>>, reopened \subseteq reopened',
         capsules' \subseteq capsules,
         \/ session' = NoSession
         \/ session' = session /\ runtime' \in {runtime, 0}
         \/ session' = session /\ \A t \in 1..Len(txs) : txs'[t].runtime # runtime',
         \A r \in 1..Len(runs) : Flying(r) => Flying(r)',
         \A d \in calls' : d \in calls \/ d.pc \notin {"receipt", "verify"}
  PROVE  SecondPast'
<1>1. ASSUME NEW r \in 1..Len(runs), Sent(r)', ~Flying(r)', ~Reusable(r)'
      PROVE  (NoCapsule(r) /\ PastSession(r) /\ PastCalls(r))'
  <2>1. NoCapsule(r) /\ PastSession(r) /\ PastCalls(r)
    BY <1>1, SentKept
  <2>2. NoCapsule(r)' /\ PastCalls(r)'
    BY <2>1, PastCallsKept DEF NoCapsule, TxsAlike
  <2>3. PastSession(r)'
    BY <2>1, PastSessionKept DEF TxsAlike
  <2>4. QED
    BY <2>2, <2>3
<1>2. QED
  BY <1>1 DEF SecondPast

LEMMA LessOnce ==
  ASSUME IInv, Once, TxsAlike, UNCHANGED <<tool, mount, gates, reopened, runs>>,
         resuming' \subseteq resuming, calls' \subseteq calls,
         recovering' \in {recovering, NoRecovery},
         session' = NoSession \/ UNCHANGED <<session, runtime>>,
         UNCHANGED <<pointer, capsules>> \/ \E t \in Tool : ClearPointer(t, capsules),
         \A c \in calls \ calls' :
           c.pc \notin Flight /\ (session' = NoSession \/ ~(Attached(c) /\ c.pc \in Exec /\ c.clears))
  PROVE  Once'
<1>1. /\ capsules' \subseteq capsules
      /\ \A t \in Tool : pointer'[t] \in {pointer[t], NoPointer}
  BY PointersFewer
<1>2. LeftStay
  <2>1. ASSUME NEW r \in 1..Len(runs), Abandoned(r) PROVE Abandoned(r)'
    <3>1. r # 0
      OBVIOUS
    <3>2. Gives(gates[mount], r)' => Gives(gates[mount], r)
      BY DEF Gives
    <3>3. QED
      BY <1>1, <2>1, <3>1, <3>2, AbandonedKept
  <2>2. QED
    BY <2>1 DEF LeftStay
<1>3. Pointed'
  BY <1>2, PointedKept
<1>4. Origins' /\ Reopenings'
  BY <1>1, OriginsKept, ReopeningsKept, AlikeLen DEF Once
<1>5. FirstOwned'
  <2>1. ASSUME NEW r \in 1..Len(runs), Owned(r)' PROVE Unused(r)'
    BY <1>1, <2>1, UnusedKept DEF Gives
  <2>2. QED
    BY <2>1 DEF FirstOwned
<1>6. FirstBusy'
  BY DEF Once, FirstBusy, FirstShown, NoSession, Attached
<1>7. SecondPast'
  <2>1. \A r \in 1..Len(runs) : Flying(r) => Flying(r)'
    BY DEF Flying, Attached
  <2>2. QED
    BY <1>1, <2>1, SecondKept
<1>8. NotYet' /\ RepeatedOnlyElsewhere'
  BY NotYetKept, RepeatedKept DEF Once
<1>9. QED
  BY <1>3, <1>4, <1>5, <1>6, <1>7, <1>8 DEF Once

\* A first stage that another follows is verified with a snapshot or a capsule.
LEMMA FirstOfTwo ==
  ASSUME NEW c, runs[c.session.run] \in Run, runs[c.session.run].tool = c.tool,
         Len(Plan(c.session.run)) = 2, c.session.stage = 1, Verifiable(c)
  PROVE  Snapshot(c) \/ Capsule(c)
<1> DEFINE r == runs[c.session.run]
<1>1. r.tool \in {"borrow", "staking", "lend"} /\ r.mode \in {"normal", "shield", "unshield"}
  BY AgentFlowsAssumption DEF Run, PlanOf
<1>2. Plan(c.session.run) = PlanOf[r.tool][r.mode]
  BY DEF Plan
<1> HIDE DEF r
<1>3. CASE r.tool = "borrow"
  <2>1. Plan(c.session.run)[1][1] \in {"borrow", "unshield"}
    BY <1>1, <1>2, <1>3 DEF PlanOf, BorrowPlan
  <2>2. QED
    BY <1>3, <2>1 DEF r, Verifiable, BorrowVerifiable, ActionOf
<1>4. CASE r.tool = "staking"
  <2>1. r.mode # "shield"
    BY <1>2, <1>4 DEF PlanOf, StakingPlan
  <2>2. QED
    BY <1>4, <2>1 DEF r, Verifiable, StakingVerifiable
<1>5. CASE r.tool = "lend"
  <2>1. r.mode # "shield"
    BY <1>2, <1>5 DEF PlanOf, LendPlan
  <2>2. QED
    BY <1>5, <2>1 DEF r, Verifiable, LendVerifiable
<1>6. QED
  BY <1>1, <1>3, <1>4, <1>5

\* A call goes on and writes nothing.
LEMMA MovesOnce ==
  ASSUME IInv, Once, UNCHANGED <<view, flow, storage, runs, chain>>, NEW c \in calls, NEW d, Goes(c, d),
         <<c.pc, d.pc>> \in {<<"prepare", "wallet">>, <<"sent", "bind">>, <<"receipt", "verify">>},
         d.mount = c.mount, d.tool = c.tool, d.session = c.session, d.tx = c.tx, d.clears = c.clears,
         c.pc = "receipt" => Verifiable(c)
  PROVE  Once'
<1>1. /\ calls' = (calls \ {c}) \cup {d} /\ TxsAlike
      /\ UNCHANGED <<tool, mount, session, runtime, gates, resuming, reopened, recovering, pointer,
                     capsules, runs, txs>>
  BY AlikeSame DEF Goes, view, flow, fees, storage, chain
<1>9. LeftStay
  <2>1. ASSUME NEW r \in 1..Len(runs), Abandoned(r) PROVE Abandoned(r)'
    BY <1>1, <2>1 DEF Abandoned, Unknown
  <2>2. QED
    BY <1>1, <2>1 DEF LeftStay
<1>2. Origins' /\ Reopenings'
  <2>1. Origin(c, runs, mount, tool)
    BY DEF Once, Origins
  <2>2. Origin(d, runs, mount, tool)
    BY <2>1 DEF Origin
  <2>3. \A e \in calls' : \/ e \in calls \/ e.pc \notin Exec \/ e.session.stage # 1
                         \/ \E b \in calls : b.pc \in Exec /\ b.session = e.session
    BY <1>1 DEF Exec
  <2>4. QED
    BY <1>1, <2>2, <2>3, OriginsKept, ReopeningsKept, AlikeLen DEF Once
<1>3. FirstOwned'
  BY <1>1, OwnedGoes DEF Under, Exec, Flight
<1>4. FirstBusy'
  BY <1>1 DEF Once, FirstBusy, FirstShown, Attached, Exec
<1>5. Pointed'
  BY <1>1, <1>9, PointedKept
<1>6. SecondPast'
  <2>1. ASSUME NEW r \in 1..Len(runs), Sent(r)', ~Flying(r)', ~Reusable(r)'
        PROVE  (NoCapsule(r) /\ PastSession(r) /\ PastCalls(r))'
    <3>1. Flying(r) => Flying(r)'
      BY <1>1 DEF Flying, Attached, Flight
    <3>2. Sent(r) /\ NoCapsule(r) /\ PastSession(r) /\ PastCalls(r)
      BY <1>1, <2>1, <3>1, SentKept
    <3>3. NoCapsule(r)' /\ PastSession(r)'
      BY <1>1, <3>2, PastSessionKept DEF NoCapsule, TxsAlike
    <3>4. ASSUME c.pc = "receipt", Attached(c), Has(c.session, r, 1) PROVE FALSE
      <4>1. Stale(c.session, c.runtime)
        BY <3>2, <3>4 DEF PastCalls
      <4>2. ~Snapshot(c) /\ ~Capsule(c)
        BY <3>2, <3>4, <4>1 DEF Stale, Snapshot, Capsule, NoCapsule, Has, KeyOf
      <4>3. runs[c.session.run] \in Run /\ runs[c.session.run].tool = c.tool
        BY <3>4, Typed DEF Once, Origins, Origin, Has
      <4>4. Len(Plan(r)) = 2
        BY <3>2, TxKnown DEF Sent, Has
      <4>5. QED
        BY <3>4, <4>2, <4>3, <4>4, FirstOfTwo DEF Has
    <3>5. PastCalls(r)'
      <4>1. ASSUME d.pc \in {"receipt", "verify"}, Has(d.session, r, 1), d.mount = mount PROVE FALSE
        BY <3>4, <4>1 DEF Attached
      <4>2. PastCalls(r)
        BY <3>2
      <4>3. QED
        BY <1>1, <4>1, <4>2 DEF PastCalls, Attached, Stale
    <3>6. QED
      BY <3>3, <3>5
  <2>2. QED
    BY <1>1, <2>1 DEF SecondPast
<1>7. NotYet' /\ RepeatedOnlyElsewhere'
  <2>1. \A e \in calls' : e \in calls \/ e.pc \notin {"prepare", "wallet"} \/ e.session.stage # 2
          \/ \E b \in calls : b.pc \in {"prepare", "wallet"} /\ b.session = e.session /\ b.mount = e.mount
    BY <1>1
  <2>2. QED
    BY <1>1, <2>1, NotYetKept, RepeatedKept DEF Once
<1>8. QED
  BY <1>2, <1>3, <1>4, <1>5, <1>6, <1>7 DEF Once

\* A press: a call for what the page shows.
LEMMA PressOnce ==
  ASSUME IInv, Once, ~Busy, TxsAlike,
         UNCHANGED <<tool, mount, session, gates, resuming, reopened, recovering, pointer, capsules, runs>>,
         runtime' = runtime \/ \A t \in 1..Len(txs) : txs'[t].runtime # runtime',
         NEW d, calls' = calls \cup {d}, d.mount = mount, d.tool = tool,
         session.run # 0, d.session = session,
         \/ d.pc = "prepare" /\ session.status = "review" /\ session.stage = 2
         \/ d.pc = "receipt" /\ session.status = "submitted" /\ d.runtime = runtime
            /\ runtime # 0 /\ runtime' = runtime
  PROVE  Once'
<1>1. \A c \in calls : ~Attached(c)
  BY DEF Busy, Attached
<1>2. Origins' /\ Reopenings'
  <2>1. Origin(d, runs, mount, tool)
    BY DEF Once, Origins, Origin
  <2>2. d.pc \notin Exec \/ d.session.stage # 1
    BY DEF Exec
  <2>3. QED
    BY <2>1, <2>2, OriginsKept, ReopeningsKept, AlikeLen DEF Once
<1>3. ~Owned(session.run) /\ ~Abandoned(session.run)
  BY ShownNotOwned DEF Abandoned, Unknown
<1>4. FirstOwned'
  <2>1. ASSUME NEW r \in 1..Len(runs), Owned(r)' PROVE Unused(r)'
    <3>1. Owned(r)
      BY <2>1 DEF Owned, Has, Under, Exec
    <3>2. d.session.run # r
      BY <1>3, <3>1
    <3>3. Unused(r)
      BY <3>1 DEF Once, FirstOwned
    <3>4. OneCall(r)'
      BY <3>2, <3>3 DEF Unused, OneCall, Attached
    <3>5. ByItsCall(r)'
      BY <3>3 DEF Unused, ByItsCall, TxsAlike, TxsStay
    <3>6. QED
      BY <3>3, <3>4, <3>5 DEF Unused, Unknown
  <2>2. QED
    BY <2>1 DEF FirstOwned
<1>5. FirstBusy'
  BY DEF Once, FirstBusy, FirstShown, Attached
<1>6. Pointed'
  <2>1. ASSUME NEW r \in 1..Len(runs), Abandoned(r) PROVE Abandoned(r)'
    BY <1>3, <2>1 DEF Abandoned, Unknown
  <2>2. LeftStay
    BY <2>1 DEF LeftStay
  <2>3. QED
    BY <2>2, PointedKept
<1>7. SecondPast'
  <2>1. ASSUME NEW r \in 1..Len(runs), Sent(r)', ~Flying(r)', ~Reusable(r)'
        PROVE  (NoCapsule(r) /\ PastSession(r) /\ PastCalls(r))'
    <3>1. Flying(r) => Flying(r)'
      BY DEF Flying, Attached
    <3>2. NoCapsule(r) /\ PastSession(r) /\ PastCalls(r)
      BY <2>1, <3>1, SentKept
    <3>3. NoCapsule(r)' /\ PastSession(r)'
      BY <3>2, PastSessionKept DEF NoCapsule, TxsAlike
    <3>4. ASSUME d.pc \in {"receipt", "verify"}, Has(d.session, r, 1)
          PROVE  d.pc = "receipt" /\ d.runtime # 0 /\ txs'[d.session.tx].runtime # d.runtime
      <4>1. /\ d.pc = "receipt" /\ d.session = session /\ session.status = "submitted"
            /\ d.runtime = runtime /\ runtime # 0 /\ session.run = r /\ session.stage = 1 /\ session.run # 0
        BY <3>4 DEF Has
      <4>2. Stale(session, runtime)
        BY <3>2, <4>1 DEF PastSession
      <4>3. QED
        BY <4>1, <4>2, SessionKnown, StaleKept DEF TxsAlike
    <3>5. PastCalls(r)'
      BY <1>1, <3>4 DEF PastCalls, Attached, Stale
    <3>6. QED
      BY <3>3, <3>5
  <2>2. QED
    BY <2>1 DEF SecondPast
<1>8. NotYet'
  <2>1. ASSUME d.pc = "prepare", ~Reusable(session.run), NEW t \in 1..Len(txs), Has(txs[t], session.run, 2)
        PROVE  txs[t].mount # mount
    <3>1. SUFFICES ASSUME txs[t].mount = mount PROVE FALSE
      OBVIOUS
    <3>2. session.run \in 1..Len(runs) /\ Sent(session.run) /\ ~Flying(session.run)
      BY <1>1, <2>1, <3>1, TxKnown DEF Sent, Has, Flying
    <3>3. PastSession(session.run)
      BY <2>1, <3>2 DEF Once, SecondPast
    <3>4. QED
      BY <2>1, <3>3 DEF PastSession
  <2>2. ASSUME NEW c \in calls', c.pc \in {"prepare", "wallet"}, c.session.stage = 2,
               ~Reusable(c.session.run), NEW t \in 1..Len(txs), Has(txs[t], c.session.run, 2)
        PROVE  txs[t].mount # c.mount
    <3>1. CASE c \in calls
      BY <2>2, <3>1 DEF Once, NotYet
    <3>2. CASE c = d
      <4>1. c.pc = "prepare" /\ c.session = session
        BY <2>2, <3>2
      <4>2. QED
        BY <2>1, <2>2, <3>2, <4>1
    <3>3. QED
      BY <3>1, <3>2
  <2>3. QED
    BY <2>2 DEF NotYet, TxsAlike, TxsStay, Has, Reusable
<1>9. RepeatedOnlyElsewhere'
  BY RepeatedKept DEF Once
<1>10. QED
  BY <1>2, <1>4, <1>5, <1>6, <1>7, <1>8, <1>9 DEF Once

-----------------------------------------------------------------------------
(* The actions *)

\* The run a start is of: one that its gate gives, or a new one.
LEMMA RunKnown ==
  ASSUME IInv, Once, ~Busy, NEW r \in {gates[mount].run, Len(runs) + 1}, Active(r)
  PROVE  /\ Len(runs') \in Nat /\ Len(runs) \in Nat /\ r \in 1..Len(runs') /\ runs'[r].tool = tool
         /\ \A x \in 1..Len(runs) : x \in 1..Len(runs') /\ runs'[x] = runs[x]
         /\ \A x \in 1..Len(runs') : x = r \/ x \in 1..Len(runs)
         /\ r \in 1..Len(runs) => Gives(gates[mount], r)
         /\ r \in reopened \/ (Unknown(r) /\ (\A k \in capsules : k.run # r)
                                /\ (\A c \in calls : c.session.run # r)
                                /\ \A t \in 1..Len(txs) : txs[t].run # r)
<1> DEFINE new == [tool |-> tool, mode |-> mode]
<1>1. /\ runs \in Seq(Run) /\ Len(runs) \in Nat /\ gates[mount].run \in 0..Len(runs)
      /\ tool \in Tool /\ mode \in Mode
  BY GateKnown DEF IInv, TypeInv
<1>2. new \in Run /\ new.tool = tool
  BY <1>1 DEF Run
<1>3. CASE /\ r = gates[mount].run /\ r # 0 /\ ~gates[mount].started /\ runs[r] = new /\ runs' = runs
  <2>1. r \in 1..Len(runs) /\ Gives(gates[mount], r)
    BY <1>1, <1>3 DEF Gives
  <2>2. ASSUME r \notin reopened
        PROVE  /\ Unknown(r) /\ (\A k \in capsules : k.run # r) /\ (\A c \in calls : c.session.run # r)
               /\ \A t \in 1..Len(txs) : txs[t].run # r
    <3>1. Unused(r)
      BY <2>1, <2>2 DEF Owned, Once, FirstOwned
    <3>2. \A c \in calls : c.session.run # r
      BY <2>1, <3>1 DEF Unused, OneCall, Busy, Attached
    <3>3. QED
      BY <3>1, <3>2 DEF Unused, ByItsCall
  <2>3. QED
    BY <1>1, <1>2, <1>3, <2>1, <2>2
<1>4. CASE r = Len(runs) + 1 /\ runs' = Append(runs, new)
  <2> HIDE DEF new
  <2>1. /\ Len(runs') = Len(runs) + 1 /\ runs'[r] = new
        /\ \A x \in 1..Len(runs) : runs'[x] = runs[x]
    BY <1>1, <1>2, <1>4, AppendProperties
  <2>2. r \in Nat /\ r # 0 /\ r \notin 1..Len(runs)
    BY <1>1, <1>4
  <2>3. recovering.run # r /\ session.run # r
    BY <2>2, RecoveringKnown, SessionKnown, StageKnown
  <2>4. (\A o \in resuming : o.run # r) /\ \A t \in Tool : pointer[t][1] # r
    BY <2>2 DEF IInv, CancelledSound, Resumable, PointersSound, NoPointer
  <2>5. \A c \in calls : c.session.run # r
    BY <2>2, HeldKnown
  <2>6. (\A k \in capsules : k.run # r) /\ \A t \in 1..Len(txs) : txs[t].run # r
    BY <2>2, CapsuleKnown, TxKnown
  <2>7. Unknown(r)
    BY <2>3, <2>4 DEF Unknown
  <2>8. /\ r \in 1..Len(runs') /\ \A x \in 1..Len(runs) : x \in 1..Len(runs')
        /\ \A x \in 1..Len(runs') : x = r \/ x \in 1..Len(runs)
    BY <1>1, <1>4, <2>1
  <2>9. QED
    BY <1>1, <1>2, <2>1, <2>2, <2>5, <2>6, <2>7, <2>8
<1>5. QED
  BY <1>3, <1>4 DEF Active

LEMMA StartsOnce ==
  ASSUME IInv, Once, ~Busy, NEW h, NEW b, tool # "borrow" => b, Starts(h, b) PROVE Once'
<1>1. PICK r \in {gates[mount].run, Len(runs) + 1} :
        /\ Active(r)
        /\ gates' = [gates EXCEPT ![mount] = [run |-> r, started |-> FALSE]]
        /\ calls' = calls \cup {Call(h, "fee", At(r, 1, "review", 0), 0, b)}
  BY DEF Starts
<1> DEFINE s == At(r, 1, "review", 0)
           d == Call(h, "fee", s, 0, b)
<1>2. s.run = r /\ s.stage = 1 /\ s.status = "review"
  BY DEF At
<1> HIDE DEF s
<1>3. d.pc = "fee" /\ d.mount = mount /\ d.tool = tool /\ d.session = s /\ d.clears = b
  BY DEF Call
<1>4. calls' = calls \cup {d}
  BY <1>1 DEF s
<1> HIDE DEF d
<1>5. TxsAlike /\ UNCHANGED <<tool, mount, session, runtime, recovering, resuming, reopened, pointer, capsules>>
  BY AlikeSame DEF Starts, view, storage, chain
<1>6. /\ Len(runs') \in Nat /\ Len(runs) \in Nat /\ r \in 1..Len(runs') /\ runs'[r].tool = tool
      /\ \A x \in 1..Len(runs) : x \in 1..Len(runs') /\ runs'[x] = runs[x]
      /\ \A x \in 1..Len(runs') : x = r \/ x \in 1..Len(runs)
      /\ r \in 1..Len(runs) => Gives(gates[mount], r)
      /\ r \in reopened \/ (Unknown(r) /\ (\A k \in capsules : k.run # r)
                             /\ (\A c \in calls : c.session.run # r)
                             /\ \A t \in 1..Len(txs) : txs[t].run # r)
  BY <1>1, RunKnown
<1>7. gates'[mount] = [run |-> r, started |-> FALSE]
  BY <1>1, GateKnown
<1>8. \A x : Gives(gates'[mount], x) <=> x = r
  BY <1>7 DEF Gives
<1>9. Origins'
  <2>1. session.run # 0 => runs'[session.run].tool = tool
    BY <1>6, SessionKnown, StageKnown DEF Once, Origins
  <2>2. recovering.run # 0 => recovering.status = "submitted" /\ runs'[recovering.run].tool = tool
    BY <1>6, RecoveringKnown, StageKnown DEF Once, Origins
  <2>3. \A t \in Tool : pointer[t] # NoPointer => runs'[pointer[t][1]].tool = t
    BY <1>6 DEF Once, Origins, IInv, PointersSound
  <2>4. ASSUME NEW c \in calls' PROVE Origin(c, runs', mount, tool)
    <3>1. CASE c = d
      BY <1>2, <1>3, <1>6, <3>1 DEF Origin
    <3>2. CASE c \in calls
      <4>1. Origin(c, runs, mount, tool) /\ c.session.run \in 1..Len(runs)
        BY <3>2, HeldKnown DEF Once, Origins
      <4>2. QED
        BY <1>6, <4>1 DEF Origin
    <3>3. QED
      BY <1>4, <3>1, <3>2
  <2>5. \A t \in 1..Len(txs) : txs'[t].mount <= mount
    BY <1>5 DEF Once, Origins, TxsAlike, TxsStay
  <2>6. QED
    BY <1>5, <2>1, <2>2, <2>3, <2>4, <2>5 DEF Origins, TxsAlike
<1>10. Reopenings'
  <2>1. \A c \in calls' : c \in calls \/ c.pc \notin Exec
    BY <1>3, <1>4 DEF Exec
  <2>2. QED
    BY <1>5, <2>1, ReopeningsKept, AlikeLen
<1>11. FirstOwned'
  <2>1. ASSUME NEW x \in 1..Len(runs'), Owned(x)' PROVE Unused(x)'
    <3>1. CASE x = r
      <4>1. /\ Unknown(r) /\ (\A k \in capsules : k.run # r) /\ (\A c \in calls : c.session.run # r)
            /\ \A t \in 1..Len(txs) : txs[t].run # r
        BY <1>5, <1>6, <2>1, <3>1 DEF Owned
      <4>2. Unknown(r)'
        BY <1>5, <4>1 DEF Unknown
      <4>3. OneCall(r)'
        BY <1>2, <1>3, <1>4, <1>5, <4>1 DEF OneCall, Attached, Under
      <4>4. ByItsCall(r)'
        BY <1>5, <4>1 DEF ByItsCall, TxsAlike, TxsStay
      <4>5. QED
        BY <1>5, <3>1, <4>1, <4>2, <4>3, <4>4 DEF Unused
    <3>2. CASE x # r
      <4>1. x \in 1..Len(runs)
        BY <1>6, <3>2
      <4>2. Owned(x)
        BY <1>2, <1>3, <1>4, <1>5, <1>8, <2>1, <3>2 DEF Owned, Has
      <4>3. Unused(x)
        BY <4>1, <4>2 DEF Once, FirstOwned
      <4>4. OneCall(x)'
        BY <1>2, <1>3, <1>4, <1>5, <1>8, <3>2, <4>3 DEF Unused, OneCall
      <4>5. ByItsCall(x)'
        BY <1>4, <1>5, <4>3 DEF Unused, ByItsCall, TxsAlike, TxsStay
      <4>6. Unknown(x)'
        BY <1>5, <4>3 DEF Unused, Unknown
      <4>7. QED
        BY <1>5, <4>3, <4>4, <4>5, <4>6 DEF Unused
    <3>3. QED
      BY <3>1, <3>2
  <2>2. QED
    BY <2>1 DEF FirstOwned
<1>12. FirstBusy'
  BY <1>4, <1>5 DEF Once, FirstBusy, FirstShown, Attached
<1>13. Pointed'
  <2>1. ASSUME NEW k \in capsules, k.stage = 1, Len(Plan(k.run)') = 2, ~Reusable(k.run), ~Abandoned(k.run)'
        PROVE  pointer[runs'[k.run].tool] = <<k.run, 1>>
    <3>1. k.run \in 1..Len(runs)
      BY CapsuleKnown
    <3>2. runs'[k.run] = runs[k.run] /\ Plan(k.run)' = Plan(k.run)
      BY <1>6, <3>1 DEF Plan
    <3>3. ASSUME Abandoned(k.run) PROVE FALSE
      <4>1. k.run # r
        BY <1>6, <3>1, <3>3 DEF Abandoned
      <4>2. Abandoned(k.run)'
        BY <1>2, <1>3, <1>4, <1>5, <1>8, <3>3, <4>1 DEF Abandoned, Unknown
      <4>3. QED
        BY <2>1, <4>2
    <3>4. QED
      BY <2>1, <3>2, <3>3 DEF Once, Pointed
  <2>2. QED
    BY <1>5, <2>1 DEF Pointed, Reusable
<1>14. SecondPast'
  <2>1. ASSUME NEW x \in 1..Len(runs'), Sent(x)', ~Flying(x)', ~Reusable(x)'
        PROVE  (NoCapsule(x) /\ PastSession(x) /\ PastCalls(x))'
    <3>1. Sent(x)
      BY <1>5, <2>1 DEF Sent, Has, TxsAlike, TxsStay
    <3>2. x \in 1..Len(runs) /\ x # 0
      BY <3>1, TxKnown DEF Sent, Has
    <3>3. Flying(x) => Flying(x)'
      BY <1>4, <1>5 DEF Flying, Attached
    <3>4. NoCapsule(x) /\ PastSession(x) /\ PastCalls(x)
      BY <1>5, <2>1, <3>2, <3>3, SentKept
    <3>5. NoCapsule(x)'
      BY <1>5, <3>4 DEF NoCapsule
    <3>6. PastCalls(x)'
      <4>1. \A e \in calls' : e \in calls \/ e.pc \notin {"receipt", "verify"} \/ ~Has(e.session, x, 1)
        BY <1>3, <1>4
      <4>2. QED
        BY <1>5, <3>4, <4>1, PastCallsKept DEF TxsAlike
    <3>7. PastSession(x)'
      BY <1>5, <3>2, <3>4, PastSessionKept DEF TxsAlike
    <3>8. QED
      BY <3>5, <3>6, <3>7
  <2>2. QED
    BY <2>1 DEF SecondPast
<1>15. NotYet' /\ RepeatedOnlyElsewhere'
  BY <1>3, <1>4, <1>5, NotYetKept, RepeatedKept DEF Once
<1>16. QED
  BY <1>9, <1>10, <1>11, <1>12, <1>13, <1>14, <1>15 DEF Once

LEMMA StartingOnce == ASSUME IInv, Once, Starting PROVE Once'
<1>0. ASSUME ~Busy, NEW h, NEW b \in BOOLEAN, tool # "borrow" => b = TRUE, Starts(h, b) PROVE Once'
  BY <1>0, StartsOnce
<1>1. CASE StakingStart
  BY <1>0, <1>1 DEF StakingStart
<1>2. CASE LendStart
  BY <1>0, <1>2 DEF LendStart
<1>3. CASE BorrowStartUnshield
  BY <1>0, <1>3 DEF BorrowStartUnshield
<1>4. CASE BorrowStartShield
  BY <1>0, <1>4 DEF BorrowStartShield
<1>5. CASE BorrowStartNormal
  <2> DEFINE b == session = NoSession \/ session.status = "review"
  <2>1. ~Busy /\ tool = "borrow" /\ Starts("executeBorrow", b) /\ b \in BOOLEAN
    BY <1>5 DEF BorrowStartNormal
  <2> HIDE DEF b
  <2>2. QED
    BY <1>0, <2>1
<1>6. QED
  BY <1>1, <1>2, <1>3, <1>4, <1>5 DEF Starting

\* What is executed is a second stage: a first one for review is busy.
LEMMA ContinuesOnce ==
  ASSUME IInv, Once, ~Busy, Showing("review"), NEW h, NEW rt, Executes(h, rt), TxsAlike,
         tool # "borrow" \/ session.stage = 2,
         UNCHANGED <<tool, mount, session, gates, resuming, reopened, recovering, pointer, capsules, runs>>,
         runtime' = runtime \/ \A t \in 1..Len(txs) : txs'[t].runtime # runtime'
  PROVE  Once'
<1> DEFINE d == Call(h, "prepare", session, rt, FALSE)
<1>1. d.mount = mount /\ d.tool = tool /\ d.pc = "prepare" /\ d.session = session
  BY DEF Call
<1>2. calls' = calls \cup {d}
  BY DEF Executes
<1> HIDE DEF d
<1>3. session.run # 0 /\ session.status = "review"
  BY DEF Showing
<1>4. session.stage = 2
  <2>1. session.stage \in {1, 2}
    BY <1>3, SessionKnown, StageKnown
  <2>2. ~FirstShown \/ tool = "borrow"
    BY DEF Once, FirstBusy, Busy, Attached
  <2>3. QED
    BY <1>3, <2>1, <2>2 DEF FirstShown
<1>5. QED
  BY <1>1, <1>2, <1>3, <1>4, PressOnce

LEMMA ContinuingOnce == ASSUME IInv, Once, Continuing PROVE Once'
<1>1. ASSUME runtime' = FreshRuntime, Forget(FreshRuntime)
      PROVE  TxsAlike /\ \A t \in 1..Len(txs) : txs'[t].runtime # runtime'
  BY <1>1, FreshRuntimeType, ForgetAlike
<1>2. CASE StakingExecuteNext
  <2>1. /\ TxsAlike /\ runtime' = runtime
        /\ UNCHANGED <<tool, mount, session, gates, resuming, reopened, recovering, pointer, capsules, runs>>
    BY <1>2, AlikeSame DEF StakingExecuteNext, view, flow, fees, storage, chain
  <2>2. QED
    BY <1>2, <2>1, ContinuesOnce DEF StakingExecuteNext
<1>3. CASE LendExecuteNext
  <2>1. UNCHANGED <<tool, mount, session, gates, resuming, reopened, recovering, pointer, capsules, runs>>
    BY <1>3 DEF LendExecuteNext, view, fees, storage
  <2>2. QED
    BY <1>1, <1>3, <2>1, ContinuesOnce DEF LendExecuteNext
<1>4. CASE BorrowExecuteUnshielded
  <2>1. UNCHANGED <<tool, mount, session, gates, resuming, reopened, recovering, pointer, capsules, runs>>
    BY <1>4 DEF BorrowExecuteUnshielded, view, fees, storage
  <2>2. session.stage = 2
    BY <1>4 DEF BorrowExecuteUnshielded, StageId
  <2>3. QED
    BY <1>1, <1>4, <2>1, <2>2, ContinuesOnce DEF BorrowExecuteUnshielded
<1>5. CASE ShieldBorrowProceeds
  <2>1. /\ TxsAlike /\ runtime' = runtime
        /\ UNCHANGED <<tool, mount, session, gates, resuming, reopened, recovering, pointer, capsules, runs>>
    BY <1>5, AlikeSame DEF ShieldBorrowProceeds, view, flow, fees, storage, chain
  <2>2. session.stage = 2
    BY <1>5 DEF ShieldBorrowProceeds, StageId
  <2>3. QED
    BY <1>5, <2>1, <2>2, ContinuesOnce DEF ShieldBorrowProceeds
<1>6. QED
  BY <1>2, <1>3, <1>4, <1>5 DEF Continuing

LEMMA ConfirmingOnce == ASSUME IInv, Once, Confirming PROVE Once'
<1>1. ASSUME NEW h, Confirms(h) PROVE Once'
  <2> DEFINE d == Call(h, "receipt", session, runtime, FALSE)
  <2>1. d.mount = mount /\ d.tool = tool /\ d.pc = "receipt" /\ d.session = session /\ d.runtime = runtime
    BY DEF Call
  <2>2. /\ calls' = calls \cup {d} /\ runtime' = runtime /\ TxsAlike
        /\ UNCHANGED <<tool, mount, session, gates, resuming, reopened, recovering, pointer, capsules, runs>>
    BY <1>1, AlikeSame DEF Confirms, view, flow, fees, storage, chain
  <2>3. ~Busy /\ session.run # 0 /\ session.status = "submitted" /\ runtime # 0
    BY <1>1 DEF Confirms, Showing
  <2> HIDE DEF d
  <2>4. QED
    BY <2>1, <2>2, <2>3, PressOnce
<1>2. QED
  BY <1>1 DEF Confirming, StakingConfirm, LendConfirm, BorrowConfirms, RefreshNormalBorrow,
              RefreshUnshield, RefreshUnshieldBorrow, RefreshShieldBorrow, RefreshShieldStage

\* The steps of a call that write nothing.
LEMMA CallMovesOnce ==
  ASSUME IInv, Once, NEW c \in calls,
         BorrowPrepared(c) \/ StakingPrepared(c) \/ LendPrepared(c) \/ Returned(c) \/ ReceiptRead(c)
  PROVE  Once'
<1>1. c \in CallRecord
  BY CallKnown
<1>2. ASSUME NEW t, Prepares(t, c) PROVE Once'
  <2> DEFINE d == [c EXCEPT !.pc = "wallet", !.before = Watched(c)]
  <2>1. /\ d.pc = "wallet" /\ d.mount = c.mount /\ d.tool = c.tool /\ d.session = c.session /\ d.tx = c.tx
        /\ d.clears = c.clears
    BY <1>1 DEF CallRecord
  <2>2. Goes(c, d) /\ UNCHANGED <<view, flow, storage, runs, chain>> /\ c.pc = "prepare"
    BY <1>2 DEF Prepares
  <2> HIDE DEF d
  <2>3. QED
    BY <2>1, <2>2, MovesOnce
<1>3. ASSUME Returned(c) PROVE Once'
  <2>0. PICK a \in BOOLEAN : Goes(c, [c EXCEPT !.pc = "bind", !.confirmed = a])
    BY <1>3 DEF Returned
  <2> DEFINE d == [c EXCEPT !.pc = "bind", !.confirmed = a]
  <2>1. /\ d.pc = "bind" /\ d.mount = c.mount /\ d.tool = c.tool /\ d.session = c.session /\ d.tx = c.tx
        /\ d.clears = c.clears
    BY <1>1 DEF CallRecord
  <2>2. Goes(c, d) /\ UNCHANGED <<view, flow, storage, runs, chain>> /\ c.pc = "sent"
    BY <1>3, <2>0 DEF Returned
  <2> HIDE DEF d
  <2>3. QED
    BY <2>1, <2>2, MovesOnce
<1>4. ASSUME ReceiptRead(c) PROVE Once'
  <2> DEFINE d == [c EXCEPT !.pc = "verify"]
  <2>1. /\ d.pc = "verify" /\ d.mount = c.mount /\ d.tool = c.tool /\ d.session = c.session /\ d.tx = c.tx
        /\ d.clears = c.clears
    BY <1>1 DEF CallRecord
  <2>2. Goes(c, d) /\ UNCHANGED <<view, flow, storage, runs, chain>> /\ c.pc = "receipt" /\ Verifiable(c)
    BY <1>4 DEF ReceiptRead
  <2> HIDE DEF d
  <2>3. QED
    BY <2>1, <2>2, MovesOnce
<1>5. QED
  BY <1>2, <1>3, <1>4 DEF BorrowPrepared, StakingPrepared, LendPrepared

\* The steps that end a call without a transaction, a reset, what is looked at, and a
\* recovery that asks or fails.
LEMMA LessStepsOnce ==
  ASSUME IInv, Once,
         Review \/ Invalidate \/ Reset \/ Resumes \/ RecoveryFails \/ UNCHANGED vars
           \/ (\E o \in resuming : CancelledFails(o))
           \/ (\E c \in calls : Refused(c) \/ Unverified(c) \/ Refreshed(c))
  PROVE  Once'
<1>1. CASE Review \/ Invalidate \/ Resumes \/ RecoveryFails \/ UNCHANGED vars
  <2>1. /\ TxsAlike
        /\ UNCHANGED <<tool, mount, gates, reopened, resuming, runs, calls, session, runtime, pointer, capsules>>
        /\ recovering' \in {recovering, NoRecovery}
    BY <1>1, AlikeSame DEF Review, Invalidate, Resumes, RecoveryFails, vars, view, flow, fees, storage, chain
  <2>2. QED
    BY <2>1, LessOnce
<1>2. CASE Reset
  <2>1. /\ TxsAlike /\ UNCHANGED <<tool, mount, gates, reopened, resuming, runs, calls, recovering>>
        /\ session' = NoSession /\ ClearPointer(tool, capsules) /\ tool \in Tool
    BY <1>2, AlikeSame, Typed DEF Reset, view, fees, chain
  <2>2. QED
    BY <2>1, LessOnce
<1>3. ASSUME NEW o \in resuming, CancelledFails(o) PROVE Once'
  <2>1. /\ TxsAlike
        /\ UNCHANGED <<tool, mount, gates, reopened, runs, calls, session, runtime, recovering, pointer, capsules>>
        /\ resuming' \subseteq resuming
    BY <1>3, AlikeSame DEF CancelledFails, view, storage, chain
  <2>2. QED
    BY <2>1, LessOnce
<1>4. ASSUME NEW c \in calls, Refused(c) PROVE Once'
  <2>1. /\ TxsAlike /\ UNCHANGED <<tool, mount, gates, reopened, resuming, runs, recovering, pointer, capsules>>
        /\ calls' = calls \ {c} /\ c.pc \notin Flight
    BY <1>4, AlikeSame DEF Refused, Fails, Ends, view, fees, storage, chain, Flight
  <2>2. session' = NoSession \/ (UNCHANGED <<session, runtime>> /\ ~(Attached(c) /\ c.clears))
    BY <1>4 DEF Refused, Fails
  <2>3. QED
    BY <2>1, <2>2, LessOnce
<1>5. ASSUME NEW c \in calls, Unverified(c) \/ Refreshed(c) PROVE Once'
  <2>1. /\ TxsAlike /\ UNCHANGED <<tool, mount, gates, reopened, resuming, runs, recovering, session, runtime>>
        /\ calls' = calls \ {c} /\ c.pc \notin Flight /\ c.pc \notin Exec
        /\ UNCHANGED <<pointer, capsules>> \/ ClearPointer(c.tool, capsules)
    BY <1>5, AlikeSame DEF Unverified, Refreshed, Ends, view, flow, fees, storage, chain, Flight, Exec
  <2>2. c.tool \in Tool
    BY CallKnown
  <2>3. QED
    BY <2>1, <2>2, LessOnce
<1>6. QED
  BY <1>1, <1>2, <1>3, <1>4, <1>5

\* The fee gate answers: the first stage of the call's run, which nothing else knows
\* unless it may be sent again.
LEMMA FeeGrantedOnce == ASSUME IInv, Once, NEW c \in calls, FeeGranted(c) PROVE Once'
<1> DEFINE d == [c EXCEPT !.pc = "prepare", !.runtime = FreshRuntime]
<1>1. c \in CallRecord /\ c.session.run \in 1..Len(runs)
  BY CallKnown, HeldKnown
<1>2. /\ d.pc = "prepare" /\ d.session = c.session /\ d.mount = c.mount /\ d.tool = c.tool
      /\ d.clears = c.clears /\ d.tx = c.tx
  BY <1>1 DEF CallRecord
<1>3. /\ c.pc = "fee" /\ calls' = (calls \ {c}) \cup {d} /\ Goes(c, d)
      /\ FeeOn => Unsent(c.session.run)
      /\ UNCHANGED <<tool, mount, recovering, resuming, reopened, gates, pointer, capsules, runs>>
      /\ Forget(FreshRuntime)
      /\ session' = IF Attached(c) THEN c.session ELSE session
      /\ runtime' = IF Attached(c) THEN FreshRuntime ELSE runtime
  BY DEF FeeGranted, Shows, Goes, view, fees, storage
<1> HIDE DEF d
<1>4. Origin(c, runs, mount, tool)
  BY DEF Once, Origins
<1>5. c.session.stage = 1 /\ c.session.status = "review" /\ (Attached(c) => c.tool = tool)
  BY <1>3, <1>4 DEF Origin, Attached
<1>6. TxsAlike /\ \A t \in 1..Len(txs) : txs'[t].runtime # FreshRuntime
  BY <1>3, FreshRuntimeType, ForgetAlike
<1>7. Origins'
  <2>1. Origin(d, runs, mount, tool)
    BY <1>2, <1>4 DEF Origin
  <2>2. Attached(c) => runs[c.session.run].tool = tool
    BY <1>4, <1>5 DEF Origin
  <2>3. QED
    BY <1>3, <1>6, <2>1, <2>2, OriginsKept DEF Once
<1>8. Reopenings'
  <2>1. FeeOn => c.session.run \notin reopened
    BY <1>3 DEF Once, Reopenings, SentRun, Unsent
  <2>2. QED
    BY <1>2, <1>3, <1>6, <2>1, ReopeningsKept, AlikeLen
<1>9. FirstOwned'
  <2>1. c.pc \in Under /\ d.pc \in Under /\ c.pc \notin Flight
    BY <1>2, <1>3 DEF Under, Exec, Flight
  <2>2. session' = session \/ (session' = c.session /\ session'.stage = 1 /\ session'.status = "review")
    BY <1>3, <1>5
  <2>3. QED
    BY <1>2, <1>3, <1>6, <2>1, <2>2, OwnedGoes
<1>10. FirstBusy'
  <2>1. CASE Attached(c)
    <3>1. tool # "borrow" => c.clears
      BY <1>3, <1>4, <1>5, <2>1 DEF Origin
    <3>2. QED
      BY <1>2, <1>3, <2>1, <3>1 DEF FirstBusy, Attached, Exec
  <2>2. CASE ~Attached(c)
    BY <1>3, <2>2 DEF Once, FirstBusy, FirstShown, Attached, Exec
  <2>3. QED
    BY <2>1, <2>2
<1>11. Pointed'
  <2>1. ASSUME NEW r \in 1..Len(runs), Abandoned(r) PROVE Abandoned(r)'
    <3>1. c.session.run # r
      BY <2>1 DEF Abandoned
    <3>2. QED
      BY <1>2, <1>3, <2>1, <3>1 DEF Abandoned, Unknown
  <2>2. LeftStay
    BY <1>3, <2>1 DEF LeftStay
  <2>3. QED
    BY <1>3, <2>2, PointedKept
<1>12. SecondPast'
  <2>1. ASSUME NEW x \in 1..Len(runs), Sent(x)', ~Flying(x)', ~Reusable(x)'
        PROVE  (NoCapsule(x) /\ PastSession(x) /\ PastCalls(x))'
    <3>1. Flying(x) => Flying(x)'
      BY <1>3 DEF Flying, Attached, Flight
    <3>2. Sent(x) /\ ~Reusable(x) /\ NoCapsule(x) /\ PastSession(x) /\ PastCalls(x)
      BY <1>3, <1>6, <2>1, <3>1, SentKept
    <3>3. c.session.run # x
      <4>1. ASSUME c.session.run = x PROVE FALSE
        <5>1. x \notin reopened
          BY <1>3, <3>2, <4>1 DEF Reusable, Sent, Has, Unsent
        <5>2. Owned(x)
          BY <1>3, <1>5, <4>1, <5>1 DEF Owned, Under, Has
        <5>3. QED
          BY <3>2, <5>2, SentNotOwned
      <4>2. QED
        BY <4>1
    <3>4. NoCapsule(x)'
      BY <1>3, <3>2 DEF NoCapsule
    <3>5. PastCalls(x)'
      <4>1. \A e \in calls' : e \in calls \/ e.pc \notin {"receipt", "verify"} \/ ~Has(e.session, x, 1)
        BY <1>2, <1>3
      <4>2. QED
        BY <1>3, <1>6, <3>2, <4>1, PastCallsKept DEF TxsAlike
    <3>6. PastSession(x)'
      <4>1. CASE Attached(c)
        BY <1>3, <3>3, <4>1 DEF PastSession
      <4>2. CASE ~Attached(c)
        <5>1. session' = session /\ runtime' \in {runtime, 0} /\ x # 0
          BY <1>3, <4>2
        <5>2. QED
          BY <1>6, <3>2, <5>1, PastSessionKept DEF TxsAlike
      <4>3. QED
        BY <4>1, <4>2
    <3>7. QED
      BY <3>4, <3>5, <3>6
  <2>2. QED
    BY <1>3, <2>1 DEF SecondPast
<1>13. NotYet' /\ RepeatedOnlyElsewhere'
  BY <1>2, <1>3, <1>5, <1>6, NotYetKept, RepeatedKept DEF Once
<1>14. QED
  BY <1>7, <1>8, <1>9, <1>10, <1>11, <1>12, <1>13 DEF Once

\* The wallet sends a stage that this mount did not send, and a first stage that none did, but of a run
\* that may be sent again.
LEMMA BroadcastOnce == ASSUME IInv, Once, NEW c \in calls, Broadcast(c) PROVE Once'
<1> DEFINE n == Len(txs)
           x == [run |-> c.session.run, stage |-> c.session.stage, status |-> "pending",
                 mount |-> c.mount, runtime |-> c.runtime, before |-> c.before]
           d == [c EXCEPT !.pc = "sent", !.tx = Len(txs')]
<1>1. c \in CallRecord /\ Sound(c.session, runs, txs) /\ c.pc = "wallet" /\ c.mount \in Nat
  BY CallKnown, HeldKnown DEF Broadcast
<1>2. /\ d.pc = "sent" /\ d.tx = Len(txs') /\ d.mount = c.mount /\ d.tool = c.tool
      /\ d.session = c.session /\ d.clears = c.clears
  BY <1>1 DEF CallRecord
<1>3. x.run = c.session.run /\ x.stage = c.session.stage /\ x.mount = c.mount
  OBVIOUS
<1>4. /\ calls' = (calls \ {c}) \cup {d} /\ txs' = Append(txs, x)
      /\ UNCHANGED <<tool, mount, session, runtime, gates, resuming, reopened, recovering, pointer, capsules, runs>>
  BY DEF Broadcast, Goes, view, flow, fees, storage
<1>5. txs \in Seq(Tx) /\ n \in Nat /\ txs' \in Seq(Tx)
  <2>1. IInv'
    BY BroadcastStep
  <2>2. QED
    BY <2>1, Typed DEF IInv, TypeInv
<1> HIDE DEF d, x
<1>6. Len(txs') = n + 1 /\ txs'[n + 1] = x /\ \A t \in 1..n : txs'[t] = txs[t]
  <2>1. txs' \in Seq(Tx \cup {x}) /\ txs \in Seq(Tx \cup {x})
    BY <1>5
  <2>2. QED
    BY <1>4, <1>5, <2>1, AppendProperties
<1> HIDE DEF n
<1>7. TxsStay
  BY <1>5, <1>6 DEF TxsStay, n
<1>8. \A t \in 1..n + 1 : t \in 1..n \/ t = n + 1
  BY <1>5
<1>9. Origins'
  <2>1. Origin(c, runs, mount, tool) /\ c.mount <= mount
    BY <1>1, CallKnown DEF Once, Origins
  <2>2. Origin(d, runs, mount, tool)
    BY <1>1, <1>2, <2>1 DEF Origin
  <2>3. \A t \in 1..Len(txs') : txs'[t].mount <= mount
    BY <1>3, <1>6, <1>8, <2>1 DEF Once, Origins, n
  <2>4. \A e \in calls' : Origin(e, runs, mount, tool)
    BY <1>4, <2>2 DEF Once, Origins
  <2>5. QED
    BY <1>4, <2>3, <2>4 DEF Once, Origins
<1>R. Reopenings'
  <2>1. \A e \in calls' : e \in calls \/ \E o \in calls : o.pc \in Exec /\ o.session = e.session
    BY <1>1, <1>2, <1>4 DEF Exec
  <2>2. QED
    BY <1>4, <1>5, <1>6, <1>7, <2>1, ReopeningsKept
<1>10. FirstOwned'
  <2>1. ASSUME NEW r \in 1..Len(runs), Owned(r)' PROVE Unused(r)'
    <3>1. Unused(r) /\ OneCall(r)'
      BY <1>1, <1>2, <1>4, <2>1, OneCallGoes DEF Goes, Under, Exec
    <3>2. ByItsCall(r)'
      <4>1. ASSUME NEW t \in 1..Len(txs'), txs'[t].run = r
            PROVE  \E e \in calls' : e.pc \in Flight /\ e.session.run = r /\ e.tx = t
        <5>1. CASE t \in 1..n
          <6>1. PICK e \in calls : e.pc \in Flight /\ e.session.run = r /\ e.tx = t
            BY <1>6, <3>1, <4>1, <5>1 DEF Unused, ByItsCall, n
          <6>2. e # c
            BY <1>1, <6>1 DEF Flight
          <6>3. QED
            BY <1>4, <6>1, <6>2
        <5>2. CASE t = n + 1
          BY <1>2, <1>3, <1>4, <1>6, <4>1, <5>2 DEF Flight
        <5>3. QED
          BY <1>6, <1>8, <5>1, <5>2
      <4>2. QED
        BY <4>1 DEF ByItsCall
    <3>3. QED
      BY <1>4, <3>1, <3>2 DEF Unused, Unknown
  <2>2. QED
    BY <1>4, <2>1 DEF FirstOwned
<1>11. FirstBusy'
  BY <1>1, <1>2, <1>4 DEF Once, FirstBusy, FirstShown, Attached, Exec
<1>12. Pointed'
  <2>1. ASSUME NEW r \in 1..Len(runs), Abandoned(r) PROVE Abandoned(r)'
    BY <1>2, <1>4, <2>1 DEF Abandoned, Unknown
  <2>2. LeftStay
    BY <1>4, <2>1 DEF LeftStay
  <2>3. QED
    BY <1>4, <2>2, PointedKept
<1>13. SecondPast'
  <2>1. ASSUME NEW r \in 1..Len(runs), Sent(r)', ~Flying(r)', ~Reusable(r)'
        PROVE  (NoCapsule(r) /\ PastSession(r) /\ PastCalls(r))'
    <3>1. ~(Has(c.session, r, 2) /\ c.mount = mount)
      BY <1>2, <1>4, <2>1 DEF Flying, Attached, Flight
    <3>2. Sent(r)
      <4>1. PICK t \in 1..Len(txs') : Has(txs'[t], r, 2) /\ txs'[t].mount = mount
        BY <1>4, <2>1 DEF Sent, Has
      <4>2. t \in 1..n
        BY <1>3, <1>6, <1>8, <3>1, <4>1 DEF Has
      <4>3. QED
        BY <1>6, <4>1, <4>2 DEF Sent, n
    <3>3. ~Flying(r)
      BY <1>1, <1>4, <2>1 DEF Flying, Attached, Flight
    <3>4. NoCapsule(r) /\ PastSession(r) /\ PastCalls(r)
      BY <1>4, <2>1, <3>2, <3>3 DEF Once, SecondPast, Reusable
    <3>5. NoCapsule(r)' /\ PastSession(r)'
      BY <1>4, <1>7, <3>4, PastSessionKept DEF NoCapsule
    <3>6. PastCalls(r)'
      <4>1. \A e \in calls' : e \in calls \/ e.pc \notin {"receipt", "verify"} \/ ~Has(e.session, r, 1)
        BY <1>2, <1>4
      <4>2. QED
        BY <1>4, <1>7, <3>4, <4>1, PastCallsKept
    <3>7. QED
      BY <3>5, <3>6
  <2>2. QED
    BY <1>4, <2>1 DEF SecondPast
<1>14. NotYet'
  <2>1. ASSUME NEW e \in calls', e.pc \in {"prepare", "wallet"}, e.session.stage = 2,
               NEW t \in 1..Len(txs'), Has(txs'[t], e.session.run, 2),
               ~Reusable(e.session.run)
        PROVE  txs'[t].mount # e.mount
    <3>1. e \in calls /\ e # c
      BY <1>2, <1>4, <2>1
    <3>2. CASE t \in 1..n
      BY <1>6, <2>1, <3>1, <3>2 DEF Once, NotYet, n
    <3>3. CASE t = n + 1
      BY <1>3, <1>6, <3>1, <3>3 DEF IInv, CallsApart
    <3>4. QED
      BY <1>6, <1>8, <3>2, <3>3
  <2>2. QED
    BY <1>4, <2>1 DEF NotYet, Reusable
<1>15. RepeatedOnlyElsewhere'
  <2>1. ASSUME NEW t \in 1..n, txs[t].run = c.session.run, txs[t].stage = c.session.stage,
               ~Reusable(c.session.run)
        PROVE  c.session.stage > 1 /\ txs[t].mount # c.mount
    <3>1. c.session.run \in 1..Len(runs) /\ c.session.stage \in {1, 2}
      BY <1>1, StageKnown
    <3>2. CASE c.session.stage = 1
      <4>1. Unused(c.session.run)
        <5>1. Owned(c.session.run)
          BY <1>1, <2>1, <3>2, ExecOwned DEF Exec
        <5>2. QED
          BY <3>1, <5>1 DEF Once, FirstOwned
      <4>2. PICK e \in calls : e.pc \in Flight /\ e.session.run = c.session.run
        BY <2>1, <4>1 DEF Unused, ByItsCall, n
      <4>3. e = c
        BY <4>1, <4>2 DEF Unused, OneCall
      <4>4. QED
        BY <1>1, <4>2, <4>3 DEF Flight
    <3>3. CASE c.session.stage = 2
      BY <1>1, <2>1, <3>3 DEF Once, NotYet, Has, n
    <3>4. QED
      BY <3>1, <3>2, <3>3
  <2>2. ASSUME NEW t \in 1..Len(txs'), NEW u \in 1..Len(txs'), t # u,
               txs'[t].run = txs'[u].run, txs'[t].stage = txs'[u].stage,
               ~Reusable(txs'[t].run)
        PROVE  txs'[t].stage > 1 /\ txs'[t].mount # txs'[u].mount
    <3>1. CASE t \in 1..n /\ u \in 1..n
      BY <1>6, <2>2, <3>1 DEF Once, RepeatedOnlyElsewhere, TxIds, KeyOf, Reusable, n
    <3>2. CASE t \in 1..n /\ u = n + 1
      BY <1>3, <1>6, <2>1, <2>2, <3>2
    <3>3. CASE u \in 1..n /\ t = n + 1
      BY <1>3, <1>6, <2>1, <2>2, <3>3
    <3>4. QED
      BY <1>6, <1>8, <2>2, <3>1, <3>2, <3>3
  <2>3. QED
    BY <1>4, <2>2 DEF RepeatedOnlyElsewhere, TxIds, KeyOf, Reusable
<1>16. QED
  BY <1>9, <1>R, <1>10, <1>11, <1>12, <1>13, <1>14, <1>15 DEF Once

\* A stage confirmed is the next for review, or done.
LEMMA ConfirmedIs ==
  ASSUME NEW s \in Shown
  PROVE  /\ Confirmed(s).run = s.run
         /\ s.stage = Len(Plan(s.run)) => Confirmed(s).stage = s.stage /\ Confirmed(s).status = "completed"
         /\ s.stage # Len(Plan(s.run)) => Confirmed(s).stage = s.stage + 1 /\ Confirmed(s).status = "review"
BY DEF Confirmed, Shown, At

\* An execution returns: nothing of the first stage is left to verify it with.
LEMMA ExecutedOnce == ASSUME IInv, Once, NEW c \in calls, Executed(c) PROVE Once'
<1> DEFINE r == c.session.run
           i == c.session.stage
           s == At(r, i, "submitted", c.tx)
           next == IF c.confirmed THEN Confirmed(s) ELSE s
<1>1. /\ c.pc = "bind" /\ calls' = calls \ {c} /\ TxsAlike
      /\ session' = (IF Attached(c) THEN next ELSE session)
      /\ gates' = GateAfter(c)
      /\ UNCHANGED <<tool, mount, runtime, recovering, resuming, reopened, runs, txs>>
  BY AlikeSame DEF Executed, Ends, Shows, chain
<1>2. /\ Sound(c.session, runs, txs) /\ r \in 1..Len(runs) /\ r # 0 /\ i \in {1, 2}
      /\ (i = 2 => Len(Plan(r)) = 2) /\ c.tool \in Tool /\ runs[r].tool = c.tool
      /\ c.pc \in Under /\ c.pc \in Exec /\ c.mount \in 1..mount
      /\ Attached(c) => c.tool = tool
  BY <1>1, HeldKnown, StageKnown, CallKnown DEF Once, Origins, Origin, Under, Exec, Attached
<1>G. /\ \A x : Gives(gates[mount], x)' => Gives(gates[mount], x)
      /\ Attached(c) /\ i = 1 => \A x : ~Gives(gates[mount], x)'
  <2>1. CASE i # 1
    BY <1>1, <2>1 DEF GateAfter, First
  <2>2. CASE i = 1
    <3>1. gates' = [gates EXCEPT ![c.mount].started = TRUE] /\ mount' = mount
      BY <1>1, <2>2 DEF GateAfter, First
    <3>2. gates \in Seq(GateRecord) /\ Len(gates) = mount /\ mount \in 1..mount
      BY GateKnown
    <3>3. CASE c.mount = mount
      <4>1. gates'[mount].started = TRUE
        BY <1>2, <3>1, <3>2, <3>3 DEF GateRecord
      <4>2. QED
        BY <3>1, <4>1 DEF Gives
    <3>4. CASE c.mount # mount
      <4>1. gates'[mount] = gates[mount]
        BY <1>2, <3>1, <3>2, <3>4
      <4>2. QED
        BY <3>1, <3>4, <4>1 DEF Gives, Attached
    <3>5. QED
      BY <3>3, <3>4
  <2>3. QED
    BY <2>1, <2>2
<1>3. s \in Shown /\ s.run = r /\ s.stage = i /\ s.status = "submitted"
  <2>1. r \in Nat \ {0} /\ i \in Nat /\ c.tx \in Nat
    BY <1>2, CallKnown DEF Sound, Shown, CallRecord
  <2>2. QED
    BY <2>1 DEF At, Shown
<1> HIDE DEF s
<1>4. /\ next.run = r
      /\ \/ next.status = "submitted" /\ next.stage = i
         \/ next.status = "completed" /\ next.stage = i /\ i = Len(Plan(r))
         \/ next.status = "review" /\ next.stage = i + 1 /\ i # Len(Plan(r))
  BY <1>3, ConfirmedIs
<1>5. PICK C \in Bound(c) : IF next.status = "completed" THEN ClearPointer(c.tool, C)
                            ELSE SavePointer(c.tool, KeyOf(c.session), C)
  BY DEF Executed, s
<1>6. \A k \in C : k \in capsules \/ (k.run = r /\ k.stage = i)
  BY DEF Bound, RemoveCapsule
<1>7. capsules' \subseteq C
  BY <1>5 DEF ClearPointer, SavePointer, RemoveCapsule
<1> HIDE DEF next
<1>8. ASSUME NEW x \in 1..Len(runs), Owned(x)' PROVE x # r
  <2>1. SUFFICES ASSUME x = r PROVE FALSE
    OBVIOUS
  <2>2. ASSUME Owned(x) PROVE OneCall(x)
    BY <2>2 DEF Once, FirstOwned, Unused
  <2>3. ASSUME Gives(gates[mount], x)' PROVE FALSE
    <3>1. Gives(gates[mount], x) /\ Owned(x)
      BY <1>1, <1>8, <1>G, <2>3 DEF Owned
    <3>2. Attached(c) /\ i = 1
      BY <2>1, <2>2, <3>1 DEF OneCall
    <3>3. QED
      BY <1>G, <2>3, <3>2
  <2>4. ASSUME NEW e \in calls, e # c, e.pc \in Under, Has(e.session, x, 1) PROVE FALSE
    <3>1. Owned(x) /\ e.session.run = x
      BY <1>1, <1>8, <2>4 DEF Owned, Has
    <3>2. QED
      BY <2>1, <2>2, <2>4, <3>1 DEF OneCall
  <2>5. QED
    BY <1>1, <1>8, <2>3, <2>4 DEF Owned
<1>9. Origins'
  <2>1. session' = session \/ runs[session'.run].tool = tool
    BY <1>1, <1>2, <1>4 DEF Once, Origins
  <2>2. \A t \in Tool : pointer'[t] \in {pointer[t], NoPointer} \/ runs[pointer'[t][1]].tool = t
    <3>1. pointer \in [Tool -> Nat \X Nat]
      BY Typed
    <3>2. QED
      BY <1>2, <1>5, <3>1 DEF ClearPointer, SavePointer, KeyOf
  <2>3. QED
    BY <1>1, <2>1, <2>2, OriginsKept DEF Once
<1>R. Reopenings'
  BY <1>1, ReopeningsKept, AlikeLen
<1>L. LeftStay
  <2>1. \A t \in Tool : pointer'[t] \in {pointer[t], NoPointer} \/ pointer'[t][1] = r
    <3>1. pointer \in [Tool -> Nat \X Nat]
      BY Typed
    <3>2. QED
      BY <1>2, <1>5, <3>1 DEF ClearPointer, SavePointer, KeyOf
  <2>2. ASSUME NEW x \in 1..Len(runs), Abandoned(x) PROVE Abandoned(x)'
    <3>1. x # r /\ x # 0
      BY <2>2 DEF Abandoned
    <3>2. session' \in {session, NoSession} \/ session'.run # x
      BY <1>1, <1>4, <3>1
    <3>3. QED
      BY <1>1, <1>G, <2>1, <2>2, <3>1, <3>2, AbandonedKept
  <2>3. QED
    BY <1>1, <2>2 DEF LeftStay
<1>10. FirstOwned'
  <2>1. ASSUME NEW x \in 1..Len(runs), Owned(x)' PROVE Unused(x)'
    <3>1. x # r
      BY <1>8, <2>1
    <3>2. QED
      <4>1. \A t \in Tool : pointer'[t] \in {pointer[t], NoPointer} \/ pointer'[t][1] # x
        <5>1. pointer \in [Tool -> Nat \X Nat]
          BY Typed
        <5>2. QED
          BY <1>2, <1>5, <3>1, <5>1 DEF ClearPointer, SavePointer, KeyOf
      <4>2. QED
        BY <1>1, <1>4, <1>6, <1>7, <1>G, <2>1, <3>1, <4>1, UnusedKept
  <2>2. QED
    BY <1>1, <2>1 DEF FirstOwned
<1>11. FirstBusy'
  <2>1. CASE Attached(c)
    <3>1. ~(next.stage = 1 /\ next.status = "review")
      BY <1>2, <1>4
    <3>2. QED
      BY <1>1, <2>1, <3>1 DEF FirstBusy, FirstShown
  <2>2. CASE ~Attached(c)
    BY <1>1, <2>2 DEF Once, FirstBusy, FirstShown, Attached
  <2>3. QED
    BY <2>1, <2>2
<1>12. Pointed'
  <2>1. CASE next.status = "completed"
    <3>1. i = Len(Plan(r))
      BY <1>4, <2>1
    <3>2. ASSUME NEW k \in C, k \notin capsules, k.stage = 1 PROVE Len(Plan(k.run)) # 2
      <4>1. k.run = r /\ i = 1
        BY <1>6, <3>2
      <4>2. Len(Plan(r)) = 1
        BY <3>1, <4>1
      <4>3. QED
        BY <4>1, <4>2
    <3>3. QED
      BY <1>1, <1>2, <1>5, <1>L, <2>1, <3>2, PointedCleared
  <2>2. CASE next.status # "completed"
    <3>1. \A k \in C : k \in capsules \/ (KeyOf(k) = KeyOf(c.session) /\ runs[k.run].tool = c.tool)
      BY <1>2, <1>6 DEF KeyOf
    <3>2. QED
      BY <1>1, <1>2, <1>5, <1>L, <2>2, <3>1, PointedSaved
  <2>3. QED
    BY <2>1, <2>2
<1>13. SecondPast'
  <2>1. ASSUME NEW x \in 1..Len(runs), Sent(x)', ~Flying(x)', ~Reusable(x)'
        PROVE  (NoCapsule(x) /\ PastSession(x) /\ PastCalls(x))'
    <3>1. Sent(x) /\ ~Reusable(x)
      BY <1>1, <2>1 DEF Sent, Has, Reusable
    <3>2. ~(i = 1 /\ r = x)
      BY <1>2, <3>1, ExecOwned, SentNotOwned
    <3>3. CASE Attached(c) /\ r = x
      <4>1. i = 2 /\ Len(Plan(x)) = 2
        BY <1>2, <3>2, <3>3
      <4>2. PastSession(x)'
        BY <1>1, <1>4, <3>3, <4>1 DEF PastSession
      <4>3. PastCalls(x)'
        BY <1>1, <3>3 DEF PastCalls, Attached, IInv, CallsApart
      <4>4. NoCapsule(x)'
        <5>1. ASSUME NEW k \in capsules', Has(k, x, 1) PROVE FALSE
          <6>1. k \in capsules /\ k \in C
            BY <1>6, <1>7, <4>1, <5>1 DEF Has
          <6>2. pointer[c.tool] = KeyOf(k)
            BY <1>2, <3>1, <3>3, <4>1, <5>1, <6>1 DEF Once, Pointed, Abandoned, Has, KeyOf
          <6>3. pointer[c.tool] # KeyOf(c.session)
            BY <4>1, <5>1, <6>2 DEF KeyOf, Has
          <6>4. QED
            BY <1>5, <5>1, <6>2, <6>3 DEF ClearPointer, SavePointer, RemoveCapsule
        <5>2. QED
          BY <5>1 DEF NoCapsule
      <4>5. QED
        BY <4>2, <4>3, <4>4
    <3>4. CASE ~(Attached(c) /\ r = x)
      <4>1. Flying(x) => Flying(x)'
        BY <1>1, <3>4 DEF Flying, Attached, Has
      <4>2. NoCapsule(x) /\ PastSession(x) /\ PastCalls(x)
        BY <1>1, <2>1, <4>1, SentKept
      <4>3. NoCapsule(x)'
        BY <1>6, <1>7, <3>2, <4>2 DEF NoCapsule, Has
      <4>4. PastCalls(x)'
        BY <1>1, <4>2, PastCallsKept DEF TxsAlike
      <4>5. PastSession(x)'
        <5>1. CASE Attached(c)
          BY <1>1, <1>4, <3>4, <5>1 DEF PastSession
        <5>2. CASE ~Attached(c)
          BY <1>1, <4>2, <5>2 DEF PastSession, Stale
        <5>3. QED
          BY <5>1, <5>2
      <4>6. QED
        BY <4>3, <4>4, <4>5
    <3>5. QED
      BY <3>3, <3>4
  <2>2. QED
    BY <1>1, <2>1 DEF SecondPast
<1>14. NotYet' /\ RepeatedOnlyElsewhere'
  BY <1>1, NotYetKept, RepeatedKept DEF Once
<1>15. QED
  BY <1>9, <1>R, <1>10, <1>11, <1>12, <1>13, <1>14 DEF Once

\* A mark that throws leaves the first stage's capsule: of a run that nothing else knows,
\* or that may be sent again.
LEMMA MarkThrowsOnce == ASSUME IInv, Once, NEW c \in calls, MarkThrows(c) PROVE Once'
<1> DEFINE r == c.session.run
<1>1. /\ c.pc = "bind" /\ c.session.stage = 1 /\ gates[c.mount].run # r
      /\ calls' = calls \ {c} /\ TxsAlike /\ capsules' \in Bound(c)
      /\ session' = NoSession \/ (UNCHANGED <<session, runtime>> /\ ~(Attached(c) /\ c.clears))
      /\ UNCHANGED <<tool, mount, gates, resuming, reopened, recovering, pointer, runs, txs>>
  BY AlikeSame DEF MarkThrows, First, Fails, Ends, view, fees, chain
<1>2. c.pc \in Under /\ c.pc \in Exec /\ c.pc \in Flight /\ r \in 1..Len(runs) /\ r # 0
  BY <1>1, HeldKnown DEF Under, Exec, Flight
<1>3. \A k \in capsules' : k \in capsules \/ (k.run = r /\ k.stage = 1)
  BY <1>1 DEF Bound, RemoveCapsule
<1>4. ASSUME Owned(r)
      PROVE  Unknown(r) /\ ~Gives(gates[mount], r) /\ \A e \in calls : e.session.run = r => e = c
  <2>1. Unused(r)
    BY <1>2, <1>4 DEF Once, FirstOwned
  <2>2. ~Gives(gates[mount], r)
    BY <1>1, <2>1 DEF Unused, OneCall, Gives, Attached
  <2>3. QED
    BY <2>1, <2>2 DEF Unused, OneCall
<1>5. Origins' /\ Reopenings'
  BY <1>1, OriginsKept, ReopeningsKept, AlikeLen DEF Once
<1>6. FirstOwned'
  <2>1. ASSUME NEW x \in 1..Len(runs), Owned(x)' PROVE Unused(x)'
    <3>1. Owned(x)
      BY <1>1, <2>1 DEF Owned
    <3>2. x # r
      <4>1. ASSUME x = r PROVE FALSE
        BY <1>1, <1>4, <2>1, <3>1, <4>1 DEF Owned, Has
      <4>2. QED
        BY <4>1
    <3>3. QED
      BY <1>1, <1>3, <2>1, <3>2, UnusedKept
  <2>2. QED
    BY <1>1, <2>1 DEF FirstOwned
<1>7. FirstBusy'
  BY <1>1 DEF Once, FirstBusy, FirstShown, NoSession, Attached
<1>8. \A x \in 1..Len(runs) : Abandoned(x) => Abandoned(x)'
  <2>1. ASSUME NEW x \in 1..Len(runs), Abandoned(x) PROVE Abandoned(x)'
    <3>1. x # 0
      OBVIOUS
    <3>2. QED
      BY <1>1, <2>1, <3>1, AbandonedKept
  <2>2. QED
    BY <2>1
<1>9. Pointed'
  <2>1. ASSUME NEW k \in capsules', k.stage = 1, Len(Plan(k.run)) = 2, ~Reusable(k.run), ~Abandoned(k.run)'
        PROVE  pointer[runs[k.run].tool] = <<k.run, 1>>
    <3>1. CASE k \in capsules
      BY <1>8, <2>1, <3>1, CapsuleKnown DEF Once, Pointed
    <3>2. CASE k.run = r
      <4>1. Unknown(r) /\ ~Gives(gates[mount], r) /\ \A e \in calls : e.session.run = r => e = c
        BY <1>1, <1>2, <1>4, <2>1, <3>2, ExecOwned
      <4>2. Unknown(r)'
        BY <1>1, <1>2, <4>1, UnknownKept
      <4>3. Abandoned(r)'
        BY <1>1, <4>1, <4>2 DEF Abandoned
      <4>4. QED
        BY <2>1, <3>2, <4>3
    <3>3. QED
      BY <1>3, <3>1, <3>2
  <2>2. QED
    BY <1>1, <2>1 DEF Pointed, Plan, Reusable
<1>10. SecondPast'
  <2>1. ASSUME NEW x \in 1..Len(runs), Sent(x)', ~Flying(x)', ~Reusable(x)'
        PROVE  (NoCapsule(x) /\ PastSession(x) /\ PastCalls(x))'
    <3>1. Flying(x) => Flying(x)'
      BY <1>1 DEF Flying, Attached, Has
    <3>2. Sent(x) /\ ~Reusable(x) /\ NoCapsule(x) /\ PastSession(x) /\ PastCalls(x)
      BY <1>1, <2>1, <3>1, SentKept
    <3>3. x # r
      BY <1>1, <1>2, <3>2, ExecOwned, SentNotOwned
    <3>4. NoCapsule(x)'
      BY <1>3, <3>2, <3>3 DEF NoCapsule, Has
    <3>5. PastSession(x)' /\ PastCalls(x)'
      <4>1. x # 0
        OBVIOUS
      <4>2. QED
        BY <1>1, <3>2, <4>1, PastSessionKept, PastCallsKept DEF TxsAlike
    <3>6. QED
      BY <3>4, <3>5
  <2>2. QED
    BY <1>1, <2>1 DEF SecondPast
<1>11. NotYet' /\ RepeatedOnlyElsewhere'
  BY <1>1, NotYetKept, RepeatedKept DEF Once
<1>12. QED
  BY <1>5, <1>6, <1>7, <1>9, <1>10, <1>11 DEF Once

\* A confirmation shows the next stage: not one this mount sent already.
LEMMA VerifiedOnce == ASSUME IInv, Once, NEW c \in calls, Verified(c) PROVE Once'
<1> DEFINE next == Confirmed(c.session)
           d == [c EXCEPT !.pc = "refresh", !.session = next]
<1>1. c \in CallRecord /\ c.pc = "verify" /\ Sound(c.session, runs, txs) /\ c.tool \in Tool
  BY CallKnown, HeldKnown DEF Verified
<1>2. /\ d.pc = "refresh" /\ d.session = next /\ d.mount = c.mount /\ d.tool = c.tool /\ d.tx = c.tx
  BY <1>1 DEF CallRecord
<1>3. /\ next.run = c.session.run
      /\ c.session.stage = Len(Plan(c.session.run)) => next.status = "completed" /\ next.stage = c.session.stage
      /\ c.session.stage # Len(Plan(c.session.run)) => next.status = "review" /\ next.stage = c.session.stage + 1
  BY <1>1, ConfirmedIs DEF Sound
<1>4. /\ calls' = (calls \ {c}) \cup {d} /\ TxsAlike
      /\ session' = (IF Attached(c) THEN next ELSE session)
      /\ UNCHANGED <<pointer, capsules>> \/ ClearPointer(c.tool, capsules)
      /\ UNCHANGED <<tool, mount, runtime, gates, resuming, reopened, recovering, runs, txs>>
  BY AlikeSame DEF Verified, Goes, Shows, fees, storage, chain
<1> HIDE DEF next, d
<1>5. /\ capsules' \subseteq capsules
      /\ \A t \in Tool : pointer'[t] \in {pointer[t], NoPointer}
  BY <1>1, <1>4, PointersFewer
<1>P. Pointed'
  <2>1. ASSUME NEW r \in 1..Len(runs), Abandoned(r) PROVE Abandoned(r)'
    <3>1. c.session.run # r /\ r # 0
      BY <2>1 DEF Abandoned
    <3>2. session' \in {session, NoSession} \/ session'.run # r
      BY <1>3, <1>4, <3>1
    <3>3. \A e \in calls' : e \in calls \/ e.session.run # r
      BY <1>2, <1>3, <1>4, <3>1
    <3>4. QED
      BY <1>4, <1>5, <2>1, <3>1, <3>2, <3>3, AbandonedKept
  <2>2. LeftStay
    BY <1>4, <2>1 DEF LeftStay
  <2>3. QED
    BY <1>1, <1>4, <2>2, PointedKept
<1>6. /\ c.session.run \in 1..Len(runs) /\ c.session.run # 0 /\ c.session.stage \in {1, 2}
      /\ c.session.stage = 2 => Len(Plan(c.session.run)) = 2
      /\ runs[c.session.run].tool = c.tool /\ (Attached(c) => c.tool = tool)
  BY <1>1, StageKnown DEF Once, Origins, Origin, Attached
<1>7. Origins'
  <2>1. session' = session \/ runs[session'.run].tool = tool
    BY <1>3, <1>4, <1>6
  <2>2. Origin(d, runs, mount, tool)
    BY <1>2, <1>3, <1>6 DEF Origin, Attached
  <2>3. QED
    BY <1>4, <1>5, <2>1, <2>2, OriginsKept DEF Once
<1>R. Reopenings'
  <2>1. d.pc \notin Exec
    BY <1>2 DEF Exec
  <2>2. QED
    BY <1>4, <2>1, ReopeningsKept, AlikeLen
<1>8. FirstOwned'
  <2>1. c.pc \notin Under /\ d.pc \notin Under
    BY <1>1, <1>2 DEF Under, Exec
  <2>2. session' = session \/ session'.run = c.session.run
    BY <1>3, <1>4
  <2>3. QED
    BY <1>2, <1>3, <1>4, <1>5, <2>1, <2>2, OwnedGoes DEF Goes
<1>9. FirstBusy'
  <2>1. CASE Attached(c)
    <3>1. ~(next.stage = 1 /\ next.status = "review")
      BY <1>3, <1>6
    <3>2. QED
      BY <1>4, <2>1, <3>1 DEF FirstBusy, FirstShown
  <2>2. CASE ~Attached(c)
    BY <1>1, <1>4, <2>2 DEF Once, FirstBusy, FirstShown, Attached, Exec
  <2>3. QED
    BY <2>1, <2>2
<1>10. SecondPast'
  <2>1. ASSUME NEW r \in 1..Len(runs), Sent(r)', ~Flying(r)', ~Reusable(r)'
        PROVE  (NoCapsule(r) /\ PastSession(r) /\ PastCalls(r))'
    <3>1. Flying(r) => Flying(r)'
      BY <1>1, <1>4 DEF Flying, Attached, Flight
    <3>2. NoCapsule(r) /\ PastSession(r) /\ PastCalls(r)
      BY <1>4, <2>1, <3>1, SentKept
    <3>3. NoCapsule(r)'
      BY <1>5, <3>2 DEF NoCapsule
    <3>4. PastCalls(r)'
      <4>1. \A e \in calls' : e \in calls \/ e.pc \notin {"receipt", "verify"} \/ ~Has(e.session, r, 1)
        BY <1>2, <1>4
      <4>2. QED
        BY <1>4, <3>2, <4>1, PastCallsKept DEF TxsAlike
    <3>5. PastSession(r)'
      <4>1. CASE Attached(c)
        <5>1. ~Has(c.session, r, 1)
          BY <1>1, <3>2, <4>1 DEF PastCalls
        <5>2. c.session.run = r => next.stage = 2 /\ next.status = "completed"
          BY <1>3, <1>6, <5>1 DEF Has
        <5>3. QED
          BY <1>3, <1>4, <4>1, <5>2 DEF PastSession
      <4>2. CASE ~Attached(c)
        BY <1>4, <3>2, <4>2 DEF PastSession, Stale
      <4>3. QED
        BY <4>1, <4>2
    <3>6. QED
      BY <3>3, <3>4, <3>5
  <2>2. QED
    BY <1>4, <2>1 DEF SecondPast
<1>11. NotYet' /\ RepeatedOnlyElsewhere'
  BY <1>2, <1>4, NotYetKept, RepeatedKept DEF Once
<1>12. QED
  BY <1>P, <1>7, <1>R, <1>8, <1>9, <1>10, <1>11 DEF Once

-----------------------------------------------------------------------------
(* Recovery, views and the chain *)

\* A recovery: a first stage it puts back has a new runtime, which sent nothing.
LEMMA RestoresOnce == ASSUME IInv, Once, Restores PROVE Once'
<1>1. /\ recovering.run # 0 /\ session' = recovering /\ recovering' = NoRecovery
      /\ gates' = [gates EXCEPT ![mount] = [run |-> recovering.run, started |-> TRUE]]
      /\ runtime' = FreshRuntime /\ Forget(FreshRuntime)
      /\ UNCHANGED <<tool, mount, calls, resuming, reopened, pointer, capsules, runs>>
  BY DEF Restores, view, storage
<1>2. TxsAlike /\ \A t \in 1..Len(txs) : txs'[t].runtime # runtime'
  BY <1>1, FreshRuntimeType, ForgetAlike
<1>3. recovering.status = "submitted" /\ runs[recovering.run].tool = tool
  BY <1>1 DEF Once, Origins
<1>4. \A x : ~Gives(gates[mount], x)'
  <2>1. gates'[mount] = [run |-> recovering.run, started |-> TRUE]
    BY <1>1, GateKnown
  <2>2. gates'[mount].started = TRUE /\ mount' = mount
    BY <1>1, <2>1
  <2>3. QED
    BY <2>2 DEF Gives
<1>5. Origins' /\ Reopenings'
  BY <1>1, <1>2, <1>3, OriginsKept, ReopeningsKept, AlikeLen DEF Once
<1>6. FirstOwned'
  <2>1. ASSUME NEW r \in 1..Len(runs), Owned(r)' PROVE Unused(r)'
    <3>1. Owned(r)
      BY <1>1, <1>4, <2>1 DEF Owned
    <3>2. session'.run # r
      BY <1>1, <3>1, RecoveringSent
    <3>3. QED
      BY <1>1, <1>2, <1>4, <2>1, <3>2, UnusedKept
  <2>2. QED
    BY <1>1, <2>1 DEF FirstOwned
<1>7. FirstBusy'
  BY <1>1, <1>3 DEF FirstBusy, FirstShown
<1>8. Pointed'
  <2>1. ASSUME NEW r \in 1..Len(runs), Abandoned(r) PROVE Abandoned(r)'
    <3>1. session'.run # r /\ r # 0
      BY <1>1, <2>1, RecoveringSent
    <3>2. QED
      BY <1>1, <1>4, <2>1, <3>1, AbandonedKept
  <2>2. LeftStay
    BY <1>1, <2>1 DEF LeftStay
  <2>3. QED
    BY <1>1, <2>2, PointedKept
<1>9. SecondPast'
  <2>1. ASSUME NEW r \in 1..Len(runs), Sent(r)', ~Flying(r)', ~Reusable(r)'
        PROVE  (NoCapsule(r) /\ PastSession(r) /\ PastCalls(r))'
    <3>1. Flying(r) => Flying(r)'
      BY <1>1 DEF Flying, Attached
    <3>2. NoCapsule(r) /\ PastCalls(r)
      BY <1>1, <1>2, <2>1, <3>1, SentKept
    <3>3. NoCapsule(r)' /\ PastCalls(r)'
      BY <1>1, <1>2, <3>2, PastCallsKept DEF NoCapsule, TxsAlike
    <3>4. recovering.tx \in 1..Len(txs)
      BY <1>1, <1>3, RecoveringKnown, StageKnown
    <3>5. PastSession(r)'
      BY <1>1, <1>2, <1>3, <3>4 DEF PastSession, Stale
    <3>6. QED
      BY <3>3, <3>5
  <2>2. QED
    BY <1>1, <2>1 DEF SecondPast
<1>10. NotYet' /\ RepeatedOnlyElsewhere'
  BY <1>1, <1>2, NotYetKept, RepeatedKept DEF Once
<1>11. QED
  BY <1>5, <1>6, <1>7, <1>8, <1>9, <1>10 DEF Once

\* A cancelled recovery makes its run active again: the gate gives a run that was sent.
LEMMA CancelledResumesOnce == ASSUME IInv, Once, NEW o \in resuming, CancelledResumes(o) PROVE Once'
<1>1. /\ gates' = [gates EXCEPT ![o.mount] = [run |-> o.run, started |-> FALSE]]
      /\ resuming' \subseteq resuming
      /\ reopened' = IF o.mount = mount THEN reopened \cup {o.run} ELSE reopened
      /\ UNCHANGED <<tool, mount, session, runtime, recovering, calls, pointer, capsules, runs, txs>>
      /\ TxsAlike
  BY AlikeSame DEF CancelledResumes, view, storage, chain
<1>2. o.mount \in 1..mount
  BY DEF IInv, CancelledSound, Resumable
<1>3. /\ \A x : Gives(gates[mount], x)' => Gives(gates[mount], x) \/ (x = o.run /\ x \in reopened')
      /\ reopened \subseteq reopened'
  <2>1. CASE o.mount = mount
    <3>1. gates'[mount].run = o.run
      BY <1>1, <2>1, GateKnown
    <3>2. QED
      BY <1>1, <2>1, <3>1 DEF Gives
  <2>2. CASE o.mount # mount
    <3>1. gates'[mount] = gates[mount]
      BY <1>1, <1>2, <2>2, GateKnown
    <3>2. QED
      BY <1>1, <2>2, <3>1 DEF Gives
  <2>3. QED
    BY <2>1, <2>2
<1>4. Origins'
  BY <1>1, OriginsKept DEF Once
<1>5. Reopenings'
  <2>1. SentRun(o.run, txs)
    BY DEF Once, Reopenings
  <2>2. ASSUME FeeOn, NEW c \in calls, c.pc \in Exec, c.session.stage = 1 PROVE c.session.run # o.run
    <3>1. c.session.run \in 1..Len(runs) /\ c.session.run \notin reopened
      BY <2>2, HeldKnown DEF Once, Reopenings
    <3>2. Owned(c.session.run)
      BY <2>2, <3>1 DEF Owned, Has, Under
    <3>3. QED
      BY <3>1, <3>2 DEF Once, FirstOwned, Unused, Unknown
  <2>3. QED
    BY <1>1, <2>1, <2>2 DEF Once, Reopenings
<1>6. FirstOwned'
  <2>1. ASSUME NEW r \in 1..Len(runs), Owned(r)' PROVE Unused(r)'
    <3>1. Gives(gates[mount], r)' => Gives(gates[mount], r)
      BY <1>3, <2>1 DEF Owned
    <3>2. QED
      BY <1>1, <1>3, <2>1, <3>1, UnusedKept
  <2>2. QED
    BY <1>1, <2>1 DEF FirstOwned
<1>7. FirstBusy'
  BY <1>1 DEF Once, FirstBusy, FirstShown, Attached
<1>8. Pointed'
  <2>1. ASSUME NEW r \in 1..Len(runs), Abandoned(r) PROVE Abandoned(r)'
    <3>1. o.run # r /\ r # 0
      BY <2>1 DEF Abandoned, Unknown
    <3>2. Gives(gates[mount], r)' => Gives(gates[mount], r)
      BY <1>3, <3>1
    <3>3. QED
      BY <1>1, <2>1, <3>1, <3>2, AbandonedKept
  <2>2. LeftStay
    BY <1>3, <2>1 DEF LeftStay
  <2>3. QED
    BY <1>1, <2>2, PointedKept
<1>9. SecondPast'
  <2>1. \A r \in 1..Len(runs) : Flying(r) => Flying(r)'
    BY <1>1 DEF Flying, Attached
  <2>2. QED
    BY <1>1, <1>3, <2>1, SecondKept
<1>10. NotYet' /\ RepeatedOnlyElsewhere'
  BY <1>1, <1>3, NotYetKept, RepeatedKept DEF Once
<1>11. QED
  BY <1>4, <1>5, <1>6, <1>7, <1>8, <1>9, <1>10 DEF Once

\* What is recovered is the stage of a capsule, the one the pointer of its tool names.
LEMMA RecoveryForKnown ==
  ASSUME IInv, Once, NEW t \in Tool, NEW m, NEW x, x = RecoveryFor(t, m)
  PROVE  \/ x = NoRecovery
         \/ /\ x.status = "submitted" /\ runs[x.run].tool = t /\ x.run = pointer[t][1]
            /\ \E k \in capsules : x.run = k.run
<1> DEFINE found == {k \in capsules : KeyOf(k) = pointer[t]}
<1>1. SUFFICES ASSUME x # NoRecovery
               PROVE  /\ x.status = "submitted" /\ runs[x.run].tool = t /\ x.run = pointer[t][1]
                      /\ \E k \in capsules : x.run = k.run
  OBVIOUS
<1>2. PICK k \in found : x = At(k.run, k.stage, "submitted", k.tx)
  <2>1. found # {} /\ x = LET k == CHOOSE k \in found : TRUE IN At(k.run, k.stage, "submitted", k.tx)
    BY <1>1 DEF RecoveryFor
  <2>2. QED
    BY <2>1
<1>3. k \in capsules /\ k.run # 0 /\ pointer[t] = <<k.run, k.stage>>
  BY <1>2, Typed DEF Bundle, KeyOf
<1>4. runs[k.run].tool = t
  BY <1>3 DEF Once, Origins, NoPointer
<1>5. QED
  BY <1>2, <1>3, <1>4 DEF At

\* No owned run is recovered, and none that was left behind.
LEMMA RecoversOther ==
  ASSUME IInv, Once, NEW t \in Tool, NEW m, NEW x, x = RecoveryFor(t, m), NEW r, Unused(r) \/ Abandoned(r)
  PROVE  x = NoRecovery \/ x.run # r
BY RecoveryForKnown DEF Unused, Abandoned, Unknown

LEMMA SwitchOnce == ASSUME IInv, Once, NEW m, Switch(m) PROVE Once'
<1>1. /\ session' = NoSession /\ runtime' = 0 /\ recovering' = RecoveryFor(tool, m)
      /\ UNCHANGED <<tool, mount, gates, reopened, calls, pointer, capsules, runs, txs>> /\ TxsAlike
      /\ \A o \in resuming' : o \in resuming \/ (recovering.run # 0 /\ o.run = recovering.run)
  BY AlikeSame DEF Switch, Recovers, storage, chain
<1>2. tool \in Tool
  BY Typed
<1>3. PICK x : x = RecoveryFor(tool, m)
  OBVIOUS
<1>4. x = NoRecovery \/ (x.status = "submitted" /\ runs[x.run].tool = tool)
  BY <1>2, <1>3, RecoveryForKnown
<1>5. Origins'
  BY <1>1, <1>3, <1>4 DEF Once, Origins, NoSession, NoRecovery
<1>6. Reopenings'
  BY <1>1, ReopeningsKept, AlikeLen
<1>7. FirstOwned'
  <2>1. ASSUME NEW r \in 1..Len(runs), Owned(r)' PROVE Unused(r)'
    <3>1. Unused(r)
      BY <1>1, <2>1 DEF Owned, Once, FirstOwned
    <3>2. x = NoRecovery \/ x.run # r
      BY <1>2, <1>3, <3>1, RecoversOther
    <3>3. QED
      BY <1>1, <1>3, <2>1, <3>2, UnusedKept
  <2>2. QED
    BY <1>1, <2>1 DEF FirstOwned
<1>8. FirstBusy'
  BY <1>1 DEF FirstBusy, FirstShown, NoSession
<1>9. Pointed'
  <2>1. ASSUME NEW r \in 1..Len(runs), Abandoned(r) PROVE Abandoned(r)'
    <3>1. (x = NoRecovery \/ x.run # r) /\ r # 0
      BY <1>2, <1>3, <2>1, RecoversOther
    <3>2. QED
      BY <1>1, <1>3, <2>1, <3>1, AbandonedKept
  <2>2. LeftStay
    BY <1>1, <2>1 DEF LeftStay
  <2>3. QED
    BY <1>1, <2>2, PointedKept
<1>10. SecondPast'
  <2>1. \A r \in 1..Len(runs) : Flying(r) => Flying(r)'
    BY <1>1 DEF Flying, Attached
  <2>2. QED
    BY <1>1, <2>1, SecondKept
<1>11. NotYet' /\ RepeatedOnlyElsewhere'
  BY <1>1, NotYetKept, RepeatedKept DEF Once
<1>12. QED
  BY <1>5, <1>6, <1>7, <1>8, <1>9, <1>10, <1>11 DEF Once

\* A new mount sent nothing yet, and its gate has no run.
LEMMA MountsOnce ==
  ASSUME IInv, Once, NEW t \in Tool, Mounts(t), calls' = calls \/ calls' = {},
         recovering' = RecoveryFor(t, mode), reopened' = reopened,
         \A o \in resuming' : o \in resuming \/ (recovering.run # 0 /\ o.run = recovering.run),
         UNCHANGED <<mode, storage, runs, chain>>
  PROVE  Once'
<1>1. /\ session' = NoSession /\ gates' = Append(gates, NoGate)
      /\ tool' = t /\ mount' = mount + 1 /\ mount \in Nat
      /\ UNCHANGED <<pointer, capsules, runs, txs>> /\ TxsAlike
  BY AlikeSame, Typed DEF Mounts, storage, chain
<1>2. \A r \in 1..Len(runs) : ~Gives(gates[mount], r)'
  <2>1. gates \in Seq(GateRecord) /\ Len(gates) = mount /\ NoGate \in GateRecord
    BY GateKnown DEF NoGate, GateRecord
  <2>2. gates'[mount + 1] = NoGate
    <3>1. gates' = Append(gates, NoGate) /\ mount \in Nat
      BY <1>1
    <3>2. QED
      BY <2>1, <3>1, AppendProperties
  <2>3. gates'[mount'] = NoGate
    BY <1>1, <2>2, Zenon
  <2>4. NoGate.run = 0
    BY DEF NoGate
  <2>5. QED
    BY <2>3, <2>4 DEF Gives
<1>3. PICK x : x = RecoveryFor(t, mode)
  OBVIOUS
<1>4. x = NoRecovery \/ (x.status = "submitted" /\ runs[x.run].tool = t)
  BY <1>3, RecoveryForKnown
<1>5. \A c \in calls : c.mount # mount'
  BY <1>1, CallKnown
<1>6. \A u \in 1..Len(txs) : txs[u].mount <= mount' /\ txs[u].mount # mount'
  <2>1. ASSUME NEW u \in 1..Len(txs) PROVE txs[u].mount <= mount' /\ txs[u].mount # mount'
    BY <1>1, TxKnown DEF Once, Origins
  <2>2. QED
    BY <2>1
<1>7. Origins'
  <2>1. \A c \in calls' : c \in calls
    OBVIOUS
  <2>2. \A c \in calls' : Origin(c, runs, mount', t)
    BY <1>5, <2>1 DEF Once, Origins, Origin
  <2>3. QED
    BY <1>1, <1>3, <1>4, <1>6, <2>2 DEF Once, Origins, NoSession, NoRecovery
<1>8. Reopenings'
  BY <1>1, ReopeningsKept, AlikeLen
<1>9. FirstOwned'
  <2>1. ASSUME NEW r \in 1..Len(runs), Owned(r)' PROVE Unused(r)'
    <3>1. calls' = calls /\ Owned(r)
      BY <1>2, <2>1 DEF Owned
    <3>2. Unused(r)
      BY <3>1 DEF Once, FirstOwned
    <3>3. x = NoRecovery \/ x.run # r
      BY <1>3, <3>2, RecoversOther
    <3>4. QED
      BY <1>1, <1>2, <1>3, <2>1, <3>1, <3>3, UnusedKept
  <2>2. QED
    BY <1>1, <2>1 DEF FirstOwned
<1>10. FirstBusy'
  BY <1>1 DEF FirstBusy, FirstShown, NoSession
<1>11. Pointed'
  <2>1. ASSUME NEW r \in 1..Len(runs), Abandoned(r) PROVE Abandoned(r)'
    <3>1. (x = NoRecovery \/ x.run # r) /\ r # 0
      BY <1>3, <2>1, RecoversOther
    <3>2. QED
      BY <1>1, <1>2, <1>3, <2>1, <3>1, AbandonedKept
  <2>2. LeftStay
    BY <2>1 DEF LeftStay
  <2>3. QED
    BY <1>1, <2>2, PointedKept
<1>12. SecondPast'
  BY <1>1, <1>6 DEF SecondPast, Sent
<1>13. NotYet' /\ RepeatedOnlyElsewhere'
  BY <1>1, NotYetKept, RepeatedKept DEF Once
<1>14. QED
  BY <1>7, <1>8, <1>9, <1>10, <1>11, <1>12, <1>13 DEF Once

LEMMA ChainOnce == ASSUME IInv, Once, Chain PROVE Once'
<1>1. ASSUME TxsAlike, UNCHANGED <<view, flow, calls, storage, runs>> PROVE Once'
  BY <1>1, LessOnce DEF view, flow, fees, storage
<1>2. ASSUME NEW b, Moves(b) PROVE Once'
  BY <1>1, <1>2, AlikeSame DEF Moves
<1>3. ASSUME NEW t \in 1..Len(txs), NEW s, txs' = [txs EXCEPT ![t].status = s] PROVE TxsAlike
  <2>1. txs \in Seq(Tx) /\ \A u \in 1..Len(txs) : txs[u] \in Tx
    BY Typed
  <2>2. Len(txs') = Len(txs) /\ Len(txs) \in Nat
    BY <1>3, <2>1
  <2>3. ASSUME NEW u \in 1..Len(txs)
        PROVE  /\ txs'[u].run = txs[u].run /\ txs'[u].stage = txs[u].stage
               /\ txs'[u].mount = txs[u].mount /\ txs'[u].runtime = txs[u].runtime
    <3>1. txs[u] \in Tx
      BY <2>1
    <3>2. txs'[u] = IF u = t THEN [txs[u] EXCEPT !.status = s] ELSE txs[u]
      BY <1>3, <2>1
    <3>3. QED
      BY <3>1, <3>2 DEF Tx
  <2>4. QED
    BY <2>2, <2>3 DEF TxsAlike, TxsStay
<1>4. ASSUME NEW t \in 1..Len(txs), Succeed(t) \/ Revert(t) PROVE Once'
  BY <1>1, <1>3, <1>4 DEF Succeed, Revert
<1>5. CASE Deposit
  BY <1>2, <1>5 DEF Deposit
<1>6. CASE PositionAction
  BY <1>2, <1>6 DEF PositionAction
<1>7. QED
  BY <1>4, <1>5, <1>6 DEF Chain

LEMMA InitOnce == ASSUME Init PROVE Once
<1>1. /\ runs = <<>> /\ txs = <<>> /\ calls = {} /\ capsules = {} /\ mount = 1 /\ session = NoSession
      /\ recovering = NoRecovery /\ resuming = {} /\ reopened = {} /\ \A t \in Tool : pointer[t] = NoPointer
  BY DEF Init
<1>2. Origins /\ Reopenings
  BY <1>1 DEF Origins, Reopenings, NoSession, NoRecovery
<1>3. FirstOwned /\ FirstBusy /\ Pointed /\ SecondPast /\ NotYet
  BY <1>1 DEF FirstOwned, FirstBusy, FirstShown, NoSession, Pointed, SecondPast, NotYet
<1>4. RepeatedOnlyElsewhere
  BY <1>1 DEF RepeatedOnlyElsewhere, TxIds
<1>5. QED
  BY <1>2, <1>3, <1>4 DEF Once

LEMMA NextOnce == ASSUME IInv, Once, [Next]_vars PROVE Once'
<1>1. CASE Starting \/ Review \/ Invalidate \/ Continuing \/ Confirming \/ Reset \/ UNCHANGED vars
  BY <1>1, StartingOnce, LessStepsOnce, ContinuingOnce, ConfirmingOnce
<1>2. ASSUME NEW c \in calls, Executing(c) PROVE Once'
  BY <1>2, FeeGrantedOnce, CallMovesOnce, LessStepsOnce, BroadcastOnce, ExecutedOnce, MarkThrowsOnce DEF Executing
<1>3. ASSUME NEW c \in calls, Reading(c) PROVE Once'
  BY <1>3, CallMovesOnce, VerifiedOnce, LessStepsOnce DEF Reading
<1>4. CASE Recovering
  BY <1>4, RestoresOnce, LessStepsOnce, CancelledResumesOnce DEF Recovering, BorrowRecovered, StakingRecovered, LendRecovered
<1>5. CASE Viewing
  <2>1. ASSUME NEW t \in Tool, Show(t) PROVE Once'
    <3>1. /\ Mounts(t) /\ calls' = calls /\ recovering' = RecoveryFor(t, mode) /\ reopened' = reopened
          /\ \A o \in resuming' : o \in resuming \/ (recovering.run # 0 /\ o.run = recovering.run)
          /\ UNCHANGED <<mode, storage, runs, chain>>
      BY <2>1 DEF Show, Recovers
    <3>2. QED
      BY <3>1, MountsOnce
  <2>2. CASE Reload
    <3>1. /\ Mounts(tool) /\ calls' = {} /\ recovering' = RecoveryFor(tool, mode) /\ reopened' = reopened
          /\ resuming' = {} /\ UNCHANGED <<mode, storage, runs, chain>>
      BY <2>2 DEF Reload
    <3>2. QED
      BY <3>1, Typed, MountsOnce
  <2>3. QED
    BY <1>5, <2>1, <2>2, SwitchOnce DEF Viewing
<1>6. CASE Chain
  BY <1>6, ChainOnce
<1>7. QED
  BY <1>1, <1>2, <1>3, <1>4, <1>5, <1>6 DEF Next

\* One mount of the borrow, staking or lend page sends no stage of a run twice, and the
\* first stage is sent once by all of them, whatever was unmounted, switched, refused,
\* reloaded or recovered late and whichever mark threw (starknet-staking-runtime.ts:759).
\* Only where no fee is asked, a run that a cancelled recovery made active again in the
\* gate of the mount there was (useStakingController.ts:793) is meant by neither.
THEOREM RepeatsElsewhere == Spec => []RepeatedOnlyElsewhere
<1>1. Init => Once
  BY InitOnce
<1>2. IInv /\ Once /\ [Next]_vars => Once'
  BY NextOnce
<1>3. Spec => []Once
  BY <1>1, <1>2, Inductive, PTL DEF Spec
<1>4. Once => RepeatedOnlyElsewhere
  BY DEF Once
<1>5. QED
  BY <1>3, <1>4, PTL

=============================================================================
