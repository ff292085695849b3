---------------------------- MODULE SwapFlowProofs ----------------------------
(***************************************************************************)
(* A swap plan sends no stage before the one before it succeeded and shows *)
(* none as done that did not, for any plans, any number of runs,           *)
(* transactions and reloads, and every failure.  Whatever refers to a stage*)
(* (the page, a call, a recovery, a capsule) refers to one whose           *)
(* predecessors succeeded, and success is never undone.                    *)
(***************************************************************************)
EXTENDS SwapFlow, SequenceTheorems, TLAPS

Tx == [run : Nat, stage : Nat, status : {"pending", "succeeded", "reverted"}, amount : Nat,
       yield : Nat, page : Nat]

\* A session that is not null, a capsule, a recovery under way.
Shown ==
  [run : Nat \ {0}, stage : Nat, status : {"review", "submitted", "completed"}, tx : Nat, input : Nat]
Capsule == [run : Nat \ {0}, stage : Nat, tx : Nat, before : Nat]
Attempt ==
  [run : Nat \ {0}, stage : Nat, tx : Nat, pc : {"capsule", "resume"}, bought : Int]
Made == [id : 1..3, bought : Int]
Snapshot == [runtime : 1..3, run : Nat, stage : Nat, tx : Nat, before : Nat]

\* x is a stage of a run; it is the stage of its transaction.
StageOf(x, R) == x.run \in 1..Len(R) /\ x.stage \in 1..Len(PlanOf[R[x.run]])
Refers(x, T) == x.tx \in 1..Len(T) /\ T[x.tx].run = x.run /\ T[x.tx].stage = x.stage

\* A transaction of the stage succeeded; of all before stage i; of all but a shield.
Succeeds(r, i, T) ==
  \E t \in 1..Len(T) : T[t].run = r /\ T[t].stage = i /\ T[t].status = "succeeded"
Backed(r, i, T) == \A j \in 1..i - 1 : Succeeds(r, j, T)
AllDone(r, R, T) ==
  \A i \in 1..Len(PlanOf[R[r]]) : PlanOf[R[r]][i] # "shield" => Succeeds(r, i, T)

\* What a session says is so.
Sound(s, R, T) ==
  /\ s \in Shown /\ StageOf(s, R)
  /\ Backed(s.run, s.stage, T)
  /\ s.status = "submitted" => Refers(s, T)
  /\ s.status = "completed" => AllDone(s.run, R, T)

\* Something was sent of the run.
HasTx(r, T) == \E t \in 1..Len(T) : T[t].run = r

\* The call was given the run and has sent nothing of it.
Starts(c, r) ==
  \/ c.pc = "fee" /\ c.run = r
  \/ c.pc \in {"prepare", "wallet"} /\ c.first /\ c.session.run = r

\* A call at each await.
CallSound(c, R, T) ==
  \/ c = NoCall
  \/ /\ c.pc = "fee" /\ c.run \in 1..Len(R) /\ c.runtime \in [id : 0..3, bought : Int]
     /\ HasTx(c.run, T) \/ c.run = Len(R)
  \/ /\ c.pc \in {"prepare", "wallet", "wait", "bind", "receipt", "load", "verify", "refresh"}
     /\ Sound(c.session, R, T) /\ c.runtime \in Made
     /\ c.pc \in {"prepare", "wallet"} =>
          c.first \in BOOLEAN /\ (c.first => HasTx(c.session.run, T) \/ c.session.run = Len(R))
     /\ c.pc \in {"wallet", "wait", "bind", "verify"} => c.before \in Nat
     /\ c.pc \in {"wait", "bind"} =>
          Refers([run |-> c.session.run, stage |-> c.session.stage, tx |-> c.tx], T)
     /\ c.pc = "bind" =>
          (c.confirmed => PlanOf[R[c.session.run]][c.session.stage] = "shield")
     /\ c.pc \in {"receipt", "load", "verify"} => c.session.status = "submitted"
     /\ c.pc \in {"load", "verify"} => T[c.session.tx].status = "succeeded"
     /\ c.pc = "load" => c.found \in Capsule

TypeInv ==
  /\ mode \in Mode /\ runtime \in [id : 0..3, bought : Int]
  /\ gate \in [run : Nat, started : BOOLEAN] /\ resuming \subseteq [run : Nat, switch : Nat]
  /\ runs \in Seq(Mode) /\ txs \in Seq(Tx)
  /\ balance \in [sold : Nat, bought : Nat]
  /\ snapshots \subseteq Snapshot /\ capsules \subseteq Capsule
  /\ deposits \in Nat /\ switches \in Nat /\ reloads \in Nat

TxsSound == \A t \in 1..Len(txs) : StageOf(txs[t], runs) /\ Backed(txs[t].run, txs[t].stage, txs)
SessionSound == session = NoSession \/ Sound(session, runs, txs)
CapsulesSound == \A c \in capsules : Refers(c, txs)
RecoverySound == recovering = NoRecovery \/ (recovering \in Attempt /\ Refers(recovering, txs))
PointerSound ==
  \/ pointer = NoPointer
  \/ \E t \in 1..Len(txs) : pointer = [run |-> txs[t].run, stage |-> txs[t].stage]

\* The gate's run was sent, or a call has just been given it; a cancelled recovery's was.
GateSound == gate.run = 0 \/ HasTx(gate.run, txs) \/ Starts(call, gate.run)
ResumingSound ==
  /\ \A o \in resuming : HasTx(o.run, txs)
  /\ \A r \in reopened : HasTx(r, txs)

IInv ==
  /\ TypeInv /\ TxsSound /\ SessionSound /\ CapsulesSound /\ RecoverySound /\ PointerSound
  /\ GateSound /\ ResumingSound
  /\ CallSound(call, runs, txs)

-----------------------------------------------------------------------------
(* Lemmas about runs and transactions *)

\* Transactions stay, with their stages, and a success is never undone.
Kept(T, U) ==
  /\ Len(T) <= Len(U)
  /\ \A t \in 1..Len(T) : /\ U[t].run = T[t].run /\ U[t].stage = T[t].stage
                          /\ T[t].status = "succeeded" => U[t].status = "succeeded"

LEMMA SucceedsKept ==
  ASSUME NEW T \in Seq(Tx), NEW U \in Seq(Tx), Kept(T, U), NEW r, NEW i, Succeeds(r, i, T)
  PROVE  Succeeds(r, i, U)
<1>1. PICK t \in 1..Len(T) : T[t].run = r /\ T[t].stage = i /\ T[t].status = "succeeded"
  BY DEF Succeeds
<1>2. t \in 1..Len(U) /\ U[t].run = r /\ U[t].stage = i /\ U[t].status = "succeeded"
  <2>1. Len(T) \in Nat /\ Len(U) \in Nat
    OBVIOUS
  <2>2. QED
    BY <1>1, <2>1 DEF Kept
<1>3. QED
  BY <1>2 DEF Succeeds

LEMMA BackedKept ==
  ASSUME NEW T \in Seq(Tx), NEW U \in Seq(Tx), Kept(T, U), NEW r, NEW i, Backed(r, i, T)
  PROVE  Backed(r, i, U)
BY SucceedsKept DEF Backed

LEMMA RefersKept ==
  ASSUME NEW T \in Seq(Tx), NEW U \in Seq(Tx), Kept(T, U), NEW x, Refers(x, T)
  PROVE  Refers(x, U)
<1>1. Len(T) \in Nat /\ Len(U) \in Nat
  OBVIOUS
<1>2. QED
  BY <1>1 DEF Refers, Kept

\* A session stays sound while its run is in the list.
LEMMA SoundKept ==
  ASSUME NEW T \in Seq(Tx), NEW U \in Seq(Tx), Kept(T, U),
         NEW R \in Seq(Mode), NEW S \in Seq(Mode),
         NEW s, Sound(s, R, T), s.run \in 1..Len(S), S[s.run] = R[s.run]
  PROVE  Sound(s, S, U)
<1>1. StageOf(s, S)
  BY DEF Sound, StageOf
<1>2. Backed(s.run, s.stage, U)
  BY BackedKept DEF Sound
<1>3. s.status = "submitted" => Refers(s, U)
  BY RefersKept DEF Sound
<1>4. s.status = "completed" => AllDone(s.run, S, U)
  BY SucceedsKept DEF Sound, AllDone
<1>5. QED
  BY <1>1, <1>2, <1>3, <1>4 DEF Sound

\* Nothing happened to the transactions, or to the runs.
LEMMA KeptSame == ASSUME NEW T \in Seq(Tx) PROVE Kept(T, T)
<1>1. Len(T) \in Nat
  OBVIOUS
<1>2. QED
  BY <1>1 DEF Kept

\* A stage of a run is of a transaction that is sound: those before it succeeded.
LEMMA RefersSound ==
  ASSUME IInv, NEW x, Refers(x, txs)
  PROVE  x.run \in Nat \ {0} /\ x.stage \in Nat /\ StageOf(x, runs) /\ Backed(x.run, x.stage, txs)
<1>1. StageOf(txs[x.tx], runs) /\ Backed(x.run, x.stage, txs)
  BY DEF IInv, TxsSound, Refers
<1>2. StageOf(x, runs)
  BY <1>1 DEF StageOf, Refers
<1>3. txs[x.tx] \in Tx
  BY DEF IInv, TypeInv, Refers
<1>4. x.run \in Nat \ {0} /\ x.stage \in Nat
  <2>1. Len(runs) \in Nat
    BY DEF IInv, TypeInv
  <2>2. QED
    BY <1>2, <1>3, <2>1 DEF StageOf, Tx, Refers
<1>5. QED
  BY <1>1, <1>2, <1>4

\* A runtime can always be made.
LEMMA FreshRuntimeType == FreshRuntime \in 1..3
<1>1. \E n \in 1..3 : n # runtime.id /\ (Busy => n # call.runtime.id)
  <2>1. 1 \in 1..3 /\ 2 \in 1..3 /\ 3 \in 1..3
    OBVIOUS
  <2>2. QED
    BY <2>1
<1>2. QED
  BY <1>1 DEF FreshRuntime

\* The stage of a session, confirmed: the next one is shown, or the plan is done.
LEMMA ConfirmedSound ==
  ASSUME IInv, NEW s, Sound(s, runs, txs), NEW o \in Nat,
         \/ Succeeds(s.run, s.stage, txs)
         \/ PlanOf[runs[s.run]][s.stage] = "shield"
  PROVE  Sound(Confirmed(s, o), runs, txs)
<1>1. /\ s \in Shown /\ StageOf(s, runs) /\ Backed(s.run, s.stage, txs)
      /\ s.run \in 1..Len(runs) /\ s.stage \in 1..Len(PlanOf[runs[s.run]])
  BY DEF Sound, StageOf
<1>2. /\ runs[s.run] \in Mode
      /\ PlanOf[runs[s.run]] \in Seq(Kind)
      /\ Len(PlanOf[runs[s.run]]) \in Nat
  <2>1. runs \in Seq(Mode)
    BY DEF IInv, TypeInv
  <2>2. runs[s.run] \in Mode
    BY <1>1, <2>1
  <2>3. PlanOf[runs[s.run]] \in Seq(Kind)
    BY <2>2, SwapFlowAssumption
  <2>4. QED
    BY <2>2, <2>3
<1>3. CASE s.stage = Len(PlanOf[runs[s.run]])
  <2> DEFINE n == [s EXCEPT !.status = "completed"]
  <2>1. Confirmed(s, o) = n
    BY <1>3 DEF Confirmed, Plan
  <2>2. n \in Shown /\ n.run = s.run /\ n.stage = s.stage /\ n.status = "completed"
    BY <1>1 DEF Shown
  <2> HIDE DEF n
  <2>3. AllDone(n.run, runs, txs)
    BY <1>1, <1>2, <1>3, <2>2 DEF AllDone, Backed
  <2>4. QED
    BY <1>1, <2>1, <2>2, <2>3 DEF Sound, StageOf
<1>4. CASE s.stage # Len(PlanOf[runs[s.run]])
  <2> DEFINE n == At(s.run, s.stage + 1, "review", 0, o)
  <2>1. Confirmed(s, o) = n
    BY <1>4 DEF Confirmed, Plan
  <2>2. n \in Shown /\ n.run = s.run /\ n.stage = s.stage + 1 /\ n.status = "review"
    BY <1>1, <1>2 DEF Shown, At
  <2> HIDE DEF n
  <2>3. n.stage \in 1..Len(PlanOf[runs[s.run]])
    BY <1>1, <1>2, <1>4, <2>2
  <2>4. Succeeds(s.run, s.stage, txs)
    BY <1>1, <1>2, <1>4, SwapFlowAssumption
  <2>5. Backed(n.run, n.stage, txs)
    BY <1>1, <1>2, <2>2, <2>4 DEF Backed
  <2>6. QED
    BY <1>1, <2>1, <2>2, <2>3, <2>5 DEF Sound, StageOf
<1>5. QED
  BY <1>3, <1>4

-----------------------------------------------------------------------------
(* Steps of the page: no transaction is sent or decided *)

\* Where neither runs nor transactions change, what does not change stays sound.
LEMMA Quiet ==
  ASSUME IInv, UNCHANGED <<runs, txs>>
  PROVE  /\ TxsSound'
         /\ UNCHANGED session \/ session' = NoSession => SessionSound'
         /\ capsules' \subseteq capsules => CapsulesSound'
         /\ UNCHANGED recovering \/ recovering' = NoRecovery => RecoverySound'
         /\ UNCHANGED pointer \/ pointer' = NoPointer => PointerSound'
         /\ UNCHANGED call \/ call' = NoCall => CallSound(call, runs, txs)'
         /\ UNCHANGED reopened /\ resuming' \subseteq resuming => ResumingSound'
<1>1. TxsSound'
  BY DEF IInv, TxsSound
<1>2. ASSUME UNCHANGED session \/ session' = NoSession PROVE SessionSound'
  BY <1>2 DEF IInv, SessionSound, NoSession
<1>3. ASSUME capsules' \subseteq capsules PROVE CapsulesSound'
  BY <1>3 DEF IInv, CapsulesSound
<1>4. ASSUME UNCHANGED recovering \/ recovering' = NoRecovery PROVE RecoverySound'
  BY <1>4 DEF IInv, RecoverySound, NoRecovery
<1>5. ASSUME UNCHANGED pointer \/ pointer' = NoPointer PROVE PointerSound'
  BY <1>5 DEF IInv, PointerSound, NoPointer
<1>6. ASSUME UNCHANGED call \/ call' = NoCall PROVE CallSound(call, runs, txs)'
  <2>1. CASE UNCHANGED call
    <3>1. CallSound(call, runs, txs)
      BY DEF IInv
    <3>2. QED
      BY <2>1, <3>1
  <2>2. CASE call' = NoCall
    BY <2>2 DEF CallSound, NoCall
  <2>3. QED
    BY <1>6, <2>1, <2>2
<1>7. ASSUME UNCHANGED reopened, resuming' \subseteq resuming PROVE ResumingSound'
  BY <1>7 DEF IInv, ResumingSound
<1>8. QED
  BY <1>1, <1>2, <1>3, <1>4, <1>5, <1>6, <1>7

\* The gate's run stays, and what has just been given to a call stays with it.
LEMMA GateKept ==
  ASSUME IInv, UNCHANGED <<gate, txs>>, \A r : Starts(call, r) => Starts(call', r) \/ HasTx(r, txs)
  PROVE  GateSound'
BY DEF IInv, GateSound

\* A step that only moves the call on.
LEMMA CallMoves ==
  ASSUME IInv, CallSound(call, runs, txs)',
         \A r : Starts(call, r) => Starts(call', r) \/ HasTx(r, txs),
         UNCHANGED <<mode, session, runtime, snapshots, recovering, fees, storage, runs, chain,
                     counts>>
  PROVE  IInv'
<1>1. UNCHANGED <<mode, session, runtime, snapshots, recovering, gate, resuming, reopened, pointer,
                  capsules, runs, txs, balance, deposits, switches, reloads>>
  BY DEF fees, storage, chain, counts
<1>2. TypeInv'
  BY <1>1 DEF IInv, TypeInv
<1>3. GateSound'
  BY <1>1, GateKept
<1>4. QED
  BY <1>1, <1>2, <1>3, Quiet DEF IInv

LEMMA ExecuteNextStep == ASSUME IInv, ExecuteNext PROVE IInv'
<1>1. Sound(session, runs, txs) /\ runtime \in Made
  BY DEF ExecuteNext, IInv, SessionSound, NoSession, TypeInv, Made
<1>2. CallSound(call, runs, txs)'
  <2>1. call' = [pc |-> "prepare", first |-> FALSE, session |-> session, runtime |-> runtime]
        /\ UNCHANGED <<runs, txs>>
    BY DEF ExecuteNext, chain
  <2>2. QED
    BY <1>1, <2>1 DEF CallSound
<1>3. \A r : ~Starts(call, r)
  BY DEF ExecuteNext, Busy, Starts
<1>4. QED
  BY <1>2, <1>3, CallMoves DEF ExecuteNext

LEMMA ConfirmStep == ASSUME IInv, Confirm PROVE IInv'
<1>1. Sound(session, runs, txs) /\ runtime \in Made /\ session.status = "submitted"
  BY DEF Confirm, IInv, SessionSound, NoSession, TypeInv, Made
<1>2. CallSound(call, runs, txs)'
  <2>1. call' = [pc |-> "receipt", session |-> session, runtime |-> runtime] /\ UNCHANGED <<runs,
                                                                                            txs>>
    BY DEF Confirm, chain
  <2>2. QED
    BY <1>1, <2>1 DEF CallSound
<1>3. \A r : ~Starts(call, r)
  BY DEF Confirm, Busy, Starts
<1>4. QED
  BY <1>2, <1>3, CallMoves DEF Confirm

\* What a call knows at an await.
LEMMA CallKnown ==
  ASSUME IInv, call.pc \in {"prepare", "wallet", "wait", "bind", "receipt", "load", "verify", "refresh"}
  PROVE  /\ Sound(call.session, runs, txs) /\ call.runtime \in Made
         /\ call.pc \in {"prepare", "wallet"} =>
              /\ call.first \in BOOLEAN
              /\ call.first => HasTx(call.session.run, txs) \/ call.session.run = Len(runs)
         /\ call.pc \in {"wallet", "wait", "bind", "verify"} => call.before \in Nat
         /\ call.pc \in {"wait", "bind"} =>
              Refers([run |-> call.session.run, stage |-> call.session.stage, tx |-> call.tx], txs)
         /\ call.pc = "bind" =>
              (call.confirmed => PlanOf[runs[call.session.run]][call.session.stage] = "shield")
         /\ call.pc \in {"receipt", "load", "verify"} => call.session.status = "submitted"
         /\ call.pc \in {"load", "verify"} => txs[call.session.tx].status = "succeeded"
         /\ call.pc = "load" => call.found \in Capsule
<1>1. CallSound(call, runs, txs)
  BY DEF IInv
<1>2. call # NoCall /\ call.pc # "fee"
  BY DEF NoCall
<1>3. QED
  BY <1>1, <1>2 DEF CallSound

LEMMA PrepareStep == ASSUME IInv, Prepare PROVE IInv'
<1>1. call.pc = "prepare" /\ UNCHANGED <<runs, txs>>
  BY DEF Prepare, chain
<1>2. balance["sold"] \in Nat /\ balance["bought"] \in Nat
  BY DEF IInv, TypeInv
<1>3. PICK b \in BOOLEAN :
        call' = [pc |-> "wallet", first |-> call.first, session |-> call.session,
                 runtime |-> call.runtime,
                 before |-> balance[Watched(KindOf(call.session.run, call.session.stage))], sealed |-> b]
  BY DEF Prepare
<1>4. CallSound(call, runs, txs)'
  <2>1. call'.before \in Nat
    BY <1>2, <1>3 DEF Watched
  <2>2. /\ call'.pc = "wallet" /\ call'.first = call.first /\ call'.session = call.session
        /\ call'.runtime = call.runtime
    BY <1>3
  <2>3. QED
    BY <1>1, <2>1, <2>2, CallKnown DEF CallSound
<1>5. \A r : Starts(call, r) => Starts(call', r)
  BY <1>1, <1>3 DEF Starts
<1>6. QED
  BY <1>4, <1>5, CallMoves DEF Prepare

LEMMA ConfirmFailsStep == ASSUME IInv, ConfirmFails PROVE IInv'
<1>1. CallSound(call, runs, txs)'
  BY DEF ConfirmFails, CallSound
<1>2. \A r : ~Starts(call, r)
  BY DEF ConfirmFails, Starts
<1>3. QED
  BY <1>1, <1>2, CallMoves DEF ConfirmFails

\* The call goes on from the wallet with the transaction, which only a shield's receipt
\* may call confirmed.
LEMMA WalletReturnsStep == ASSUME IInv, WalletReturns PROVE IInv'
<1>1. call.pc = "wait" /\ UNCHANGED <<mode, session, runtime, recovering, fees, storage, runs,
                                      chain, counts>>
  BY DEF WalletReturns
<1>2. UNCHANGED <<runs, txs, gate, resuming, reopened, pointer, capsules, balance, deposits,
                  switches, reloads>>
  BY <1>1 DEF fees, storage, chain, counts
<1>3. CallSound(call, runs, txs)'
  <2>1. PICK a \in BOOLEAN :
          call' = [pc |-> "bind", first |-> call.first, session |-> call.session,
                   runtime |-> call.runtime,
                   before |-> call.before, sealed |-> call.sealed, tx |-> call.tx,
                   confirmed |-> a /\ KindOf(call.session.run, call.session.stage) = "shield"]
    BY DEF WalletReturns
  <2>2. /\ call'.pc = "bind" /\ call'.session = call.session /\ call'.runtime = call.runtime
        /\ call'.before = call.before /\ call'.tx = call.tx
        /\ call'.confirmed => PlanOf[runs[call.session.run]][call.session.stage] = "shield"
    BY <2>1 DEF KindOf, Plan
  <2>3. QED
    BY <1>1, <1>2, <2>2, CallKnown DEF CallSound
<1>4. TypeInv'
  <2>1. Refers([run |-> call.session.run, stage |-> call.session.stage, tx |-> call.tx], txs)
    BY <1>1, CallKnown
  <2>2. /\ call.session \in Shown /\ call.runtime.id \in 1..3 /\ call.before \in Nat
    BY <1>1, CallKnown DEF Sound, Made
  <2>3. call.tx \in Nat
    BY <2>1 DEF Refers
  <2>4. [runtime |-> call.runtime.id, run |-> call.session.run, stage |-> call.session.stage,
         tx |-> call.tx, before |-> call.before] \in Snapshot
    BY <2>2, <2>3 DEF Shown, Snapshot
  <2>5. snapshots' \subseteq Snapshot
    BY <2>4 DEF WalletReturns, IInv, TypeInv
  <2>6. QED
    BY <1>1, <1>2, <2>5 DEF IInv, TypeInv
<1>5. GateSound'
  BY <1>1, <1>2, GateKept DEF Starts
<1>6. QED
  BY <1>1, <1>2, <1>3, <1>4, <1>5, Quiet DEF IInv

\* A runtime is made: its id is free, and its earlier snapshots are forgotten.
LEMMA ForgetType == ASSUME IInv, NEW n, Forget(n) PROVE snapshots' \subseteq Snapshot
BY DEF Forget, IInv, TypeInv

\* The capsules once the call's is bound, or its binding failed.
LEMMA BoundAdds ==
  ASSUME NEW C \in Bound
  PROVE  C \subseteq capsules \cup {[run |-> call.session.run, stage |-> call.session.stage,
                                   tx |-> call.tx, before |-> call.before]}
BY DEF Bound, RemoveCapsule

\* The stage is executed: the session follows the call's, and the pointer and the
\* capsule name the stage of the transaction.
LEMMA ExecuteReturnsStep == ASSUME IInv, ExecuteReturns PROVE IInv'
<1> DEFINE ses == call.session
           next == IF call.confirmed THEN Confirmed(ses, 0)
                   ELSE At(ses.run, ses.stage, "submitted", call.tx, ses.input)
           new == [run |-> ses.run, stage |-> ses.stage, tx |-> call.tx, before |-> call.before]
<1>1. /\ call.pc = "bind" /\ session' = next /\ call' = NoCall
      /\ gate' = [gate EXCEPT !.started = TRUE] \/ UNCHANGED gate
      /\ UNCHANGED <<mode, runtime, snapshots, recovering, resuming, reopened, runs, txs, balance,
                     deposits, switches, reloads>>
  BY DEF ExecuteReturns, chain, counts
<1>2. /\ Sound(ses, runs, txs) /\ call.before \in Nat
      /\ Refers([run |-> ses.run, stage |-> ses.stage, tx |-> call.tx], txs)
      /\ call.confirmed => PlanOf[runs[ses.run]][ses.stage] = "shield"
  BY <1>1, CallKnown
<1>3. ses \in Shown /\ call.tx \in 1..Len(txs) /\ txs[call.tx].run = ses.run /\ txs[call.tx].stage = ses.stage
  BY <1>2 DEF Sound, Refers
<1>4. call.tx \in Nat
  BY <1>3
<1>5. Sound(next, runs, txs)
  <2>1. CASE call.confirmed
    BY <1>2, <2>1, ConfirmedSound
  <2>2. CASE ~call.confirmed
    <3> DEFINE n == At(ses.run, ses.stage, "submitted", call.tx, ses.input)
    <3>1. /\ n \in Shown /\ n.run = ses.run /\ n.stage = ses.stage /\ n.tx = call.tx
          /\ n.status = "submitted"
      BY <1>3, <1>4 DEF Shown, At
    <3> HIDE DEF n
    <3>2. Sound(n, runs, txs)
      BY <1>2, <1>3, <3>1 DEF Sound, StageOf, Refers
    <3>3. QED
      BY <2>2, <3>2 DEF n
  <2>3. QED
    BY <2>1, <2>2
<1>6. new \in Capsule /\ Refers(new, txs)
  BY <1>2, <1>3, <1>4 DEF Shown, Capsule, Refers
<1> HIDE DEF next, new
<1>7. /\ capsules' \subseteq capsules \cup {new}
      /\ pointer' \in {NoPointer, [run |-> ses.run, stage |-> ses.stage]}
  <2>1. PICK C \in Bound :
          IF next.status = "completed" THEN ClearPointer(C) ELSE SavePointer(C, ses.run, ses.stage)
    BY DEF ExecuteReturns, next
  <2>2. C \subseteq capsules \cup {new}
    BY BoundAdds DEF new
  <2>3. QED
    BY <2>1, <2>2 DEF ClearPointer, SavePointer, RemoveCapsule
<1>8. TypeInv'
  <2>1. gate' \in [run : Nat, started : BOOLEAN] /\ gate'.run = gate.run
    BY <1>1 DEF IInv, TypeInv
  <2>2. QED
    BY <1>1, <1>6, <1>7, <2>1 DEF IInv, TypeInv
<1>9. SessionSound'
  BY <1>1, <1>5 DEF SessionSound
<1>10. CapsulesSound'
  BY <1>1, <1>6, <1>7 DEF IInv, CapsulesSound
<1>11. PointerSound'
  BY <1>1, <1>3, <1>7 DEF PointerSound
<1>12. GateSound'
  <2>1. gate'.run = gate.run /\ ~Starts(call, gate.run)
    BY <1>1 DEF IInv, TypeInv, Starts
  <2>2. QED
    BY <1>1, <2>1 DEF IInv, GateSound
<1>13. QED
  BY <1>1, <1>8, <1>9, <1>10, <1>11, <1>12, Quiet DEF IInv

\* The flow of the transaction is cleared; its capsule is bound all the same.
LEMMA MarkThrowsStep == ASSUME IInv, MarkThrows PROVE IInv'
<1> DEFINE ses == call.session
           new == [run |-> ses.run, stage |-> ses.stage, tx |-> call.tx, before |-> call.before]
<1>1. /\ call.pc = "bind" /\ session' = NoSession /\ runtime' = NoRuntime /\ call' = NoCall
      /\ UNCHANGED <<mode, snapshots, recovering, gate, resuming, reopened, pointer, runs, txs,
                     balance, deposits, switches, reloads>>
  BY DEF MarkThrows, fees, chain, counts
<1>2. /\ Sound(ses, runs, txs) /\ call.before \in Nat
      /\ Refers([run |-> ses.run, stage |-> ses.stage, tx |-> call.tx], txs)
  BY <1>1, CallKnown
<1>3. new \in Capsule /\ Refers(new, txs)
  BY <1>2 DEF Sound, Shown, Capsule, Refers
<1>4. capsules' \subseteq capsules \cup {new}
  BY BoundAdds DEF MarkThrows
<1> HIDE DEF new
<1>5. TypeInv'
  BY <1>1, <1>3, <1>4 DEF IInv, TypeInv, NoRuntime, Unknown
<1>6. CapsulesSound'
  BY <1>1, <1>3, <1>4 DEF IInv, CapsulesSound
<1>7. GateSound'
  BY <1>1, GateKept DEF Starts
<1>8. QED
  BY <1>1, <1>5, <1>6, <1>7, Quiet DEF IInv

\* A call that confirms its stage, which has succeeded, shows the session after it.
LEMMA ConfirmsStep ==
  ASSUME IInv, NEW o \in Nat, Confirms(o),
         call.pc \in {"receipt", "verify"}, txs[call.session.tx].status = "succeeded",
         snapshots' \subseteq snapshots,
         UNCHANGED <<mode, runtime, recovering, fees, storage, runs, chain, counts>>
  PROVE  IInv'
<1> DEFINE n == Confirmed(call.session, o)
<1>1. UNCHANGED <<mode, runtime, recovering, gate, resuming, reopened, pointer, capsules, runs, txs,
                  balance, deposits, switches, reloads>>
  BY DEF fees, storage, chain, counts
<1>2. /\ Sound(call.session, runs, txs) /\ call.runtime \in Made /\ call.session.status = "submitted"
  BY CallKnown
<1>3. Succeeds(call.session.run, call.session.stage, txs)
  BY <1>2 DEF Sound, Refers, Succeeds
<1>4. Sound(n, runs, txs)
  BY <1>2, <1>3, ConfirmedSound
<1> HIDE DEF n
<1>5. session' = n /\ call' = [pc |-> "refresh", session |-> n, runtime |-> call.runtime]
  BY DEF Confirms, n
<1>6. CallSound(call, runs, txs)'
  <2>1. call'.pc = "refresh" /\ call'.session = n /\ call'.runtime = call.runtime
    BY <1>5
  <2>2. QED
    BY <1>1, <1>2, <1>4, <2>1 DEF CallSound
<1>7. SessionSound'
  BY <1>1, <1>4, <1>5 DEF SessionSound
<1>8. TypeInv'
  BY <1>1 DEF IInv, TypeInv
<1>9. GateSound'
  BY <1>1, GateKept DEF Starts
<1>10. QED
  BY <1>1, <1>6, <1>7, <1>8, <1>9, Quiet DEF IInv

\* The receipt is read: a shield is confirmed, another stage is to be verified.
LEMMA ReceiptReadStep == ASSUME IInv, ReceiptRead PROVE IInv'
<1> DEFINE ses == call.session
<1>1. /\ call.pc = "receipt" /\ txs[ses.tx].status = "succeeded"
      /\ UNCHANGED <<mode, runtime, snapshots, recovering, fees, storage, runs, chain, counts>>
      /\ UNCHANGED <<runs, txs>>
      /\ \A r : ~Starts(call, r)
  BY DEF ReceiptRead, Accepted, chain, Starts
<1>2. Sound(ses, runs, txs) /\ call.runtime \in Made /\ ses.status = "submitted"
  BY <1>1, CallKnown
<1>3. CASE Confirms(0)
  BY <1>1, <1>3, ConfirmsStep
<1>4. ASSUME NEW s \in SnapshotsOf(ses), Reading(s.before), UNCHANGED session PROVE IInv'
  <2>1. s.before \in Nat
    BY DEF SnapshotsOf, IInv, TypeInv, Snapshot
  <2>2. CallSound(call, runs, txs)'
    <3>1. call'.pc = "verify" /\ call'.session = ses /\ call'.runtime = call.runtime /\ call'.before = s.before
      BY <1>4 DEF Reading
    <3>2. QED
      BY <1>1, <1>2, <2>1, <3>1 DEF CallSound
  <2>3. QED
    BY <1>1, <1>4, <2>2, CallMoves
<1>5. ASSUME NEW c \in CapsulesOf(ses), UNCHANGED session,
             call' = [pc |-> "load", session |-> ses, runtime |-> call.runtime, found |-> c]
      PROVE  IInv'
  <2>1. c \in Capsule
    BY DEF CapsulesOf, IInv, TypeInv
  <2>2. CallSound(call, runs, txs)'
    <3>1. call'.pc = "load" /\ call'.session = ses /\ call'.runtime = call.runtime /\ call'.found = c
      BY <1>5
    <3>2. QED
      BY <1>1, <1>2, <2>1, <3>1 DEF CallSound
  <2>3. QED
    BY <1>1, <1>5, <2>2, CallMoves
<1>6. \/ Confirms(0)
      \/ UNCHANGED session /\ \E s \in SnapshotsOf(ses) : Reading(s.before)
      \/ UNCHANGED session /\ \E c \in CapsulesOf(ses) :
            call' = [pc |-> "load", session |-> ses, runtime |-> call.runtime, found |-> c]
  BY DEF ReceiptRead
<1>7. QED
  BY <1>3, <1>4, <1>5, <1>6

\* The capsule is verified and becomes a snapshot of the runtime.
LEMMA CapsuleLoadedStep == ASSUME IInv, CapsuleLoaded PROVE IInv'
<1>1. /\ call.pc = "load"
      /\ UNCHANGED <<mode, session, runtime, recovering, gate, resuming, reopened, pointer,
                     capsules, runs, txs, balance, deposits, switches, reloads>>
  BY DEF CapsuleLoaded, fees, storage, chain, counts
<1>2. /\ Sound(call.session, runs, txs) /\ call.runtime \in Made /\ call.found \in Capsule
      /\ call.session.status = "submitted" /\ txs[call.session.tx].status = "succeeded"
  BY <1>1, CallKnown
<1>3. CallSound(call, runs, txs)'
  <2>1. /\ call'.pc = "verify" /\ call'.session = call.session /\ call'.runtime = call.runtime
        /\ call'.before = call.found.before
    BY DEF CapsuleLoaded, Reading
  <2>2. call.found.before \in Nat
    BY <1>2 DEF Capsule
  <2>3. QED
    BY <1>1, <1>2, <2>1, <2>2 DEF CallSound
<1>4. snapshots' \subseteq Snapshot
  <2>1. [runtime |-> call.runtime.id, run |-> call.found.run, stage |-> call.found.stage,
         tx |-> call.found.tx, before |-> call.found.before] \in Snapshot
    BY <1>2 DEF Capsule, Snapshot, Made
  <2>2. QED
    BY <2>1 DEF CapsuleLoaded, IInv, TypeInv
<1>5. TypeInv'
  BY <1>1, <1>4 DEF IInv, TypeInv
<1>6. GateSound'
  BY <1>1, GateKept DEF Starts
<1>7. QED
  BY <1>1, <1>3, <1>5, <1>6, Quiet DEF IInv

\* The watched balance has grown.
LEMMA VerifiedStep == ASSUME IInv, Verified PROVE IInv'
<1> DEFINE o == IF KindOf(call.session.run, call.session.stage) = "unshield" THEN 1 ELSE Increase
<1>1. /\ call.pc = "verify" /\ Confirms(o) /\ Increase >= 1
      /\ snapshots' = snapshots \ SnapshotsOf(call.session)
      /\ UNCHANGED <<mode, runtime, recovering, fees, storage, runs, chain, counts>>
  BY DEF Verified
<1>2. call.before \in Nat /\ txs[call.session.tx].status = "succeeded"
  BY <1>1, CallKnown
<1>3. balance["sold"] \in Nat /\ balance["bought"] \in Nat
  BY DEF IInv, TypeInv
<1>4. Increase \in Int
  BY <1>2, <1>3 DEF Increase, Watched
<1>5. o \in Nat
  BY <1>1, <1>4
<1> HIDE DEF o
<1>6. snapshots' \subseteq snapshots
  BY <1>1
<1>7. QED
  BY <1>1, <1>2, <1>5, <1>6, ConfirmsStep

\* The pointer is cleared, or nothing stored changes.
LEMMA RefreshedStep == ASSUME IInv, Refreshed PROVE IInv'
<1>1. /\ call.pc = "refresh" /\ call' = NoCall
      /\ UNCHANGED <<mode, session, runtime, snapshots, recovering, gate, resuming, reopened, runs,
                     txs, balance, deposits, switches, reloads>>
      /\ capsules' \subseteq capsules /\ (UNCHANGED pointer \/ pointer' = NoPointer)
  BY DEF Refreshed, ClearPointer, RemoveCapsule, fees, storage, chain, counts
<1>2. TypeInv'
  BY <1>1 DEF IInv, TypeInv
<1>3. GateSound'
  BY <1>1, GateKept DEF Starts
<1>4. QED
  BY <1>1, <1>2, <1>3, Quiet DEF IInv

LEMMA NewSwapStep == ASSUME IInv, NewSwap PROVE IInv'
<1>1. /\ session' = NoSession /\ runtime' = NoRuntime
      /\ UNCHANGED <<mode, snapshots, call, recovering, gate, resuming, reopened, runs, txs, balance,
                     deposits, switches, reloads>>
      /\ capsules' \subseteq capsules /\ pointer' = NoPointer
  BY DEF NewSwap, ClearPointer, RemoveCapsule, fees, chain, counts
<1>2. TypeInv'
  BY <1>1 DEF IInv, TypeInv, NoRuntime, Unknown
<1>3. GateSound'
  BY <1>1, GateKept
<1>4. QED
  BY <1>1, <1>2, <1>3, Quiet DEF IInv

-----------------------------------------------------------------------------
(* Steps of the recovery, of the mode and of the page's life *)

\* The capsule is verified; the transaction is still of its stage.
LEMMA ResumesStep == ASSUME IInv, Resumes PROVE IInv'
<1>1. /\ recovering.run # 0 /\ recovering' = [recovering EXCEPT !.pc = "resume"]
      /\ UNCHANGED <<mode, session, runtime, snapshots, call, gate, resuming, reopened, pointer,
                     capsules, runs, txs, balance, deposits, switches, reloads>>
  BY DEF Resumes, fees, storage, chain, counts
<1>2. recovering \in Attempt /\ Refers(recovering, txs)
  BY <1>1 DEF IInv, RecoverySound, NoRecovery
<1>3. recovering' \in Attempt /\ Refers(recovering', txs)
  BY <1>1, <1>2 DEF Attempt, Refers
<1>4. TypeInv' /\ RecoverySound'
  BY <1>1, <1>3 DEF IInv, TypeInv, RecoverySound
<1>5. GateSound'
  BY <1>1, GateKept
<1>6. QED
  BY <1>1, <1>4, <1>5, Quiet DEF IInv

\* The stage of the capsule is shown as submitted: its transaction is of that stage.
LEMMA RecoveredStep == ASSUME IInv, Recovered PROVE IInv'
<1> DEFINE v == recovering
           n == At(v.run, v.stage, "submitted", v.tx, 0)
<1>1. /\ v.run # 0 /\ session' = n /\ runtime' = [id |-> FreshRuntime, bought |-> v.bought]
      /\ recovering' = NoRecovery /\ gate' = [run |-> v.run, started |-> TRUE]
      /\ Forget(FreshRuntime)
      /\ UNCHANGED <<mode, call, resuming, reopened, pointer, capsules, runs, txs, balance, deposits,
                     switches, reloads>>
  BY DEF Recovered, storage, chain, counts
<1>2. v \in Attempt /\ Refers(v, txs)
  BY <1>1 DEF IInv, RecoverySound, NoRecovery
<1>3. /\ n \in Shown /\ n.run = v.run /\ n.stage = v.stage /\ n.tx = v.tx /\ n.status = "submitted"
  BY <1>2 DEF Shown, Attempt, At
<1>4. StageOf(v, runs) /\ Backed(v.run, v.stage, txs)
  BY <1>2, RefersSound
<1> HIDE DEF n
<1>5. Sound(n, runs, txs)
  BY <1>2, <1>3, <1>4 DEF Sound, StageOf, Refers
<1>6. SessionSound'
  BY <1>1, <1>5 DEF SessionSound
<1>7. snapshots' \subseteq Snapshot
  BY <1>1, ForgetType
<1>8. TypeInv'
  <2>1. runtime' \in [id : 0..3, bought : Int] /\ gate' \in [run : Nat, started : BOOLEAN]
    BY <1>1, <1>2, FreshRuntimeType DEF Attempt
  <2>2. QED
    BY <1>1, <1>7, <2>1 DEF IInv, TypeInv
<1>9. GateSound'
  BY <1>1, <1>2 DEF GateSound, HasTx, Refers
<1>10. QED
  BY <1>1, <1>6, <1>8, <1>9, Quiet DEF IInv

LEMMA RecoveryFailsStep == ASSUME IInv, RecoveryFails PROVE IInv'
<1>1. /\ recovering' = NoRecovery
      /\ UNCHANGED <<mode, session, runtime, snapshots, call, gate, resuming, reopened, pointer,
                     capsules, runs, txs, balance, deposits, switches, reloads>>
  BY DEF RecoveryFails, fees, storage, chain, counts
<1>2. TypeInv'
  BY <1>1 DEF IInv, TypeInv
<1>3. GateSound'
  BY <1>1, GateKept
<1>4. QED
  BY <1>1, <1>2, <1>3, Quiet DEF IInv

\* A cancelled recovery makes a run active that was sent, or goes.
LEMMA CancelledStep ==
  ASSUME IInv, NEW o \in resuming, CancelledResumes(o) \/ CancelledFails(o)
  PROVE  IInv'
<1>1. /\ \/ gate' = [run |-> o.run, started |-> FALSE] /\ reopened' = reopened \cup {o.run}
         \/ UNCHANGED <<gate, reopened>>
      /\ resuming' \subseteq resuming
  BY DEF CancelledResumes, CancelledFails
<1> UNCHANGED <<mode, session, runtime, snapshots, call, recovering, pointer, capsules, runs, txs,
                balance, deposits, switches, reloads>>
  BY DEF CancelledResumes, CancelledFails, page, storage, chain, counts
<1>2. HasTx(o.run, txs) /\ o.run \in Nat /\ gate \in [run : Nat, started : BOOLEAN]
  <2>1. o \in [run : Nat, switch : Nat]
    BY DEF IInv, TypeInv
  <2>2. QED
    BY <2>1 DEF IInv, ResumingSound, TypeInv
<1>3. TypeInv'
  <2>1. gate' \in [run : Nat, started : BOOLEAN]
    <3>1. CASE gate' = [run |-> o.run, started |-> FALSE]
      BY <1>2, <3>1
    <3>2. CASE UNCHANGED gate
      BY <1>2, <3>2
    <3>3. QED
      BY <1>1, <3>1, <3>2
  <2>2. resuming' \subseteq [run : Nat, switch : Nat]
    BY <1>1 DEF IInv, TypeInv
  <2>3. TypeInv
    BY DEF IInv
  <2>4. QED
    BY <2>1, <2>2, <2>3 DEF TypeInv
<1>4. GateSound'
  BY <1>1, <1>2 DEF IInv, GateSound
<1>5. ResumingSound'
  BY <1>1, <1>2 DEF IInv, ResumingSound
<1>6. QED
  BY <1>1, <1>3, <1>4, <1>5, Quiet DEF IInv

LEMMA ReadingsType == ASSUME IInv, NEW m PROVE Readings(m) \subseteq Int
<1>1. balance.bought \in Nat
  BY DEF IInv, TypeInv
<1>2. QED
  BY <1>1 DEF Readings, Unknown

\* What a recovery finds is a capsule.
LEMMA RecoveryForSound ==
  ASSUME IInv, NEW m, NEW b \in Int
  PROVE  \/ RecoveryFor(m, b) = NoRecovery
         \/ RecoveryFor(m, b) \in Attempt /\ Refers(RecoveryFor(m, b), txs)
<1> DEFINE found == {c \in capsules : KeyOf(c) = KeyOf(pointer)}
           c == CHOOSE c \in found : TRUE
           n == [run |-> c.run, stage |-> c.stage, tx |-> c.tx, pc |-> "capsule", bought |-> b]
<1>1. ASSUME found # {} PROVE n \in Attempt /\ Refers(n, txs)
  <2>1. c \in found
    BY <1>1
  <2> HIDE DEF c
  <2>2. c \in Capsule /\ Refers(c, txs)
    BY <2>1 DEF IInv, TypeInv, CapsulesSound
  <2>3. QED
    BY <2>2 DEF Attempt, Capsule, Refers
<1>2. RecoveryFor(m, b) = NoRecovery \/ (found # {} /\ RecoveryFor(m, b) = n)
  BY DEF RecoveryFor
<1> HIDE DEF n, found
<1>3. QED
  BY <1>1, <1>2

LEMMA SwitchStep == ASSUME IInv, NEW m \in Mode, Switch(m) PROVE IInv'
<1>1. /\ session' = NoSession /\ runtime' = NoRuntime /\ mode' = m /\ switches' = switches + 1
      /\ UNCHANGED <<snapshots, call, gate, reopened, pointer, capsules, runs, txs, balance, deposits,
                     reloads>>
  BY DEF Switch, storage, chain
<1>2. PICK b \in Int : recovering' = RecoveryFor(m, b)
  BY ReadingsType DEF Switch
<1>3. \/ UNCHANGED resuming
      \/ /\ recovering.run # 0
         /\ resuming' = resuming \cup {[run |-> recovering.run, switch |-> switches]}
  BY DEF Switch
<1>4. recovering.run # 0 => recovering \in Attempt /\ Refers(recovering, txs)
  BY DEF IInv, RecoverySound, NoRecovery
<1>5. TypeInv'
  <2>1. resuming' \subseteq [run : Nat, switch : Nat]
    BY <1>3, <1>4 DEF IInv, TypeInv, Attempt
  <2>2. QED
    BY <1>1, <2>1 DEF IInv, TypeInv, NoRuntime, Unknown
<1>6. RecoverySound'
  BY <1>1, <1>2, RecoveryForSound DEF RecoverySound, NoRecovery
<1>7. ResumingSound'
  BY <1>1, <1>3, <1>4 DEF IInv, ResumingSound, HasTx, Refers
<1>8. GateSound'
  BY <1>1, GateKept
<1>9. QED
  BY <1>1, <1>5, <1>6, <1>7, <1>8, Quiet DEF IInv

LEMMA ReloadStep == ASSUME IInv, NEW m \in Mode, Reload(m) PROVE IInv'
<1>1. /\ session' = NoSession /\ runtime' = NoRuntime /\ mode' = m /\ reloads' = reloads + 1
      /\ snapshots' = {} /\ call' = NoCall /\ recovering' = RecoveryFor(m, Unknown)
      /\ gate' = NoGate /\ resuming' = {}
      /\ UNCHANGED <<reopened, pointer, capsules, runs, txs, balance, deposits, switches>>
  BY DEF Reload, storage, chain
<1>2. TypeInv' /\ GateSound'
  BY <1>1 DEF IInv, TypeInv, NoRuntime, Unknown, NoGate, GateSound
<1>3. RecoverySound'
  BY <1>1, RecoveryForSound DEF RecoverySound, NoRecovery, Unknown
<1>4. QED
  BY <1>1, <1>2, <1>3, Quiet DEF IInv

-----------------------------------------------------------------------------
(* Steps that make or take back a run, and steps of the chain *)

\* A run is made, and no transaction can be of it yet, or the gate's is given again.
LEMMA StartFlowStep == ASSUME IInv, StartFlow PROVE IInv'
<1>1. PICK r \in {gate.run, Len(runs) + 1}, b \in Readings(mode) :
        /\ \/ r = gate.run /\ r # 0 /\ UNCHANGED runs
           \/ r = Len(runs) + 1 /\ runs' = Append(runs, mode)
        /\ gate' = [run |-> r, started |-> FALSE]
        /\ call' = [pc |-> "fee", run |-> r, runtime |-> [id |-> 0, bought |-> b]]
  BY DEF StartFlow
<1>2. /\ ~Busy
      /\ UNCHANGED <<mode, session, runtime, snapshots, recovering, resuming, reopened, pointer,
                     capsules, txs, balance, deposits, switches, reloads>>
  BY DEF StartFlow, storage, chain, counts
<1>3. /\ runs \in Seq(Mode) /\ Len(runs) \in Nat /\ mode \in Mode /\ txs \in Seq(Tx)
      /\ gate \in [run : Nat, started : BOOLEAN] /\ b \in Int
  BY ReadingsType DEF IInv, TypeInv
<1>4. r \in Nat /\ (r = gate.run /\ r # 0 => HasTx(r, txs) /\ r \in 1..Len(runs))
  <2>1. \A q : ~Starts(call, q)
    BY <1>2 DEF Busy, Starts
  <2>2. ASSUME HasTx(r, txs) PROVE r \in 1..Len(runs)
    BY <2>2 DEF HasTx, IInv, TxsSound, StageOf
  <2>3. QED
    BY <1>3, <2>1, <2>2 DEF IInv, GateSound
<1>5. /\ runs' \in Seq(Mode) /\ r \in 1..Len(runs') /\ Len(runs') \in Nat
      /\ \A q \in 1..Len(runs) : q \in 1..Len(runs') /\ runs'[q] = runs[q]
      /\ HasTx(r, txs) \/ r = Len(runs')
  <2>1. CASE r = gate.run /\ r # 0 /\ UNCHANGED runs
    BY <1>3, <1>4, <2>1
  <2>2. CASE r = Len(runs) + 1 /\ runs' = Append(runs, mode)
    <3>1. /\ runs' \in Seq(Mode) /\ Len(runs') = r
          /\ \A q \in 1..Len(runs) : q \in 1..Len(runs') /\ runs'[q] = runs[q]
      BY <1>3, <2>2
    <3>2. QED
      BY <1>3, <2>2, <3>1
  <2>3. QED
    BY <1>1, <2>1, <2>2
<1>6. CallSound(call, runs, txs)'
  <2>1. call'.pc = "fee" /\ call'.run = r /\ call'.runtime \in [id : 0..3, bought : Int]
    BY <1>1, <1>3
  <2>2. QED
    BY <1>2, <1>5, <2>1 DEF CallSound
<1>7. GateSound'
  BY <1>1 DEF GateSound, Starts
<1>8. TypeInv'
  <2>1. gate' \in [run : Nat, started : BOOLEAN]
    BY <1>1, <1>4
  <2>2. QED
    BY <1>2, <1>5, <2>1 DEF IInv, TypeInv
<1>9. TxsSound'
  <2>1. ASSUME NEW t \in 1..Len(txs)
        PROVE  StageOf(txs[t], runs') /\ Backed(txs[t].run, txs[t].stage, txs)
    <3>1. StageOf(txs[t], runs) /\ Backed(txs[t].run, txs[t].stage, txs)
      BY DEF IInv, TxsSound
    <3>2. QED
      BY <1>5, <3>1 DEF StageOf
  <2>2. QED
    BY <1>2, <2>1 DEF TxsSound
<1>10. SessionSound'
  <2>1. ASSUME Sound(session, runs, txs) PROVE Sound(session, runs', txs)
    <3>1. session.run \in 1..Len(runs)
      BY <2>1 DEF Sound, StageOf
    <3>2. QED
      BY <1>3, <1>5, <2>1, <3>1, KeptSame, SoundKept
  <2>2. QED
    BY <1>2, <2>1 DEF IInv, SessionSound, NoSession
<1>11. CapsulesSound' /\ RecoverySound' /\ PointerSound' /\ ResumingSound'
  BY <1>2 DEF IInv, CapsulesSound, RecoverySound, PointerSound, ResumingSound
<1>12. QED
  BY <1>6, <1>7, <1>8, <1>9, <1>10, <1>11 DEF IInv

\* The first stage of the run is shown for review.
LEMMA FeeGrantedStep == ASSUME IInv, FeeGranted PROVE IInv'
<1> DEFINE r == call.run
           n == At(r, 1, "review", 0, 0)
           m == [call.runtime EXCEPT !.id = FreshRuntime]
<1>1. /\ call.pc = "fee" /\ session' = n /\ runtime' = m /\ Forget(FreshRuntime)
      /\ call' = [pc |-> "prepare", first |-> TRUE, session |-> n, runtime |-> m]
      /\ UNCHANGED <<mode, recovering, gate, resuming, reopened, pointer, capsules, runs, txs, balance,
                     deposits, switches, reloads>>
  BY DEF FeeGranted, fees, storage, chain, counts
<1>2. /\ r \in 1..Len(runs) /\ call.runtime \in [id : 0..3, bought : Int]
      /\ HasTx(r, txs) \/ r = Len(runs)
  <2>1. CallSound(call, runs, txs)
    BY DEF IInv
  <2>2. QED
    BY <1>1, <2>1 DEF CallSound, NoCall
<1>3. runs \in Seq(Mode) /\ Len(runs) \in Nat /\ runs[r] \in Mode /\ r \in Nat \ {0}
  <2>1. runs \in Seq(Mode)
    BY DEF IInv, TypeInv
  <2>2. QED
    BY <1>2, <2>1
<1>4. m \in Made /\ m \in [id : 0..3, bought : Int]
  BY <1>2, FreshRuntimeType DEF Made
<1>5. n \in Shown /\ n.run = r /\ n.stage = 1 /\ n.status = "review"
  BY <1>3 DEF At, Shown
<1> HIDE DEF n, m
<1>6. Sound(n, runs, txs)
  <2>1. Len(PlanOf[runs[r]]) \in Nat \ {0}
    <3>1. PlanOf[runs[r]] \in Seq(Kind) /\ PlanOf[runs[r]] # <<>>
      BY <1>3, SwapFlowAssumption
    <3>2. QED
      BY <3>1
  <2>2. StageOf(n, runs)
    BY <1>2, <1>5, <2>1 DEF StageOf
  <2>3. Backed(n.run, n.stage, txs)
    BY <1>5 DEF Backed
  <2>4. QED
    BY <1>5, <2>2, <2>3 DEF Sound
<1>7. CallSound(call, runs, txs)'
  <2>1. call'.pc = "prepare" /\ call'.first = TRUE /\ call'.session = n /\ call'.runtime = m
    BY <1>1
  <2>2. QED
    BY <1>1, <1>2, <1>4, <1>5, <1>6, <2>1 DEF CallSound
<1>8. TypeInv'
  BY <1>1, <1>4, ForgetType DEF IInv, TypeInv
<1>9. SessionSound'
  BY <1>1, <1>6 DEF SessionSound
<1>10. GateSound'
  BY <1>1, <1>5, GateKept DEF Starts
<1>11. QED
  BY <1>1, <1>7, <1>8, <1>9, <1>10, Quiet DEF IInv

\* A run is taken back only before any transaction of it was sent.
LEMMA RefuseStep == ASSUME IInv, Refuse PROVE IInv'
<1> DEFINE starting == call.pc = "fee" \/ call.first
           unused == starting /\ Unsent(RunOf(call))
<1>1. /\ call.pc \in {"fee", "prepare", "wallet"} /\ call' = NoCall
      /\ UNCHANGED <<mode, snapshots, recovering, resuming, reopened, pointer, capsules, txs,
                     balance, deposits, switches, reloads>>
      /\ (starting /\ session' = NoSession /\ runtime' = NoRuntime)
           \/ (~starting /\ UNCHANGED <<session, runtime>>)
      /\ runs' = IF unused THEN SubSeq(runs, 1, Len(runs) - 1) ELSE runs
      /\ gate' = IF unused /\ gate.run = RunOf(call) THEN NoGate ELSE gate
  BY DEF Refuse, storage, chain, counts
<1>2. ASSUME NEW r, Starts(call, r) PROVE starting /\ RunOf(call) = r
  BY <1>1, <1>2 DEF Starts, RunOf
<1>3. \A r : Unsent(r) <=> ~HasTx(r, txs)
  BY DEF Unsent, HasTx
<1>4. starting => /\ RunOf(call) \in 1..Len(runs)
                  /\ HasTx(RunOf(call), txs) \/ RunOf(call) = Len(runs)
  <2>1. CASE call.pc = "fee"
    <3>1. CallSound(call, runs, txs)
      BY DEF IInv
    <3>2. QED
      BY <2>1, <3>1 DEF CallSound, NoCall, RunOf
  <2>2. CASE call.pc # "fee"
    BY <1>1, <2>2, CallKnown DEF RunOf, Sound, StageOf
  <2>3. QED
    BY <2>1, <2>2
<1>5. gate \in [run : Nat, started : BOOLEAN]
  BY DEF IInv, TypeInv
<1> HIDE DEF unused, starting
<1>6. GateSound'
  <2>1. CASE gate' = NoGate
    BY <2>1 DEF GateSound, NoGate
  <2>2. CASE gate' = gate /\ ~(unused /\ gate.run = RunOf(call))
    <3>1. ASSUME Starts(call, gate.run) PROVE HasTx(gate.run, txs)
      BY <1>2, <1>3, <2>2, <3>1 DEF unused
    <3>2. QED
      BY <1>1, <2>2, <3>1 DEF IInv, GateSound
  <2>3. QED
    BY <1>1, <2>1, <2>2
<1>7. TypeInv' \/ runs' # runs
  BY <1>1, <1>5 DEF IInv, TypeInv, NoGate, NoRuntime, Unknown
<1>8. CASE ~unused
  BY <1>1, <1>6, <1>7, <1>8, Quiet DEF IInv
<1>9. CASE unused
  <2>1. session' = NoSession /\ runtime' = NoRuntime /\ runs' = SubSeq(runs, 1, Len(runs) - 1)
    BY <1>1, <1>9 DEF unused
  <2>2. RunOf(call) = Len(runs) /\ ~HasTx(Len(runs), txs) /\ Len(runs) \in Nat \ {0} /\ runs \in Seq(Mode)
    <3>1. runs \in Seq(Mode) /\ Len(runs) \in Nat
      BY DEF IInv, TypeInv
    <3>2. QED
      BY <1>3, <1>4, <1>9, <3>1 DEF unused
  <2>3. /\ runs' \in Seq(Mode) /\ Len(runs') = Len(runs) - 1
        /\ \A q \in 1..Len(runs) : q # Len(runs) => q \in 1..Len(runs') /\ runs'[q] = runs[q]
    <3> DEFINE l == Len(runs) - 1
    <3>1. l \in Nat /\ \A q \in 1..l : runs[q] \in Mode
      BY <2>2
    <3> HIDE DEF l
    <3>2. /\ SubSeq(runs, 1, l) \in Seq(Mode) /\ Len(SubSeq(runs, 1, l)) = l
          /\ \A q \in 1..l : SubSeq(runs, 1, l)[q] = runs[q]
      BY <3>1, SubSeqProperties
    <3>3. QED
      BY <2>1, <2>2, <3>1, <3>2 DEF l
  <2>4. TxsSound'
    <3>1. ASSUME NEW t \in 1..Len(txs)
          PROVE  StageOf(txs[t], runs') /\ Backed(txs[t].run, txs[t].stage, txs)
      <4>1. StageOf(txs[t], runs) /\ Backed(txs[t].run, txs[t].stage, txs)
        BY DEF IInv, TxsSound
      <4>2. txs[t].run # Len(runs)
        BY <2>2 DEF HasTx
      <4>3. QED
        BY <2>3, <4>1, <4>2 DEF StageOf
    <3>2. QED
      BY <1>1, <3>1 DEF TxsSound
  <2>5. TypeInv'
    BY <1>1, <1>5, <2>1, <2>3 DEF IInv, TypeInv, NoGate, NoRuntime, Unknown
  <2>6. SessionSound' /\ CapsulesSound' /\ RecoverySound' /\ PointerSound' /\ CallSound(call, runs, txs)'
    BY <1>1, <2>1 DEF IInv, SessionSound, CapsulesSound, RecoverySound, PointerSound, CallSound
  <2>7. ResumingSound'
    BY <1>1 DEF IInv, ResumingSound
  <2>8. QED
    BY <1>6, <2>4, <2>5, <2>6, <2>7 DEF IInv
<1>10. QED
  BY <1>8, <1>9

\* Where transactions are kept and runs do not change, what was sound is sound.
LEMMA ChainKeeps ==
  ASSUME IInv, Kept(txs, txs'), txs' \in Seq(Tx),
         UNCHANGED <<runs, session, capsules, recovering, pointer, gate, resuming, reopened>>
  PROVE  /\ SessionSound' /\ CapsulesSound' /\ RecoverySound' /\ PointerSound' /\ ResumingSound'
         /\ \A r : HasTx(r, txs) => HasTx(r, txs')
         /\ \A t \in 1..Len(txs) : StageOf(txs'[t], runs') /\ Backed(txs'[t].run, txs'[t].stage, txs')
<1>1. runs \in Seq(Mode) /\ txs \in Seq(Tx) /\ Len(txs) \in Nat /\ Len(txs') \in Nat
  BY DEF IInv, TypeInv
<1>2. SessionSound'
  <2>1. CASE session = NoSession
    BY <2>1 DEF SessionSound, NoSession
  <2>2. CASE Sound(session, runs, txs)
    <3>1. session.run \in 1..Len(runs)
      BY <2>2 DEF Sound, StageOf
    <3>2. Sound(session, runs, txs')
      BY <1>1, <2>2, <3>1, SoundKept
    <3>3. QED
      BY <3>2 DEF SessionSound
  <2>3. QED
    BY <2>1, <2>2 DEF IInv, SessionSound
<1>3. CapsulesSound'
  <2>1. ASSUME NEW c \in capsules PROVE Refers(c, txs')
    BY <1>1, RefersKept DEF IInv, CapsulesSound
  <2>2. QED
    BY <2>1 DEF CapsulesSound
<1>4. RecoverySound'
  <2>1. ASSUME Refers(recovering, txs) PROVE Refers(recovering, txs')
    BY <1>1, <2>1, RefersKept
  <2>2. QED
    BY <2>1 DEF IInv, RecoverySound, NoRecovery
<1>5. PointerSound'
  <2>1. CASE pointer = NoPointer
    BY <2>1 DEF PointerSound, NoPointer
  <2>2. ASSUME NEW t \in 1..Len(txs), pointer = [run |-> txs[t].run, stage |-> txs[t].stage]
        PROVE  PointerSound'
    <3>1. t \in 1..Len(txs') /\ txs'[t].run = txs[t].run /\ txs'[t].stage = txs[t].stage
      BY <1>1 DEF Kept
    <3>2. pointer' = [run |-> txs'[t].run, stage |-> txs'[t].stage]
      BY <2>2, <3>1
    <3>3. QED
      BY <3>1, <3>2 DEF PointerSound
  <2>3. QED
    BY <2>1, <2>2 DEF IInv, PointerSound
<1>6. ASSUME NEW t \in 1..Len(txs)
      PROVE  StageOf(txs'[t], runs') /\ Backed(txs'[t].run, txs'[t].stage, txs')
  <2>1. StageOf(txs[t], runs) /\ Backed(txs[t].run, txs[t].stage, txs)
    BY DEF IInv, TxsSound
  <2>2. txs'[t].run = txs[t].run /\ txs'[t].stage = txs[t].stage
    BY DEF Kept
  <2>3. Backed(txs[t].run, txs[t].stage, txs')
    BY <1>1, <2>1, BackedKept
  <2>4. QED
    BY <2>1, <2>2, <2>3 DEF StageOf
<1>7. \A r : HasTx(r, txs) => HasTx(r, txs')
  BY <1>1 DEF HasTx, Kept
<1>8. ResumingSound'
  BY <1>7 DEF IInv, ResumingSound
<1>9. QED
  BY <1>2, <1>3, <1>4, <1>5, <1>6, <1>7, <1>8

\* The wallet sends the stage of the call, whose predecessors succeeded.
LEMMA BroadcastStep == ASSUME IInv, Broadcast PROVE IInv'
<1> DEFINE ses == call.session
           n == [run |-> ses.run, stage |-> ses.stage, status |-> "pending",
                 amount |-> IF KindOf(ses.run, ses.stage) = "shield" THEN ses.input ELSE 1,
                 yield |-> 0, page |-> reloads]
<1>1. /\ call.pc = "wallet" /\ txs' = Append(txs, n)
      /\ call' = [pc |-> "wait", first |-> call.first, session |-> ses, runtime |-> call.runtime,
                  before |-> call.before, sealed |-> call.sealed, tx |-> Len(txs')]
      /\ UNCHANGED <<mode, session, runtime, snapshots, recovering, gate, resuming, reopened, pointer,
                     capsules, runs, balance, deposits, switches, reloads>>
  BY DEF Broadcast, fees, storage, counts
<1>2. /\ Sound(ses, runs, txs) /\ call.runtime \in Made /\ call.before \in Nat
  BY <1>1, CallKnown
<1>3. runs \in Seq(Mode) /\ txs \in Seq(Tx) /\ Len(txs) \in Nat
  BY DEF IInv, TypeInv
<1>4. n \in Tx /\ n.run = ses.run /\ n.stage = ses.stage
  BY <1>2 DEF Tx, Sound, Shown, IInv, TypeInv
<1> HIDE DEF n
<1>5. /\ txs' \in Seq(Tx) /\ Len(txs') = Len(txs) + 1 /\ txs'[Len(txs')] = n
      /\ \A t \in 1..Len(txs) : txs'[t] = txs[t]
  BY <1>1, <1>3, <1>4
<1>6. Kept(txs, txs')
  BY <1>3, <1>5 DEF Kept
<1>7. Sound(ses, runs, txs')
  <2>1. ses.run \in 1..Len(runs)
    BY <1>2 DEF Sound, StageOf
  <2>2. QED
    BY <1>2, <1>3, <1>5, <1>6, <2>1, SoundKept
<1>8. TxsSound'
  <2>1. StageOf(n, runs') /\ Backed(n.run, n.stage, txs')
    BY <1>1, <1>4, <1>7 DEF Sound, StageOf
  <2>2. ASSUME NEW t \in 1..Len(txs')
        PROVE  StageOf(txs'[t], runs') /\ Backed(txs'[t].run, txs'[t].stage, txs')
    <3>1. CASE t \in 1..Len(txs)
      BY <1>1, <1>5, <1>6, <3>1, ChainKeeps
    <3>2. CASE t = Len(txs')
      BY <1>5, <2>1, <3>2
    <3>3. QED
      BY <1>3, <1>5, <3>1, <3>2
  <2>3. QED
    BY <2>2 DEF TxsSound
<1>9. CallSound(call, runs, txs)'
  <2>1. /\ call'.pc = "wait" /\ call'.session = ses /\ call'.runtime = call.runtime
        /\ call'.before = call.before /\ call'.tx = Len(txs')
    BY <1>1
  <2>2. Refers([run |-> ses.run, stage |-> ses.stage, tx |-> Len(txs')], txs')
    BY <1>3, <1>4, <1>5 DEF Refers
  <2>3. QED
    BY <1>1, <1>2, <1>7, <2>1, <2>2 DEF CallSound
<1>10. TypeInv'
  BY <1>1, <1>5 DEF IInv, TypeInv
<1>11. GateSound'
  <2>1. \A r : HasTx(r, txs) => HasTx(r, txs')
    BY <1>1, <1>5, <1>6, ChainKeeps
  <2>2. HasTx(ses.run, txs')
    BY <1>3, <1>4, <1>5 DEF HasTx
  <2>3. \A r : Starts(call, r) => r = ses.run
    BY <1>1 DEF Starts
  <2>4. QED
    BY <1>1, <2>1, <2>2, <2>3 DEF IInv, GateSound
<1>12. QED
  BY <1>1, <1>5, <1>6, <1>8, <1>9, <1>10, <1>11, ChainKeeps DEF IInv

\* A transaction is decided: it stays of its stage, and none that succeeded changes.
LEMMA DecidedStep ==
  ASSUME IInv, NEW t \in 1..Len(txs), NEW n \in Tx,
         txs[t].status # "succeeded", n.run = txs[t].run, n.stage = txs[t].stage,
         txs' = [txs EXCEPT ![t] = n],
         balance' \in [sold : Nat, bought : Nat],
         UNCHANGED <<page, fees, storage, runs, deposits, counts>>
  PROVE  IInv'
<1>1. UNCHANGED <<mode, session, runtime, snapshots, call, recovering, gate, resuming, reopened,
                  pointer, capsules, runs, deposits, switches, reloads>>
  BY DEF page, fees, storage, counts
<1>2. runs \in Seq(Mode) /\ txs \in Seq(Tx) /\ Len(txs) \in Nat
  BY DEF IInv, TypeInv
<1>3. /\ txs' \in Seq(Tx) /\ Len(txs') = Len(txs) /\ txs'[t] = n
      /\ \A u \in 1..Len(txs) : u # t => txs'[u] = txs[u]
  BY <1>2
<1>4. Kept(txs, txs')
  BY <1>2, <1>3 DEF Kept
<1>5. TxsSound'
  BY <1>1, <1>3, <1>4, ChainKeeps DEF TxsSound
<1>6. TypeInv'
  BY <1>1, <1>3 DEF IInv, TypeInv
<1>7. CallSound(call, runs, txs')
  <2>1. CASE call = NoCall \/ call.pc = "fee"
    <3>1. CallSound(call, runs, txs)
      BY DEF IInv
    <3>2. \A r : HasTx(r, txs) => HasTx(r, txs')
      BY <1>1, <1>3, <1>4, ChainKeeps
    <3>3. QED
      BY <2>1, <3>1, <3>2 DEF CallSound, NoCall
  <2>2. CASE call.pc \in {"prepare", "wallet", "wait", "bind", "receipt", "load", "verify", "refresh"}
    <3>1. Sound(call.session, runs, txs')
      <4>1. Sound(call.session, runs, txs) /\ call.session.run \in 1..Len(runs)
        BY <2>2, CallKnown DEF Sound, StageOf
      <4>2. QED
        BY <1>2, <1>3, <1>4, <4>1, SoundKept
    <3>2. call.pc \in {"wait", "bind"} =>
            Refers([run |-> call.session.run, stage |-> call.session.stage, tx |-> call.tx], txs')
      BY <1>2, <1>3, <1>4, <2>2, CallKnown, RefersKept
    <3>3. \A r : HasTx(r, txs) => HasTx(r, txs')
      BY <1>1, <1>3, <1>4, ChainKeeps
    <3>4. call.pc \in {"load", "verify"} => txs'[call.session.tx].status = "succeeded"
      <4>1. ASSUME call.pc \in {"load", "verify"} PROVE txs'[call.session.tx].status = "succeeded"
        <5>1. /\ Sound(call.session, runs, txs) /\ call.session.status = "submitted"
              /\ txs[call.session.tx].status = "succeeded"
          BY <4>1, CallKnown
        <5>2. call.session.tx \in 1..Len(txs)
          BY <5>1 DEF Sound, Refers
        <5>3. QED
          BY <1>4, <5>1, <5>2 DEF Kept
      <4>2. QED
        BY <4>1
    <3>5. QED
      BY <2>2, <3>1, <3>2, <3>3, <3>4, CallKnown DEF CallSound
  <2>3. QED
    BY <2>1, <2>2 DEF IInv, CallSound
<1>8. GateSound'
  <2>1. \A r : HasTx(r, txs) => HasTx(r, txs')
    BY <1>1, <1>3, <1>4, ChainKeeps
  <2>2. QED
    BY <1>1, <2>1 DEF IInv, GateSound
<1>9. QED
  BY <1>1, <1>3, <1>4, <1>5, <1>6, <1>7, <1>8, ChainKeeps DEF IInv

LEMMA SucceedStep == ASSUME IInv, NEW t \in 1..Len(txs), Succeed(t) PROVE IInv'
<1> DEFINE tx == txs[t]
<1>1. txs \in Seq(Tx) /\ tx \in Tx
  BY DEF IInv, TypeInv
<1>2. tx.status # "succeeded" /\ UNCHANGED <<page, fees, storage, runs, deposits, counts>>
  BY DEF Succeed
<1>3. balance \in [sold : Nat, bought : Nat] /\ balance.sold \in Nat /\ balance.bought \in Nat
  BY DEF IInv, TypeInv
<1>4. ASSUME NEW y \in Nat, txs' = [txs EXCEPT ![t].status = "succeeded", ![t].yield = y],
             balance' \in [sold : Nat, bought : Nat]
      PROVE  IInv'
  <2> DEFINE n == [tx EXCEPT !.status = "succeeded", !.yield = y]
  <2>1. n \in Tx /\ n.run = tx.run /\ n.stage = tx.stage
    BY <1>1 DEF Tx
  <2>2. txs' = [txs EXCEPT ![t] = n]
    BY <1>1, <1>4
  <2> HIDE DEF n
  <2>3. QED
    BY <1>2, <1>4, <2>1, <2>2, DecidedStep
<1>5. CASE KindOf(tx.run, tx.stage) = "unshield"
  <2>1. balance' = [balance EXCEPT !.sold = balance.sold + 1]
        /\ txs' = [txs EXCEPT ![t].status = "succeeded", ![t].yield = 1]
    BY <1>5 DEF Succeed
  <2>2. balance' \in [sold : Nat, bought : Nat]
    BY <1>3, <2>1
  <2>3. QED
    BY <1>4, <2>1, <2>2
<1>6. CASE KindOf(tx.run, tx.stage) = "swap"
  <2>1. PICK o \in Outputs : /\ txs' = [txs EXCEPT ![t].status = "succeeded", ![t].yield = o]
                             /\ balance' = [sold |-> balance.sold - 1, bought |-> balance.bought + o]
    BY <1>6 DEF Succeed
  <2>2. o \in Nat /\ balance.sold >= 1
    BY <1>6, SwapFlowAssumption DEF Succeed, Covered
  <2>3. balance' \in [sold : Nat, bought : Nat]
    <3>1. balance.sold - 1 \in Nat /\ balance.bought + o \in Nat
      BY <1>3, <2>2
    <3>2. QED
      BY <1>3, <2>1, <3>1
  <2>4. QED
    BY <1>4, <2>1, <2>2, <2>3
<1>7. CASE KindOf(tx.run, tx.stage) = "shield"
  <2>1. /\ txs' = [txs EXCEPT ![t].status = "succeeded", ![t].yield = tx.amount]
        /\ balance' = [balance EXCEPT !.bought = balance.bought - tx.amount]
        /\ balance.bought >= tx.amount
    BY <1>7 DEF Succeed, Covered
  <2>2. tx.amount \in Nat
    BY <1>1 DEF Tx
  <2>3. balance' \in [sold : Nat, bought : Nat]
    BY <1>3, <2>1, <2>2
  <2>4. QED
    BY <1>4, <2>1, <2>2, <2>3
<1>8. QED
  BY <1>5, <1>6, <1>7 DEF Succeed

LEMMA RevertStep == ASSUME IInv, NEW t \in 1..Len(txs), Revert(t) PROVE IInv'
<1> DEFINE n == [txs[t] EXCEPT !.status = "reverted"]
<1>1. txs[t] \in Tx /\ txs \in Seq(Tx) /\ txs[t].status # "succeeded" /\ txs' = [txs EXCEPT ![t].status = "reverted"]
      /\ balance' \in [sold : Nat, bought : Nat]
      /\ UNCHANGED <<page, fees, storage, runs, deposits, counts>>
  BY DEF IInv, TypeInv, Revert
<1>2. n \in Tx /\ n.run = txs[t].run /\ n.stage = txs[t].stage
  BY <1>1 DEF Tx
<1>3. txs' = [txs EXCEPT ![t] = n]
  BY <1>1
<1> HIDE DEF n
<1>4. QED
  BY <1>1, <1>2, <1>3, DecidedStep

LEMMA DepositStep == ASSUME IInv, Deposit PROVE IInv'
<1>1. /\ UNCHANGED <<mode, session, runtime, snapshots, call, recovering, gate, resuming, reopened,
                     pointer, capsules, runs, txs, switches, reloads>>
      /\ deposits' = deposits + 1 /\ balance' = [balance EXCEPT !.bought = @ + 1]
  BY DEF Deposit, page, fees, storage, counts
<1>2. TypeInv'
  <2>1. balance' \in [sold : Nat, bought : Nat]
    BY <1>1 DEF IInv, TypeInv
  <2>2. QED
    BY <1>1, <2>1 DEF IInv, TypeInv
<1>3. GateSound'
  BY <1>1, GateKept
<1>4. QED
  BY <1>1, <1>2, <1>3, Quiet DEF IInv

-----------------------------------------------------------------------------
(* The specification *)

LEMMA InitIInv == Init => IInv
<1> SUFFICES ASSUME Init PROVE IInv
  OBVIOUS
<1>1. TypeInv
  BY SwapFlowAssumption DEF Init, TypeInv, NoRuntime, Unknown, NoGate
<1>2. QED
  BY <1>1 DEF Init, IInv, TxsSound, SessionSound, CapsulesSound, RecoverySound, PointerSound, CallSound,
              GateSound, ResumingSound, NoGate

\* Whatever refers to a stage refers to one whose predecessors succeeded, from the start
\* and after every step.
THEOREM Inductive == Spec => []IInv
<1>1. IInv /\ [Next]_vars => IInv'
  <2> SUFFICES ASSUME IInv, [Next]_vars PROVE IInv'
    OBVIOUS
  <2>1. CASE Executing
    BY <2>1, StartFlowStep, FeeGrantedStep, ExecuteNextStep, PrepareStep, RefuseStep, BroadcastStep,
       WalletReturnsStep, ExecuteReturnsStep, MarkThrowsStep DEF Executing
  <2>2. CASE Confirming
    BY <2>2, ConfirmStep, ReceiptReadStep, CapsuleLoadedStep, VerifiedStep, RefreshedStep,
       ConfirmFailsStep, NewSwapStep DEF Confirming
  <2>3. CASE Recovering
    BY <2>3, ResumesStep, RecoveredStep, RecoveryFailsStep, CancelledStep, SwitchStep, ReloadStep
       DEF Recovering
  <2>4. CASE Chain
    BY <2>4, DepositStep, SucceedStep, RevertStep DEF Chain
  <2>5. CASE UNCHANGED vars
    <3>1. UNCHANGED <<mode, session, runtime, snapshots, call, recovering, gate, resuming, reopened,
                      pointer, capsules, runs, txs, balance, deposits, switches, reloads>>
      BY <2>5 DEF vars, page, fees, storage, chain, counts
    <3>2. TypeInv'
      BY <3>1 DEF IInv, TypeInv
    <3>3. GateSound'
      BY <3>1, GateKept
    <3>4. QED
      BY <3>1, <3>2, <3>3, Quiet DEF IInv
  <2>6. QED
    BY <2>1, <2>2, <2>3, <2>4, <2>5 DEF Next
<1>2. QED
  BY InitIInv, <1>1, PTL DEF Spec

\* Every variable has its type, for any plans and bounds.
THEOREM TypeCorrect == Spec => []TypeOK
<1>1. ASSUME IInv PROVE TypeOK
  <2>1. session = NoSession \/ SessionOK(session)
    BY <1>1 DEF IInv, SessionSound, Sound, StageOf, Refers, Shown, SessionOK, RunIds, TxIds, Plan
  <2>2. /\ call.pc \notin {"none", "fee"} => SessionOK(call.session) /\ call.runtime.id \in 1..3
        /\ call.pc = "fee" => call.run \in RunIds
    <3>1. CallSound(call, runs, txs)
      BY <1>1 DEF IInv
    <3>2. QED
      BY <3>1 DEF CallSound, NoCall, Sound, StageOf, Refers, Shown, SessionOK, RunIds, TxIds, Plan, Made
  <2>3. pointer = NoPointer \/ (pointer.run \in RunIds /\ pointer.stage \in 1..Len(Plan(pointer.run)))
    BY <1>1 DEF IInv, PointerSound, TxsSound, StageOf, RunIds, Plan
  <2>4. \A t \in TxIds : /\ txs[t].run \in RunIds /\ txs[t].stage \in 1..Len(Plan(txs[t].run))
                         /\ txs[t].status \in {"pending", "succeeded", "reverted"}
    <3>1. ASSUME NEW t \in 1..Len(txs)
          PROVE  txs[t] \in Tx /\ StageOf(txs[t], runs)
      BY <1>1 DEF IInv, TypeInv, TxsSound
    <3>2. QED
      BY <3>1 DEF TxIds, RunIds, Plan, StageOf, Tx
  <2>5. gate.run \in 0..Len(runs) /\ reopened \subseteq RunIds
    <3>1. \A r : HasTx(r, txs) => r \in 1..Len(runs)
      BY <1>1 DEF IInv, HasTx, TxsSound, StageOf
    <3>2. \A r : Starts(call, r) => r \in 1..Len(runs)
      <4>1. ASSUME call.pc \in {"prepare", "wallet"} PROVE call.session.run \in 1..Len(runs)
        BY <2>2, <4>1 DEF SessionOK, RunIds
      <4>2. QED
        BY <2>2, <4>1 DEF Starts, RunIds
    <3>3. Len(runs) \in Nat
      BY <1>1 DEF IInv, TypeInv
    <3>4. QED
      BY <1>1, <3>1, <3>2, <3>3 DEF IInv, GateSound, ResumingSound, RunIds
  <2>6. QED
    BY <1>1, <2>1, <2>2, <2>3, <2>4, <2>5 DEF TypeOK, IInv, TypeInv
<1>2. QED
  BY <1>1, Inductive, PTL

\* A later stage is sent only once a transaction of the stage before it succeeded, for
\* chains of any length.
THEOREM StagesInOrder == Spec => []StageAfterSuccess
<1>1. ASSUME IInv PROVE StageAfterSuccess
  <2>1. ASSUME NEW t \in 1..Len(txs), txs[t].stage > 1
        PROVE  Succeeds(txs[t].run, txs[t].stage - 1, txs)
    <3>1. Backed(txs[t].run, txs[t].stage, txs) /\ txs[t] \in Tx
      BY <1>1 DEF IInv, TypeInv, TxsSound
    <3>2. txs[t].stage - 1 \in 1..txs[t].stage - 1
      BY <2>1, <3>1 DEF Tx
    <3>3. QED
      BY <3>1, <3>2 DEF Backed
  <2>2. QED
    BY <2>1 DEF StageAfterSuccess, Succeeds, TxIds, KeyOf
<1>2. QED
  BY <1>1, Inductive, PTL

\* A swap or an unshield that the page shows as done has succeeded, for chains of any
\* length, whatever was restored, reverted or paid in between.
THEOREM DoneHasSucceeded == Spec => []PublicDoneSucceeded
<1>1. ASSUME IInv PROVE PublicDoneSucceeded
  <2>1. ASSUME session.run # 0, NEW i \in 1..Len(Plan(session.run)), Done(i),
               KindOf(session.run, i) # "shield"
        PROVE  Succeeds(session.run, i, txs)
    <3>1. Sound(session, runs, txs)
      BY <1>1, <2>1 DEF IInv, SessionSound, NoSession
    <3>2. CASE i < session.stage
      <4>1. i \in 1..session.stage - 1
        BY <3>1, <3>2 DEF Sound, Shown, Plan
      <4>2. QED
        BY <3>1, <4>1 DEF Sound, Backed
    <3>3. CASE session.status = "completed"
      BY <2>1, <3>1, <3>3 DEF Sound, AllDone, Plan, KindOf
    <3>4. QED
      BY <2>1, <3>2, <3>3 DEF Done
  <2>2. QED
    BY <2>1 DEF PublicDoneSucceeded, Succeeded, Succeeds, TxIds, KeyOf
<1>2. QED
  BY <1>1, Inductive, PTL

-----------------------------------------------------------------------------
(***************************************************************************)
(* One page of the swap sends no stage of a run twice, for any plans, any  *)
(* number of runs, transactions, changes of mode and late recoveries, and  *)
(* every failure, but for the runs that a cancelled recovery made active   *)
(* again where there is no fee policy.  A recovery may show an earlier     *)
(* stage again while a later one is sent; once that call has returned, the *)
(* capsule of the earlier one is gone and the new runtime knows nothing of *)
(* it, so it is not confirmed a second time, and the page never returns to *)
(* the stage that was sent.                                                *)
(***************************************************************************)

\* The fee gate may start the run a second time.
Reusable(r) == ~FeeOn /\ r \in reopened

\* The page that is mounted has sent the stage, once and for all; a call that executes
\* it is past that.
Sent(r, i) ==
  /\ ~Reusable(r)
  /\ \E t \in 1..Len(txs) : txs[t].run = r /\ txs[t].stage = i /\ txs[t].page = reloads
Executes == call.pc \in {"prepare", "wallet", "wait", "bind"}
Flying(r, i) == call.pc \in {"wait", "bind"} /\ call.session.run = r /\ call.session.stage = i

\* Runtime n has no snapshot of the stage.
NoneOf(n, r, i) == \A s \in snapshots : ~(s.runtime = n /\ s.run = r /\ s.stage = i)

\* A session of the stage can only be shown as submitted, and not verified in memory.
Stale(s, n) == s.status = "submitted" /\ NoneOf(n, s.run, s.stage)

PagesKnown == \A t \in 1..Len(txs) : txs[t].page <= reloads

\* Nothing knows the run any more: its mark was refused.
Abandoned(r) ==
  /\ session.run # r /\ pointer.run # r /\ recovering.run # r /\ gate.run # r
  /\ \A o \in resuming : o.run # r
  /\ Busy => RunOf(call) # r

\* Only the capsule the pointer names is kept, or one of the end of a plan, or of a run
\* that is past this.
CapsulesPointed ==
  \A c \in capsules : \/ pointer.run = c.run /\ pointer.stage = c.stage
                      \/ c.stage = Len(Plan(c.run))
                      \/ Abandoned(c.run) \/ Reusable(c.run)

LoadsOwn ==
  call.pc = "load" => call.found.run = call.session.run /\ call.found.stage = call.session.stage

\* While a stage is executed, what the page shows of an earlier one is a late recovery.
StaleWhileExecuting ==
  Executes /\ session.run = call.session.run /\ session.stage < call.session.stage
    => Stale(session, runtime.id)

\* Stage i of run r was sent by this page and its call has returned: nothing of an
\* earlier stage can be verified any more, and the stage is not shown for review.
Behind(r, i) ==
  /\ \A c \in capsules : c.run = r => c.stage >= i
  /\ session.run = r => /\ session.stage < i => Stale(session, runtime.id)
                        /\ session.stage = i => session.status # "review"
  /\ Executes /\ call.session.run = r => call.session.stage > i
  /\ call.pc \in {"load", "verify"} /\ call.session.run = r => call.session.stage >= i
  /\ call.pc = "receipt" /\ call.session.run = r /\ call.session.stage < i =>
       NoneOf(call.runtime.id, r, call.session.stage)

SentBehind ==
  \A t \in 1..Len(txs) : LET r == txs[t].run  i == txs[t].stage IN
    txs[t].page = reloads /\ ~Reusable(r) /\ ~Flying(r, i) => Behind(r, i)

Once == PagesKnown /\ CapsulesPointed /\ LoadsOwn /\ StaleWhileExecuting /\ SentBehind /\ PageSendsOnce

\* What was abandoned stays so, and what may be started again may be later.
Steady ==
  /\ \A r : HasTx(r, txs) /\ Abandoned(r) => Abandoned(r)'
  /\ \A r : Reusable(r) => Reusable(r)'

\* A run that is active and not marked, though it was sent, is one a recovery made so,
\* or one whose first stage is being sent; the fee gate gives it to nobody else.
GateKnown ==
  gate.run # 0 /\ ~gate.started /\ HasTx(gate.run, txs) =>
    gate.run \in reopened \/ (call.pc \in {"wait", "bind"} /\ call.first /\ call.session.run = gate.run)
CallReopened == call.pc = "fee" /\ HasTx(call.run, txs) => call.run \in reopened

\* While its first stage is sent, nothing else knows the run.
FirstOwn ==
  Executes /\ call.first /\ ~Reusable(call.session.run) =>
    /\ call.session.stage = 1
    /\ pointer.run # call.session.run /\ recovering.run # call.session.run
    /\ \A o \in resuming : o.run # call.session.run

Reuse == GateKnown /\ CallReopened /\ FirstOwn

-----------------------------------------------------------------------------
(* Lemmas *)

LEMMA HasTxKnown ==
  ASSUME IInv, NEW r, HasTx(r, txs)
  PROVE  r \in 1..Len(runs) /\ r # 0 /\ r # Len(runs) + 1
<1>1. Len(runs) \in Nat /\ r \in 1..Len(runs)
  BY DEF HasTx, IInv, TypeInv, TxsSound, StageOf
<1>2. QED
  BY <1>1

\* The run of a capsule, a pointer or a recovery was sent.
LEMMA StoredSent ==
  ASSUME IInv
  PROVE  /\ \A c \in capsules : HasTx(c.run, txs)
         /\ pointer.run = 0 \/ HasTx(pointer.run, txs)
         /\ recovering.run = 0 \/ HasTx(recovering.run, txs)
         /\ \A o \in resuming : HasTx(o.run, txs)
<1>1. \A c \in capsules : HasTx(c.run, txs)
  BY DEF IInv, CapsulesSound, Refers, HasTx
<1>2. pointer.run = 0 \/ HasTx(pointer.run, txs)
  BY DEF IInv, PointerSound, NoPointer, HasTx
<1>3. recovering.run = 0 \/ HasTx(recovering.run, txs)
  BY DEF IInv, RecoverySound, NoRecovery, Refers, HasTx
<1>4. QED
  BY <1>1, <1>2, <1>3 DEF IInv, ResumingSound

LEMMA RecoveryForRun ==
  ASSUME NEW m, NEW b
  PROVE  RecoveryFor(m, b).run = 0 \/ RecoveryFor(m, b).run = pointer.run
<1> DEFINE found == {c \in capsules : KeyOf(c) = KeyOf(pointer)}
           c == CHOOSE c \in found : TRUE
           n == [run |-> c.run, stage |-> c.stage, tx |-> c.tx, pc |-> "capsule", bought |-> b]
<1>1. ASSUME found # {} PROVE n.run = pointer.run
  <2>1. c \in found
    BY <1>1
  <2>2. QED
    BY <2>1 DEF KeyOf
<1>2. RecoveryFor(m, b) = NoRecovery \/ (found # {} /\ RecoveryFor(m, b) = n)
  BY DEF RecoveryFor
<1> HIDE DEF n, found
<1>3. QED
  BY <1>1, <1>2 DEF NoRecovery

LEMMA SentKnown ==
  ASSUME IInv, NEW r, NEW i, Sent(r, i)
  PROVE  /\ r \in 1..Len(runs) /\ i \in 1..Len(Plan(r))
         /\ r \in Nat \ {0} /\ i \in Nat /\ Len(Plan(r)) \in Nat
<1>1. PICK t \in 1..Len(txs) : txs[t].run = r /\ txs[t].stage = i
  BY DEF Sent
<1>2. StageOf(txs[t], runs)
  BY DEF IInv, TxsSound
<1>3. r \in 1..Len(runs) /\ i \in 1..Len(Plan(r))
  BY <1>1, <1>2 DEF StageOf, Plan
<1>4. runs \in Seq(Mode)
  BY DEF IInv, TypeInv
<1>5. runs[r] \in Mode
  BY <1>3, <1>4
<1>6. Len(Plan(r)) \in Nat
  BY <1>5, SwapFlowAssumption DEF Plan
<1>7. Len(runs) \in Nat
  BY <1>4
<1>8. QED
  BY <1>3, <1>6, <1>7

\* The stage of a call that executes or confirms one.
LEMMA CallStage ==
  ASSUME IInv, call.pc \in {"prepare", "wallet", "wait", "bind", "receipt", "load", "verify", "refresh"}
  PROVE  /\ call.session.run \in 1..Len(runs)
         /\ call.session.stage \in 1..Len(Plan(call.session.run))
         /\ call.session.run \in Nat \ {0} /\ call.session.stage \in Nat
         /\ Len(Plan(call.session.run)) \in Nat
<1>1. Sound(call.session, runs, txs)
  BY CallKnown
<1>2. runs \in Seq(Mode)
  BY DEF IInv, TypeInv
<1>3. call.session.run \in 1..Len(runs) /\ call.session.stage \in 1..Len(Plan(call.session.run))
  BY <1>1 DEF Sound, StageOf, Plan
<1>4. runs[call.session.run] \in Mode
  BY <1>2, <1>3
<1>5. Len(Plan(call.session.run)) \in Nat
  BY <1>4, SwapFlowAssumption DEF Plan
<1>6. QED
  BY <1>1, <1>3, <1>5 DEF Sound, Shown

\* A step that leaves the transactions owes what it does to the stages this page sent.
LEMMA Owes ==
  ASSUME IInv, Once, Steady, UNCHANGED <<txs, reloads>>,
         CapsulesPointed', LoadsOwn', StaleWhileExecuting',
         \A r, i : Sent(r, i) /\ ~Flying(r, i)' => Behind(r, i)'
  PROVE  Once'
<1>1. PagesKnown'
  BY DEF Once, PagesKnown
<1>2. PageSendsOnce'
  BY DEF Once, Steady, Reusable, PageSendsOnce, SameStage, TxIds, KeyOf
<1>3. SentBehind'
  <2>1. \A r, i : Sent(r, i)' => Sent(r, i)
    BY DEF Steady, Sent
  <2>2. QED
    BY <2>1 DEF SentBehind, Sent
<1>4. QED
  BY <1>1, <1>2, <1>3 DEF Once

LEMMA SentIsBehind ==
  ASSUME Once, NEW r, NEW i, Sent(r, i), ~Flying(r, i)
  PROVE  Behind(r, i)
BY DEF Once, SentBehind, Sent

\* Storage and runs are left.
LEMMA PointedKept ==
  ASSUME IInv, Once, Steady, UNCHANGED <<runs, pointer>>, capsules' \subseteq capsules
  PROVE  CapsulesPointed'
BY StoredSent DEF Once, CapsulesPointed, Plan, Steady

\* The pointer is cleared, and its capsule.
LEMMA PointedCleared ==
  ASSUME IInv, Once, Steady, UNCHANGED runs, ClearPointer(capsules)
  PROVE  CapsulesPointed' /\ capsules' \subseteq capsules
<1>1. /\ capsules' \subseteq capsules
      /\ \A c \in capsules' : ~(pointer.run = c.run /\ pointer.stage = c.stage)
  BY DEF ClearPointer, RemoveCapsule, KeyOf
<1>2. QED
  BY <1>1, StoredSent DEF Once, CapsulesPointed, Plan, Steady

\* The last run is added or removed: capsules are of the others.
LEMMA PointedRuns ==
  ASSUME IInv, Once, Steady, UNCHANGED <<capsules, pointer, txs>>,
         \A t \in 1..Len(txs) : runs'[txs[t].run] = runs[txs[t].run]
  PROVE  CapsulesPointed'
<1>1. \A c \in capsules : Plan(c.run)' = Plan(c.run) /\ HasTx(c.run, txs)
  BY StoredSent DEF Plan, IInv, CapsulesSound, Refers
<1>2. QED
  BY <1>1 DEF Once, CapsulesPointed, Steady

-----------------------------------------------------------------------------
(* Executing a stage *)

LEMMA StartFlowOnce == ASSUME IInv, Once, Steady, StartFlow PROVE Once'
<1>1. /\ call'.pc = "fee" /\ ~Busy
      /\ UNCHANGED <<session, runtime, snapshots, pointer, capsules, txs, reloads>>
  BY DEF StartFlow, storage, chain, counts
<1>2. ASSUME NEW r, NEW i, Sent(r, i) PROVE Behind(r, i)'
  <2>1. Behind(r, i)
    BY <1>1, <1>2, SentIsBehind DEF Flying, Busy
  <2>2. QED
    BY <1>1, <2>1 DEF Behind, Executes, Stale, NoneOf
<1>3. CapsulesPointed'
  <2>1. ASSUME NEW t \in 1..Len(txs) PROVE runs'[txs[t].run] = runs[txs[t].run]
    <3>1. txs[t].run \in 1..Len(runs) /\ runs \in Seq(Mode) /\ mode \in Mode
      BY DEF IInv, TypeInv, TxsSound, StageOf
    <3>2. UNCHANGED runs \/ runs' = Append(runs, mode)
      BY DEF StartFlow
    <3>3. QED
      BY <3>1, <3>2
  <2>2. QED
    BY <1>1, <2>1, PointedRuns
<1>4. LoadsOwn' /\ StaleWhileExecuting'
  BY <1>1 DEF LoadsOwn, StaleWhileExecuting, Executes
<1>5. QED
  BY <1>1, <1>2, <1>3, <1>4, Owes

\* No stage of the run was sent, or it may be started again.
LEMMA FeeGrantedOnce == ASSUME IInv, Once, Steady, Reuse, FeeGranted PROVE Once'
<1>1. /\ call.pc = "fee"
      /\ session' = At(call.run, 1, "review", 0, 0)
      /\ call' = [pc |-> "prepare", first |-> TRUE, session |-> session', runtime |-> runtime']
      /\ Forget(FreshRuntime)
      /\ UNCHANGED <<pointer, capsules, runs, txs, reloads>>
  BY DEF FeeGranted, storage, chain, counts
<1>2. /\ session'.run = call.run /\ session'.stage = 1
      /\ call'.pc = "prepare" /\ call'.session = session'
  BY <1>1 DEF At
<1>3. HasTx(call.run, txs) => Reusable(call.run)
  BY <1>1 DEF Reuse, CallReopened, Reusable, FeeGranted, Unsent, HasTx
<1>4. ASSUME NEW r, NEW i, Sent(r, i) PROVE Behind(r, i)'
  <2>1. Behind(r, i)
    BY <1>1, <1>4, SentIsBehind DEF Flying
  <2>2. r # call.run
    BY <1>3, <1>4 DEF Sent, HasTx
  <2>3. QED
    BY <1>1, <1>2, <2>1, <2>2 DEF Behind, Executes
<1>5. CapsulesPointed'
  BY <1>1, PointedKept
<1>6. LoadsOwn' /\ StaleWhileExecuting'
  BY <1>2 DEF LoadsOwn, StaleWhileExecuting
<1>7. QED
  BY <1>1, <1>4, <1>5, <1>6, Owes

\* A session shown for review is past all this page has sent.
LEMMA ExecuteNextOnce == ASSUME IInv, Once, Steady, ExecuteNext PROVE Once'
<1>1. /\ ~Busy /\ session.run # 0 /\ session.status = "review"
      /\ call' = [pc |-> "prepare", first |-> FALSE, session |-> session, runtime |-> runtime]
      /\ UNCHANGED <<session, runtime, snapshots, pointer, capsules, runs, txs, reloads>>
  BY DEF ExecuteNext, storage, chain, counts
<1>2. Sound(session, runs, txs)
  BY <1>1 DEF IInv, SessionSound, NoSession
<1>3. session.stage \in Nat /\ call'.pc = "prepare" /\ call'.session = session
  BY <1>1, <1>2 DEF Sound, Shown
<1>4. ASSUME NEW r, NEW i, Sent(r, i) PROVE Behind(r, i)'
  <2>1. Behind(r, i)
    BY <1>1, <1>4, SentIsBehind DEF Flying, Busy
  <2>2. session.run = r => session.stage > i
    BY <1>1, <1>3, <1>4, <2>1, SentKnown DEF Behind, Stale
  <2>3. QED
    BY <1>1, <1>3, <2>1, <2>2 DEF Behind, Executes, Stale, NoneOf
<1>5. CapsulesPointed' /\ LoadsOwn' /\ StaleWhileExecuting'
  BY <1>1, <1>3, PointedKept DEF LoadsOwn, StaleWhileExecuting
<1>6. QED
  BY <1>1, <1>4, <1>5, Owes

LEMMA PrepareOnce == ASSUME IInv, Once, Steady, Prepare PROVE Once'
<1>1. /\ call.pc = "prepare"
      /\ UNCHANGED <<session, runtime, snapshots, pointer, capsules, runs, txs, reloads>>
      /\ call'.pc = "wallet" /\ call'.session = call.session
  BY DEF Prepare, storage, chain, counts
<1>2. ASSUME NEW r, NEW i, Sent(r, i) PROVE Behind(r, i)'
  <2>1. Behind(r, i)
    BY <1>1, <1>2, SentIsBehind DEF Flying
  <2>2. QED
    BY <1>1, <2>1 DEF Behind, Executes, Stale, NoneOf
<1>3. CapsulesPointed' /\ LoadsOwn' /\ StaleWhileExecuting'
  BY <1>1, PointedKept DEF Once, LoadsOwn, StaleWhileExecuting, Executes, Stale, NoneOf
<1>4. QED
  BY <1>1, <1>2, <1>3, Owes

\* The call ends, and with it the flow if it was its first stage.
LEMMA RefuseOnce == ASSUME IInv, IInv', Once, Steady, Refuse PROVE Once'
<1>1. /\ call.pc \in {"fee", "prepare", "wallet"} /\ call' = NoCall
      /\ UNCHANGED <<snapshots, pointer, capsules, txs, reloads>>
      /\ session' = NoSession \/ UNCHANGED <<session, runtime>>
      /\ runs' = runs \/ runs' = SubSeq(runs, 1, Len(runs) - 1)
  BY DEF Refuse, storage, chain, counts
<1>2. runs \in Seq(Mode) /\ Len(runs) \in Nat
  BY DEF IInv, TypeInv
<1>3. ASSUME NEW r, NEW i, Sent(r, i) PROVE Behind(r, i)'
  <2>1. Behind(r, i)
    BY <1>1, <1>3, SentIsBehind DEF Flying
  <2>2. r # 0
    BY <1>3, SentKnown
  <2>3. QED
    BY <1>1, <2>1, <2>2 DEF Behind, Executes, Stale, NoneOf, NoSession, NoCall
<1>4. CapsulesPointed'
  <2>1. ASSUME NEW t \in 1..Len(txs) PROVE runs'[txs[t].run] = runs[txs[t].run]
    <3>1. txs[t].run \in 1..Len(runs')
      BY <1>1 DEF IInv, TxsSound, StageOf
    <3>2. CASE runs' = SubSeq(runs, 1, Len(runs) - 1)
      <4>1. \A j \in 1..Len(runs') : runs'[j] = runs[j]
        BY <1>2, <3>2, SMTT(30)
      <4>2. QED
        BY <3>1, <4>1
    <3>3. QED
      BY <1>1, <3>2
  <2>2. QED
    BY <1>1, <2>1, PointedRuns
<1>5. LoadsOwn' /\ StaleWhileExecuting'
  BY <1>1 DEF LoadsOwn, StaleWhileExecuting, Executes, NoCall
<1>6. QED
  BY <1>1, <1>3, <1>4, <1>5, Owes

\* The wallet sends a stage this page has not sent.
LEMMA BroadcastOnce == ASSUME IInv, Once, Steady, Broadcast PROVE Once'
<1> DEFINE ses == call.session
           n == [run |-> ses.run, stage |-> ses.stage, status |-> "pending",
                 amount |-> IF KindOf(ses.run, ses.stage) = "shield" THEN ses.input ELSE 1,
                 yield |-> 0, page |-> reloads]
<1>1. /\ call.pc = "wallet" /\ txs' = Append(txs, n)
      /\ call'.pc = "wait" /\ call'.session = ses /\ call'.runtime = call.runtime
      /\ UNCHANGED <<session, runtime, snapshots, pointer, capsules, runs, reloads, reopened>>
  BY DEF Broadcast, fees, storage, counts
<1>2. txs \in Seq(Tx) /\ Len(txs) \in Nat /\ reloads \in Nat
  BY DEF IInv, TypeInv
<1>3. ses.run \in Nat /\ ses.stage \in Nat
  BY <1>1, CallStage
<1>4. n \in Tx /\ n.run = ses.run /\ n.stage = ses.stage /\ n.page = reloads
  <2>1. Sound(ses, runs, txs)
    BY <1>1, CallKnown
  <2>2. QED
    BY <1>2, <1>3, <2>1 DEF Tx, Sound, Shown
<1> HIDE DEF n
<1>5. /\ Len(txs') = Len(txs) + 1 /\ txs'[Len(txs) + 1] = n
      /\ \A t \in 1..Len(txs) : txs'[t] = txs[t]
  BY <1>1, <1>2, <1>4
<1>6. ~Sent(ses.run, ses.stage)
  <2>1. ASSUME Sent(ses.run, ses.stage) PROVE FALSE
    <3>1. Behind(ses.run, ses.stage)
      BY <1>1, <2>1, SentIsBehind DEF Flying
    <3>2. QED
      BY <1>1, <1>3, <3>1 DEF Behind, Executes
  <2>2. QED
    BY <2>1
<1>7. PageSendsOnce'
  <2>1. ASSUME NEW t \in 1..Len(txs'), NEW u \in 1..Len(txs'),
               KeyOf(txs'[t]) = KeyOf(txs'[u]), txs'[t].page = txs'[u].page, t # u
        PROVE  Reusable(txs'[t].run)
    <3>1. txs'[t].run = txs'[u].run /\ txs'[t].stage = txs'[u].stage
      BY <2>1 DEF KeyOf
    <3>2. CASE t \in 1..Len(txs) /\ u \in 1..Len(txs)
      BY <1>5, <2>1, <3>2 DEF Once, PageSendsOnce, SameStage, TxIds, Reusable
    <3>3. CASE t = Len(txs) + 1 /\ u \in 1..Len(txs)
      BY <1>4, <1>5, <1>6, <2>1, <3>1, <3>3 DEF Sent
    <3>4. CASE t \in 1..Len(txs) /\ u = Len(txs) + 1
      BY <1>4, <1>5, <1>6, <2>1, <3>1, <3>4 DEF Sent
    <3>5. QED
      BY <1>2, <1>5, <2>1, <3>2, <3>3, <3>4
  <2>2. QED
    BY <1>1, <2>1 DEF PageSendsOnce, SameStage, TxIds, Reusable
<1>8. PagesKnown'
  BY <1>1, <1>2, <1>4, <1>5 DEF Once, PagesKnown
<1>9. SentBehind'
  <2>1. ASSUME NEW r, NEW i, Sent(r, i)', ~Flying(r, i)' PROVE Behind(r, i)'
    <3>1. Sent(r, i)
      BY <1>1, <1>2, <1>4, <1>5, <2>1 DEF Flying, Sent, Reusable
    <3>2. Behind(r, i)
      BY <1>1, <3>1, SentIsBehind DEF Flying
    <3>3. QED
      BY <1>1, <3>2 DEF Behind, Executes, Stale, NoneOf
  <2>2. QED
    BY <2>1 DEF SentBehind, Sent
<1>10. CapsulesPointed' /\ LoadsOwn' /\ StaleWhileExecuting'
  BY <1>1, PointedKept DEF Once, LoadsOwn, StaleWhileExecuting, Executes, Stale, NoneOf
<1>11. QED
  BY <1>7, <1>8, <1>9, <1>10 DEF Once

\* The snapshot is of the stage that was sent, which is none an earlier recovery shows.
LEMMA WalletReturnsOnce == ASSUME IInv, Once, Steady, WalletReturns PROVE Once'
<1> DEFINE ses == call.session
<1>1. /\ call.pc = "wait" /\ call'.pc = "bind" /\ call'.session = ses /\ call'.runtime = call.runtime
      /\ UNCHANGED <<session, runtime, pointer, capsules, runs, txs, reloads>>
      /\ \A s \in snapshots' : s \in snapshots \/ (s.run = ses.run /\ s.stage = ses.stage)
  BY DEF WalletReturns, storage, chain, counts
<1>2. ses.stage \in Nat
  BY <1>1, CallStage
<1>3. ASSUME NEW r, NEW i, Sent(r, i), ~Flying(r, i)' PROVE Behind(r, i)'
  <2>1. Behind(r, i) /\ (ses.run = r => ses.stage > i)
    BY <1>1, <1>3, SentIsBehind DEF Flying, Behind, Executes
  <2>2. i \in Nat
    BY <1>3, SentKnown
  <2>3. QED
    BY <1>1, <1>2, <2>1, <2>2 DEF Behind, Executes, Stale, NoneOf
<1>4. StaleWhileExecuting'
  BY <1>1, <1>2 DEF Once, StaleWhileExecuting, Executes, Stale, NoneOf
<1>5. CapsulesPointed' /\ LoadsOwn'
  BY <1>1, PointedKept DEF LoadsOwn
<1>6. QED
  BY <1>1, <1>3, <1>4, <1>5, Owes

\* The pointer moves to the stage that was sent, and the capsule of the earlier one goes.
LEMMA ExecuteReturnsOnce == ASSUME IInv, Once, Steady, ExecuteReturns PROVE Once'
<1> DEFINE ses == call.session
           next == IF call.confirmed THEN Confirmed(ses, 0)
                   ELSE At(ses.run, ses.stage, "submitted", call.tx, ses.input)
           new == [run |-> ses.run, stage |-> ses.stage, tx |-> call.tx, before |-> call.before]
<1>1. /\ call.pc = "bind" /\ session' = next /\ call' = NoCall
      /\ UNCHANGED <<runtime, snapshots, runs, txs, reloads>>
  BY DEF ExecuteReturns, chain, counts
<1>2. /\ ses.run \in Nat \ {0} /\ ses.stage \in Nat /\ ses.stage \in 1..Len(Plan(ses.run))
      /\ Len(Plan(ses.run)) \in Nat
  BY <1>1, CallStage
<1>3. /\ next.run = ses.run /\ next.stage = ses.stage /\ next.status \in {"submitted", "completed"}
      /\ next.status = "completed" => ses.stage = Len(Plan(ses.run))
  <2>1. CASE call.confirmed
    <3>1. PlanOf[runs[ses.run]][ses.stage] = "shield" /\ ses \in Shown /\ runs[ses.run] \in Mode
      <4>1. runs \in Seq(Mode) /\ ses.run \in 1..Len(runs)
        BY <1>1, CallStage DEF IInv, TypeInv
      <4>2. QED
        BY <1>1, <2>1, <4>1, CallKnown DEF Sound
    <3>2. ses.stage = Len(Plan(ses.run))
      <4>1. ses.stage \notin 1..Len(PlanOf[runs[ses.run]]) - 1
        BY <3>1, SwapFlowAssumption
      <4>2. QED
        BY <1>2, <4>1 DEF Plan
    <3>3. next = [ses EXCEPT !.status = "completed"]
      BY <2>1, <3>2 DEF Confirmed
    <3>4. QED
      BY <3>1, <3>2, <3>3 DEF Shown
  <2>2. CASE ~call.confirmed
    BY <2>2 DEF At
  <2>3. QED
    BY <2>1, <2>2
<1>4. new.run = ses.run /\ new.stage = ses.stage
  OBVIOUS
<1>5. PICK C : /\ C \subseteq capsules \cup {new}
               /\ IF next.status = "completed" THEN ClearPointer(C) ELSE SavePointer(C, ses.run, ses.stage)
  <2>1. PICK C \in Bound :
          IF next.status = "completed" THEN ClearPointer(C) ELSE SavePointer(C, ses.run, ses.stage)
    BY DEF ExecuteReturns
  <2>2. C \subseteq capsules \cup {new}
    BY BoundAdds
  <2> HIDE DEF next, new
  <2>3. QED
    BY <2>1, <2>2
<1> HIDE DEF next, new
<1>6. /\ capsules' \subseteq capsules \cup {new}
      /\ \A c \in capsules' : \/ c = new
                              \/ c.run = ses.run /\ c.stage = ses.stage
                              \/ ~(c.run = pointer.run /\ c.stage = pointer.stage)
      /\ next.status # "completed" => pointer'.run = ses.run /\ pointer'.stage = ses.stage
  BY <1>5 DEF ClearPointer, SavePointer, RemoveCapsule, KeyOf
<1>7. \A c \in capsules' : \/ c.run = ses.run /\ c.stage = ses.stage
                           \/ c.stage = Len(Plan(c.run))
                           \/ (HasTx(c.run, txs) /\ Abandoned(c.run)) \/ Reusable(c.run)
  BY <1>4, <1>6, StoredSent DEF Once, CapsulesPointed
<1>8. CapsulesPointed'
  BY <1>1, <1>3, <1>6, <1>7 DEF CapsulesPointed, Plan, Steady
<1>9. ASSUME NEW r, NEW i, Sent(r, i) PROVE Behind(r, i)'
  <2>1. i \in Nat /\ i \in 1..Len(Plan(r)) /\ r # 0 /\ Len(Plan(r)) \in Nat
    BY <1>9, SentKnown
  <2>2. CASE ses.run = r /\ ses.stage = i
    <3>1. ~Abandoned(r) /\ ~Reusable(r)
      BY <1>1, <1>9, <2>2 DEF Abandoned, Busy, RunOf, Sent
    <3>2. \A c \in capsules' : c.run = r => c.stage >= i
      BY <1>7, <2>1, <2>2, <3>1
    <3>3. QED
      BY <1>1, <1>3, <2>1, <2>2, <3>2 DEF Behind, Executes, NoCall
  <2>3. CASE ~(ses.run = r /\ ses.stage = i)
    <3>1. Behind(r, i) /\ (ses.run = r => ses.stage > i)
      BY <1>1, <1>9, <2>3, SentIsBehind DEF Flying, Behind, Executes
    <3>2. \A c \in capsules' : c.run = r => c.stage >= i
      BY <1>2, <1>4, <1>6, <2>1, <3>1 DEF Behind
    <3>3. QED
      BY <1>1, <1>2, <1>3, <2>1, <3>1, <3>2 DEF Behind, Executes, NoCall
  <2>4. QED
    BY <2>2, <2>3
<1>10. LoadsOwn' /\ StaleWhileExecuting'
  BY <1>1 DEF LoadsOwn, StaleWhileExecuting, Executes, NoCall
<1>11. QED
  BY <1>1, <1>8, <1>9, <1>10, Owes

\* The run is abandoned, with the capsule of its first stage.
LEMMA MarkThrowsOnce == ASSUME IInv, Once, Steady, Reuse, MarkThrows PROVE Once'
<1> DEFINE ses == call.session
           new == [run |-> ses.run, stage |-> ses.stage, tx |-> call.tx, before |-> call.before]
<1>1. /\ call.pc = "bind" /\ session' = NoSession /\ call' = NoCall /\ gate.run # ses.run /\ call.first
      /\ UNCHANGED <<snapshots, recovering, gate, resuming, reopened, pointer, runs, txs, reloads>>
  BY DEF MarkThrows, fees, chain, counts
<1>2. ses.run \in Nat \ {0} /\ ses.stage \in Nat
  BY <1>1, CallStage
<1>3. capsules' \subseteq capsules \cup {new} /\ new.run = ses.run /\ new.stage = ses.stage
  BY BoundAdds DEF MarkThrows
<1> HIDE DEF new
<1> PICK q : q = ses.run
  OBVIOUS
<1>4. ~Reusable(q) => Abandoned(q)' /\ ses.stage = 1
  BY <1>1, <1>2 DEF Reuse, FirstOwn, Executes, Abandoned, Busy, NoCall, NoSession
<1>5. CapsulesPointed'
  <2>1. ASSUME NEW c \in capsules
        PROVE  \/ (pointer.run = c.run /\ pointer.stage = c.stage)'
               \/ c.stage = Len(Plan(c.run)') \/ Abandoned(c.run)' \/ Reusable(c.run)'
    BY <1>1, StoredSent DEF Once, CapsulesPointed, Plan, Steady
  <2>2. new.run = q /\ (Abandoned(q)' \/ Reusable(q)')
    BY <1>1, <1>3, <1>4 DEF Reusable
  <2>3. QED
    BY <1>3, <2>1, <2>2 DEF CapsulesPointed
<1>6. ASSUME NEW r, NEW i, Sent(r, i) PROVE Behind(r, i)'
  <2>1. i \in Nat /\ i \in 1..Len(Plan(r)) /\ r # 0
    BY <1>6, SentKnown
  <2>2. CASE ses.run = r /\ ses.stage = i
    <3>1. ses.stage = 1
      BY <1>4, <1>6, <2>2 DEF Sent
    <3>2. ASSUME NEW c \in capsules' PROVE c.stage >= i
      <4>1. CASE c = new
        BY <1>2, <1>3, <2>2, <4>1
      <4>2. CASE c \in capsules
        <5>1. Refers(c, txs)
          BY <4>2 DEF IInv, CapsulesSound
        <5>2. StageOf(c, runs) /\ c.stage \in Nat
          BY <5>1, RefersSound
        <5>3. c.stage >= 1
          BY <5>2 DEF StageOf
        <5>4. QED
          BY <2>2, <3>1, <5>3
      <4>3. QED
        BY <1>3, <4>1, <4>2
    <3>3. QED
      BY <1>1, <2>1, <3>2 DEF Behind, Executes, NoCall, NoSession
  <2>3. CASE ~(ses.run = r /\ ses.stage = i)
    <3>1. Behind(r, i) /\ (ses.run = r => ses.stage > i)
      BY <1>1, <1>6, <2>3, SentIsBehind DEF Flying, Behind, Executes
    <3>2. \A c \in capsules' : c.run = r => c.stage >= i
      BY <1>2, <1>3, <2>1, <3>1 DEF Behind
    <3>3. QED
      BY <1>1, <2>1, <3>2 DEF Behind, Executes, NoCall, NoSession
  <2>4. QED
    BY <2>2, <2>3
<1>7. LoadsOwn' /\ StaleWhileExecuting'
  BY <1>1 DEF LoadsOwn, StaleWhileExecuting, Executes, NoCall
<1>8. QED
  BY <1>1, <1>5, <1>6, <1>7, Owes

-----------------------------------------------------------------------------
(* Confirming a stage *)

LEMMA ConfirmOnce == ASSUME IInv, Once, Steady, Confirm PROVE Once'
<1>1. /\ ~Busy /\ session.run # 0
      /\ call'.pc = "receipt" /\ call'.session = session /\ call'.runtime = runtime
      /\ UNCHANGED <<session, runtime, snapshots, pointer, capsules, runs, txs, reloads>>
  BY DEF Confirm, storage, chain, counts
<1>2. ASSUME NEW r, NEW i, Sent(r, i) PROVE Behind(r, i)'
  <2>1. Behind(r, i)
    BY <1>1, <1>2, SentIsBehind DEF Flying, Busy
  <2>2. QED
    BY <1>1, <2>1 DEF Behind, Executes, Stale, NoneOf
<1>3. CapsulesPointed' /\ LoadsOwn' /\ StaleWhileExecuting'
  BY <1>1, PointedKept DEF LoadsOwn, StaleWhileExecuting, Executes
<1>4. QED
  BY <1>1, <1>2, <1>3, Owes

\* The stage of the call is confirmed: it is none before one that this page sent.
LEMMA ConfirmsOnce ==
  ASSUME IInv, Once, Steady, NEW o, Confirms(o), call.pc \in {"receipt", "verify"},
         \A r, i : Sent(r, i) /\ call.session.run = r => call.session.stage >= i,
         snapshots' \subseteq snapshots,
         UNCHANGED <<runtime, storage, runs, txs, reloads>>
  PROVE  Once'
<1> DEFINE ses == call.session  n == Confirmed(ses, o)
<1>1. /\ session' = n /\ call'.pc = "refresh"
      /\ UNCHANGED <<runtime, pointer, capsules, runs, txs, reloads>>
  BY DEF Confirms, storage
<1>2. ses.run \in Nat \ {0} /\ ses.stage \in Nat /\ ses \in Shown
  BY CallStage, CallKnown DEF Sound
<1>3. /\ n.run = ses.run
      /\ (n.stage = ses.stage /\ n.status = "completed") \/ n.stage = ses.stage + 1
  BY <1>2 DEF Confirmed, At, Shown
<1> HIDE DEF n
<1>4. ASSUME NEW r, NEW i, Sent(r, i) PROVE Behind(r, i)'
  <2>1. Behind(r, i) /\ i \in Nat
    BY <1>4, SentIsBehind, SentKnown DEF Flying
  <2>2. n.run = r => ses.stage >= i
    BY <1>3, <1>4
  <2>3. QED
    BY <1>1, <1>2, <1>3, <2>1, <2>2 DEF Behind, Executes
<1>5. CapsulesPointed' /\ LoadsOwn' /\ StaleWhileExecuting'
  BY <1>1, PointedKept DEF LoadsOwn, StaleWhileExecuting, Executes
<1>6. QED
  BY <1>1, <1>4, <1>5, Owes

LEMMA ReceiptReadOnce == ASSUME IInv, Once, Steady, ReceiptRead PROVE Once'
<1> DEFINE ses == call.session
<1>1. /\ call.pc = "receipt"
      /\ UNCHANGED <<runtime, snapshots, storage, pointer, capsules, runs, txs, reloads>>
  BY DEF ReceiptRead, storage, chain, counts
<1>2. ses.run \in Nat \ {0} /\ ses.stage \in 1..Len(Plan(ses.run)) /\ Len(Plan(ses.run)) \in Nat
  BY <1>1, CallStage
<1>3. \A r, i : Sent(r, i) => Behind(r, i) /\ i \in 1..Len(Plan(r))
  BY <1>1, SentIsBehind, SentKnown DEF Flying
<1>4. CASE KindOf(ses.run, ses.stage) = "shield" /\ Confirms(0)
  <2>1. ses.stage = Len(Plan(ses.run))
    <3>1. runs \in Seq(Mode) /\ ses.run \in 1..Len(runs)
      BY <1>1, CallStage DEF IInv, TypeInv
    <3>2. runs[ses.run] \in Mode
      BY <3>1
    <3>3. ses.stage \notin 1..Len(PlanOf[runs[ses.run]]) - 1
      BY <1>4, <3>2, SwapFlowAssumption DEF KindOf, Plan
    <3>4. QED
      BY <1>2, <3>3 DEF Plan
  <2>2. \A r, i : Sent(r, i) /\ ses.run = r => ses.stage >= i
    BY <1>2, <1>3, <2>1
  <2>3. QED
    BY <1>1, <1>4, <2>2, ConfirmsOnce
<1>5. CASE /\ UNCHANGED session /\ call'.pc \in {"verify", "load"} /\ call'.session = ses
           /\ \A r, i : Sent(r, i) /\ ses.run = r => ses.stage >= i
           /\ call'.pc = "load" => call'.found.run = ses.run /\ call'.found.stage = ses.stage
  <2>1. ASSUME NEW r, NEW i, Sent(r, i) PROVE Behind(r, i)'
    BY <1>1, <1>3, <1>5, <2>1 DEF Behind, Executes, Stale, NoneOf
  <2>2. CapsulesPointed' /\ LoadsOwn' /\ StaleWhileExecuting'
    BY <1>1, <1>5, PointedKept DEF LoadsOwn, StaleWhileExecuting, Executes
  <2>3. QED
    BY <1>1, <2>1, <2>2, Owes
<1>6. CASE UNCHANGED session /\ \E s \in SnapshotsOf(ses) : Reading(s.before)
  <2>1. PICK s \in snapshots : s.runtime = call.runtime.id /\ s.run = ses.run /\ s.stage = ses.stage
    BY <1>6 DEF SnapshotsOf, KeyOf
  <2>2. ASSUME NEW r, NEW i, Sent(r, i), ses.run = r PROVE ses.stage >= i
    <3>1. ~(ses.stage < i)
      BY <1>1, <1>3, <2>1, <2>2 DEF Behind, NoneOf
    <3>2. QED
      BY <1>2, <1>3, <2>2, <3>1
  <2>3. call'.pc = "verify" /\ call'.session = ses
    BY <1>6 DEF Reading
  <2>4. QED
    BY <1>5, <1>6, <2>2, <2>3
<1>7. CASE UNCHANGED session /\ \E c \in CapsulesOf(ses) :
             call' = [pc |-> "load", session |-> ses, runtime |-> call.runtime, found |-> c]
  <2>1. PICK c \in capsules :
          /\ c.run = ses.run /\ c.stage = ses.stage
          /\ call' = [pc |-> "load", session |-> ses, runtime |-> call.runtime, found |-> c]
    BY <1>7 DEF CapsulesOf, KeyOf
  <2>2. call'.pc = "load" /\ call'.session = ses /\ call'.found = c
    BY <2>1
  <2>3. \A r, i : Sent(r, i) /\ ses.run = r => ses.stage >= i
    BY <1>3, <2>1 DEF Behind
  <2>4. QED
    BY <1>5, <1>7, <2>1, <2>2, <2>3
<1>8. QED
  BY <1>4, <1>6, <1>7 DEF ReceiptRead

LEMMA CapsuleLoadedOnce == ASSUME IInv, Once, Steady, CapsuleLoaded PROVE Once'
<1> DEFINE ses == call.session
<1>1. /\ call.pc = "load" /\ call'.pc = "verify" /\ call'.session = ses
      /\ UNCHANGED <<session, runtime, pointer, capsules, runs, txs, reloads>>
  BY DEF CapsuleLoaded, Reading, storage, chain, counts
<1>2. \A s \in snapshots' : s \in snapshots \/ (s.run = ses.run /\ s.stage = ses.stage)
  <2>1. call.found.run = ses.run /\ call.found.stage = ses.stage
    BY <1>1 DEF Once, LoadsOwn
  <2>2. QED
    BY <2>1 DEF CapsuleLoaded
<1>3. ses.stage \in Nat
  BY <1>1, CallStage
<1>4. ASSUME NEW r, NEW i, Sent(r, i) PROVE Behind(r, i)'
  <2>1. Behind(r, i) /\ i \in Nat
    BY <1>1, <1>4, SentIsBehind, SentKnown DEF Flying
  <2>2. ses.run = r => ses.stage >= i
    BY <1>1, <2>1 DEF Behind
  <2>3. QED
    BY <1>1, <1>2, <1>3, <2>1, <2>2 DEF Behind, Executes, Stale, NoneOf
<1>5. CapsulesPointed' /\ LoadsOwn' /\ StaleWhileExecuting'
  BY <1>1, PointedKept DEF LoadsOwn, StaleWhileExecuting, Executes
<1>6. QED
  BY <1>1, <1>4, <1>5, Owes

LEMMA VerifiedOnce == ASSUME IInv, Once, Steady, Verified PROVE Once'
<1>1. /\ call.pc = "verify" /\ \E o : Confirms(o)
      /\ snapshots' \subseteq snapshots
      /\ UNCHANGED <<runtime, storage, runs, txs, reloads>>
  BY DEF Verified, chain, counts
<1>2. \A r, i : Sent(r, i) /\ call.session.run = r => call.session.stage >= i
  BY <1>1, SentIsBehind DEF Behind, Flying
<1>3. QED
  BY <1>1, <1>2, ConfirmsOnce

\* The call ends; the capsule of a completed plan goes, or nothing stored changes.
LEMMA EndsOnce == ASSUME IInv, Once, Steady, Refreshed \/ ConfirmFails \/ NewSwap PROVE Once'
<1>1. /\ ~Executes /\ call'.pc = "none"
      /\ (session' = session /\ runtime' = runtime) \/ session' = NoSession
      /\ UNCHANGED <<snapshots, runs, txs, reloads>>
      /\ ClearPointer(capsules) \/ UNCHANGED <<pointer, capsules>>
  BY DEF Refreshed, ConfirmFails, NewSwap, Busy, Executes, NoCall, storage, chain, counts
<1>2. capsules' \subseteq capsules /\ CapsulesPointed'
  BY <1>1, PointedCleared, PointedKept
<1>3. ASSUME NEW r, NEW i, Sent(r, i) PROVE Behind(r, i)'
  <2>1. Behind(r, i) /\ r # 0
    BY <1>1, <1>3, SentIsBehind, SentKnown DEF Flying, Executes
  <2>2. QED
    BY <1>1, <1>2, <2>1 DEF Behind, Executes, Stale, NoneOf, NoSession
<1>4. LoadsOwn' /\ StaleWhileExecuting'
  BY <1>1 DEF LoadsOwn, StaleWhileExecuting, Executes
<1>5. QED
  BY <1>1, <1>2, <1>3, <1>4, Owes

-----------------------------------------------------------------------------
(* The recovery effect, changes of mode, reloads, the chain *)

\* What is recovered is submitted, and its runtime is new.
LEMMA RecoveredOnce == ASSUME IInv, Once, Steady, Recovered PROVE Once'
<1>1. /\ session' = At(recovering.run, recovering.stage, "submitted", recovering.tx, 0)
      /\ runtime'.id = FreshRuntime /\ Forget(FreshRuntime)
      /\ UNCHANGED <<call, pointer, capsules, runs, txs, reloads>>
  BY DEF Recovered, storage, chain, counts
<1>2. session'.status = "submitted"
  BY <1>1 DEF At
<1>3. snapshots' \subseteq snapshots /\ \A s \in snapshots' : s.runtime # runtime'.id
  BY <1>1 DEF Forget
<1>4. Stale(session, runtime.id)'
  BY <1>2, <1>3 DEF Stale, NoneOf
<1>5. ASSUME NEW r, NEW i, Sent(r, i), ~Flying(r, i)' PROVE Behind(r, i)'
  <2>1. Behind(r, i)
    BY <1>1, <1>5, SentIsBehind DEF Flying
  <2>2. QED
    BY <1>1, <1>2, <1>3, <1>4, <2>1 DEF Behind, Executes, NoneOf
<1>6. CapsulesPointed' /\ LoadsOwn' /\ StaleWhileExecuting'
  BY <1>1, <1>4, PointedKept DEF Once, LoadsOwn, StaleWhileExecuting
<1>7. QED
  BY <1>1, <1>5, <1>6, Owes

\* Nothing is shown, and nothing else of the flow changes.
LEMMA SwitchOnce == ASSUME IInv, Once, Steady, NEW m \in Mode, Switch(m) PROVE Once'
<1>1. /\ session'.run = 0
      /\ UNCHANGED <<snapshots, call, pointer, capsules, runs, txs, reloads>>
  BY DEF Switch, NoSession, storage, chain
<1>2. ASSUME NEW r, NEW i, Sent(r, i), ~Flying(r, i)' PROVE Behind(r, i)'
  <2>1. Behind(r, i) /\ r # 0
    BY <1>1, <1>2, SentIsBehind, SentKnown DEF Flying
  <2>2. QED
    BY <1>1, <2>1 DEF Behind, Executes, NoneOf
<1>3. StaleWhileExecuting'
  <2>1. Executes => call.session.run # 0
    BY CallStage DEF Executes
  <2>2. QED
    BY <1>1, <2>1 DEF StaleWhileExecuting, Executes
<1>4. CapsulesPointed' /\ LoadsOwn'
  BY <1>1, PointedKept DEF Once, LoadsOwn
<1>5. QED
  BY <1>1, <1>2, <1>3, <1>4, Owes

\* A new page has sent nothing.
LEMMA ReloadOnce == ASSUME IInv, Once, Steady, NEW m \in Mode, Reload(m) PROVE Once'
<1>1. /\ call'.pc = "none" /\ reloads' = reloads + 1
      /\ UNCHANGED <<pointer, capsules, runs, txs>>
  BY DEF Reload, NoCall, storage, chain
<1>2. ASSUME NEW t \in 1..Len(txs) PROVE txs[t].page \in Nat /\ reloads \in Nat /\ txs[t].page <= reloads
  <2>1. txs[t] \in Tx /\ reloads \in Nat
    BY DEF IInv, TypeInv
  <2>2. QED
    BY <2>1 DEF Tx, Once, PagesKnown
<1>3. PagesKnown' /\ SentBehind'
  BY <1>1, <1>2 DEF PagesKnown, SentBehind
<1>4. PageSendsOnce'
  BY <1>1 DEF Once, Steady, Reusable, PageSendsOnce, SameStage, TxIds, KeyOf
<1>5. CapsulesPointed' /\ LoadsOwn' /\ StaleWhileExecuting'
  BY <1>1, PointedKept DEF LoadsOwn, StaleWhileExecuting, Executes
<1>6. QED
  BY <1>3, <1>4, <1>5 DEF Once

\* Nothing but what the page shows no part of: a recovery that fails, the chain.
LEMMA OutsideOnce ==
  ASSUME IInv, Once, Steady, UNCHANGED <<session, runtime, snapshots, call, pointer, capsules, runs, reloads>>,
         Len(txs') = Len(txs),
         \A t \in 1..Len(txs) : /\ txs'[t].run = txs[t].run /\ txs'[t].stage = txs[t].stage
                                /\ txs'[t].page = txs[t].page
  PROVE  Once'
<1>1. PagesKnown'
  BY DEF Once, PagesKnown
<1>2. PageSendsOnce'
  BY DEF Once, Steady, Reusable, PageSendsOnce, SameStage, TxIds, KeyOf
<1>3. SentBehind'
  <2>1. ASSUME NEW r, NEW i, Sent(r, i)', ~Flying(r, i)' PROVE Behind(r, i)'
    <3>1. Behind(r, i)
      BY <2>1, SentIsBehind DEF Flying, Sent, Steady
    <3>2. QED
      BY <3>1 DEF Behind, Executes, Stale, NoneOf
  <2>2. QED
    BY <2>1 DEF SentBehind, Sent
<1>4. CapsulesPointed' /\ LoadsOwn' /\ StaleWhileExecuting'
  BY PointedKept DEF Once, LoadsOwn, StaleWhileExecuting, Executes, Stale, NoneOf
<1>5. QED
  BY <1>1, <1>2, <1>3, <1>4 DEF Once

\* The chain decides a transaction.
Decided(t) ==
  \/ \E y : txs' = [txs EXCEPT ![t].status = "succeeded", ![t].yield = y]
  \/ txs' = [txs EXCEPT ![t].status = "reverted"]

LEMMA Decides == ASSUME NEW t \in 1..Len(txs), Succeed(t) \/ Revert(t) PROVE Decided(t)
<1>1. CASE Succeed(t)
  BY <1>1, Zenon DEF Succeed, Decided
<1>2. CASE Revert(t)
  BY <1>2 DEF Revert, Decided
<1>3. QED
  BY <1>1, <1>2

\* A decided transaction keeps its run, its stage and its page.
LEMMA RunsKept ==
  ASSUME IInv, NEW t \in 1..Len(txs), Decided(t)
  PROVE  /\ Len(txs') = Len(txs)
         /\ \A u \in 1..Len(txs) : /\ txs'[u].run = txs[u].run /\ txs'[u].stage = txs[u].stage
                                   /\ txs'[u].page = txs[u].page
<1>2. txs \in Seq(Tx) /\ Len(txs) \in Nat
  BY DEF IInv, TypeInv
<1>3. \E n : /\ txs' = [txs EXCEPT ![t] = n]
             /\ n.run = txs[t].run /\ n.stage = txs[t].stage /\ n.page = txs[t].page
  <2>1. txs[t] \in Tx
    BY <1>2
  <2>2. ASSUME NEW y, txs' = [txs EXCEPT ![t].status = "succeeded", ![t].yield = y]
        PROVE  \E n : /\ txs' = [txs EXCEPT ![t] = n]
                      /\ n.run = txs[t].run /\ n.stage = txs[t].stage /\ n.page = txs[t].page
    <3> DEFINE n == [txs[t] EXCEPT !.status = "succeeded", !.yield = y]
    <3>1. txs' = [txs EXCEPT ![t] = n]
      BY <2>2
    <3>2. n.run = txs[t].run /\ n.stage = txs[t].stage /\ n.page = txs[t].page
      BY <2>1 DEF Tx
    <3> HIDE DEF n
    <3>3. QED
      BY <3>1, <3>2
  <2>3. ASSUME txs' = [txs EXCEPT ![t].status = "reverted"]
        PROVE  \E n : /\ txs' = [txs EXCEPT ![t] = n]
                      /\ n.run = txs[t].run /\ n.stage = txs[t].stage /\ n.page = txs[t].page
    <3> DEFINE n == [txs[t] EXCEPT !.status = "reverted"]
    <3>1. txs' = [txs EXCEPT ![t] = n]
      BY <2>3
    <3>2. n.run = txs[t].run /\ n.stage = txs[t].stage /\ n.page = txs[t].page
      BY <2>1 DEF Tx
    <3> HIDE DEF n
    <3>3. QED
      BY <3>1, <3>2
  <2>4. QED
    BY <2>2, <2>3 DEF Decided
<1>4. PICK n : /\ txs' = [txs EXCEPT ![t] = n]
               /\ n.run = txs[t].run /\ n.stage = txs[t].stage /\ n.page = txs[t].page
  BY <1>3
<1>5. txs \in Seq(Tx \cup {n}) /\ n \in Tx \cup {n}
  BY <1>2
<1>6. Len(txs') = Len(txs) /\ \A u \in 1..Len(txs) : txs'[u] = IF u = t THEN n ELSE txs[u]
  BY <1>4, <1>5, ExceptSeq
<1>7. QED
  BY <1>4, <1>6

LEMMA ChainOnce == ASSUME IInv, Once, Steady, NEW t \in 1..Len(txs), Succeed(t) \/ Revert(t) PROVE Once'
<1>1. /\ UNCHANGED <<session, runtime, snapshots, call, pointer, capsules, runs, reloads>>
  BY DEF Succeed, Revert, page, storage, counts
<1>2. QED
  BY <1>1, Decides, RunsKept, OutsideOnce

-----------------------------------------------------------------------------
(* What is abandoned, and what the fee gate knows *)

\* The runs that steps of the page take up: the gate's, a call's, the session's.
LEMMA ExecutingSteady == ASSUME IInv, NEW r, HasTx(r, txs), Abandoned(r), Executing PROVE Abandoned(r)'
<1>1. r # 0 /\ r # Len(runs) + 1
  BY HasTxKnown
<1>2. CASE StartFlow
  BY <1>1, <1>2 DEF StartFlow, Abandoned, Busy, RunOf, storage
<1>3. CASE FeeGranted
  BY <1>3 DEF FeeGranted, At, Abandoned, Busy, RunOf, fees, storage
<1>4. CASE ExecuteNext \/ Prepare
  <2>1. UNCHANGED <<session, pointer, recovering, gate, resuming>>
    BY <1>4 DEF ExecuteNext, Prepare, fees, storage
  <2>2. CASE ExecuteNext
    BY <2>1, <2>2 DEF ExecuteNext, Abandoned, Busy, RunOf
  <2>3. CASE Prepare
    <3>1. call.pc = "prepare" /\ call'.pc = "wallet" /\ call'.session = call.session
      BY <2>3 DEF Prepare
    <3>2. QED
      BY <2>1, <3>1 DEF Abandoned, Busy, RunOf
  <2>4. QED
    BY <1>4, <2>2, <2>3
<1>5. CASE Refuse
  BY <1>1, <1>5 DEF Refuse, Abandoned, Busy, NoCall, NoSession, NoGate, storage
<1>6. CASE Broadcast \/ WalletReturns
  BY <1>6 DEF Broadcast, WalletReturns, Abandoned, Busy, RunOf, fees, storage
<1>7. CASE ExecuteReturns
  <2>1. /\ call.pc = "bind" /\ call' = NoCall /\ UNCHANGED <<recovering, resuming>>
        /\ gate' = [gate EXCEPT !.started = TRUE] \/ UNCHANGED gate
    BY <1>7 DEF ExecuteReturns
  <2>2. gate'.run = gate.run
    BY <2>1 DEF IInv, TypeInv
  <2>3. call.session \in Shown
    BY <2>1, CallKnown DEF Sound
  <2>4. session'.run = call.session.run
    BY <1>7, <2>3 DEF ExecuteReturns, Confirmed, At, Shown
  <2>5. pointer'.run = 0 \/ pointer'.run = call.session.run
    BY <1>7 DEF ExecuteReturns, ClearPointer, SavePointer, NoPointer
  <2>6. QED
    BY <1>1, <2>1, <2>2, <2>4, <2>5 DEF Abandoned, Busy, RunOf, NoCall
<1>8. CASE MarkThrows
  BY <1>1, <1>8 DEF MarkThrows, Abandoned, Busy, NoCall, NoSession, fees
<1>9. QED
  BY <1>2, <1>3, <1>4, <1>5, <1>6, <1>7, <1>8 DEF Executing

LEMMA ConfirmingSteady == ASSUME IInv, NEW r, HasTx(r, txs), Abandoned(r), Confirming PROVE Abandoned(r)'
<1>1. r # 0
  BY HasTxKnown
<1>2. ASSUME NEW o, Confirms(o), call.pc \in {"receipt", "verify"}, UNCHANGED <<fees, storage, recovering>>
      PROVE  Abandoned(r)'
  <2>1. call.session \in Shown
    BY <1>2, CallKnown DEF Sound
  <2>2. Confirmed(call.session, o).run = call.session.run
    BY <2>1 DEF Confirmed, At, Shown
  <2>3. QED
    BY <1>2, <2>2 DEF Confirms, Abandoned, Busy, RunOf, fees, storage
<1>3. CASE Confirm \/ CapsuleLoaded \/ ConfirmFails
  BY <1>3 DEF Confirm, CapsuleLoaded, Reading, ConfirmFails, Abandoned, Busy, RunOf, NoCall, fees, storage
<1>4. CASE ReceiptRead
  <2>1. CASE Confirms(0)
    BY <1>2, <1>4, <2>1 DEF ReceiptRead
  <2>2. CASE ~Confirms(0)
    BY <1>4, <2>2 DEF ReceiptRead, Reading, Abandoned, Busy, RunOf, fees, storage
  <2>3. QED
    BY <2>1, <2>2
<1>5. CASE Verified
  BY <1>2, <1>5 DEF Verified
<1>6. CASE Refreshed \/ NewSwap
  BY <1>1, <1>6 DEF Refreshed, NewSwap, ClearPointer, Abandoned, Busy, NoCall, NoSession, NoPointer,
                    fees, storage
<1>7. QED
  BY <1>3, <1>4, <1>5, <1>6 DEF Confirming

LEMMA RecoveringSteady == ASSUME IInv, NEW r, HasTx(r, txs), Abandoned(r), Recovering PROVE Abandoned(r)'
<1>1. r # 0
  BY HasTxKnown
<1>2. CASE Resumes
  <2>1. recovering'.run = recovering.run
    BY <1>2 DEF Resumes, IInv, RecoverySound, Attempt, NoRecovery
  <2>2. QED
    BY <1>2, <2>1 DEF Resumes, Abandoned, Busy, RunOf, fees, storage
<1>3. CASE Recovered \/ RecoveryFails
  BY <1>1, <1>3 DEF Recovered, RecoveryFails, At, NoRecovery, Abandoned, Busy, RunOf, fees, storage
<1>4. ASSUME NEW o \in resuming, CancelledResumes(o) \/ CancelledFails(o) PROVE Abandoned(r)'
  BY <1>4 DEF CancelledResumes, CancelledFails, Abandoned, Busy, RunOf, page, storage
<1>5. ASSUME NEW m \in Mode, Switch(m) PROVE Abandoned(r)'
  <2>1. recovering'.run # r
    BY <1>1, <1>5, RecoveryForRun DEF Switch, Abandoned
  <2>2. QED
    BY <1>1, <1>5, <2>1 DEF Switch, Abandoned, Busy, RunOf, NoSession, storage
<1>6. ASSUME NEW m \in Mode, Reload(m) PROVE Abandoned(r)'
  <2>1. recovering'.run # r
    BY <1>1, <1>6, RecoveryForRun DEF Reload, Abandoned
  <2>2. QED
    BY <1>1, <1>6, <2>1 DEF Reload, Abandoned, Busy, NoCall, NoSession, NoGate, storage
<1>7. QED
  BY <1>2, <1>3, <1>4, <1>5, <1>6 DEF Recovering

LEMMA StepSteady == ASSUME IInv, [Next]_vars PROVE Steady
<1>1. ASSUME NEW r, HasTx(r, txs), Abandoned(r) PROVE Abandoned(r)'
  <2>1. CASE Chain \/ UNCHANGED vars
    <3>1. UNCHANGED <<session, pointer, recovering, gate, resuming, call>>
      BY <2>1 DEF Chain, Deposit, Succeed, Revert, vars, page, fees, storage
    <3>2. QED
      BY <1>1, <3>1 DEF Abandoned, Busy, RunOf
  <2>2. QED
    BY <1>1, <2>1, ExecutingSteady, ConfirmingSteady, RecoveringSteady DEF Next
<1>2. reopened \subseteq reopened'
  <2>1. CASE Executing
    BY <2>1 DEF Executing, StartFlow, FeeGranted, ExecuteNext, Prepare, Refuse, Broadcast, WalletReturns,
                ExecuteReturns, MarkThrows, fees
  <2>2. CASE Confirming
    BY <2>2 DEF Confirming, Confirm, ReceiptRead, CapsuleLoaded, Verified, Refreshed, ConfirmFails,
                NewSwap, fees
  <2>3. CASE Recovering
    BY <2>3 DEF Recovering, Resumes, Recovered, RecoveryFails, CancelledResumes, CancelledFails, Switch,
                Reload, fees
  <2>4. CASE Chain \/ UNCHANGED vars
    BY <2>4 DEF Chain, Deposit, Succeed, Revert, vars, fees
  <2>5. QED
    BY <2>1, <2>2, <2>3, <2>4 DEF Next
<1>3. QED
  BY <1>1, <1>2 DEF Steady, Reusable

\* The run of a new flow was not sent, or a recovery made it active.
LEMMA StartFlowReuse == ASSUME IInv, Reuse, StartFlow PROVE Reuse'
<1>1. /\ ~Busy /\ call'.pc = "fee" /\ gate'.run = call'.run
      /\ \/ call'.run = gate.run /\ gate.run # 0 /\ ~gate.started
         \/ call'.run = Len(runs) + 1
      /\ UNCHANGED <<txs, reopened>>
  BY DEF StartFlow, chain
<1>2. HasTx(call'.run, txs) => call'.run \in reopened
  BY <1>1, HasTxKnown DEF Reuse, GateKnown, Busy
<1>3. QED
  BY <1>1, <1>2 DEF Reuse, GateKnown, CallReopened, FirstOwn, Executes

\* A run that was not sent is known to nothing that is stored.
LEMMA FeeGrantedReuse == ASSUME IInv, Reuse, FeeGranted PROVE Reuse'
<1>1. /\ call.pc = "fee" /\ call'.pc = "prepare" /\ call'.session.run = call.run
      /\ call'.session.stage = 1
      /\ UNCHANGED <<gate, resuming, reopened, recovering, pointer, txs>>
  BY DEF FeeGranted, At, fees, storage, chain
<1>2. HasTx(call.run, txs) => Reusable(call.run)
  BY <1>1 DEF Reuse, CallReopened, Reusable, FeeGranted, Unsent, HasTx
<1>3. call.run # 0
  <2>1. CallSound(call, runs, txs)
    BY DEF IInv
  <2>2. QED
    BY <1>1, <2>1 DEF CallSound, NoCall
<1>4. ~HasTx(call.run, txs) =>
        /\ pointer.run # call.run /\ recovering.run # call.run
        /\ \A o \in resuming : o.run # call.run
  BY <1>3, StoredSent
<1>5. QED
  BY <1>1, <1>2, <1>4 DEF Reuse, GateKnown, CallReopened, FirstOwn, Reusable

\* The gate's run is the call's that sends its first stage, or it was known before.
LEMMA BroadcastReuse == ASSUME IInv, Reuse, Broadcast PROVE Reuse'
<1> DEFINE ses == call.session
           n == [run |-> ses.run, stage |-> ses.stage, status |-> "pending",
                 amount |-> IF KindOf(ses.run, ses.stage) = "shield" THEN ses.input ELSE 1,
                 yield |-> 0, page |-> reloads]
<1>1. /\ call.pc = "wallet" /\ call'.pc = "wait" /\ call'.first = call.first /\ call'.session = ses
      /\ txs' = Append(txs, n)
      /\ UNCHANGED <<gate, resuming, reopened, recovering, pointer>>
  BY DEF Broadcast, fees, storage
<1>2. n.run = ses.run /\ txs \in Seq(Tx \cup {n}) /\ Len(txs) \in Nat
  BY DEF IInv, TypeInv
<1> HIDE DEF n
<1>3. \A r : HasTx(r, txs') => HasTx(r, txs) \/ r = ses.run
  BY <1>1, <1>2 DEF HasTx
<1>4. GateKnown'
  <2>1. ASSUME gate.run # 0, ~gate.started, ~HasTx(gate.run, txs) PROVE call.first /\ ses.run = gate.run
    BY <1>1, <2>1 DEF IInv, GateSound, Starts
  <2>2. QED
    BY <1>1, <1>3, <2>1 DEF Reuse, GateKnown
<1>5. QED
  BY <1>1, <1>4 DEF Reuse, CallReopened, FirstOwn, Executes, Reusable

\* Nothing else that the call does concerns the gate, but its mark.
LEMMA ExecutingReuse == ASSUME IInv, Reuse, Executing PROVE Reuse'
<1>1. CASE ExecuteNext
  BY <1>1 DEF ExecuteNext, Busy, Reuse, GateKnown, CallReopened, FirstOwn, fees, chain
<1>2. CASE Prepare
  BY <1>2 DEF Prepare, Reuse, GateKnown, CallReopened, FirstOwn, Executes, Reusable, fees, storage, chain
<1>3. CASE Refuse
  <2>1. /\ call.pc \in {"fee", "prepare", "wallet"} /\ call'.pc = "none"
        /\ gate' = NoGate \/ UNCHANGED gate
        /\ UNCHANGED <<reopened, txs>>
    BY <1>3 DEF Refuse, NoCall, chain
  <2>2. QED
    BY <2>1 DEF Reuse, GateKnown, CallReopened, FirstOwn, Executes, NoGate
<1>4. CASE WalletReturns
  <2>1. /\ call.pc = "wait" /\ call'.pc = "bind" /\ call'.first = call.first /\ call'.session = call.session
        /\ UNCHANGED <<gate, resuming, reopened, recovering, pointer, txs>>
    BY <1>4 DEF WalletReturns, fees, storage, chain
  <2>2. QED
    BY <2>1 DEF Reuse, GateKnown, CallReopened, FirstOwn, Executes, Reusable
<1>5. CASE ExecuteReturns
  <2>1. /\ call.pc = "bind" /\ call'.pc = "none"
        /\ gate' = IF call.first THEN [gate EXCEPT !.started = TRUE] ELSE gate
        /\ UNCHANGED <<reopened, txs>>
    BY <1>5 DEF ExecuteReturns, NoCall, chain
  <2>2. gate \in [run : Nat, started : BOOLEAN]
    BY DEF IInv, TypeInv
  <2>3. call.first => gate'.started
    BY <2>1, <2>2
  <2>4. QED
    BY <2>1, <2>3 DEF Reuse, GateKnown, CallReopened, FirstOwn, Executes
<1>6. CASE MarkThrows
  BY <1>6 DEF MarkThrows, NoCall, Reuse, GateKnown, CallReopened, FirstOwn, Executes, fees, chain
<1>7. QED
  BY <1>1, <1>2, <1>3, <1>4, <1>5, <1>6, StartFlowReuse, FeeGrantedReuse, BroadcastReuse DEF Executing

LEMMA ConfirmingReuse == ASSUME IInv, Reuse, Confirming PROVE Reuse'
<1>1. /\ call.pc \in {"none", "receipt", "load", "verify", "refresh"} \/ UNCHANGED call
      /\ call'.pc \in {"none", "receipt", "load", "verify", "refresh"}
      /\ UNCHANGED <<gate, reopened, txs>>
  <2>1. CASE Confirm \/ Refreshed \/ ConfirmFails \/ NewSwap
    BY <2>1 DEF Confirm, Refreshed, ConfirmFails, NewSwap, Busy, NoCall, fees, chain
  <2>2. CASE ReceiptRead \/ CapsuleLoaded \/ Verified
    BY <2>2 DEF ReceiptRead, CapsuleLoaded, Verified, Confirms, Reading, fees, chain
  <2>3. QED
    BY <2>1, <2>2 DEF Confirming
<1>2. QED
  BY <1>1 DEF Reuse, GateKnown, CallReopened, FirstOwn, Executes

\* A cancelled recovery is what makes a run active that is not marked.
LEMMA RecoveringReuse == ASSUME IInv, Reuse, Recovering PROVE Reuse'
<1>1. CASE Resumes
  <2>1. recovering'.run = recovering.run
    BY <1>1 DEF Resumes, IInv, RecoverySound, Attempt, NoRecovery
  <2>2. UNCHANGED <<call, gate, resuming, reopened, pointer, txs>>
    BY <1>1 DEF Resumes, fees, storage, chain
  <2>3. QED
    BY <2>1, <2>2 DEF Reuse, GateKnown, CallReopened, FirstOwn, Executes, Reusable
<1>2. CASE Recovered \/ RecoveryFails
  <2>1. /\ recovering'.run = 0
        /\ gate'.started \/ UNCHANGED gate
        /\ UNCHANGED <<call, resuming, reopened, pointer, txs>>
    BY <1>2 DEF Recovered, RecoveryFails, NoRecovery, fees, storage, chain
  <2>2. Executes => call.session.run # 0
    BY CallStage DEF Executes
  <2>3. QED
    BY <2>1, <2>2 DEF Reuse, GateKnown, CallReopened, FirstOwn, Executes, Reusable
<1>3. ASSUME NEW o \in resuming, CancelledResumes(o) \/ CancelledFails(o) PROVE Reuse'
  <2>1. /\ UNCHANGED <<call, recovering, pointer, txs>> /\ resuming' \subseteq resuming
        /\ \/ gate'.run = o.run /\ reopened' = reopened \cup {o.run}
           \/ UNCHANGED <<gate, reopened>>
    BY <1>3 DEF CancelledResumes, CancelledFails, page, storage, chain
  <2>2. GateKnown'
    BY <2>1 DEF Reuse, GateKnown
  <2>3. QED
    BY <2>1, <2>2 DEF Reuse, CallReopened, FirstOwn, Executes, Reusable
<1>4. ASSUME NEW m \in Mode, Switch(m) PROVE Reuse'
  <2>1. /\ recovering'.run = 0 \/ recovering'.run = pointer.run
        /\ \A o \in resuming' : o \in resuming \/ o.run = recovering.run
        /\ UNCHANGED <<call, gate, reopened, pointer, txs>>
    BY <1>4, RecoveryForRun DEF Switch, storage, chain
  <2>2. Executes => call.session.run # 0
    BY CallStage DEF Executes
  <2>3. QED
    BY <2>1, <2>2 DEF Reuse, GateKnown, CallReopened, FirstOwn, Executes, Reusable
<1>5. ASSUME NEW m \in Mode, Reload(m) PROVE Reuse'
  BY <1>5 DEF Reload, NoCall, NoGate, Reuse, GateKnown, CallReopened, FirstOwn, Executes
<1>6. QED
  BY <1>1, <1>2, <1>3, <1>4, <1>5 DEF Recovering

LEMMA ChainReuse == ASSUME IInv, Reuse, Chain \/ UNCHANGED vars PROVE Reuse'
<1>1. UNCHANGED <<call, gate, resuming, reopened, recovering, pointer>>
  BY DEF Chain, Deposit, Succeed, Revert, vars, page, fees, storage
<1>2. \A r : HasTx(r, txs') => HasTx(r, txs)
  <2>1. txs \in Seq(Tx) /\ Len(txs) \in Nat
    BY DEF IInv, TypeInv
  <2>2. CASE UNCHANGED txs
    BY <2>2
  <2>3. ASSUME NEW t \in 1..Len(txs), Decided(t)
        PROVE  \A r : HasTx(r, txs') => HasTx(r, txs)
    <3>1. Len(txs') = Len(txs) /\ \A u \in 1..Len(txs) : txs'[u].run = txs[u].run
      BY <2>1, <2>3, RunsKept
    <3>2. QED
      BY <3>1 DEF HasTx
  <2>4. UNCHANGED txs \/ \E t \in 1..Len(txs) : Succeed(t) \/ Revert(t)
    BY DEF Chain, Deposit, vars, chain
  <2>5. QED
    BY <2>2, <2>3, <2>4, Decides
<1>3. QED
  BY <1>1, <1>2 DEF Reuse, GateKnown, CallReopened, FirstOwn, Executes, Reusable

LEMMA NextReuse == IInv /\ Reuse /\ [Next]_vars => Reuse'
BY ExecutingReuse, ConfirmingReuse, RecoveringReuse, ChainReuse DEF Next

-----------------------------------------------------------------------------
(* The specification *)

LEMMA InitOnce == Init => Once /\ Reuse
<1> SUFFICES ASSUME Init PROVE Once /\ Reuse
  OBVIOUS
<1>1. Once
  BY DEF Init, Once, PagesKnown, CapsulesPointed, LoadsOwn, StaleWhileExecuting, SentBehind,
         PageSendsOnce, TxIds, Executes, NoCall
<1>2. Reuse
  BY DEF Init, Reuse, GateKnown, CallReopened, FirstOwn, Executes, NoCall, NoGate
<1>3. QED
  BY <1>1, <1>2

LEMMA NextOnce == IInv /\ IInv' /\ Once /\ Reuse /\ [Next]_vars => Once'
<1> SUFFICES ASSUME IInv, IInv', Once, Reuse, [Next]_vars PROVE Once'
  OBVIOUS
<1> Steady
  BY StepSteady
<1>1. CASE Executing
  BY <1>1, StartFlowOnce, FeeGrantedOnce, ExecuteNextOnce, PrepareOnce, RefuseOnce, BroadcastOnce,
     WalletReturnsOnce, ExecuteReturnsOnce, MarkThrowsOnce DEF Executing
<1>2. CASE Confirming
  BY <1>2, ConfirmOnce, ReceiptReadOnce, CapsuleLoadedOnce, VerifiedOnce, EndsOnce DEF Confirming
<1>3. CASE Recovering
  <2>1. CASE Resumes \/ RecoveryFails
    BY <2>1, OutsideOnce DEF Resumes, RecoveryFails, storage, chain, counts
  <2>2. ASSUME NEW o \in resuming, CancelledResumes(o) \/ CancelledFails(o) PROVE Once'
    BY <2>2, OutsideOnce DEF CancelledResumes, CancelledFails, page, storage, chain, counts
  <2>3. QED
    BY <1>3, <2>1, <2>2, RecoveredOnce, SwitchOnce, ReloadOnce DEF Recovering
<1>4. CASE Chain
  <2>1. CASE Deposit
    BY <2>1, OutsideOnce DEF Deposit, page, storage, counts
  <2>2. QED
    BY <1>4, <2>1, ChainOnce DEF Chain
<1>5. CASE UNCHANGED vars
  BY <1>5, OutsideOnce DEF vars, page, storage, chain, counts
<1>6. QED
  BY <1>1, <1>2, <1>3, <1>4, <1>5 DEF Next

\* A page sends no stage of a run twice, for chains of any length, whatever is refused,
\* lost, switched, reloaded or recovered late; without a fee policy, no stage of a run
\* that no cancelled recovery made active again.
THEOREM SendsOnce == Spec => []PageSendsOnce
<1>1. Spec => [](Once /\ Reuse)
  BY Inductive, InitOnce, NextOnce, NextReuse, PTL DEF Spec
<1>2. Once /\ Reuse => PageSendsOnce
  BY DEF Once
<1>3. QED
  BY <1>1, <1>2, PTL
=============================================================================
