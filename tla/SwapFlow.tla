------------------------------ MODULE SwapFlow ------------------------------
(***************************************************************************)
(* A swap plan driven from the page: useSwapController with the executor,  *)
(* the AVNU swap runtime and the recovery pointer and capsules it keeps in *)
(* localStorage.  A plan is a chain: normal <<swap>>, shield               *)
(* <<swap, shield>>, unshield <<unshield, swap>>.  Of the fee gate, which  *)
(* FeeGate models, this keeps the active run and whether it was marked as  *)
(* started; one account and one chain.  The page is one mount of the       *)
(* controller: AgentFlows has the changes of tool.                         *)
(*                                                                         *)
(* A call, startFlow, executeNextStage or confirmSubmitted, holds `busy'   *)
(* to its end, so there is one at a time; but a change of mode clears the  *)
(* session under it, the recovery effect may set another one, and the call *)
(* goes on with the session and the runtime it captured.  A step named by  *)
(* call.pc is an await that has not returned.                              *)
(*                                                                         *)
(* Amounts: unshielding and selling take 1, a swap promises at least 1.    *)
(***************************************************************************)
EXTENDS Integers, Sequences, FiniteSets

CONSTANTS
  Mode, PlanOf,         \* the page's modes and the kinds of each one's stages
  FeeOn,                \* the server's fee policy
  Faults,               \* which failures the environment shows
  Funds,                \* what the account holds of the sold asset at first
  Outputs,              \* what a swap may yield
  MaxRuns, MaxTxs, MaxDeposits, MaxSwitches, MaxReloads     \* bounds

Kind == {"swap", "shield", "unshield"}

\* refuse: the quote, a read or the wallet fails; seal, bind, load: the recovery
\* server does; slow: the wallet's wait gives up; revert: a transaction reverts.
Fault == {"refuse", "seal", "bind", "load", "slow", "revert"}

ASSUME SwapFlowAssumption ==
  /\ PlanOf \in [Mode -> Seq(Kind)]
  /\ \A m \in Mode : /\ PlanOf[m] # <<>>
                     /\ \A i \in 1..Len(PlanOf[m]) - 1 : PlanOf[m][i] # "shield"
  /\ FeeOn \in BOOLEAN
  /\ Faults \subseteq Fault
  /\ Funds \in Nat
  /\ Outputs \subseteq Nat \ {0}
  /\ {MaxRuns, MaxTxs, MaxDeposits, MaxSwitches, MaxReloads} \subseteq Nat

VARIABLES
  mode,                 \* the mode the page shows
  session,              \* swapAgentSession, see Session
  runtime,              \* runtimeRef, with planRef and accountRef, see NoRuntime
  snapshots,            \* the runtimes' PublicOutputSnapshots
  call,                 \* the call in flight
  recovering,           \* the recovery effect in flight that is not cancelled
  gate,                 \* the fee gate's active run, and if it was marked as started
  resuming,             \* the cancelled recoveries that are still in the gate's resume
  pointer, capsules,    \* localStorage: the active pointer, the bound capsules
  runs,                 \* run id -> mode of its plan
  txs,                  \* every transaction sent: run, stage, amount, status, and
                        \* what it yielded and the page that sent it (its reloads)
  balance,              \* the public balances of the sold and the bought asset
  deposits, switches, reloads,      \* how many of each there have been
  reopened              \* history: the runs that a cancelled recovery made active again

page == <<mode, session, runtime, snapshots, call, recovering>>
fees == <<gate, resuming, reopened>>
storage == <<pointer, capsules>>
chain == <<txs, balance, deposits>>
counts == <<switches, reloads>>
vars == <<page, fees, storage, runs, chain, counts>>

Plan(r) == PlanOf[runs[r]]
KindOf(r, i) == Plan(r)[i]

NoSession == [run |-> 0]
NoCall == [pc |-> "none"]
NoRecovery == [run |-> 0]
NoPointer == [run |-> 0, stage |-> 0]
NoGate == [run |-> 0, started |-> FALSE]

\* A runtime keeps the wallet of the render it was made in, and with it what that
\* knew of the public balance of the bought asset.
Unknown == -1
NoRuntime == [id |-> 0, bought |-> Unknown]

\* In a chain one stage is current, those before it are confirmed and those after
\* it locked.  `input' is the verified output of the stage before, if it is known.
At(r, i, status, tx, input) ==
  [run |-> r, stage |-> i, status |-> status, tx |-> tx, input |-> input]

\* flowLocked
Locked == session.run # 0 /\ session.status # "completed"

Busy == call.pc # "none"

\* Mutant: the last stage is not told from the others.
Confirmed_NoEnd(ses, output) == At(ses.run, ses.stage + 1, "review", 0, output)

\* The session after its stage is confirmed: confirmAgentStage unlocks the next.
Confirmed(ses, output) ==
  IF ses.stage = Len(Plan(ses.run))
  THEN [ses EXCEPT !.status = "completed"]
  ELSE At(ses.run, ses.stage + 1, "review", 0, output)

\* Only runtimeRef and the call refer to runtimes: a fresh one takes an id that
\* neither does, and what an earlier one of that id remembered is forgotten.
FreshRuntime == CHOOSE n \in 1..3 : n # runtime.id /\ (Busy => n # call.runtime.id)
Forget(n) == snapshots' = {s \in snapshots : s.runtime # n}

\* What a page in mode m may know of the bought balance: nothing, or what it once read.
\* Only a shield looks at it, and one that was higher refuses nothing.
Readings(m) ==
  IF \E i \in 1..Len(PlanOf[m]) : PlanOf[m][i] = "shield"
  THEN {Unknown} \cup 0..balance.bought ELSE {Unknown}

\* executeShieldAsset looks at the balance its wallet was captured with.
Shields(rt, amount) == rt.bought = Unknown \/ rt.bought >= amount

Unsent(r) == \A t \in 1..Len(txs) : txs[t].run # r

\* The balance that verifies a stage, and what is sold.
Watched(kind) == IF kind = "swap" THEN "bought" ELSE "sold"

-----------------------------------------------------------------------------
(* Recovery pointers and capsules *)

KeyOf(x) == <<x.run, x.stage>>

RemoveCapsule(C, key) == {c \in C : KeyOf(c) # key}

\* Mutant: the capsule of the superseded stage is kept.
SavePointer_KeepCapsule(C, r, i) ==
  /\ pointer' = [run |-> r, stage |-> i]
  /\ capsules' = C

\* saveActiveAgentRecoveryPointer: a new stage supersedes the capsule of the last.
SavePointer(C, r, i) ==
  /\ pointer' = [run |-> r, stage |-> i]
  /\ capsules' = IF KeyOf(pointer) # <<r, i>> THEN RemoveCapsule(C, KeyOf(pointer)) ELSE C

\* clearActiveAgentRecoveryPointer
ClearPointer(C) ==
  /\ pointer' = NoPointer
  /\ capsules' = RemoveCapsule(C, KeyOf(pointer))

\* What the recovery effect finds when it starts in mode m, on a page that knows b.
RecoveryFor(m, b) ==
  IF pointer.run # 0 /\ runs[pointer.run] = m
  THEN LET found == {c \in capsules : KeyOf(c) = KeyOf(pointer)}
       IN  IF found = {} THEN NoRecovery
           ELSE LET c == CHOOSE c \in found : TRUE
                IN  [run |-> c.run, stage |-> c.stage, tx |-> c.tx, pc |-> "capsule", bought |-> b]
  ELSE NoRecovery

-----------------------------------------------------------------------------
Init ==
  /\ mode \in Mode
  /\ session = NoSession /\ runtime = NoRuntime /\ snapshots = {}
  /\ call = NoCall /\ recovering = NoRecovery
  /\ gate = NoGate /\ resuming = {} /\ reopened = {}
  /\ pointer = NoPointer /\ capsules = {}
  /\ runs = <<>>
  /\ txs = <<>>
  /\ balance = [sold |-> Funds, bought |-> 0]
  /\ deposits = 0 /\ switches = 0 /\ reloads = 0

-----------------------------------------------------------------------------
(* Executing a stage *)

\* The user starts a flow: startFlow up to the fee gate's first await.  ensureActive
\* gives the active run again if it is of the same plan and not marked as started.
StartFlow ==
  /\ ~Busy /\ ~Locked
  /\ \E r \in {gate.run, Len(runs) + 1}, b \in Readings(mode) :
       /\ \/ r = gate.run /\ r # 0 /\ ~gate.started /\ runs[r] = mode /\ UNCHANGED runs
          \/ r = Len(runs) + 1 /\ r <= MaxRuns /\ runs' = Append(runs, mode)
       /\ gate' = [run |-> r, started |-> FALSE]
       /\ call' = [pc |-> "fee", run |-> r, runtime |-> [id |-> 0, bought |-> b]]
  /\ UNCHANGED <<mode, session, runtime, snapshots, recovering, resuming, reopened,
                 storage, chain, counts>>

\* The fee gate returns, unless the run was settled before, which the server does not
\* do again: a session, a runtime, and on to executeStage.
FeeGranted ==
  /\ call.pc = "fee"
  /\ FeeOn => Unsent(call.run)
  /\ session' = At(call.run, 1, "review", 0, 0)
  /\ runtime' = [call.runtime EXCEPT !.id = FreshRuntime]
  /\ Forget(FreshRuntime)
  /\ call' = [pc |-> "prepare", first |-> TRUE, session |-> session', runtime |-> runtime']
  /\ UNCHANGED <<mode, recovering, fees, storage, runs, chain, counts>>

\* executeNextStage.
ExecuteNext ==
  /\ ~Busy
  /\ session.run # 0 /\ session.status = "review"
  /\ runtime.id # 0
  /\ call' = [pc |-> "prepare", first |-> FALSE, session |-> session, runtime |-> runtime]
  /\ UNCHANGED <<mode, session, runtime, snapshots, recovering, fees, storage, runs, chain, counts>>

\* The runtime reads the balance and seals a draft of its capsule.
Prepare ==
  LET ses == call.session IN
  /\ call.pc = "prepare"
  /\ \E sealed \in IF "seal" \in Faults THEN BOOLEAN ELSE {TRUE} :
       call' = [pc |-> "wallet", first |-> call.first, session |-> ses, runtime |-> call.runtime,
                before |-> balance[Watched(KindOf(ses.run, ses.stage))], sealed |-> sealed]
  /\ UNCHANGED <<mode, session, runtime, snapshots, recovering, fees, storage, runs, chain, counts>>

\* What the wallet's handler looks at before it asks the wallet.
CanSend ==
  KindOf(call.session.run, call.session.stage) = "shield" => Shields(call.runtime, call.session.input)

\* The run a call of startFlow was given.
RunOf(c) == IF c.pc = "fee" THEN c.run ELSE c.session.run

\* Before a transaction exists anything may fail, and a shield does if its wallet was
\* captured with too low a balance.  startFlow then clears the whole flow; the gate
\* would give a run that was not used again, which is as good as a new one.
Refuse ==
  LET starting == call.pc = "fee" \/ call.first
      unused == starting /\ Unsent(RunOf(call))
  IN
  /\ call.pc \in {"fee", "prepare", "wallet"}
  /\ \/ "refuse" \in Faults
     \/ call.pc = "fee" /\ FeeOn /\ ~Unsent(call.run)
     \/ call.pc = "wallet" /\ ~CanSend
  /\ call' = NoCall
  /\ IF starting THEN session' = NoSession /\ runtime' = NoRuntime
     ELSE UNCHANGED <<session, runtime>>
  /\ runs' = IF unused THEN SubSeq(runs, 1, Len(runs) - 1) ELSE runs
  /\ gate' = IF unused /\ gate.run = RunOf(call) THEN NoGate ELSE gate
  /\ UNCHANGED <<mode, snapshots, recovering, resuming, reopened, storage, chain, counts>>

\* The wallet signs and sends.
Broadcast ==
  LET ses == call.session IN
  /\ call.pc = "wallet"
  /\ CanSend
  /\ Len(txs) < MaxTxs
  /\ txs' = Append(txs, [run |-> ses.run, stage |-> ses.stage, status |-> "pending",
                         amount |-> IF KindOf(ses.run, ses.stage) = "shield" THEN ses.input ELSE 1,
                         yield |-> 0, page |-> reloads])
  /\ call' = [pc |-> "wait", first |-> call.first, session |-> ses, runtime |-> call.runtime,
              before |-> call.before, sealed |-> call.sealed, tx |-> Len(txs')]
  /\ UNCHANGED <<mode, session, runtime, snapshots, recovering, fees, storage, runs, balance,
                 deposits, counts>>

\* The wallet's wait for the transaction ends: it is accepted, which a reverted one
\* is too, or the wait gave up.  Only a shield's receipt tells.  The runtime keeps
\* its snapshot and goes on to bind the capsule.
WalletReturns ==
  LET ses == call.session  kind == KindOf(ses.run, ses.stage) IN
  /\ call.pc = "wait"
  /\ \E accepted \in BOOLEAN :
       /\ accepted => txs[call.tx].status # "pending"
       /\ ~accepted => "slow" \in Faults
       /\ call' = [pc |-> "bind", first |-> call.first, session |-> ses, runtime |-> call.runtime,
                   before |-> call.before, sealed |-> call.sealed, tx |-> call.tx,
                   confirmed |-> accepted /\ kind = "shield"]
  /\ snapshots' = IF kind = "shield" THEN snapshots
                  ELSE snapshots \cup {[runtime |-> call.runtime.id, run |-> ses.run, stage |-> ses.stage,
                                        tx |-> call.tx, before |-> call.before]}
  /\ UNCHANGED <<mode, session, runtime, recovering, fees, storage, runs, chain, counts>>

\* The capsules once the call's is bound, if its draft was sealed.
Bound ==
  LET ses == call.session
      new == [run |-> ses.run, stage |-> ses.stage, tx |-> call.tx, before |-> call.before]
      bound == RemoveCapsule(capsules, KeyOf(ses)) \cup {new}
  IN  IF ~call.sealed THEN {capsules} ELSE {bound} \cup IF "bind" \in Faults THEN {capsules} ELSE {}

\* bind returns and with it the stage: executeAgentStage makes the next session,
\* startFlow marks its run as started, and the controller shows the session, whatever
\* it shows by then, and rememberSwapRecovery.
ExecuteReturns ==
  LET ses == call.session
      next == IF call.confirmed THEN Confirmed(ses, 0)
              ELSE At(ses.run, ses.stage, "submitted", call.tx, ses.input)
  IN
  /\ call.pc = "bind"
  /\ call.first => gate.run = ses.run
  /\ gate' = IF call.first THEN [gate EXCEPT !.started = TRUE] ELSE gate
  /\ \E C \in Bound : IF next.status = "completed" THEN ClearPointer(C)
                      ELSE SavePointer(C, ses.run, ses.stage)
  /\ session' = next
  /\ call' = NoCall
  /\ UNCHANGED <<mode, runtime, snapshots, recovering, resuming, reopened, runs, chain, counts>>

\* A recovery made another run active in the meantime: markProtocolStarted throws, and
\* startFlow clears the flow of the transaction that it sent.
MarkThrows ==
  /\ call.pc = "bind"
  /\ call.first /\ gate.run # call.session.run
  /\ capsules' \in Bound
  /\ session' = NoSession /\ runtime' = NoRuntime
  /\ call' = NoCall
  /\ UNCHANGED <<mode, snapshots, recovering, fees, pointer, runs, chain, counts>>

-----------------------------------------------------------------------------
(* Confirming a stage *)

\* confirmSubmitted, up to waitForTransaction.
Confirm ==
  /\ ~Busy
  /\ session.run # 0 /\ session.status = "submitted"
  /\ runtime.id # 0
  /\ call' = [pc |-> "receipt", session |-> session, runtime |-> runtime]
  /\ UNCHANGED <<mode, session, runtime, snapshots, recovering, fees, storage, runs, chain, counts>>

\* The controller shows the session of the confirmed stage and refreshes balances.
Confirms(output) ==
  /\ session' = Confirmed(call.session, output)
  /\ call' = [pc |-> "refresh", session |-> session', runtime |-> call.runtime]

\* The snapshot the call's runtime has of the submitted transaction, and the capsule
\* in localStorage: each a set of one or none.
SnapshotsOf(ses) ==
  {s \in snapshots : s.runtime = call.runtime.id /\ KeyOf(s) = KeyOf(ses) /\ s.tx = ses.tx}

\* Mutant: the runtime is created without recovery.
CapsulesOf_Never(ses) == {}

CapsulesOf(ses) == {c \in capsules : KeyOf(c) = KeyOf(ses) /\ c.tx = ses.tx}

Reading(before) ==
  call' = [pc |-> "verify", session |-> call.session, runtime |-> call.runtime, before |-> before]

\* Mutant: a transaction that reverted passes too.
Accepted_Reverted(t) == txs[t].status # "pending"

\* waitForTransaction: accepted, and not reverted.
Accepted(t) == txs[t].status = "succeeded"

\* A shield is confirmed by its receipt; the others are verified against their
\* snapshot, or against the capsule in localStorage.
ReceiptRead ==
  LET ses == call.session  kind == KindOf(ses.run, ses.stage) IN
  /\ call.pc = "receipt"
  /\ Accepted(ses.tx)
  /\ \/ kind = "shield" /\ Confirms(0)
     \/ kind # "shield" /\ UNCHANGED session /\ \E s \in SnapshotsOf(ses) : Reading(s.before)
     \/ /\ kind # "shield" /\ UNCHANGED session
        /\ SnapshotsOf(ses) = {}
        /\ \E c \in CapsulesOf(ses) :
             call' = [pc |-> "load", session |-> ses, runtime |-> call.runtime, found |-> c]
  /\ UNCHANGED <<mode, runtime, snapshots, recovering, fees, storage, runs, chain, counts>>

\* The server verifies the capsule's signature.
CapsuleLoaded ==
  /\ call.pc = "load"
  /\ Reading(call.found.before)
  /\ snapshots' = snapshots \cup
       {[runtime |-> call.runtime.id, run |-> call.found.run, stage |-> call.found.stage,
         tx |-> call.found.tx, before |-> call.found.before]}
  /\ UNCHANGED <<mode, session, runtime, recovering, fees, storage, runs, chain, counts>>

Increase ==
  balance[Watched(KindOf(call.session.run, call.session.stage))] - call.before

\* verifyPublicOutput: the watched balance has grown by what was promised.
Verified ==
  LET ses == call.session IN
  /\ call.pc = "verify"
  /\ Increase >= 1
  /\ Confirms(IF KindOf(ses.run, ses.stage) = "unshield" THEN 1 ELSE Increase)
  /\ snapshots' = snapshots \ SnapshotsOf(ses)
  /\ UNCHANGED <<mode, runtime, recovering, fees, storage, runs, chain, counts>>

Refreshed ==
  /\ call.pc = "refresh"
  /\ call' = NoCall
  /\ IF call.session.status = "completed" THEN ClearPointer(capsules) ELSE UNCHANGED storage
  /\ UNCHANGED <<mode, session, runtime, snapshots, recovering, fees, runs, chain, counts>>

\* Not accepted yet, reverted, nothing to verify it with, or not visible yet.
ConfirmFails ==
  /\ \/ call.pc = "receipt" /\ ~Accepted(call.session.tx)
     \/ /\ call.pc = "receipt"
        /\ KindOf(call.session.run, call.session.stage) # "shield"
        /\ SnapshotsOf(call.session) = {} /\ CapsulesOf(call.session) = {}
     \/ call.pc = "load" /\ "load" \in Faults
     \/ call.pc = "verify" /\ Increase < 1
  /\ call' = NoCall
  /\ UNCHANGED <<mode, session, runtime, snapshots, recovering, fees, storage, runs, chain, counts>>

\* resetFlow, which the page offers once the plan is completed.
NewSwap ==
  /\ ~Busy
  /\ session.run # 0 /\ session.status = "completed"
  /\ session' = NoSession /\ runtime' = NoRuntime
  /\ ClearPointer(capsules)
  /\ UNCHANGED <<mode, snapshots, call, recovering, fees, runs, chain, counts>>

-----------------------------------------------------------------------------
(* The recovery effect, changes of mode, reloads *)

\* The server verifies the capsule, and the effect asks the fee gate to resume the run.
Resumes ==
  /\ recovering.run # 0 /\ recovering.pc = "capsule"
  /\ recovering' = [recovering EXCEPT !.pc = "resume"]
  /\ UNCHANGED <<mode, session, runtime, snapshots, call, fees, storage, runs, chain, counts>>

\* resume makes it the active run; the stage is shown as submitted, and the run marked.
Recovered ==
  LET v == recovering IN
  /\ v.run # 0 /\ v.pc = "resume"
  /\ gate' = [run |-> v.run, started |-> TRUE]
  /\ session' = At(v.run, v.stage, "submitted", v.tx, 0)
  /\ runtime' = [id |-> FreshRuntime, bought |-> v.bought]
  /\ Forget(FreshRuntime)
  /\ recovering' = NoRecovery
  /\ UNCHANGED <<mode, call, resuming, reopened, storage, runs, chain, counts>>

RecoveryFails ==
  /\ "load" \in Faults
  /\ recovering.run # 0
  /\ recovering' = NoRecovery
  /\ UNCHANGED <<mode, session, runtime, snapshots, call, fees, storage, runs, chain, counts>>

\* resume returns to a recovery that was cancelled: its run is active, and not marked.
CancelledResumes(o) ==
  /\ o \in resuming
  /\ gate' = [run |-> o.run, started |-> FALSE]
  /\ resuming' = resuming \ {o}
  /\ reopened' = reopened \cup {o.run}
  /\ UNCHANGED <<page, storage, runs, chain, counts>>

CancelledFails(o) ==
  /\ "load" \in Faults
  /\ o \in resuming
  /\ resuming' = resuming \ {o}
  /\ UNCHANGED <<page, gate, reopened, storage, runs, chain, counts>>

\* The mode changes: the clear effect and, its dependencies changed, the recovery
\* effect, which cancels the one before.  The call in flight goes on.
Switch(m) ==
  /\ m # mode /\ switches < MaxSwitches
  /\ mode' = m
  /\ session' = NoSession /\ runtime' = NoRuntime
  /\ \E b \in Readings(m) : recovering' = RecoveryFor(m, b)
  /\ resuming' = IF recovering.run # 0 /\ recovering.pc = "resume"
                 THEN resuming \cup {[run |-> recovering.run, switch |-> switches]} ELSE resuming
  /\ switches' = switches + 1
  /\ UNCHANGED <<snapshots, call, gate, reopened, storage, runs, chain, reloads>>

\* The page is reloaded, or closed and opened again.  The wallet connects with no
\* balances read.
Reload(m) ==
  /\ reloads < MaxReloads
  /\ mode' = m
  /\ session' = NoSession /\ runtime' = NoRuntime /\ snapshots' = {}
  /\ call' = NoCall
  /\ recovering' = RecoveryFor(m, Unknown)
  /\ gate' = NoGate /\ resuming' = {}
  /\ reloads' = reloads + 1
  /\ UNCHANGED <<reopened, storage, runs, chain, switches>>

-----------------------------------------------------------------------------
(* The chain *)

\* The balance the transaction spends covers it.
Covered(tx) ==
  CASE KindOf(tx.run, tx.stage) = "unshield" -> TRUE
    [] KindOf(tx.run, tx.stage) = "swap"     -> balance.sold >= 1
    [] KindOf(tx.run, tx.stage) = "shield"   -> balance.bought >= tx.amount

\* External: a transaction that is covered may be accepted and succeed.
Succeed(t) ==
  LET tx == txs[t]  kind == KindOf(tx.run, tx.stage) IN
  /\ tx.status = "pending"
  /\ Covered(tx)
  /\ \/ /\ kind = "unshield"
        /\ txs' = [txs EXCEPT ![t].status = "succeeded", ![t].yield = 1]
        /\ balance' = [balance EXCEPT !.sold = @ + 1]
     \/ /\ kind = "swap"
        /\ \E o \in Outputs :
             /\ txs' = [txs EXCEPT ![t].status = "succeeded", ![t].yield = o]
             /\ balance' = [sold |-> balance.sold - 1, bought |-> balance.bought + o]
     \/ /\ kind = "shield"
        /\ txs' = [txs EXCEPT ![t].status = "succeeded", ![t].yield = tx.amount]
        /\ balance' = [balance EXCEPT !.bought = @ - tx.amount]
  /\ UNCHANGED <<page, fees, storage, runs, deposits, counts>>

\* External: one that is not, or that fails for a reason of its own, reverts.
Revert(t) ==
  /\ txs[t].status = "pending"
  /\ "revert" \in Faults \/ ~Covered(txs[t])
  /\ txs' = [txs EXCEPT ![t].status = "reverted"]
  /\ UNCHANGED <<page, fees, storage, runs, balance, deposits, counts>>

\* External: somebody pays the account some of the bought asset.
Deposit ==
  /\ deposits < MaxDeposits
  /\ balance' = [balance EXCEPT !.bought = @ + 1]
  /\ deposits' = deposits + 1
  /\ UNCHANGED <<page, fees, storage, runs, txs, counts>>

-----------------------------------------------------------------------------
Executing ==
  StartFlow \/ FeeGranted \/ ExecuteNext \/ Prepare \/ Refuse
    \/ Broadcast \/ WalletReturns \/ ExecuteReturns \/ MarkThrows

Confirming ==
  Confirm \/ ReceiptRead \/ CapsuleLoaded \/ Verified \/ Refreshed \/ ConfirmFails \/ NewSwap

Recovering ==
  \/ Resumes \/ Recovered \/ RecoveryFails
  \/ \E o \in resuming : CancelledResumes(o) \/ CancelledFails(o)
  \/ \E m \in Mode : Switch(m) \/ Reload(m)

Chain == Deposit \/ \E t \in 1..Len(txs) : Succeed(t) \/ Revert(t)

Next == Executing \/ Confirming \/ Recovering \/ Chain

Spec == Init /\ [][Next]_vars

\* The user keeps pressing the button the page offers and every await returns; the
\* chain decides every transaction.
FairSpec ==
  /\ Spec
  /\ WF_vars(Executing \/ Confirming)
  /\ WF_vars(Resumes \/ Recovered)
  /\ \A t \in 1..MaxTxs : WF_vars(t <= Len(txs) /\ (Succeed(t) \/ Revert(t)))

-----------------------------------------------------------------------------
(* Properties *)

RunIds == 1..Len(runs)
TxIds == 1..Len(txs)

SessionOK(ses) ==
  /\ ses.run \in RunIds
  /\ ses.stage \in 1..Len(Plan(ses.run))
  /\ ses.status \in {"review", "submitted", "completed"}
  /\ ses.status = "submitted" => ses.tx \in TxIds
  /\ ses.input \in Nat

\* Type invariant.
TypeOK ==
  /\ mode \in Mode
  /\ session = NoSession \/ SessionOK(session)
  /\ runtime.id \in 0..3
  /\ call.pc = "fee" => call.run \in RunIds
  /\ call.pc \notin {"none", "fee"} => SessionOK(call.session) /\ call.runtime.id \in 1..3
  /\ gate.run \in 0..Len(runs) /\ reopened \subseteq RunIds
  /\ pointer = NoPointer \/ (pointer.run \in RunIds /\ pointer.stage \in 1..Len(Plan(pointer.run)))
  /\ runs \in Seq(Mode)
  /\ \A t \in TxIds : /\ txs[t].run \in RunIds
                      /\ txs[t].stage \in 1..Len(Plan(txs[t].run))
                      /\ txs[t].status \in {"pending", "succeeded", "reverted"}
  /\ balance.sold \in Nat /\ balance.bought \in Nat

\* A later stage is only sent once a transaction of the stage before it succeeded,
\* whatever the page lost, restored or showed in between.
StageAfterSuccess ==
  \A t \in TxIds : txs[t].stage > 1 =>
    \E u \in TxIds : KeyOf(txs[u]) = <<txs[t].run, txs[t].stage - 1>> /\ txs[u].status = "succeeded"

SameStage(t, u) == KeyOf(txs[t]) = KeyOf(txs[u])

\* A page sends no stage of a run twice, in whatever order presses, changes of mode,
\* slow recoveries and failures come ("Transaction already exists. A persistence
\* failure must never invite the user to submit the Swap again",
\* starknet-swap-runtime.ts:639); without a fee policy, none of a run that no
\* cancelled recovery made active again.
PageSendsOnce ==
  \A t, u \in TxIds :
    SameStage(t, u) /\ txs[t].page = txs[u].page /\ t # u => ~FeeOn /\ txs[t].run \in reopened

\* Nor do two pages ("This prevents a slow RPC/balance refresh from causing CAREL to
\* invite an unsafe duplicate swap", starknet-swap-runtime.ts:931).
StageSentOnce == \A t, u \in TxIds : SameStage(t, u) => t = u

Done(i) == i < session.stage \/ session.status = "completed"

Succeeded(r, i) == \E t \in TxIds : KeyOf(txs[t]) = <<r, i>> /\ txs[t].status = "succeeded"

\* A swap or an unshield the page shows as done has succeeded.
PublicDoneSucceeded ==
  session.run # 0 =>
    \A i \in 1..Len(Plan(session.run)) :
      Done(i) /\ KindOf(session.run, i) # "shield" => Succeeded(session.run, i)

\* The pointer and the capsule of the stage are stored.
Recoverable(r, i) ==
  /\ KeyOf(pointer) = <<r, i>>
  /\ \E c \in capsules : KeyOf(c) = <<r, i>>

Reverted(r, i) == \E t \in TxIds : KeyOf(txs[t]) = <<r, i>> /\ txs[t].status = "reverted"

\* The shield that the page offers is refused at every press.
ShieldBlocked(r, i) ==
  /\ session.run = r /\ session.stage = i /\ session.status = "review"
  /\ KindOf(r, i) = "shield" /\ ~Shields(runtime, session.input)

\* A stage whose pointer and capsule are stored is not stuck, even if the page is
\* reloaded: the flow sends the next stage or is cleared, unless the chain reverted the
\* stage ("Swap confirmation can restore its signed public-output snapshot after
\* reload", tests/agent-starknet-swap-runtime.test.cjs:763), or the next one is a
\* shield through a wallet that remembers too low a balance, which a reload ends.
RecoverableAdvances ==
  \A r \in 1..MaxRuns, i \in 1..2 :
    Recoverable(r, i) ~> \/ KeyOf(pointer) # <<r, i>>
                         \/ \E t \in TxIds : KeyOf(txs[t]) = <<r, i + 1>>
                         \/ Reverted(r, i)
                         \/ ShieldBlocked(r, i + 1)
=============================================================================
