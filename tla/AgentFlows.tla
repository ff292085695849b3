------------------------------ MODULE AgentFlows ------------------------------
(***************************************************************************)
(* The borrow, staking and lend pages: their controllers, the runtimes     *)
(* they execute stages with, and what they keep in localStorage for a page *)
(* that is opened again.                                                   *)
(*                                                                         *)
(* The workspace mounts one controller at a time.  To show another tool is *)
(* to unmount it: its session and its refs are gone, its call in flight    *)
(* goes on, detached, and still writes to localStorage.  Within one mount  *)
(* a call keeps `busy' to its end; a change of mode clears the session     *)
(* under it and the recovery effect may set another.                       *)
(*                                                                         *)
(* Of the fee gate (FeeGate), which every mount has of its own, this keeps *)
(* the active run and whether it was marked as started; a handler of the   *)
(* wallet (WalletProvider) is one await.  One account and one chain; every *)
(* amount is 1.                                                            *)
(***************************************************************************)
EXTENDS Integers, Sequences, FiniteSets

CONSTANTS
  Tool, Mode,           \* the tools and the modes the workspace shows
  FeeOn,                \* the server's fee policy
  Funds,                \* the public balance at first
  Bounds                \* the bounds, see Within

VARIABLES
  tool, mode, mount,    \* what the workspace shows; how many mounts there have been
  session, runtime,     \* the mounted controller's session and runtimeRef, 0 for null
  gates,                \* of each mount the run its fee gate has, and if it is marked
  reviewed,             \* if the borrow page shows a market Vesu's review accepts
  recovering, asked,    \* its recovery effect, and if it has asked the gate to resume
  resuming,             \* the cancelled recoveries that are still in a gate's resume
  calls,                \* the calls in flight: at most one of each mount
  pointer, capsules,    \* localStorage: a pointer of each tool, the bound capsules
  runs,                 \* the runs there are
  txs, balance,         \* the chain; with a transaction, the runtime that sent it
                        \* and what that read before it: its snapshot
  views, moves,         \* how many changes of the view and of the balances there were
  reopened              \* history: the runs that a cancelled recovery made active again

view == <<tool, mode, mount, reviewed, views>>
fees == <<gates, resuming, reopened>>
flow == <<session, runtime, recovering, asked, fees>>
storage == <<pointer, capsules>>
chain == <<txs, balance, moves>>
vars == <<view, flow, calls, storage, runs, chain>>

None == "none"

\* So many runs, transactions, changes of the view and moves of the balances are within
\* one of the bounds.
Within(r, t, v, m) ==
  \E b \in Bounds : r <= b.runs /\ t <= b.txs /\ v <= b.views /\ m <= b.moves

-----------------------------------------------------------------------------
(* The executors of the stages *)

\* lock: the ref its wallet handler takes.  checks: what is read before the
\* transaction and must have grown after it, "public" or "position".  public and
\* position: what the transaction adds to each.  settled: the end of the wallet's wait
\* confirms the stage.
Unshield == [lock |-> None, checks |-> "public", public |-> 1, position |-> 0, settled |-> FALSE]

borrowExecutor == [lock |-> "borrow", checks |-> "position", public |-> -1, position |-> 1, settled |-> FALSE]
unshieldForBorrow == Unshield
shieldExecutor == [lock |-> None, checks |-> None, public |-> 0, position |-> -1, settled |-> TRUE]

stakeExecutor == [lock |-> "staking", checks |-> "position", public |-> -1, position |-> 1, settled |-> FALSE]
shieldStake == [stakeExecutor EXCEPT !.checks = None, !.position = 0]
unshieldForStaking == Unshield

lendExecutor == [lock |-> "lend", checks |-> "position", public |-> -1, position |-> 1, settled |-> FALSE]
shieldLend == [lendExecutor EXCEPT !.checks = None, !.position = 0]
unshieldForLend == Unshield

\* The plans, each a chain, and the executor of each of their stages.
BorrowPlan ==
  [normal   |-> << <<"borrow", borrowExecutor>> >>,
   shield   |-> << <<"borrow", borrowExecutor>>, <<"shield", shieldExecutor>> >>,
   unshield |-> << <<"unshield", unshieldForBorrow>>, <<"borrow", borrowExecutor>> >>]

StakingPlan ==
  [normal   |-> << <<"stake", stakeExecutor>> >>,
   shield   |-> << <<"stake", shieldStake>> >>,
   unshield |-> << <<"unshield", unshieldForStaking>>, <<"stake", stakeExecutor>> >>]

LendPlan ==
  [normal   |-> << <<"lend", lendExecutor>> >>,
   shield   |-> << <<"lend", shieldLend>> >>,
   unshield |-> << <<"unshield", unshieldForLend>>, <<"lend", lendExecutor>> >>]

PlanOf == [borrow |-> BorrowPlan, staking |-> StakingPlan, lend |-> LendPlan]

ASSUME AgentFlowsAssumption ==
  /\ Tool \subseteq DOMAIN PlanOf
  /\ Mode \subseteq {"normal", "shield", "unshield"}
  /\ FeeOn \in BOOLEAN
  /\ Funds \in Nat
  /\ Bounds \subseteq [runs : Nat, txs : Nat, views : Nat, moves : Nat]

Plan(r) == PlanOf[runs[r].tool][runs[r].mode]
ActionOf(x) == Plan(x.run)[x.stage][1]
ExecutorOf(x) == Plan(x.run)[x.stage][2]

\* The stage's id, which in the code is its action and its place.
StageId(x) == <<ActionOf(x), x.stage>>

-----------------------------------------------------------------------------
(* Sessions, calls and recovery *)

NoSession == [run |-> 0]
NoRecovery == [run |-> 0]
NoPointer == <<0, 0>>
NoGate == [run |-> 0, started |-> FALSE]

At(r, i, status, tx) == [run |-> r, stage |-> i, status |-> status, tx |-> tx]

\* Mutant: the last stage is not told from the others.
Confirmed_NoEnd(s) == At(s.run, s.stage + 1, "review", 0)

\* confirmAgentStage: the next stage of the chain is unlocked.
Confirmed(s) ==
  IF s.stage = Len(Plan(s.run)) THEN [s EXCEPT !.status = "completed"]
  ELSE At(s.run, s.stage + 1, "review", 0)

KeyOf(x) == <<x.run, x.stage>>
Showing(status) == session.run # 0 /\ session.status = status
Locked == session.run # 0 /\ session.status # "completed"

AtWallet == {c \in calls : c.pc \in {"wallet", "sent"}}
Busy == (\E c \in calls : c.mount = mount) \/ AtWallet # {}

\* A call goes on as c; when it is detached its setState does nothing.
Goes(c, d) == calls' = (calls \ {c}) \cup {d}
Ends(c) == calls' = calls \ {c}
Attached(c) == c.mount = mount
Shows(c, s) == session' = IF Attached(c) THEN s ELSE session

\* What a call of handler h captures.  clears: a failure before the transaction
\* clears the flow.
Call(h, pc, s, rt, clears) ==
  [by |-> h, pc |-> pc, mount |-> mount, tool |-> tool, mode |-> mode,
   session |-> s, runtime |-> rt, clears |-> clears, before |-> 0, tx |-> 0, confirmed |-> FALSE]

\* The handlers that start a flow, and only those, execute its first stage.
First(c) == c.session.stage = 1

Room == Cardinality(calls) < 2

\* A runtime is a number that neither runtimeRef nor a call has; what an earlier one
\* of that number remembered is forgotten.
FreshRuntime == CHOOSE n \in 1..4 : n # runtime /\ \A c \in calls : n # c.runtime
Forget(n) == txs' = [t \in 1..Len(txs) |-> IF txs[t].runtime = n THEN [txs[t] EXCEPT !.runtime = 0] ELSE txs[t]]

RemoveCapsule(C, key) == {c \in C : KeyOf(c) # key}

\* saveActiveAgentRecoveryPointer: a new stage supersedes the capsule of the last.
SavePointer(t, key, C) ==
  /\ pointer' = [pointer EXCEPT ![t] = key]
  /\ capsules' = IF pointer[t] # key THEN RemoveCapsule(C, pointer[t]) ELSE C

\* clearActiveAgentRecoveryPointer
ClearPointer(t, C) ==
  /\ pointer' = [pointer EXCEPT ![t] = NoPointer]
  /\ capsules' = RemoveCapsule(C, pointer[t])

\* The pointer of tool t, if it is of mode m, and its capsule.
RecoveryFor(t, m) ==
  LET found == {c \in capsules : KeyOf(c) = pointer[t]} IN
  IF found = {} \/ runs[pointer[t][1]].mode # m THEN NoRecovery
  ELSE LET c == CHOOSE c \in found : TRUE IN At(c.run, c.stage, "submitted", c.tx)

-----------------------------------------------------------------------------
Init ==
  /\ tool \in Tool /\ mode \in Mode /\ mount = 1
  /\ session = NoSession /\ runtime = 0 /\ reviewed = FALSE
  /\ recovering = NoRecovery /\ asked = FALSE
  /\ gates = <<NoGate>> /\ resuming = {} /\ reopened = {}
  /\ calls = {}
  /\ pointer = [t \in Tool |-> NoPointer] /\ capsules = {}
  /\ runs = <<>>
  /\ txs = <<>> /\ balance = [public |-> Funds, position |-> [t \in Tool |-> 0]]
  /\ views = 0 /\ moves = 0

-----------------------------------------------------------------------------
(* The handlers that start a flow *)

\* ensureActive: the gate gives its run again if it is of the same plan and not marked
\* as started, or a new one.
Active(r) ==
  \/ /\ r = gates[mount].run /\ r # 0 /\ ~gates[mount].started
     /\ runs[r] = [tool |-> tool, mode |-> mode]
     /\ UNCHANGED runs
  \/ /\ r = Len(runs) + 1 /\ Within(r, Len(txs), views, moves)
     /\ runs' = Append(runs, [tool |-> tool, mode |-> mode])

\* A start: to the fee gate's first await, the runtime still to come.
Starts(h, clears) ==
  /\ Room
  /\ \E r \in {gates[mount].run, Len(runs) + 1} :
       /\ Active(r)
       /\ gates' = [gates EXCEPT ![mount] = [run |-> r, started |-> FALSE]]
       /\ calls' = calls \cup {Call(h, "fee", At(r, 1, "review", 0), 0, clears)}
  /\ UNCHANGED <<view, session, runtime, recovering, asked, resuming, reopened, storage, chain>>

\* startFlow
StakingStart ==
  /\ tool = "staking"
  /\ ~Busy /\ ~Locked
  /\ Starts("startFlow", TRUE)

\* startAgentLend
LendStart ==
  /\ tool = "lend"
  /\ ~Busy /\ ~Locked
  /\ Starts("startAgentLend", TRUE)

\* startUnshieldBorrow
BorrowStartUnshield ==
  /\ tool = "borrow" /\ mode = "unshield"
  /\ ~Busy
  /\ session = NoSession
  /\ Starts("startUnshieldBorrow", TRUE)

\* executeBorrow in shield mode.
BorrowStartShield ==
  /\ tool = "borrow" /\ mode = "shield"
  /\ ~Busy /\ ~Locked
  /\ reviewed
  /\ Starts("executeBorrow", TRUE)

\* executeBorrow in normal mode, which does not look at the lock.  A failure clears
\* the flow unless the session of the render it was pressed in had gone past review.
BorrowStartNormal ==
  /\ tool = "borrow" /\ mode = "normal"
  /\ ~Busy
  /\ reviewed
  /\ Starts("executeBorrow", session = NoSession \/ session.status = "review")

\* reviewBorrow, and the markets it answers with.
Review ==
  /\ tool = "borrow"
  /\ ~Busy
  /\ IF mode = "unshield" THEN Showing("review") /\ StageId(session) = <<"borrow", 2>> ELSE ~Locked
  /\ reviewed' = TRUE
  /\ UNCHANGED <<tool, mode, mount, views, flow, calls, storage, runs, chain>>

\* invalidateReview and resetMarkets: the goal, an amount, the pool or the asset changed.
Invalidate ==
  /\ reviewed
  /\ reviewed' = FALSE
  /\ UNCHANGED <<tool, mode, mount, views, flow, calls, storage, runs, chain>>

-----------------------------------------------------------------------------
(* The handlers that execute the next stage *)

Executes(h, rt) ==
  /\ Room
  /\ calls' = calls \cup {Call(h, "prepare", session, rt, FALSE)}

\* executeNextStage of the staking controller.
StakingExecuteNext ==
  /\ tool = "staking"
  /\ ~Busy
  /\ Showing("review") /\ runtime # 0
  /\ Executes("executeNextStage", runtime)
  /\ UNCHANGED <<view, flow, storage, runs, chain>>

\* executeNextStage of the lend controller: with a new runtime of the selected market.
LendExecuteNext ==
  /\ tool = "lend"
  /\ ~Busy
  /\ Showing("review") /\ runtime # 0
  /\ runtime' = FreshRuntime /\ Forget(FreshRuntime)
  /\ Executes("executeNextStage", runtime')
  /\ UNCHANGED <<view, session, recovering, asked, fees, storage, runs, balance, moves>>

\* executeBorrow in unshield mode: a new runtime too.
BorrowExecuteUnshielded ==
  /\ tool = "borrow" /\ mode = "unshield"
  /\ ~Busy
  /\ Showing("review") /\ StageId(session) = <<"borrow", 2>>
  /\ reviewed
  /\ runtime' = FreshRuntime /\ Forget(FreshRuntime)
  /\ Executes("executeBorrow", runtime')
  /\ UNCHANGED <<view, session, recovering, asked, fees, storage, runs, balance, moves>>

\* shieldBorrowProceeds
ShieldBorrowProceeds ==
  /\ tool = "borrow" /\ mode = "shield"
  /\ ~Busy
  /\ Showing("review") /\ StageId(session) = <<"shield", 2>> /\ runtime # 0
  /\ Executes("shieldBorrowProceeds", runtime)
  /\ UNCHANGED <<view, flow, storage, runs, chain>>

-----------------------------------------------------------------------------
(* The steps of a start and of an execution *)

Unsent(r) == \A t \in 1..Len(txs) : txs[t].run # r

\* The fee gate answers, unless the run was settled before, which the server does not do
\* again: the session, the refs, and on to the first stage.
FeeGranted(c) ==
  /\ c.pc = "fee"
  /\ FeeOn => Unsent(c.session.run)
  /\ Forget(FreshRuntime)
  /\ Shows(c, c.session)
  /\ runtime' = IF Attached(c) THEN FreshRuntime ELSE runtime
  /\ Goes(c, [c EXCEPT !.pc = "prepare", !.runtime = FreshRuntime])
  /\ UNCHANGED <<view, recovering, asked, fees, storage, runs, balance, moves>>

\* What the stage's executor watches.
Watched(c) ==
  CASE ExecutorOf(c.session).checks = "public"   -> balance.public
    [] ExecutorOf(c.session).checks = "position" -> balance.position[c.tool]
    [] OTHER                                     -> 0

\* The route is prepared and checked, what is watched is read, the draft is sealed,
\* and the wallet's handler takes its ref.
Prepares(t, c) ==
  LET lock == ExecutorOf(c.session).lock IN
  /\ c.tool = t /\ c.pc = "prepare"
  /\ lock # None => \A d \in AtWallet : ExecutorOf(d.session).lock # lock
  /\ Goes(c, [c EXCEPT !.pc = "wallet", !.before = Watched(c)])
  /\ UNCHANGED <<view, flow, storage, runs, chain>>

BorrowPrepared(c) == Prepares("borrow", c)
StakingPrepared(c) == Prepares("staking", c)
LendPrepared(c) == Prepares("lend", c)

\* The wallet signs and sends.
Broadcast(c) ==
  /\ c.pc = "wallet"
  /\ Within(Len(runs), Len(txs) + 1, views, moves)
  /\ txs' = Append(txs, [run |-> c.session.run, stage |-> c.session.stage, status |-> "pending",
                         mount |-> c.mount, runtime |-> c.runtime, before |-> c.before])
  /\ Goes(c, [c EXCEPT !.pc = "sent", !.tx = Len(txs')])
  /\ UNCHANGED <<view, flow, storage, runs, balance, moves>>

\* The handler returns the hash, after its wait for the transaction or without.  A wait
\* that ends because the transaction was accepted, which a reverted one is too, is all
\* that a `settled' stage is confirmed by.
Returned(c) ==
  /\ c.pc = "sent"
  /\ \E accepted \in BOOLEAN :
       /\ accepted => ExecutorOf(c.session).settled /\ txs[c.tx].status # "pending"
       /\ Goes(c, [c EXCEPT !.pc = "bind", !.confirmed = accepted])
  /\ UNCHANGED <<view, flow, storage, runs, chain>>

\* bindRecovery, which may have failed, and with it sealRecovery: then no capsule.
Bound(c) ==
  {capsules, RemoveCapsule(capsules, KeyOf(c.session)) \cup
               {[run |-> c.session.run, stage |-> c.session.stage, tx |-> c.tx]}}

\* Mutant: the fee gate is not told that the protocol started.
GateAfter_Kept(c) == gates

\* markProtocolStarted: the gate's run is not given again.
GateAfter(c) == IF First(c) THEN [gates EXCEPT ![c.mount].started = TRUE] ELSE gates

\* The stage is bound, and executeAgentStage returns: the controller marks the run if it
\* started it, shows the session and remembers its pointer.
Executed(c) ==
  LET s == At(c.session.run, c.session.stage, "submitted", c.tx)
      next == IF c.confirmed THEN Confirmed(s) ELSE s
  IN
  /\ c.pc = "bind"
  /\ First(c) => gates[c.mount].run = c.session.run
  /\ gates' = GateAfter(c)
  /\ \E C \in Bound(c) :
       IF next.status = "completed" THEN ClearPointer(c.tool, C)
       ELSE SavePointer(c.tool, KeyOf(c.session), C)
  /\ Shows(c, next)
  /\ reviewed' = (reviewed /\ ~(Attached(c) /\ c.by = "executeBorrow"))
  /\ Ends(c)
  /\ UNCHANGED <<tool, mode, mount, views, runtime, recovering, asked, resuming, reopened, runs, chain>>

\* A failure of call c: a start clears the flow it made.
Fails(c) ==
  /\ Ends(c)
  /\ IF c.clears /\ Attached(c) THEN session' = NoSession /\ runtime' = 0
     ELSE UNCHANGED <<session, runtime>>

\* The policy, the payment, the route, a read or the wallet refuses: nothing is sent.
Refused(c) ==
  /\ c.pc \in {"fee", "prepare", "wallet"}
  /\ Fails(c)
  /\ UNCHANGED <<view, recovering, asked, fees, storage, runs, chain>>

\* A recovery made another run active in the meantime: markProtocolStarted throws, after
\* the transaction was sent and its capsule bound.
MarkThrows(c) ==
  /\ c.pc = "bind"
  /\ First(c) /\ gates[c.mount].run # c.session.run
  /\ capsules' \in Bound(c)
  /\ Fails(c)
  /\ UNCHANGED <<view, recovering, asked, fees, pointer, runs, chain>>

-----------------------------------------------------------------------------
(* Confirming a stage *)

\* A press: to confirmSubmittedStage with the session and the runtime shown.
Confirms(h) ==
  /\ ~Busy
  /\ Showing("submitted") /\ runtime # 0
  /\ Room
  /\ calls' = calls \cup {Call(h, "receipt", session, runtime, FALSE)}
  /\ UNCHANGED <<view, flow, storage, runs, chain>>

\* confirmSubmitted of the staking and of the lend controller.
StakingConfirm == tool = "staking" /\ Confirms("confirmSubmitted")
LendConfirm == tool = "lend" /\ Confirms("confirmSubmitted")

\* The borrow controller has a handler for each stage it may have shown.
BorrowConfirms(m, id, h) ==
  /\ tool = "borrow" /\ mode = m
  /\ Showing("submitted") /\ StageId(session) = id
  /\ Confirms(h)

RefreshNormalBorrow == BorrowConfirms("normal", <<"borrow", 1>>, "refreshNormalBorrowConfirmation")
RefreshUnshield == BorrowConfirms("unshield", <<"unshield", 1>>, "refreshUnshieldConfirmation")
RefreshUnshieldBorrow == BorrowConfirms("unshield", <<"borrow", 2>>, "refreshUnshieldBorrowConfirmation")
RefreshShieldBorrow == BorrowConfirms("shield", <<"borrow", 1>>, "refreshShieldBorrowConfirmation")
RefreshShieldStage == BorrowConfirms("shield", <<"shield", 2>>, "refreshShieldStageConfirmation")

\* Mutant: a transaction that reverted passes too.
Accepted_Reverted(t) == txs[t].status # "pending"

\* waitForTransaction: accepted, and not reverted.
Accepted(t) == txs[t].status = "succeeded"

\* The snapshot of what was watched: the runtime's own, or the capsule's.
Snapshot(c) == txs[c.session.tx].runtime = c.runtime
Capsule(c) == \E k \in capsules : KeyOf(k) = KeyOf(c.session) /\ k.tx = c.session.tx

\* confirmSubmittedStage finds something to verify the stage with, or the stage is one
\* that its receipt confirms.
BorrowVerifiable(c) == ActionOf(c.session) \notin {"borrow", "unshield"} \/ Snapshot(c) \/ Capsule(c)
StakingVerifiable(c) ==
  (ActionOf(c.session) = "stake" /\ runs[c.session.run].mode = "shield") \/ Snapshot(c) \/ Capsule(c)
LendVerifiable(c) ==
  (ActionOf(c.session) = "lend" /\ runs[c.session.run].mode = "shield") \/ Snapshot(c) \/ Capsule(c)

Verifiable(c) ==
  CASE c.tool = "borrow"  -> BorrowVerifiable(c)
    [] c.tool = "staking" -> StakingVerifiable(c)
    [] c.tool = "lend"    -> LendVerifiable(c)

ReceiptRead(c) ==
  /\ c.pc = "receipt"
  /\ Accepted(c.session.tx)
  /\ Verifiable(c)
  /\ Goes(c, [c EXCEPT !.pc = "verify"])
  /\ UNCHANGED <<view, flow, storage, runs, chain>>

\* What was watched has grown: verifyPublicOutput, by the stage's amount;
\* verifyUnshield and verifyPublicStake, the same; verifyPublicLend, by any shares.
Before(c) == txs[c.session.tx].before

BorrowGrown(c) == Watched(c) >= Before(c) + 1
StakingGrown(c) == Watched(c) - Before(c) >= 1
LendGrown(c) ==
  IF ActionOf(c.session) = "unshield" THEN Watched(c) - Before(c) >= 1 ELSE Watched(c) > Before(c)

Grown(c) ==
  \/ ExecutorOf(c.session).checks = None
  \/ CASE c.tool = "borrow"  -> BorrowGrown(c)
       [] c.tool = "staking" -> StakingGrown(c)
       [] c.tool = "lend"    -> LendGrown(c)

\* These handlers clear the pointer of a completed run in the same step; those of the
\* staking and lend controllers after a refresh; refreshShieldBorrowConfirmation not.
ClearsAtOnce ==
  {"refreshNormalBorrowConfirmation", "refreshUnshieldBorrowConfirmation", "refreshShieldStageConfirmation"}

\* It verifies and returns: the controller shows the session, then refreshes balances.
Verified(c) ==
  LET next == Confirmed(c.session) IN
  /\ c.pc = "verify"
  /\ Grown(c)
  /\ Shows(c, next)
  /\ IF next.status = "completed" /\ c.by \in ClearsAtOnce
     THEN ClearPointer(c.tool, capsules) ELSE UNCHANGED storage
  /\ reviewed' = (reviewed /\ ~(Attached(c) /\ c.by = "refreshUnshieldConfirmation"))
  /\ Goes(c, [c EXCEPT !.pc = "refresh", !.session = next])
  /\ UNCHANGED <<tool, mode, mount, views, runtime, recovering, asked, fees, runs, chain>>

Refreshed(c) ==
  /\ c.pc = "refresh"
  /\ Ends(c)
  /\ IF c.session.status = "completed" /\ c.by = "confirmSubmitted"
     THEN ClearPointer(c.tool, capsules) ELSE UNCHANGED storage
  /\ UNCHANGED <<view, flow, runs, chain>>

\* Not accepted, reverted, nothing to verify it with, or it has not grown (yet).
Unverified(c) ==
  /\ c.pc \in {"receipt", "verify"}
  /\ Ends(c)
  /\ UNCHANGED <<view, flow, storage, runs, chain>>

\* resetFlow and resetAgentLend, offered once the plan is completed.
Reset ==
  /\ tool # "borrow"
  /\ ~Busy
  /\ Showing("completed")
  /\ session' = NoSession /\ runtime' = 0
  /\ ClearPointer(tool, capsules)
  /\ UNCHANGED <<view, recovering, asked, fees, calls, runs, chain>>

-----------------------------------------------------------------------------
(* Recovery, and what the workspace shows *)

\* The server verifies the capsule, and the effect asks the fee gate to resume the run.
Resumes ==
  /\ recovering.run # 0 /\ ~asked
  /\ asked' = TRUE
  /\ UNCHANGED <<view, session, runtime, recovering, fees, calls, storage, runs, chain>>

\* resume makes it the active run; the stage is shown as submitted, and the run marked.
Restores ==
  /\ recovering.run # 0 /\ asked
  /\ session' = recovering
  /\ runtime' = FreshRuntime /\ Forget(FreshRuntime)
  /\ gates' = [gates EXCEPT ![mount] = [run |-> recovering.run, started |-> TRUE]]
  /\ recovering' = NoRecovery /\ asked' = FALSE
  /\ UNCHANGED <<view, resuming, reopened, calls, storage, runs, balance, moves>>

\* The recovery effects of the three controllers.
BorrowRecovered == tool = "borrow" /\ Restores
StakingRecovered == tool = "staking" /\ Restores
LendRecovered == tool = "lend" /\ Restores

RecoveryFails ==
  /\ recovering.run # 0
  /\ recovering' = NoRecovery /\ asked' = FALSE
  /\ UNCHANGED <<view, session, runtime, fees, calls, storage, runs, chain>>

\* The recovery effect is cancelled, and another one of tool t and mode m takes its place.
Recovers(t, m) ==
  /\ recovering' = RecoveryFor(t, m) /\ asked' = FALSE
  /\ resuming' = IF recovering.run # 0 /\ asked
                 THEN resuming \cup {[run |-> recovering.run, mount |-> mount, view |-> views]}
                 ELSE resuming

\* resume returns to a recovery that was cancelled: its run is active in the gate of that
\* mount, and not marked.
CancelledResumes(o) ==
  /\ o \in resuming
  /\ gates' = [gates EXCEPT ![o.mount] = [run |-> o.run, started |-> FALSE]]
  /\ resuming' = resuming \ {o}
  /\ reopened' = IF o.mount = mount THEN reopened \cup {o.run} ELSE reopened
  /\ UNCHANGED <<view, session, runtime, recovering, asked, calls, storage, runs, chain>>

CancelledFails(o) ==
  /\ o \in resuming
  /\ resuming' = resuming \ {o}
  /\ UNCHANGED <<view, session, runtime, recovering, asked, gates, reopened, calls, storage, runs, chain>>

\* The effects of a change of mode: the clear effect and the recovery effect.  A call in
\* flight goes on.
Switch(m) ==
  /\ m # mode /\ Within(Len(runs), Len(txs), views + 1, moves)
  /\ mode' = m /\ views' = views + 1
  /\ session' = NoSession /\ runtime' = 0
  /\ Recovers(tool, m)
  /\ UNCHANGED <<tool, mount, reviewed, gates, reopened, calls, storage, runs, chain>>

\* A controller of tool t is mounted, in place of the one before.
Mounts(t) ==
  /\ Within(Len(runs), Len(txs), views + 1, moves)
  /\ views' = views + 1
  /\ tool' = t /\ mount' = mount + 1
  /\ session' = NoSession /\ runtime' = 0 /\ reviewed' = FALSE
  /\ gates' = Append(gates, NoGate)

\* chooseTool, and back: the calls in flight go on, detached.
Show(t) ==
  /\ Mounts(t)
  /\ Recovers(t, mode)
  /\ UNCHANGED <<mode, reopened, calls, storage, runs, chain>>

\* The page is reloaded: they do not.
Reload ==
  /\ Mounts(tool)
  /\ recovering' = RecoveryFor(tool, mode) /\ asked' = FALSE
  /\ resuming' = {} /\ calls' = {}
  /\ UNCHANGED <<mode, reopened, storage, runs, chain>>

-----------------------------------------------------------------------------
(* The chain *)

After(t) ==
  LET e == ExecutorOf(txs[t])  of == runs[txs[t].run].tool IN
  [public |-> balance.public + e.public,
   position |-> [balance.position EXCEPT ![of] = @ + e.position]]

Covered(t) == LET b == After(t) IN b.public >= 0 /\ \A u \in Tool : b.position[u] >= 0

\* External: a transaction that is covered succeeds, or any reverts.
Succeed(t) ==
  /\ txs[t].status = "pending"
  /\ Covered(t)
  /\ txs' = [txs EXCEPT ![t].status = "succeeded"]
  /\ balance' = After(t)
  /\ UNCHANGED <<view, flow, calls, storage, runs, moves>>

Revert(t) ==
  /\ txs[t].status = "pending"
  /\ txs' = [txs EXCEPT ![t].status = "reverted"]
  /\ UNCHANGED <<view, flow, calls, storage, runs, balance, moves>>

Moves(b) ==
  /\ Within(Len(runs), Len(txs), views, moves + 1)
  /\ moves' = moves + 1
  /\ balance' = b
  /\ UNCHANGED <<view, flow, calls, storage, runs, txs>>

\* External: somebody pays the account, or adds to its position for it.
Deposit ==
  \/ Moves([balance EXCEPT !.public = @ + 1])
  \/ \E t \in Tool : Moves([balance EXCEPT !.position[t] = @ + 1])

\* runPositionAction, which does not look at `busy' or at the flow: stake is withdrawn.
PositionAction ==
  /\ tool = "staking"
  /\ \A c \in AtWallet : ExecutorOf(c.session).lock # "staking"
  /\ balance.position["staking"] > 0
  /\ Moves([balance EXCEPT !.position["staking"] = @ - 1])

-----------------------------------------------------------------------------
Starting ==
  StakingStart \/ LendStart \/ BorrowStartUnshield \/ BorrowStartShield \/ BorrowStartNormal

Continuing ==
  StakingExecuteNext \/ LendExecuteNext \/ BorrowExecuteUnshielded \/ ShieldBorrowProceeds

Confirming ==
  StakingConfirm \/ LendConfirm \/ RefreshNormalBorrow \/ RefreshUnshield
    \/ RefreshUnshieldBorrow \/ RefreshShieldBorrow \/ RefreshShieldStage

Executing(c) ==
  FeeGranted(c) \/ BorrowPrepared(c) \/ StakingPrepared(c) \/ LendPrepared(c)
    \/ Refused(c) \/ Broadcast(c) \/ Returned(c) \/ Executed(c) \/ MarkThrows(c)

Reading(c) == ReceiptRead(c) \/ Verified(c) \/ Refreshed(c) \/ Unverified(c)

Recovering ==
  \/ Resumes \/ BorrowRecovered \/ StakingRecovered \/ LendRecovered \/ RecoveryFails
  \/ \E o \in resuming : CancelledResumes(o) \/ CancelledFails(o)

Viewing == Reload \/ (\E m \in Mode : Switch(m)) \/ (\E t \in Tool : Show(t))

Chain == Deposit \/ PositionAction \/ \E t \in 1..Len(txs) : Succeed(t) \/ Revert(t)

Next ==
  \/ Starting \/ Review \/ Invalidate \/ Continuing \/ Confirming \/ Reset
  \/ \E c \in calls : Executing(c) \/ Reading(c)
  \/ Recovering \/ Viewing \/ Chain

Spec == Init /\ [][Next]_vars

-----------------------------------------------------------------------------
(* Properties *)

RunIds == 1..Len(runs)
TxIds == 1..Len(txs)

SessionOK(s) ==
  /\ s.run \in RunIds
  /\ s.stage \in 1..Len(Plan(s.run))
  /\ s.status \in {"review", "submitted", "completed"}
  /\ s.status = "submitted" => s.tx \in TxIds /\ KeyOf(txs[s.tx]) = KeyOf(s)

\* Type invariant.
TypeOK ==
  /\ tool \in Tool /\ mode \in Mode
  /\ session = NoSession \/ SessionOK(session)
  /\ runtime \in 0..4
  /\ Len(gates) = mount /\ \A m \in 1..mount : gates[m].run \in 0..Len(runs)
  /\ reviewed \in BOOLEAN
  /\ recovering = NoRecovery \/ SessionOK(recovering)
  /\ \A c \in calls : c.mount \in 1..mount /\ SessionOK(c.session)
  /\ \A c, d \in calls : c.mount = d.mount => c = d
  /\ \A t \in Tool : pointer[t] # NoPointer => pointer[t][1] \in RunIds
  /\ \A k \in capsules : k.tx \in TxIds /\ KeyOf(txs[k.tx]) = KeyOf(k)
  /\ balance.public \in Nat

Succeeded(r, i) == \E t \in TxIds : KeyOf(txs[t]) = <<r, i>> /\ txs[t].status = "succeeded"

\* A stage is only sent when a transaction of the stage before it succeeded, whatever
\* was unmounted, restored or reloaded in between ("Complete and confirm the Unshield
\* collateral step first.", useBorrowController.ts:1790).
StageAfterSuccess ==
  \A t \in TxIds : txs[t].stage > 1 => Succeeded(txs[t].run, txs[t].stage - 1)

\* One mount of a controller sends no stage of a run twice, and the first stage, which
\* the fee buys, is sent once by all of them, also when an unmounted one goes on
\* ("never convert a persistence error into an execution failure or invite a duplicate
\* Stake", starknet-staking-runtime.ts:759); without a fee policy, no run is meant that
\* a cancelled recovery made active again.
RepeatedOnlyElsewhere ==
  \A t, u \in TxIds :
    t # u /\ KeyOf(txs[t]) = KeyOf(txs[u]) =>
      \/ txs[t].stage > 1 /\ txs[t].mount # txs[u].mount
      \/ ~FeeOn /\ txs[t].run \in reopened

Done(i) == i < session.stage \/ session.status = "completed"

\* A stage the page shows as done has succeeded; but the end of the wallet's wait is all
\* that a `settled' one is known by.
DoneSucceeded ==
  session.run # 0 =>
    \A i \in 1..Len(Plan(session.run)) :
      Done(i) /\ ~Plan(session.run)[i][2].settled => Succeeded(session.run, i)
=============================================================================
