------------------------------ MODULE FeeGate -------------------------------
(***************************************************************************)
(* The client side of the Agent fee: the fee-gate coordinator of           *)
(* lib/agent/client-fee-gate.ts with the two callers a page has, startFlow *)
(* and the recovery effect of components/swap/useSwapController.ts (the    *)
(* borrow, staking and lend controllers call it in the same way).          *)
(*                                                                         *)
(* JavaScript runs one caller at a time, and they interleave at their      *)
(* awaits.  The coordinator's state is one mutable object, `active', and   *)
(* prepare keeps its own reference to the object it found: `heap' holds    *)
(* every such object, so that a caller can go on with one that is no       *)
(* longer active.  A step named by `pc' is an await that has not returned. *)
(*                                                                         *)
(* A Plan stands for the scope of a run: plan, payer and chain.  The       *)
(* server is what FeeLedger promises.  settleAtomic and prepareAtomic,     *)
(* which no controller calls, are left out.                                *)
(***************************************************************************)
EXTENDS Naturals, Sequences, FiniteSets

CONSTANTS
  Plan, Mode, ModeOf,   \* the plans, the page's modes, the mode of each plan
  Recovery,             \* instances of the recovery effect alive at the same time
  CanLapse,             \* whether a submitted fee can outlive its settlement grace
  MaxRuns, MaxObjects,  \* bounds: fresh run ids, ActiveFeeRun objects created
  MaxSwitches, MaxReloads

ASSUME FeeGateAssumption ==
  /\ ModeOf \in [Plan -> Mode]
  /\ CanLapse \in BOOLEAN
  /\ {MaxRuns, MaxObjects, MaxSwitches, MaxReloads} \subseteq Nat

VARIABLES
  feeOn,                \* the server's fee policy
  heap,                 \* every ActiveFeeRun object ever created
  active,               \* the coordinator's `active': an index of heap, or 0
  press,                \* startFlow: [pc, obj], obj the `current' of prepare
  recovery,             \* the recovery effects: [pc, run, plan, cancelled]
  session,              \* run id of the controller's session (flowLocked), or 0
  pointer,              \* the active recovery pointer in localStorage
  mode,                 \* the mode (or account, or chain) the page shows
  payments,             \* fee transactions the wallet sent: for which object
  settledBy,            \* the server's ledger: run id -> fee transaction, or 0
  starts,               \* how many first protocol transactions a run has sent
  switches, reloads     \* how many of each there have been

client == <<heap, active, press, recovery, session, pointer, mode>>
world == <<feeOn, payments, settledBy, starts>>
bounds == <<switches, reloads>>
vars == <<client, world, bounds>>

Run == 1..MaxRuns

\* fee: no session or a session without a quote ("none"), quoted and fresh,
\* quoted and expired, submitted, submitted with its settlement grace over ("lapsed"),
\* settled.
NewObject(run, plan) ==
  [run |-> run, plan |-> plan, started |-> FALSE, policy |-> "unread",
   fee |-> "none", tx |-> 0]

NoPress == [pc |-> "idle", obj |-> 0]
NoRecovery == [pc |-> "idle"]
NoPointer == [run |-> 0]

FreshRun == 1 + Cardinality({heap[i].run : i \in 1..Len(heap)})

-----------------------------------------------------------------------------
Init ==
  /\ feeOn \in BOOLEAN
  /\ heap = <<>> /\ active = 0
  /\ press = NoPress
  /\ recovery = [v \in Recovery |-> NoRecovery]
  /\ session = 0
  /\ pointer = NoPointer
  /\ mode \in Mode
  /\ payments = <<>>
  /\ settledBy = [r \in Run |-> 0]
  /\ starts = [r \in Run |-> 0]
  /\ switches = 0 /\ reloads = 0

-----------------------------------------------------------------------------
(* startFlow *)

\* Mutant: a submitted fee is taken for a settled one.
Await_SubmittedSuffices(o) ==
  IF o.policy = "unread" THEN "policy"
  ELSE IF o.policy = "off" \/ o.fee \in {"submitted", "lapsed", "settled"} THEN "stage"
  ELSE IF o.fee \in {"none", "expired"} THEN "quote" ELSE "wallet"

\* Mutant: a submitted fee is handed to the wallet again, which refuses it.
Await_WalletAgain(o) ==
  IF o.policy = "unread" THEN "policy"
  ELSE IF o.policy = "off" \/ o.fee = "settled" THEN "stage"
  ELSE IF o.fee \in {"none", "expired"} THEN "quote" ELSE "wallet"

\* What prepare awaits next for an object: it runs down its ifs.  An expired
\* quote is dropped and a new one asked for.
Await(o) ==
  IF o.policy = "unread" THEN "policy"
  ELSE IF o.policy = "off" \/ o.fee = "settled" THEN "stage"
  ELSE IF o.fee \in {"none", "expired"} THEN "quote"
  ELSE IF o.fee = "quoted" THEN "wallet"
  ELSE "settle"

\* prepare goes on with object i, now worth o.  When it returns an authorization
\* startFlow creates the session and hands the first stage to its executor.
Proceed(h, i, o) ==
  /\ heap' = [h EXCEPT ![i] = [o EXCEPT !.fee = IF @ = "expired" THEN "none" ELSE @]]
  /\ press' = [pc |-> Await(o), obj |-> i]
  /\ session' = IF Await(o) = "stage" THEN o.run ELSE session

Current == heap[press.obj]

\* Mutant: a started run is reused as well.
Reusable_Started(p) == active # 0 /\ heap[active].plan = p

\* ensureActive: the active run is reused for the same plan until its protocol
\* has started.
Reusable(p) == active # 0 /\ heap[active].plan = p /\ ~heap[active].started

\* The user presses the button: startFlow's guards, prepare, ensureActive.
Press(p) ==
  /\ press.pc = "idle"
  /\ session = 0
  /\ ModeOf[p] = mode
  /\ IF Reusable(p)
     THEN Proceed(heap, active, heap[active]) /\ UNCHANGED active
     ELSE /\ FreshRun <= MaxRuns /\ Len(heap) < MaxObjects
          /\ active' = Len(heap) + 1
          /\ LET o == NewObject(FreshRun, p) IN Proceed(Append(heap, o), active', o)
  /\ UNCHANGED <<recovery, pointer, mode, world, bounds>>

PolicyRead ==
  /\ press.pc = "policy"
  /\ Proceed(heap, press.obj, [Current EXCEPT !.policy = IF feeOn THEN "on" ELSE "off"])
  /\ UNCHANGED <<active, recovery, pointer, mode, world, bounds>>

\* POST fee/quote binds the run and answers with a signed quote.
Quoted ==
  /\ press.pc = "quote"
  /\ Proceed(heap, press.obj, [Current EXCEPT !.fee = "quoted"])
  /\ UNCHANGED <<active, recovery, pointer, mode, world, bounds>>

\* The user signs and the wallet sends the fee; it refuses an expired quote.
Pay ==
  /\ press.pc = "wallet"
  /\ Current.fee = "quoted"
  /\ payments' = Append(payments, press.obj)
  /\ press' = [press EXCEPT !.pc = "paid"]
  /\ UNCHANGED <<heap, active, recovery, session, pointer, mode,
                 feeOn, settledBy, starts, bounds>>

\* executeAgentFee returns the hash and the session becomes "submitted".
HashReturned ==
  /\ press.pc = "paid"
  /\ Proceed(heap, press.obj, [Current EXCEPT !.fee = "submitted", !.tx = Len(payments)])
  /\ UNCHANGED <<active, recovery, pointer, mode, world, bounds>>

\* POST fee/settle finds the fee paid, within the grace of its quote, and the run
\* not settled by another transaction.
ServerSettles ==
  /\ press.pc = "settle"
  /\ Current.fee = "submitted"
  /\ settledBy[Current.run] \in {0, Current.tx}
  /\ settledBy' = [settledBy EXCEPT ![Current.run] = Current.tx]

Settle ==
  /\ ServerSettles
  /\ Proceed(heap, press.obj, [Current EXCEPT !.fee = "settled"])
  /\ UNCHANGED <<active, recovery, pointer, mode, feeOn, payments, starts, bounds>>

\* Mutant: the catch leaves the session.
Abandon_KeepsSession == press' = NoPress /\ UNCHANGED session

\* clearAgentFlow, in startFlow's catch.
Abandon == press' = NoPress /\ session' = 0

\* The server settles and its answer is lost.
SettleAnswerLost ==
  /\ ServerSettles
  /\ Abandon
  /\ UNCHANGED <<heap, active, recovery, pointer, mode, feeOn, payments, starts, bounds>>

\* Mutant: the fee session goes back to its quote.
PressFails_BackToQuote ==
  /\ press.pc \in {"policy", "quote", "wallet", "settle", "stage"}
  /\ Abandon
  /\ heap' = [heap EXCEPT ![press.obj].fee = IF @ = "submitted" THEN "quoted" ELSE @]
  /\ UNCHANGED <<active, recovery, pointer, mode, world, bounds>>

\* An await throws: a request fails, the server refuses, the user declines.
PressFails ==
  /\ press.pc \in {"policy", "quote", "wallet", "settle", "stage"}
  /\ Abandon
  /\ UNCHANGED <<heap, active, recovery, pointer, mode, world, bounds>>

\* executeAgentStage: the wallet sends the protocol transaction, then waits for
\* it and binds the recovery capsule.
SendStage ==
  /\ press.pc = "stage"
  /\ starts' = [starts EXCEPT ![Current.run] = @ + 1]
  /\ press' = [press EXCEPT !.pc = "sent"]
  /\ UNCHANGED <<heap, active, recovery, session, pointer, mode,
                 feeOn, payments, settledBy, bounds>>

\* markProtocolStarted, which throws if another run is active; then the session
\* with the submitted stage and the recovery pointer.
MarkStarted ==
  /\ press.pc = "sent"
  /\ IF active # 0 /\ heap[active].run = Current.run
     THEN /\ heap' = [heap EXCEPT ![active].started = TRUE]
          /\ session' = Current.run
          /\ pointer' = [run |-> Current.run, plan |-> Current.plan]
          /\ press' = NoPress
     ELSE Abandon /\ UNCHANGED <<heap, pointer>>
  /\ UNCHANGED <<active, recovery, mode, world, bounds>>

\* confirmSubmitted completes the run: the session no longer locks the flow.
Complete ==
  /\ session # 0 /\ press.pc = "idle"
  /\ session' = 0
  /\ pointer' = NoPointer
  /\ UNCHANGED <<heap, active, press, recovery, mode, world, bounds>>

-----------------------------------------------------------------------------
(* The recovery effect *)

\* The effect runs: it reads the pointer and starts a recovery if the pointer is
\* of the mode the page shows.  rec is what is left of the earlier ones.
Effect(rec) ==
  IF pointer # NoPointer /\ ModeOf[pointer.plan] = mode'
  THEN \E v \in Recovery :
         /\ rec[v] = NoRecovery
         /\ recovery' = [rec EXCEPT ![v] = [pc |-> "capsule", run |-> pointer.run,
                                            plan |-> pointer.plan, cancelled |-> FALSE]]
  ELSE recovery' = rec

Cancelled(a) == IF a = NoRecovery THEN a ELSE [a EXCEPT !.cancelled = TRUE]

\* The mode, account or chain changes: one effect clears the session, the other
\* one cancels the recovery under way and starts another.  startFlow goes on.
Switch(m) ==
  /\ m # mode /\ switches < MaxSwitches
  /\ switches' = switches + 1
  /\ mode' = m
  /\ session' = 0
  /\ Effect([v \in Recovery |-> Cancelled(recovery[v])])
  /\ UNCHANGED <<heap, active, press, pointer, world, reloads>>

\* The page is reloaded, or crashes: only localStorage and the server survive.
Reload ==
  /\ reloads < MaxReloads
  /\ reloads' = reloads + 1
  /\ active' = 0 /\ press' = NoPress /\ session' = 0
  /\ UNCHANGED <<heap, pointer, mode, world, switches>>
  /\ Effect([v \in Recovery |-> NoRecovery])

EndRecovery(v) == recovery' = [recovery EXCEPT ![v] = NoRecovery]

CapsuleLoaded(v) ==
  /\ recovery[v].pc = "capsule"
  /\ IF recovery[v].cancelled THEN EndRecovery(v)
     ELSE recovery' = [recovery EXCEPT ![v].pc = "policy"]
  /\ UNCHANGED <<heap, active, press, session, pointer, mode, world, bounds>>

\* resume replaces the active run by a new object for the recovered one; unless
\* the effect was cancelled the session is restored and the run marked started.
Resumed(v, policy) ==
  LET a == recovery[v] IN
  /\ Len(heap) < MaxObjects
  /\ heap' = Append(heap, [NewObject(a.run, a.plan) EXCEPT
                             !.policy = policy, !.started = ~a.cancelled])
  /\ active' = Len(heap) + 1
  /\ session' = IF a.cancelled THEN session ELSE a.run
  /\ EndRecovery(v)
  /\ UNCHANGED <<press, pointer, mode, world, bounds>>

ResumePolicyRead(v) ==
  /\ recovery[v].pc = "policy"
  /\ \/ ~feeOn /\ Resumed(v, "off")
     \/ /\ feeOn
        /\ recovery' = [recovery EXCEPT ![v].pc = "server"]
        /\ UNCHANGED <<heap, active, press, session, pointer, mode, world, bounds>>

\* POST fee/resume: the server has the run's settlement.
ServerResumes(v) ==
  /\ recovery[v].pc = "server"
  /\ settledBy[recovery[v].run] # 0
  /\ Resumed(v, "on")

RecoveryFails(v) ==
  /\ recovery[v].pc # "idle"
  /\ EndRecovery(v)
  /\ UNCHANGED <<heap, active, press, session, pointer, mode, world, bounds>>

-----------------------------------------------------------------------------
(* Time *)

\* The quote expires; the settlement grace of a submitted fee passes.  Only what
\* a caller still holds matters.
TimePasses(i) ==
  /\ i \in {active, press.obj}
  /\ \/ heap[i].fee = "quoted" /\ heap' = [heap EXCEPT ![i].fee = "expired"]
     \/ /\ CanLapse
        /\ heap[i].fee = "submitted" /\ heap' = [heap EXCEPT ![i].fee = "lapsed"]
  /\ UNCHANGED <<active, press, recovery, session, pointer, mode, world, bounds>>

Next ==
  \/ \E p \in Plan : Press(p)
  \/ PolicyRead \/ Quoted \/ Pay \/ HashReturned \/ Settle \/ SettleAnswerLost
  \/ PressFails \/ SendStage \/ MarkStarted \/ Complete
  \/ \E m \in Mode : Switch(m)
  \/ Reload
  \/ \E v \in Recovery : \/ CapsuleLoaded(v) \/ ResumePolicyRead(v)
                         \/ ServerResumes(v) \/ RecoveryFails(v)
  \/ \E i \in 1..Len(heap) : TimePasses(i)

Spec == Init /\ [][Next]_vars

Pressing ==
  \/ PolicyRead \/ Quoted \/ Pay \/ HashReturned \/ Settle \/ SettleAnswerLost
  \/ PressFails \/ SendStage \/ MarkStarted

\* Every await returns, the user tries again, and a settlement request that is
\* tried again and again is served in the end.
FairSpec ==
  /\ Spec
  /\ WF_vars(Pressing)
  /\ \A p \in Plan : SF_vars(Press(p))
  /\ SF_vars(Settle)

-----------------------------------------------------------------------------
(* Properties *)

\* No protocol transaction without its fee: when fees are on, a run that sent its
\* first stage is settled on the server, by a transaction paid for that run,
\* whatever was retried, lost, resumed or cancelled before.
StartedRunPaid ==
  feeOn => \A r \in Run : starts[r] > 0 =>
    settledBy[r] # 0 /\ heap[payments[settledBy[r]]].run = r

\* A fee buys one protocol start ("another press represents another Agent run and
\* must never reuse the previous run's fee", client-fee-gate.ts:569): when fees
\* are on, no run starts twice, even one that was resumed after a reload.
FeeBuysOneStart == feeOn => \A r \in Run : starts[r] <= 1

\* A retry never charges again ("The next retry starts here and does not call the
\* wallet again", client-fee-gate.ts:905): one ActiveFeeRun object, one payment.
OneChargePerAttempt ==
  \A s, t \in 1..Len(payments) : payments[s] = payments[t] => s = t

\* What a page shows after a reload is real: the session it restores and the
\* pointer it restores from are of a run that sent its first stage, except while
\* startFlow is sending it.
SessionStarted ==
  /\ session # 0 => starts[session] > 0 \/ press.pc = "stage"
  /\ pointer # NoPointer => starts[pointer.run] > 0

\* The run of a paid fee is settled in the end, if the user presses on with the same plan
\* and the server answers: neither a lost answer nor a failed one blocks it.  It is given up
\* only with the run, with its mode, when its grace has passed, or for a recovered session.
PaidFeeSettles ==
  \A i \in 1..MaxObjects :
    (active = i /\ heap[i].fee = "submitted")
      ~> \/ active # i
         \/ settledBy[heap[i].run] # 0
         \/ heap[i].fee = "lapsed"
         \/ ModeOf[heap[i].plan] # mode
         \/ session # 0
=============================================================================
