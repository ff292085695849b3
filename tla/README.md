# CAREL: a TLA+ verification project

CAREL is a DeFi interface on Starknet driven by goals ("swap 5 STRK for USDC, then
shield it"). A goal becomes an **Agent plan**, a list of stages with dependencies; an
**Agent run** drives the stages one at a time, each signed by the user in the wallet.
Before its first stage a run pays the Agent's fee, which is quoted, paid on the chain
and settled in a durable store on the server. The page may be reloaded, another tool or
mode shown, the wallet's account changed, a server's answer lost at any moment; money
has already moved by then. These modules are about that: what is sent, paid and shown,
and in which order.

Line numbers refer to the repository at the commit this project stands beside;
`PROJECT.json` maps every definition to the lines it models.

## 1. Inventory

| Component | Source | State it keeps | Operations | Modules |
|---|---|---|---|---|
| Agent run state machine | `lib/agent/state-machine.ts` | a run: a status per stage | create, submit, confirm, fail, restore, validate a plan | `PlanGraph`, `PlanTraversal`, `AgentRun` |
| Agent executor | `lib/agent/executor.ts` | a session: run, verified outputs, fee authorization | create, execute, confirm, restore | `SwapFlow` (chains) |
| Durable fee store, fee routes | `lib/agent/server-fee-store.ts`, `app/api/agent/fee/*` | Redis keys: binding, claim, settlement | bindRun, persistSettlement, loadSettlement | `FeeStore`, `FeeLedger` |
| Client fee gate | `lib/agent/client-fee-gate.ts`, `client-fee.ts` | the active fee run | prepare, resume, markProtocolStarted | `FeeGate` |
| Fee quotes and receipts | `lib/agent/server-fee.ts` | none: signed values | sign, verify, match transfer events | as verdicts in `FeeStore` |
| Recovery capsules and pointers | `lib/agent/client-recovery.ts`, `server-recovery.ts` | localStorage: an active pointer per kind, a capsule per stage | seal, bind, save, supersede, load, clear | `SwapFlow`, `AgentFlows`, `FeeGate` |
| Swap controller | `components/swap/useSwapController.ts` | session, runtime ref, busy flags | startFlow, executeNextStage, confirmSubmitted, resetFlow, effects | `SwapFlow`, `FeeGate` |
| Borrow, staking, lending controllers | `components/{borrow,staking,lending}` | the same, and the reviewed market | as the swap controller, with a handler per stage in the borrow page | `AgentFlows` |
| Stage runtimes | `lib/agent/starknet-{swap,lend,staking,borrow}-runtime.ts` | snapshots of balances | execute and confirm each kind of stage | `SwapFlow`, `AgentFlows` |
| Garden bridge | `components/bridge/GardenBridge.tsx`, `lib/agent/garden-bridge-runtime.ts`, `lib/garden/{server,protocol}.ts` | saved orders and a draft in localStorage, the page's order and poll | quote, create, find again, follow, fund, refund, restore | `GardenBridge` |
| Wallet provider | `components/testnet/Strk20Testnet.tsx` | connection, busy, a ref per protocol, shown balances | 21 handlers, connect, disconnect, reveal, refresh | `WalletProvider` |
| Vesu routes and arithmetic | `lib/carel/ecosystems/starknet/protocols/vesu`, `app/api/vesu` | none | predict a pool, prepare borrow, repay, add, withdraw, close, lend, redeem | `VesuMath`, `VesuPosition` |
| Planners and router | `lib/agent/starknet-planner.ts`, ... | none | goal to plan | left out |
| Points | `lib/carel/points/model.ts` | none | points of an activity | left out |
| Views, styles, Canton demonstration | `components/**`, `canton/` | presentation | | left out |

How they interact: a controller asks the **fee gate** for an authorization; the gate
calls the **fee routes** and the **wallet**; the routes use the **store**. With an
authorization the controller makes a **session** and hands a stage to the **executor**,
which finds the **runtime** of the stage; the runtime reads a balance, has the server
seal a **recovery draft**, sends through the wallet, binds the draft to the transaction
and returns. The controller saves the **pointer**. Confirming goes the same way: receipt,
snapshot or capsule, balance, and the **state machine** unlocks the next stage. After a
reload or a change of view an effect looks for the pointer, loads the capsule, resumes
the fee and puts the stage back on the page as submitted. The bridge page does the same
with the orders it saved, and polls the server for the one it follows.

What is hard:

- every one of those steps is an `await` between which other callers run, the view
  changes and effects are cancelled; callers go on with the session, the runtime, the
  render's flags or the fee object they captured before, also after their page is gone;
- the page can die between sending a transaction and recording it;
- Redis offers SET NX and GET one at a time, and any request may die between two;
- answers are lost after their effect took place (a paid fee, a created order);
- a transaction can be accepted and yet have reverted; outputs are measured as balance
  differences, which deposits and other runs disturb;
- a lending pool moves between the prediction and the transaction, and rounds each
  amount in its own favour;
- plans are arbitrary graphs to the state machine, walked by recursive searches.

What makes each component correct: the *state machine* never lets a stage go before its
dependencies are final, loses none, and a restore invents nothing; the *store* gives a
fee to one execution and an answer it gave stays true; the *gate* never starts a
protocol unpaid, never uses a fee twice, never charges a retry; a *flow* sends a stage
only after its predecessor succeeded, never twice, and shows as done only what
succeeded; the *wallet provider* asks for a signature only for the account the call was
made for, and leaves nothing locked; a *Vesu* payload that passed its route is executed,
and a close leaves nothing; the *bridge* funds an order once, finds a lost one again and
shows how it ends.

## 2. The modules

**`PlanGraph`** defines a plan's dependency graph by its meaning: `Acyclic`, and
`TransitiveDependencies` as the least closed set. **`PlanTraversal`** models the two
depth-first searches of `state-machine.ts` step by step (an explicit stack for the
recursion, `visiting` and `visited` for the code's sets) on every list of stages,
duplicates and unknown dependencies included, and compares them with that meaning. Its
`SearchInit`, `SearchNext` and `SearchSpec` are named so that the proofs can speak of it
and of `AgentRun` together.

**`AgentRun`** is the state machine over any valid plan. Its `stages` is the run the
page holds; `sent`, `final` and `refunded` are what really happened outside, which a
reload does not undo. Submit, Confirm, Fail and Restore are the exported operations with
their guards and the trailing `unlockStages`; Confirm and Fail are called by runtimes
that observed the outcome, so their guards name it. **`OrderedExecution`** is the
abstract specification: stages are handed over in dependency order, and nothing else.

**`FeeStore`** has one action per Redis command of `bindRun`, `persistSettlement` and
`loadSettlement`, started by the three routes, for any number of requests, each of which
may die at any step. Signature and event checks appear as their verdicts: a settle needs
a quote that left the server and a transfer the chain shows (`Pays`). **`FeeLedger`** is
what the store promises: a run is settled at most once, by a transaction no other run has.

**`FeeGate`** is the coordinator with two callers of the swap page, `startFlow` and the
recovery effect, of which several may be alive. `heap` holds every `ActiveFeeRun` object
because `prepare` keeps a reference to the one it found while `active` moves on; `press`
and `recovery` name the await each caller is at. The server is what `FeeLedger` promises.

**`SwapFlow`** is one mount of the swap page, whole, for a plan that is a chain:
controller, executor, swap runtime, pointers and capsules, and the chain with its
balances. `call` is the call in flight with everything it captured (session, runtime,
balance, draft); `session` is what the page shows, which a change of mode or a recovery
may replace under the call. `snapshots` are the runtimes' in-memory records, `capsules`
those in localStorage. `Faults` selects which failures the environment shows. Of the fee
gate it keeps what the flow depends on: `gate` is the active run and whether it was marked
as started, which `StartFlow` may be given again, and `resuming` the cancelled recoveries
whose `resume` has not returned: when it does, their run is active and not marked
(`CancelledResumes`). `MarkThrows` is `markProtocolStarted` refusing a run that is no
longer active, after its transaction was sent. `FeeOn` is the server's policy: with fees
the server settles a run once, so one that was sent is not granted again; without, it is.
`reopened` is a history variable, the runs that a cancelled recovery made active. A runtime
keeps the wallet of its render, and `bought` is the balance which that wallet knew: a
shield looks at it (`Shields`), not at the present balance.

**`AgentFlows`** is the borrow, the staking and the lend page as the workspace shows
them, one at a time. `mount` counts the mounts: showing another tool unmounts the
controller, whose call in flight goes on detached and still writes to localStorage; so
`calls` has at most one call of each mount. What the controllers share is one action
(`FeeGranted`, `Broadcast`, `Executed`, ...); what they do not is an action of each: the
borrow page's own handlers for each stage and its review, the new runtime the lend page
makes for its second stage, `resetFlow`. The executors are records (`borrowExecutor`,
`shieldLend`, ...) that say which ref they take, what they watch, what they move and whether
the end of the wallet's wait confirms them (`settled`: the borrow page's shield, whose
status is that of `submit`). A transaction remembers the runtime that sent it, which is that
runtime's snapshot. The fee gate is as in `SwapFlow`, one for each mount (`gates`), which a
detached call goes on using, and so are `resuming`, `reopened` and `MarkThrows`. The
bounds are a set of sizes: a behaviour stays within one of them (`Within`).

**`WalletProvider`** is the provider under all of them: the account the wallet has
selected, the connections made, `busy`, the refs, and the calls. A handler is called
from a render, so a call captures the connection, `busy` and the disclosure at `Capture`
and reads the refs when it runs. What a handler does is its `Profile`, a record: the ref
and whether it is taken before the first await, the networks, whether a preparation
expires, how often the session is checked, how the wait for the transaction ends, what
is cleared and read again. All 21 handlers have one; `Request`, `Lock`, `FirstCheck`,
`LastCheck`, `Signed`, `Waited`, `Returns` and `Throws` are the steps between awaits.

**`VesuMath`** is the fixed point arithmetic by which the routes predict a pool,
**`VesuPosition`** one account's position and deposit in one pool. A dialog asks a route
to prepare a payload (`Prepare...`, with every check of the route, in the code's
rounding), the user reviews and signs it, and the calls are executed later as one
transaction by the pool's rules (`Run`), which round in the pool's favour; in between
interest accrues, the prices of both assets move, the pool is paused or a price gets invalid
and back (`live`, `PoolTurns`), others take a unit of liquidity and other dialogs go first.
A deposit needs room in the vault (`VaultRoom`), which `max_deposit` tells the route.
A transaction is the calls of a payload one after the other, all or none (`Then`).

**`GardenBridge`** is the bridge page, the Agent runtime of its one stage, CAREL's server
and Garden. `saved` and `draft` are localStorage; `page` is the mounted page with its
poll; a call of a page that is gone goes on detached, and what the server or the wallet
was asked goes on even after a reload (`Left`). `lost` and `forgotten` are history
variables: the order a retry must find, and the orders whose row was dropped or made anew
after a funding attempt.

The modules meet at their promises. `FeeGate` uses `FeeLedger`'s, which `FeeStore` is
proved to implement. The flows take for granted that a start the gate grants is paid for, and
keep of the gate which run it holds; a handler of the wallet provider is one await of theirs
that sends for the right account. `SwapFlow`, `AgentFlows` and `AgentRun` are separate views of a run:
`AgentRun` any graph with runtimes that observe what happened, the flows chains with the
real ones. `SwapFlow` does *not* implement `AgentRun`, whose Confirm requires success:
see the private stage under "Observations".

## 3. The runs

Every bound is a constant in the `.cfg`. Deadlock is not checked where bounds end
behaviours or a run may be complete; it is checked for `FeeStore`, whose server always
accepts another request.

| Run | States | What it checks |
|---|---|---|
| `agent_run` | 2,767 | all 50 valid plans on three stages, ready or blocked: dependencies before stages, nothing locked for ever, never "waiting", nothing fabricated by restores, and the refinement of `OrderedExecution` |
| `plan_traversal` | 96,867 | both searches on every list of up to three stages over three ids give what `PlanGraph` defines, and end |
| `fee_store` | 125,050 | two concurrent requests, two runs, executions and transactions, one receipt older than the store, one death: one fee one execution, answers stay true, the refinement of `FeeLedger`, and a claimed fee is settled in the end |
| `fee_gate` | 350,926 | two plans in a mode each, two overlapping recoveries, two changes of mode, a reload, settlements that lapse: no unpaid start, no fee used twice, no second charge of an attempt, and a paid fee settles |
| `swap_flow` | 2,746,987 | the three kinds of plan without a fee policy, two runs, three transactions, four changes of mode, a reload at any await, recoveries that are cancelled in the middle, a mark that throws, refusals, failures of the recovery server and reverts |
| `swap_flow_recovery` | 3,866 | a stored stage of a plan that ends in a shield gets on after up to two reloads, with a payment from outside and a wallet's wait that gives up (liveness) |
| `swap_flow_twice` | violation | finding 1 |
| `wallet` | 659,550 | two calls of nine handlers, an account on each network, two connections, and reads of the balances between |
| `vesu_position` | 2,529,535 | an account with and without a position, every operation, two dialogs open, two transactions, interest, and the price of either asset, the pool's state or the liquidity that moves |
| `agent_flows` | 2,420,221 | three tools and three modes without a fee policy, up to two runs, three transactions, three changes of view or reloads, a deposit or a withdrawal from outside, cancelled recoveries and detached calls going on |
| `garden_bridge` | 1,061,355 | an order, two funding transactions, and a change of tool or mode or a reload at any await; lost answers; detached calls |
| `garden_funded_twice` | violation | finding 2 |

Why the bounds are enough for the cases to happen:

- `agent_run`: three stages have every shape that matters: chain, fork, join,
  independent; unlocking looks at direct dependencies, restoring at paths of length two.
- `fee_store`: a conflict in the store involves two requests and two values of one key,
  or one transaction and two runs.
- `swap_flow`: two runs and three transactions let one run supersede another, an orphaned
  transaction land late and raise the balance another run watches, and a stage be sent
  again; four changes of mode let one recovery be cancelled while it resumes its run, the
  run be pressed again, and another recovery finish late, after the call in flight has
  moved on. Without the exception for reopened runs `PageSendsOnce` fails at this size. The
  run is of a disabled fee policy, which allows more; with fees it was explored as well
  (1,851,159 states), where the exception is void.
- `agent_flows`: a detached call beside a mounted one needs one change of view; a run that
  a cancelled recovery leaves active and that is started again needs three and two
  transactions; the move of the balances makes a verification wrong. No size is the
  largest in everything, since the product of all is out of reach. Explored with fees too
  (2,381,257 states).
- `wallet`: any race over a ref or a flag involves two calls; the nine handlers have one
  of each kind of profile, two of them on one ref.
- `vesu_position`: `Scale` = 8 and rates of 9 and 11 make every division round. The
  position, the pool and the amounts of 1, 4 and 8 are near every limit: the floor, the
  loan to value, the reserves, both utilizations, the debt cap, the vault's cap, the wallet,
  the buffer of a close; a debt unit is worth seven or four eighths, so that its value rounds
  and falls to the floor. Each named case of `Excused` was left out in turn and
  `PreparedHolds` then fails, but for these: the reserve of a close and the liquidity others
  take before a borrow, which the utilization implies while its limit is below 1; the
  interest before a withdrawal; and the wallet of a close, which takes `VaultCap` = 19.
- `garden_bridge`: one order, funded twice, is what its property is about. The safety
  properties were also explored with two changes of view (5.7 million states); an order
  in the other direction is never funded by the page, so one kind of review is enough.
  `Keep` = 30 is the code's and is never reached; see "Observations".

Properties worth a word:

- `PageSendsOnce`: a slow recovery can put an older stage back on the page after the
  next one was sent. It can then be confirmed by nobody only because `saveActive...`
  removed its capsule; the mutant that keeps it sends the next stage twice. Its exception
  is exact: only without a fee policy, and only a run that a cancelled recovery made active.
- `StageAfterSuccess`: restores, payments from outside, reverted transactions and
  detached calls together cannot get a stage sent before the one before it succeeded.
- `RepeatedOnlyElsewhere`: what can be sent twice, by finding 1, is a second stage by
  another mount; never the first, which the fee buys, and never by one mount. Its exception
  is that of `PageSendsOnce`. The first stage of a run is known to the gate, to sessions,
  recoveries, pointers and detached calls of several mounts, and any of them could repeat it.
- `PublicDoneSucceeded`, `DoneSucceeded`: what the page shows as done has succeeded, except
  for a shield that the wallet's wait confirms, which may have reverted.
- `RecoverableAdvances`: a stage whose pointer and capsule are stored gets on. It gives up a
  stage that reverted, and a page whose next stage is a shield that it refuses at every
  press because its wallet was captured with too low a balance (`ShieldBlocked`): the page
  has no way out of that but a reload or another mode.
- `FeeBuysOneStart`, `StartedRunPaid`: a resumed run is not started twice, and never
  unpaid, although `resume` may replace the active run under `prepare`.
- `AnswersAgree`: no two "settled" answers share a transaction or a run.
- `RefHeldOnce`, `NothingLeftSet`: `busy` is captured by renders, so only the refs
  exclude two calls; a ref is cleared by each `finally`, so one that two calls hold would
  be cleared under one of them.
- `PreparedHolds`: whatever the rounding, the pool accepts what a route prepared, unless
  one of the named things happened that the route cannot know or does not look at. A price
  that falls excuses a repayment only if it is the debt's, and interest alone none of
  borrow, repay, add, close (within its buffer) and lend.
- `RetryFindsOrder`: the server never creates a second order for the request last
  drafted after the answer to the first was lost.

**Fairness.** `FeeStore`: weak on serving a request, strong on the client's retry of the
same claim: the coordinator offers the submitted fee again at every press. `FeeGate`:
weak on every await (HTTP calls and wallet requests return or fail), strong on pressing
and on a settlement that succeeds, since each failure returns to the button. `SwapFlow`:
weak on the page's own steps and on the button it offers, on the recovery effect, and on
the chain deciding each transaction. `PlanTraversal` (`SearchSpec`): weak on the next
step of a sequential program. `GardenBridge`: weak on the poll, a timer of seven seconds whose
requests are answered or abort; nothing is assumed of Garden, the chain or the user. The
liveness properties of the fee and of the swap are conditional on the user going on,
which is what the interface asks for. `WalletProvider`, `AgentFlows` and `VesuPosition`
have no liveness: a wallet may leave a request unanswered for ever.

### Findings

1. `swap_flow_twice`: the transaction is recorded only after the wallet has waited for
   it, up to two minutes; a reload in that time restores the previous stage, which
   verifies while the new transaction is pending, and the stage is sent again. The comment
   at `starknet-swap-runtime.ts:931` says that recording prevents just that.
2. `garden_funded_twice`: when a created order is found again, `createOrder` replaces its
   row, which may already record a funding attempt, by one that does not; the page then
   funds the order again without asking the user to check the wallet
   (`GardenBridge.tsx:921`, against `:1230` and `GARDEN_TESTNET.md:71`).

### Observations

Behaviours of the code the models have, which contradict no line of it:

- Pressing another plan drops a paid fee that is not settled yet; the first plan, pressed
  again, is a new attempt and is charged. A recovery cancelled while its fee is resumed
  (`useSwapController.ts:575`, `useStakingController.ts:793`) leaves a started run active and
  unmarked: the next press of the plan is given the run again. With fees it may pay for it
  again, and the server refuses to settle it by a second transaction; without, the first
  stage is sent a second time.
- The private `submit` of the wallet provider takes an accepted transaction for a
  successful one (`Strk20Testnet.tsx:339`, `:1167`), so a private stage that reverted is shown
  as done, the shield of a swap and that of a borrow (`starknet-borrow-runtime.ts:1209`);
  that is why `PublicDoneSucceeded` and `DoneSucceeded` leave them out. A private stake or
  lend waits for the receipt and is not left out.
- `executeShieldAsset` compares the amount with the balances of the render it was captured
  in (`Strk20Testnet.tsx:1332`), and a runtime keeps the wallet of the press that started
  it, before the swap (`useSwapController.ts:970`): a shield after a swap that raised the
  balance from too little is refused as often as it is pressed, though the page says that
  it is unlocked. After a reload the recovered runtime has read no balance, and it is sent.
- After the quick shield and unshield and `executeShieldSwap` the disclosed private
  balances stay as they were, and an old refresh may show the balances of an account that
  is not connected any more (compare `SECURITY.md:104`).
- A recovery that ends while `startFlow` awaits makes `markProtocolStarted` throw after
  the stage was sent (`client-fee-gate.ts:1410`), and the flow is then cleared without a
  pointer, its capsule left behind that nothing names (`MarkThrows`); a reverted stage
  locks the flow with no way out but another mode. A capsule of a shield stage that the
  wallet's answer settled stays in localStorage.
- Completing a run clears the pointer of its tool and saving one supersedes it, also when
  it is another run's. A staking withdrawal between a stake and its confirmation makes
  the stake unverifiable.
- A normal borrow pressed after a completed one and failing late leaves the page with a
  session it does not offer to end (`useBorrowController.ts:1762`, `:2208`).
- `NotLookedAt` and `Excused` name what the Vesu routes do not look at. A borrow is
  evaluated on the new amounts alone, without the position they join and the floor; at the
  debt cap or the utilization limit it passes by the interest its rounded shares add
  (`AtLimit`). A repayment is not compared with the floor of the collateral's value, a top-up
  with neither floor, a withdrawal not with that of the debt, a close not with the reserve
  and the utilization of the collateral. A debt asset that falls in price after the review
  leaves a repayment's debt below the floor (`repay/prepare/route.ts:282`). Interest can
  outgrow a close's buffer (`Outgrown`) or make a redemption signed earlier worth more than
  the reserve. A pool that is paused, or a price that is not valid any more, refuses
  everything. The funds stay where they were in each: the pool reverts.
- The bridge page's draft is one per account, and any order that reaches the page drops
  it; a funding drops the row's Agent run (`GardenBridge.tsx:1237`); a run is marked
  failed when its order is expired, and stays so when it is delivered later; a change of
  mode clears the session and only opening the order again restores it. Activity keeps
  thirty rows: an order whose row another pushed out is funded again when it is opened
  from Garden's list, which is why `forgotten` counts the rows dropped as well.

## 4. The proofs

TLAPS proves the following for every value of the constants: any number of stages, runs,
requests, plans, handlers, accounts, mounts, transactions and reloads, any pool, position,
price and amount (15,335 obligations). Each module proves an inductive invariant
(`StateMachineProofs` one for each of its two models), three of them more on top of it,
and derives the theorems. Every invariant and every action property of the passing runs is
stated by one of them.

**`StateMachineProofs`** is about both models of `state-machine.ts`.

Of `PlanTraversal`: `ValidationExact`, `VisitedAreSettled`, `CollectionExact`. The two
searches are followed frame by frame, for every plan. "Acyclic" is used in the form that
needs no paths: every nonempty set of stages has a member that depends on no other of it.
The stages visited are closed under dependencies and acyclic, and stay so when a frame
returns, since all that the frame's stage depends on is visited; so a plan that is accepted
is acyclic. A plan rejected in the search is not: the frames from the repeated stage to the
top each depend on the next. A plan rejected before it has a repeated id, an unknown
dependency or a dependency on itself. The stages collected are closed and each was reached
from the first, so they are the least closed set.

Of `AgentRun`, from `StageAssumption` (the stages are a finite nonempty set):
`TypeCorrect`, `DependenciesFirst`, `NothingStaysLocked`, `RestoreFabricatesNothing`,
`RunNeverWaiting`, `RunImplementsOrder`. The invariants are not inductive alone: a restore calls every
transitive dependency of the restored stage confirmed, which is true only if they are
final. `SentInOrder`, what was sent has all its dependencies final, closes the gap: the
final stages are then closed under dependencies around anything sent, and the least
closed set lies inside (`TransitiveLeast`). `NothingStaysLocked` needs only that whatever
confirms or restores ends in `unlockStages`. `RunNeverWaiting` uses acyclicity: in a
ready plan the unconfirmed stages have a member that depends on none of them, and it
cannot be locked.

`SearchesServeRuns` joins the two: `AgentRun` takes its plan and what a restore collects
from `PlanGraph`, and the searches are proved to deliver both, so what is proved of a run
holds of the code that searches.

**`FeeStoreProofs`**, from `FeeStoreAssumption` (the sentinels are not values):
`TypeCorrect`, `StoreBacked`, `OneFeeOneExecution`, `AnswersStayDurable`,
`NothingSettledUnpaid`, `StoreImplementsLedger`. Keys are written once, so what a request
has learnt at one await is still true at the next (`KeysKept`); the inductive invariant
says what each request has learnt by the step it is at (`HasBinding`, `HasClaim`,
`SawSettlement`), and each Redis command is shown to keep it. `OneFeeOneExecution` then
follows without induction: an answer is a stored settlement, and settlements agree with
claims.

**`FeeGateProofs`**: `NoStartUnpaid`, `NoFeeUsedTwice`, `NoSecondCharge`,
`RestoredIsReal`. Its invariant says of every object, press and recovery what it knows
of its run at its await: a fee that is submitted was paid, one that is settled is
settled on the server, the object of a started run is marked or not the active one
(`StartedLeft`), and an object that was paid knows it or is out of the coordinator's
reach (`PaidLeft`). None of it rests on run ids being fresh.

**`WalletProviderProofs`**: `SignsForItsAccount`, `RefsExclusive`, `RefsReleased`. A ref
is taken before the first await by all the handlers that use it or by none; an early ref
is set from its call's `Request` to that call's end, since only a holder clears it
(`EarlyRefsSet`, `LocksHeld`), and `busy` and the refs come from calls under way
(`BusyHeld`). The session check and the wallet's request are one step, which is what
`AsksConnectedAccount` needs.

**`SwapFlowProofs`** and **`AgentFlowsProofs`**: `TypeCorrect`, `StagesInOrder`,
`DoneHasSucceeded` in each. `StageAfterSuccess` is not inductive: the page may have put
back any stage that a capsule, a pointer, a recovery or a call in flight still knows. The
invariant says of all of them the same (`Sound`): the stage belongs to a run, a
transaction of each stage before it has succeeded, and its transaction, if it has one, is
of that stage. Runs and transactions are only added and a success is never undone, so
soundness survives every step that leaves it alone (`SoundKept`, and in `AgentFlows` the
lemma `Step`, which says what a step owes); each action then only has to account for what
it writes. A confirmation makes the next stage sound because the receipt was read as
succeeded, whatever the balances show; only the last stage of a plan is of those that the
wallet's wait confirms, so nothing is sent on its word. In `SwapFlow` a refused start takes
its run back if it was not sent, which is sound because nothing but the gate and the call
refers to it (`Starts`).

In `SwapFlowProofs`, `SendsOnce` rests on a second invariant, `Once`. What can put an
older stage back is a capsule, a pointer or a recovery. A capsule is kept only while the pointer names
it or at the end of its plan (`CapsulesPointed`). While a stage executes, an earlier one on
the page is a late recovery, whose new runtime knows no transaction
(`StaleWhileExecuting`); once the call has returned, nothing of an earlier stage can be
verified any more and the stage is not shown for review (`SentBehind`), so no second press
reaches the wallet. A throwing mark leaves a capsule that the pointer does not name, but
then of a run that nothing knows any more, and that nothing will know again (`Abandoned`).
A third invariant, `Reuse`, says what the gate may give a second time: a run that was sent
is active and unmarked only if a cancelled recovery made it so or its first stage is being
sent (`GateKnown`, `CallReopened`), and while that is sent nothing else knows the run
(`FirstOwn`). With fees the server's settlement closes the exception.

In `AgentFlowsProofs`, `RepeatsElsewhere` rests on a second invariant, `Once`. A run whose
first stage may still be sent, because the mount's gate would give it or a call executes it,
and that no cancelled recovery made active again (`Owned`), is known to nothing else
(`FirstOwned`, `Unused`): so it is sent once by all mounts. What was resumed had been sent,
and with fees is not started again (`Reopenings`). A second stage
is sent when the page shows it for review; once a mount has sent it and the call returned,
no capsule of the first stage is left (`Pointed`, but one that a throwing mark left behind and
nothing can name: `Abandoned`), a session or a call that still shows it
has a runtime that did not send it, so it cannot be verified, and the second is not for
review (`SecondPast`, `NotYet`). That a first stage on the staking and lend pages is for
review only under its call (`FirstBusy`) is what keeps `executeNextStage` from sending it.

**`GardenBridgeProofs`**: `RetryFinds`, `NotFundedTwice`. For the first: the order a retry must find has the nonce of the
draft, and the draft is of its review (`LostIsDrafted`): a new draft of the same review
keeps the nonce, one of another review forgets the order, and only an order that reaches a
page drops the draft. A call goes on to create an order only when Garden lists none with
its nonce (`OnlyNotListed`), which needs the calls in flight told apart by their ids. That
Garden lists all the account's orders is the model's assumption: the server reads one page
of 50 (`lib/garden/server.ts`).

`NotFundedTwice` holds whatever number of rows Activity keeps (`Keep`), with a second
invariant, `JInv`. Of every order that is not forgotten it says (`Funding`): a live
transaction or a call that is claiming it means that its row is marked as attempted; there
is at most one of each; the row of an order being claimed has no transaction; the only
live transaction is the one its claim sent or its row names. The rest of `JInv` carries
this through the awaits: the poll's copy of a row has the transaction the row has
(`PollRow`), an order that a call prepares has no live transaction and no claim (`Prep`),
and a ticked box stands for such an order or for one that a call under way is funding
(`Ticked`). That the user ticks the box truthfully is the model's assumption. The rows are a sequence that
every write cuts to `Keep`; `RememberFacts` says what a write keeps and `LoadedFacts` what
reading Garden's list does, which is a recursion over the list: if it failed at some length
it would fail at a least one (`Least`).

**`VesuPositionProofs`**: `NothingLeftApproved`, `PayloadsExecute`, `CloseLeavesNothing`,
from `VesuMathAssumption` (the scales are positive), `PoolAssumption` (rates are positive and
do not fall, prices are positive, limits are numbers) and `ChainsAssumption` (at first others
have a share of the pool and of the vault, and nothing is approved). All
the arithmetic is of variables, which the solver does not do by itself: the lemmas on
division (`DivGreatest`, `UpLeast`, ...) reduce each comparison of two quotients to one of
products. The invariant has three parts.

- `Settled`: the pool is sound and nothing is approved between transactions. A call moves
  shares and assets in a proportion rounded against the caller (`CollateralFair`,
  `DebtFair`), so a pool of which others keep a share keeps collateral, and the vault is not
  poorer for a borrow or a repayment: no total that is divided by becomes zero. A
  transaction spends what it approved to the unit (`SpendsApproval`); the one that approves
  more, a close, ends with the reset.
- `Payloads`: a payload is made of what its route let pass (`MadeFor`), and of the world it
  saw it knows what can be relied on later. A withdrawal and a redemption know only the
  present one (`Current`). A borrow knows that the reserve covers it until others move the
  pool, and a close the shares and the debt it takes until a transaction of the account. A
  repayment knows that it leaves more than the floor at the rate and the debt price of its
  review, which is then so at any later rate, as debt only grows (`RepayBelow`), and at any
  higher price. A deposit knows that the vault has room, also when the vault holds more: the
  shares it makes do not grow with that (`RoomKept`, `PoolMoved`).
- `Types`: the clock is within the rates, the counters and prices are numbers.

`PayloadsExecute` then has a lemma for each kind of payload (`BorrowHolds`, ...) that
compares the route's divisions with the pool's: a withdrawal's collateral and loan to value
are rounded by the route exactly as the pool does, and strictly within the limits; a
repayment that leaves more than the floor in the route's rounding leaves more in the pool's;
the approval of a close covers the debt rounded up while interest is within the buffer
(`CapCovers`). `CloseLeavesNothing` needs no arithmetic but the native denomination, in
which shares and nominal debt do not move with the rate.

Only model-checked: liveness (`SearchEnds`, `ClaimCompletes`, `PaidFeeSettles`,
`RecoverableAdvances`, `OrderFollowed`). Neither fairness nor ENABLED can be reasoned about
with the provers used here. Nor can the library's induction theorems, whose parameter is
an operator: recursion over a number is argued from a least counterexample instead, and no
proof here needs induction over a structure. The two runs that expect a violation state
nothing that holds.

## 5. What is abstracted and what is not modelled

- Signatures, canonical forms, JSON and formats, calldata and its validation: their
  verdicts are inputs of the models. So fee quotes and receipts are not a module.
- Amounts are small integers; decimals, slippage and gas are left out of the flows.
- The pool and the vault are known from what the routes predict of them: that a paused pool,
  or one with a price that is not valid, refuses everything, and that `max_deposit` is a cap
  on the vault's shares.
- The expiry of Redis keys and of localStorage quotas; the cached "recovery enabled" flag
  (a fault covers both of its values).
- In the flows there is one account and one chain: a change of either clears the session
  as a change of mode does, and calls refuse to go on under another account, which is
  `WalletProvider`'s part.
- The atomic fee pair (`prepareAtomic`, `settleAtomic`), which no controller calls.
- Of Garden: owner changes, the catalog, amounts, address parsing and rate limits.
- Forms, market lists, previews and positions shown; AVNU and Endur adapters, which are
  HTTP with validation.
- The planners turn a text into a plan of one or two stages and points are a table of
  products: neither has state, and their functions restate their own definition. Views,
  styles and the Canton demonstration have no logic of this kind.
- Plans that are no chains, in the executor: no planner makes one, and `AgentRun` has
  the state machine's part of them.
