----------------------------- MODULE GardenBridge -----------------------------
(***************************************************************************)
(* The Garden bridge: the page that creates, follows and funds orders      *)
(* (components/bridge/GardenBridge.tsx), the Agent runtime of its one      *)
(* stage (lib/agent/garden-bridge-runtime.ts), CAREL's server in front of  *)
(* Garden (lib/garden/server.ts), and Garden, the wallet and the two       *)
(* chains as their environment.                                            *)
(*                                                                         *)
(* The page is mounted as the Bridge tool or in Activity.  Its calls go on *)
(* detached when it is unmounted; a reload ends them, but not what the     *)
(* server or the wallet was already asked.  localStorage keeps a row for   *)
(* each order and the draft of the last request.                           *)
(*                                                                         *)
(* A review stands for all a request is made of: direction, asset, amount, *)
(* addresses and the amount to receive (the draft's fingerprint).  One     *)
(* account; localStorage does not fail; the orders fit Garden's page of 50.*)
(***************************************************************************)
EXTENDS Integers, Sequences, FiniteSets, SequencesExt

CONSTANTS
  Review, ToBitcoin,    \* the reviewed requests; those that start on Starknet
  Keep,                 \* how many rows localStorage keeps
  MaxOrders, MaxTxs, MaxViews               \* bounds

ASSUME GardenBridgeAssumption ==
  /\ ToBitcoin \subseteq Review
  /\ Keep \in Nat \ {0} /\ {MaxOrders, MaxTxs, MaxViews} \subseteq Nat

VARIABLES
  orders,       \* Garden's orders, in the order they were created
  txs,          \* the funding transactions the wallet sent
  saved, draft, \* localStorage
  page,         \* the mounted page
  calls,        \* the calls in flight: at most one of each mount
  lost,         \* history: for a review, the order it would find again
  forgotten     \* history: orders whose row was made anew or dropped after an attempt

vars == <<orders, txs, saved, draft, page, calls, lost, forgotten>>

None == "none"
NoDraft == [review |-> None, nonce |-> 0]
NoSession == [order |-> 0, status |-> None]
NoRow == [order |-> 0, tx |-> 0, attempted |-> FALSE, agent |-> FALSE]
Idle == [at |-> "idle", row |-> NoRow]

-----------------------------------------------------------------------------
(* Garden *)

\* What Garden says of an order: its deposit, its delivery and its refund; late, if its
\* hour passed without a deposit; dead, if Garden calls it expired and it is neither
\* delivered nor refunded.
NewOrder(r, n) ==
  [review |-> r, nonce |-> n, deposited |-> FALSE, delivery |-> None, refund |-> None,
   late |-> FALSE, dead |-> FALSE]

\* parseOrder: the state of an order, its refund first, its deposit last.  The states
\* between deposit and delivery, which the page tells apart in words only, are one.
ParseState(o) ==
  IF o.refund # None THEN IF o.refund = "mined" THEN "refunded" ELSE "refunding"
  ELSE IF o.delivery # None THEN IF o.delivery = "mined" THEN "completed" ELSE "settling"
  ELSE IF o.dead THEN "expired"
  ELSE IF o.deposited THEN "exchanging"
  ELSE IF o.late THEN "expired" ELSE "awaiting-deposit"

StateOf(o) == ParseState(orders[o])
ToBitcoinOrder(o) == orders[o].review \in ToBitcoin
Refundable(o) == o.deposited /\ o.refund = None /\ o.delivery = None

\* An order's raw fields move: its hour and its life end, the deposit is seen, it is
\* delivered or refunded.
Moves(o) ==
  LET r == orders[o]
      Becomes(new) == orders' = [orders EXCEPT ![o] = new]
  IN
  \/ ~r.late /\ ~r.deposited /\ Becomes([r EXCEPT !.late = TRUE])
  \/ ~r.dead /\ r.delivery = None /\ r.refund = None /\ Becomes([r EXCEPT !.dead = TRUE])
  \/ /\ ~r.deposited
     /\ ToBitcoinOrder(o) => \E t \in 1..Len(txs) : txs[t] = [order |-> o, state |-> "accepted"]
     /\ Becomes([r EXCEPT !.deposited = TRUE, !.late = FALSE])
  \/ Refundable(r) /\ ~r.dead /\ Becomes([r EXCEPT !.delivery = "sent"])
  \/ r.delivery = "sent" /\ Becomes([r EXCEPT !.delivery = "mined"])
  \/ Refundable(r) /\ Becomes([r EXCEPT !.refund = "sent", !.dead = FALSE])
  \/ r.refund = "sent" /\ Becomes([r EXCEPT !.refund = "mined"])

GardenMoves == /\ \E o \in 1..Len(orders) : Moves(o)
               /\ UNCHANGED <<txs, saved, draft, page, calls, lost, forgotten>>

\* The chain accepts or reverts a funding transaction.
ChainDecides ==
  /\ \E t \in 1..Len(txs), s \in {"accepted", "reverted"} :
       txs[t].state = "pending" /\ txs' = [txs EXCEPT ![t].state = s]
  /\ UNCHANGED <<orders, saved, draft, page, calls, lost, forgotten>>

-----------------------------------------------------------------------------
(* localStorage and the page *)

\* The place of an order's row, or 0.  An order has one row at most.
PlaceIn(rows, o) == SelectInSeq(rows, LAMBDA x : x.order = o)
RowIn(rows, o) == IF PlaceIn(rows, o) = 0 THEN NoRow ELSE rows[PlaceIn(rows, o)]
RowOf(o) == RowIn(saved, o)

\* remember: the row first, the rows of other orders after it, the oldest dropped.
Remember(rows, row) ==
  LET at == PlaceIn(rows, row.order)
      all == <<row>> \o (IF at = 0 THEN rows ELSE RemoveAt(rows, at))
  IN SubSeq(all, 1, IF Len(all) < Keep THEN Len(all) ELSE Keep)

\* The orders whose row knew of an attempt and knows no more.
Forgets == {o \in 1..Len(orders) : RowOf(o).attempted /\ ~RowIn(saved', o).attempted}

\* The page mounted by the n-th change of the view, or at first.
FreshPage(n, activity, mode) ==
  [mount |-> n + 1, views |-> n, activity |-> activity, mode |-> mode, quote |-> None, active |-> 0,
   shown |-> None, ticked |-> FALSE, poll |-> Idle, session |-> NoSession]

\* The poll effect starts again: for another order, or by a refresh.
Follow(p, o) == [p EXCEPT !.active = o, !.shown = None, !.ticked = FALSE, !.poll = Idle]

Current(c) == c.mount = page.mount
AtWallet == {c \in calls : c.mount # 0 /\ c.pc \in {"fee", "wallet", "asked", "sent"}}
Working == (\E c \in calls : Current(c)) \/ AtWallet # {}

\* Call(...) is a call of the page.  Left(c) is what the server or the wallet still does
\* of one whose page is gone or has given it up: no mount.
Call(pc, r, o) == [id |-> CHOOSE n \in 1..2 : \A d \in calls : d.id # n,
                   pc |-> pc, mount |-> page.mount, review |-> r, order |-> o, nonce |-> 0]
Left(c) == [c EXCEPT !.mount = 0]
Room == Cardinality(calls) < 2
Goes(c, d) == calls' = (calls \ {c}) \cup {d}
Ends(c) == calls' = calls \ {c}
Answers(c, d) == IF c.mount = 0 THEN Ends(c) ELSE Goes(c, d)

\* clearBridgeAgent in the mount of the call.
Cleared(c) == IF Current(c) THEN [page EXCEPT !.session = NoSession] ELSE page

Init ==
  /\ orders = <<>> /\ txs = <<>> /\ saved = <<>> /\ draft = NoDraft
  /\ page = FreshPage(0, FALSE, "normal")
  /\ calls = {}
  /\ lost = [r \in Review |-> 0]
  /\ forgotten = {}

\* The workspace shows the page anew: the Bridge tool or Activity.
Show ==
  /\ page.views < MaxViews
  /\ \E activity \in BOOLEAN : page' = FreshPage(page.views + 1, activity, page.mode)
  /\ UNCHANGED <<orders, txs, saved, draft, calls, lost, forgotten>>

\* The browser reloads: no call is answered any more.
Reload ==
  /\ page.views < MaxViews
  /\ page' = FreshPage(page.views + 1, FALSE, "normal")
  /\ calls' = {IF c.mount = 0 THEN c ELSE Left(c) : c \in {d \in calls : d.pc \in {"list", "post", "asked", "refund"}}}
  /\ UNCHANGED <<orders, txs, saved, draft, lost, forgotten>>

\* The effect of a change of mode.
SetMode ==
  /\ page.views < MaxViews
  /\ page' = [page EXCEPT !.views = @ + 1, !.mode = IF @ = "normal" THEN "shield" ELSE "normal",
                          !.quote = None, !.session = NoSession]
  /\ UNCHANGED <<orders, txs, saved, draft, calls, lost, forgotten>>

\* An order Garden lists is remembered, with what its row says.
Listed(rows, o) == Remember(rows, [RowIn(rows, o) EXCEPT !.order = o])

\* The rows when k of the orders Garden lists are remembered, the newest first.
Loaded[k \in 0..Len(orders)] ==
  IF k = 0 THEN saved ELSE Listed(Loaded[k - 1], Len(orders) + 1 - k)

\* The history effect of Activity: every order Garden lists is remembered.
LoadHistory ==
  /\ page.activity
  /\ saved' = Loaded[Len(orders)]
  /\ forgotten' = forgotten \cup Forgets
  /\ UNCHANGED <<orders, txs, draft, page, calls, lost>>

-----------------------------------------------------------------------------
(* Quotes *)

\* A quote is shown; one the page no longer waits for changes nothing.
LoadQuote(r) ==
  /\ ~Working /\ page.mode = "normal" /\ ~page.activity /\ page.active = 0 /\ page.quote = None
  /\ page' = [page EXCEPT !.quote = r]
  /\ UNCHANGED <<orders, txs, saved, draft, calls, lost, forgotten>>

\* An input changes, or the quote is too old to be used.
Invalidate ==
  /\ page.quote # None /\ ~Working
  /\ page' = [page EXCEPT !.quote = None]
  /\ UNCHANGED <<orders, txs, saved, draft, calls, lost, forgotten>>

-----------------------------------------------------------------------------
(* Creating an order *)

Create ==
  /\ ~Working /\ Room /\ page.mode = "normal" /\ ~page.activity /\ page.active = 0 /\ page.quote # None
  /\ calls' = calls \cup {Call("fee", page.quote, 0)}
  /\ UNCHANGED <<orders, txs, saved, draft, page, lost, forgotten>>

\* A nonce nobody has.
FreshNonce ==
  CHOOSE n \in 1..(MaxOrders + MaxViews + 2) :
    n # draft.nonce /\ \A c \in calls : n # c.nonce /\ \A o \in 1..Len(orders) : n # orders[o].nonce

\* Mutant: the draft of the last request is not looked at.
NonceFor_Fresh(r) == FreshNonce

\* The nonce of a request: the draft's, if it is the same request.
NonceFor(r) == IF draft.review = r THEN draft.nonce ELSE FreshNonce

\* The fee is paid: createOrder drafts the request and posts it.
Post(c) ==
  /\ c.pc = "fee"
  /\ LET n == NonceFor(c.review) IN
       /\ draft' = [review |-> c.review, nonce |-> n]
       /\ Goes(c, [c EXCEPT !.pc = "list", !.nonce = n])
  /\ lost' = [r \in Review |-> IF r = c.review THEN lost[r] ELSE 0]
  /\ UNCHANGED <<orders, txs, saved, page, forgotten>>

\* CAREL's server looks for the nonce among the orders Garden lists.
ServerLists(c) ==
  /\ c.pc = "list"
  /\ LET found == {o \in 1..Len(orders) : orders[o].nonce = c.nonce} IN
       IF found = {} THEN Goes(c, [c EXCEPT !.pc = "post"])
       ELSE \E o \in found : Answers(c, [c EXCEPT !.pc = "created", !.order = o])
  /\ UNCHANGED <<orders, txs, saved, draft, page, lost, forgotten>>

\* It creates one, unless a fresh quote differs or Garden refuses.
ServerCreates(c) ==
  /\ c.pc = "post"
  /\ \/ /\ Len(orders) < MaxOrders
        /\ orders' = Append(orders, NewOrder(c.review, c.nonce))
        /\ Answers(c, [c EXCEPT !.pc = "created", !.order = Len(orders) + 1])
        /\ lost' = IF draft = [review |-> c.review, nonce |-> c.nonce]
                   THEN [lost EXCEPT ![c.review] = Len(orders) + 1] ELSE lost
     \/ /\ \E pc \in {"refused", "changed"} : Answers(c, [c EXCEPT !.pc = pc])
        /\ UNCHANGED <<orders, lost>>
  /\ UNCHANGED <<txs, saved, draft, page, forgotten>>

\* The row of a created order, and then with its Agent run.
CreatedRows(o) ==
  LET created == Remember(saved, [NoRow EXCEPT !.order = o])
  IN Remember(created, [RowIn(created, o) EXCEPT !.agent = TRUE])

\* The page has the order: createOrder remembers it and drops the draft, create
\* remembers its run, keeps the session and follows the order.
Created(c) ==
  /\ c.pc = "created"
  /\ saved' = CreatedRows(c.order)
  /\ draft' = NoDraft
  /\ page' = IF Current(c)
             THEN [Follow(page, c.order) EXCEPT !.quote = None,
                     !.session = [order |-> c.order, status |-> "submitted"]]
             ELSE page
  /\ Ends(c)
  /\ lost' = [r \in Review |-> 0]
  /\ forgotten' = forgotten \cup Forgets
  /\ UNCHANGED <<orders, txs>>

\* The catch of create: the fee was refused, the server refused, or its answer is
\* lost or too late - and the server goes on.
CreateFails(c) ==
  /\ c.mount # 0 /\ c.pc \in {"fee", "list", "post", "created", "refused", "changed"}
  /\ page' = IF Current(c) /\ c.pc = "changed" THEN [Cleared(c) EXCEPT !.quote = None] ELSE Cleared(c)
  /\ IF c.pc \in {"list", "post"} THEN Goes(c, Left(c)) ELSE Ends(c)
  /\ UNCHANGED <<orders, txs, saved, draft, lost, forgotten>>

-----------------------------------------------------------------------------
(* Following an order *)

\* restoreBridgeAgent: the session of an order whose row has its run.
Restored(o) ==
  IF RowOf(o).agent /\ page.session.order # o
  THEN [order |-> o, status |-> "submitted"] ELSE page.session

OpenOrder(o) ==
  /\ ~Working /\ page.active = 0 /\ RowOf(o) # NoRow
  /\ page' = [Follow(page, o) EXCEPT !.session = Restored(o)]
  /\ UNCHANGED <<orders, txs, saved, draft, calls, lost, forgotten>>

LeaveOrder ==
  /\ ~Working /\ page.active # 0
  /\ page' = Follow(page, 0)
  /\ UNCHANGED <<orders, txs, saved, draft, calls, lost, forgotten>>

Refresh ==
  /\ ~Working /\ page.active # 0
  /\ page' = Follow(page, page.active)
  /\ UNCHANGED <<orders, txs, saved, draft, calls, lost, forgotten>>

\* syncBridgeAgent and confirmSubmittedStage: the stage of the order that was read.
Synced(s, o, state) ==
  IF s = [order |-> o, status |-> "submitted"] /\ state \in {"completed", "expired", "refunded"}
  THEN [s EXCEPT !.status = IF state = "completed" THEN "completed" ELSE "failed"] ELSE s

\* Mutant: an expired order is final.
Terminal_Expired(state) == state \in {"completed", "refunded", "expired"}

\* "`expired` is NOT terminal for order monitoring" (GardenBridge.tsx:588).
Terminal(state) == state \in {"completed", "refunded"}

\* A poll reads the order; for a funding not yet seen it goes on to its transaction.
Poll ==
  /\ page.active # 0 /\ page.poll = Idle
  /\ LET state == StateOf(page.active)
         row == RowOf(page.active)
         next == IF Terminal(state) THEN [Idle EXCEPT !.at = "over"]
                 ELSE IF ToBitcoinOrder(page.active) /\ state = "awaiting-deposit" /\ row.tx # 0
                      THEN [at |-> "status", row |-> row] ELSE Idle
     IN page' = [page EXCEPT !.shown = state, !.poll = next,
                             !.session = Synced(@, page.active, state)]
  /\ UNCHANGED <<orders, txs, saved, draft, calls, lost, forgotten>>

\* The status of the funding transaction, or none: a failed one may be repeated.
PollStatus ==
  /\ page.poll.at = "status"
  /\ \/ /\ txs[page.poll.row.tx].state = "reverted"
        /\ saved' = Remember(saved, [page.poll.row EXCEPT !.tx = 0, !.attempted = FALSE])
     \/ UNCHANGED saved
  /\ page' = [page EXCEPT !.poll = Idle]
  /\ forgotten' = forgotten \cup (Forgets \ {page.poll.row.order})
  /\ UNCHANGED <<orders, txs, draft, calls, lost>>

-----------------------------------------------------------------------------
(* Funding an order that starts on Starknet, and asking for its refund *)

\* "I checked my wallet: this order has not been funded": the user has, and it has not.
Unfunded(o) ==
  /\ \A t \in 1..Len(txs) : txs[t].order = o => txs[t].state = "reverted"
  /\ \A c \in calls : c.order = o => c.pc \notin {"wallet", "asked", "sent"}

Tick ==
  /\ page.shown = "awaiting-deposit" /\ RowOf(page.active).attempted /\ ~page.ticked
  /\ Unfunded(page.active)
  /\ page' = [page EXCEPT !.ticked = TRUE]
  /\ UNCHANGED <<orders, txs, saved, draft, calls, lost, forgotten>>

\* Mutant: a request of which no transaction is known may be repeated.
FundAllowed_NoTx(row) == row.tx = 0

FundAllowed(row) == row.tx = 0 /\ (row.attempted => page.ticked)

Fund ==
  /\ ~Working /\ Room /\ page.active # 0 /\ page.mode = "normal"
  /\ page.shown = "awaiting-deposit" /\ ToBitcoinOrder(page.active)
  /\ FundAllowed(RowOf(page.active))
  /\ calls' = calls \cup {Call("prepare", None, page.active)}
  /\ UNCHANGED <<orders, txs, saved, draft, page, lost, forgotten>>

\* fundingCalls: the server builds the calls of an order that awaits its deposit.
ServerPrepares(c) ==
  /\ c.pc = "prepare" /\ StateOf(c.order) = "awaiting-deposit"
  /\ Goes(c, [c EXCEPT !.pc = "prepared"])
  /\ UNCHANGED <<orders, txs, saved, draft, page, lost, forgotten>>

\* The page has the calls: the attempt is remembered, the wallet handler entered.  A
\* page that is not shown any more stops.
Attempt(c) ==
  /\ c.pc = "prepared" /\ page.mode = "normal"
  /\ IF Current(c)
     THEN /\ saved' = Remember(saved, [NoRow EXCEPT !.order = c.order, !.attempted = TRUE])
          /\ AtWallet = {} /\ Goes(c, [c EXCEPT !.pc = "wallet"])
     ELSE Ends(c) /\ UNCHANGED saved
  /\ forgotten' = forgotten \cup Forgets
  /\ UNCHANGED <<orders, txs, draft, page, lost>>

\* executeBridge has read the session and the balance: the wallet is asked.
Ask(c) ==
  /\ c.pc = "wallet" /\ Goes(c, [c EXCEPT !.pc = "asked"])
  /\ UNCHANGED <<orders, txs, saved, draft, page, lost, forgotten>>

\* The user approves and the wallet sends, whoever waits for its answer.
WalletSends(c) ==
  /\ c.pc = "asked" /\ Len(txs) < MaxTxs
  /\ txs' = Append(txs, [order |-> c.order, state |-> "pending"])
  /\ Answers(c, [c EXCEPT !.pc = "sent", !.nonce = Len(txs) + 1])
  /\ UNCHANGED <<orders, saved, draft, page, lost, forgotten>>

\* The hash is remembered and the order read again.
Funded(c) ==
  /\ c.pc = "sent"
  /\ saved' = Remember(saved, [order |-> c.order, tx |-> c.nonce, attempted |-> TRUE, agent |-> FALSE])
  /\ page' = IF Current(c) THEN Follow(page, page.active) ELSE page
  /\ Ends(c)
  /\ forgotten' = forgotten \cup Forgets
  /\ UNCHANGED <<orders, txs, draft, lost>>

\* The catch of fund: the server or the wallet refused, or an answer is lost.
FundFails(c) ==
  /\ c.mount # 0 /\ c.pc \in {"prepare", "prepared", "wallet", "asked", "sent"}
  /\ page' = IF Current(c) THEN [page EXCEPT !.ticked = FALSE] ELSE page
  /\ Ends(c)
  /\ UNCHANGED <<orders, txs, saved, draft, lost, forgotten>>

\* The user refuses what the wallet still asks after a reload.
Dismiss(c) ==
  /\ c.pc = "asked" /\ c.mount = 0 /\ Ends(c)
  /\ UNCHANGED <<orders, txs, saved, draft, page, lost, forgotten>>

Refund ==
  /\ ~Working /\ Room /\ page.active # 0 /\ page.shown \in {"exchanging", "expired"}
  /\ calls' = calls \cup {Call("refund", None, page.active)}
  /\ UNCHANGED <<orders, txs, saved, draft, page, lost, forgotten>>

\* requestRefund: Garden refunds an order that is refundable, or declines.
ServerRefunds(c) ==
  /\ c.pc = "refund"
  /\ \/ /\ Refundable(orders[c.order])
        /\ orders' = [orders EXCEPT ![c.order].refund = "sent", ![c.order].dead = FALSE]
        /\ page' = IF Current(c) THEN Follow(page, page.active) ELSE page
     \/ UNCHANGED <<orders, page>>
  /\ Ends(c)
  /\ UNCHANGED <<txs, saved, draft, lost, forgotten>>

-----------------------------------------------------------------------------
CallStep(c) ==
  \/ Post(c) \/ ServerLists(c) \/ ServerCreates(c) \/ Created(c) \/ CreateFails(c)
  \/ ServerPrepares(c) \/ Attempt(c) \/ Ask(c) \/ WalletSends(c) \/ Funded(c)
  \/ FundFails(c) \/ Dismiss(c) \/ ServerRefunds(c)

Next ==
  \/ GardenMoves \/ ChainDecides
  \/ Show \/ Reload \/ SetMode \/ LoadHistory
  \/ \E r \in Review : LoadQuote(r)
  \/ Invalidate \/ Create
  \/ \E o \in 1..Len(orders) : OpenOrder(o)
  \/ LeaveOrder \/ Refresh \/ Poll \/ PollStatus
  \/ Tick \/ Fund \/ Refund
  \/ \E c \in calls : CallStep(c)

Spec == Init /\ [][Next]_vars

\* The poll is a timer of seven seconds, and its requests are answered or abort.
FairSpec == Spec /\ WF_vars(Poll) /\ WF_vars(PollStatus)

-----------------------------------------------------------------------------
(* Properties *)

\* An order whose answer never reached the page is found again by the same request
\* ("Retry to recover the same order before starting another bridge",
\* lib/garden/server.ts:18): the server does not go on to create another for the
\* request last drafted, until another is drafted or an order reaches a page.
RetryFindsOrder ==
  [][\A c \in calls : c.pc = "list" /\ [c EXCEPT !.pc = "post"] \in calls' /\ c.nonce = draft.nonce
       => lost[c.review] = 0]_vars

Live(t) == txs[t].state # "reverted"
FundedTwice(o) == \E t, u \in 1..Len(txs) :
  t # u /\ txs[t].order = o /\ txs[u].order = o /\ Live(t) /\ Live(u)

\* No order is funded twice, through lost answers, reloads, another mount or a poll
\* that read its transaction before ("Check the previous wallet request before
\* retrying", GardenBridge.tsx:1230), if the user ticks the box truthfully ...
FundedOnce == \A o \in 1..Len(orders) : ~FundedTwice(o)

\* ... unless its row was made anew or dropped after an attempt.
FundedTwiceOnlyForgotten == \A o \in 1..Len(orders) : FundedTwice(o) => o \in forgotten

\* A page that stays on an order shows how it ends, also when it was expired before
\* ("A funded expired order may later become refunding/refunded", GardenBridge.tsx:590).
OrderFollowed ==
  \A o \in 1..MaxOrders : \A state \in {"completed", "refunded"} :
    (page.active = o /\ StateOf(o) = state) ~> (page.active = o => page.shown = state)
=============================================================================
