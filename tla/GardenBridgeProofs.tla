-------------------------- MODULE GardenBridgeProofs --------------------------
(***************************************************************************)
(* For any number of requests, orders, rows, reloads and detached calls: a *)
(* retry finds the order whose answer was lost, as an order that a retry   *)
(* must find has the nonce of the draft, and the draft stays; and an order *)
(* is funded twice only if its row was made anew or dropped, as every      *)
(* other row knows of a funding from the attempt until it has failed.      *)
(***************************************************************************)
EXTENDS GardenBridge, FiniteSetTheorems, SequenceTheorems, WellFoundedInduction, TLAPS

OrderField == {"review", "nonce", "deposited", "delivery", "refund", "late", "dead"}
PageField == {"mount", "views", "activity", "mode", "quote", "active", "shown", "ticked", "poll", "session"}
CallField == {"id", "pc", "mount", "review", "order", "nonce"}

OrdersTyped ==
  /\ \E S : orders \in Seq(S)
  /\ \A o \in 1..Len(orders) : DOMAIN orders[o] = OrderField

PageTyped(p) == DOMAIN p = PageField /\ p.quote \in Review \cup {None}

\* A call that creates an order knows what it requests.
CallTyped(c) ==
  DOMAIN c = CallField /\ c.id \in 1..2 /\ (c.pc \in {"fee", "list", "post"} => c.review \in Review)

\* Calls are told apart by their ids.
CallsTyped(C) ==
  /\ \A c \in C : CallTyped(c)
  /\ \A c, d \in C : c.id = d.id => c = d

\* The order a retry must find was created by the request last drafted.
LostIsDrafted ==
  /\ DOMAIN lost = Review
  /\ \A r \in Review : lost[r] # 0 =>
       lost[r] \in 1..Len(orders) /\ orders[lost[r]].nonce = draft.nonce /\ draft.review = r

IInv == OrdersTyped /\ PageTyped(page) /\ CallsTyped(calls) /\ LostIsDrafted

-----------------------------------------------------------------------------
(* Calls *)

\* There are at most two.
LEMMA CallsFinite == ASSUME NEW C, CallsTyped(C) PROVE IsFiniteSet(C)
<1> DEFINE a == CHOOSE c \in C : c.id = 1
           b == CHOOSE c \in C : c.id = 2
<1>1. C \subseteq {a, b}
  <2>1. ASSUME NEW c \in C PROVE c = a \/ c = b
    <3>1. c.id \in 1..2
      BY DEF CallsTyped, CallTyped
    <3>2. CASE c.id = 1
      BY <3>2 DEF CallsTyped
    <3>3. CASE c.id = 2
      BY <3>3 DEF CallsTyped
    <3>4. QED
      BY <3>1, <3>2, <3>3
  <2>2. QED
    BY <2>1
<1> HIDE DEF a, b
<1>2. IsFiniteSet({a, b})
  <2>1. IsFiniteSet({a})
    BY FS_Singleton
  <2>2. {a, b} = {a} \cup {b}
    OBVIOUS
  <2>3. QED
    BY <2>1, <2>2, FS_AddElement
<1>3. QED
  BY <1>1, <1>2, FS_Subset

\* A new call has an id that no other has.
LEMMA FreshId ==
  ASSUME CallsTyped(calls), Room, NEW pc, NEW r, NEW o
  PROVE  Call(pc, r, o).id \in 1..2 /\ \A d \in calls : d.id # Call(pc, r, o).id
<1>1. \E n \in 1..2 : \A d \in calls : d.id # n
  <2>1. SUFFICES ASSUME NEW c \in calls, NEW d \in calls, c.id = 1, d.id = 2 PROVE FALSE
    <3>1. 1 \in 1..2 /\ 2 \in 1..2
      OBVIOUS
    <3>2. QED
      BY <2>1, <3>1
  <2>2. IsFiniteSet({c}) /\ Cardinality({c}) = 1
    BY FS_Singleton
  <2>3. {c, d} = {c} \cup {d} /\ d \notin {c}
    BY <2>1
  <2>4. Cardinality({c, d}) = 2
    BY <2>2, <2>3, FS_AddElement
  <2>5. {c, d} \in SUBSET calls /\ IsFiniteSet(calls)
    BY CallsFinite
  <2>6. Cardinality({c, d}) <= Cardinality(calls) /\ Cardinality(calls) \in Nat
    BY <2>5, FS_Subset, FS_CardinalityType
  <2>7. QED
    BY <2>4, <2>6 DEF Room
<1>2. QED
  BY <1>1 DEF Call

LEMMA CallAdded ==
  ASSUME CallsTyped(calls), Room, NEW pc, NEW r, NEW o, pc \in {"fee", "list", "post"} => r \in Review,
         calls' = calls \cup {Call(pc, r, o)}
  PROVE  CallsTyped(calls')
<1> DEFINE d == Call(pc, r, o)
<1>1. DOMAIN d = CallField /\ d.pc = pc /\ d.review = r
  BY DEF Call, CallField
<1>2. d.id \in 1..2 /\ \A e \in calls : e.id # d.id
  BY FreshId
<1> HIDE DEF d
<1>3. CallTyped(d)
  BY <1>1, <1>2 DEF CallTyped
<1>4. calls' = calls \cup {d}
  BY DEF d
<1>5. QED
  BY <1>2, <1>3, <1>4 DEF CallsTyped

LEMMA CallGoes ==
  ASSUME CallsTyped(calls), NEW c \in calls, NEW d, CallTyped(d), d.id = c.id, Goes(c, d) \/ Ends(c)
  PROVE  CallsTyped(calls')
<1>1. calls' \subseteq (calls \ {c}) \cup {d}
  BY DEF Goes, Ends
<1>2. QED
  BY <1>1 DEF CallsTyped

LEMMA CallEnds == ASSUME CallsTyped(calls), NEW c, Ends(c) PROVE CallsTyped(calls')
BY DEF Ends, CallsTyped

\* A step of a call makes no call but itself anew.
LEMMA NewKeepsId ==
  ASSUME NEW e \in calls, CallTyped(e), CallStep(e), NEW f \in calls', f \notin calls
  PROVE  f.id = e.id
<1>1. DOMAIN e = CallField
  BY DEF CallTyped
<1>2. Ends(e) \/ \E g : DOMAIN g = CallField /\ g.id = e.id /\ Goes(e, g)
  <2>1. CASE Post(e) \/ ServerLists(e) \/ ServerCreates(e)
    BY <1>1, <2>1 DEF Post, ServerLists, ServerCreates, Answers, CallField
  <2>2. CASE CreateFails(e)
    BY <1>1, <2>2 DEF CreateFails, Left, CallField
  <2>3. CASE ServerPrepares(e) \/ Attempt(e) \/ Ask(e) \/ WalletSends(e)
    BY <1>1, <2>3 DEF ServerPrepares, Attempt, Ask, WalletSends, Answers, CallField
  <2>4. CASE Created(e) \/ Funded(e) \/ FundFails(e) \/ Dismiss(e) \/ ServerRefunds(e)
    BY <2>4 DEF Created, Funded, FundFails, Dismiss, ServerRefunds
  <2>5. QED
    BY <2>1, <2>2, <2>3, <2>4 DEF CallStep
<1>3. QED
  BY <1>2 DEF Ends, Goes

-----------------------------------------------------------------------------
(* The page *)

LEMMA FreshPageTyped == ASSUME NEW n, NEW a, NEW m PROVE PageTyped(FreshPage(n, a, m))
BY DEF FreshPage, PageTyped, PageField

LEMMA FollowTyped == ASSUME NEW p, PageTyped(p), NEW o PROVE PageTyped(Follow(p, o))
BY DEF Follow, PageTyped, PageField

LEMMA ClearedTyped == ASSUME PageTyped(page), NEW c PROVE PageTyped(Cleared(c))
BY DEF Cleared, PageTyped, PageField

LEMMA QuoteSet ==
  ASSUME NEW p, PageTyped(p), NEW q \in Review \cup {None}
  PROVE  PageTyped([p EXCEPT !.quote = q])
BY DEF PageTyped, PageField

\* A step that leaves orders, draft and lost.
LEMMA Leaves ==
  ASSUME IInv, UNCHANGED <<orders, draft, lost>>, PageTyped(page'), CallsTyped(calls')
  PROVE  IInv'
BY DEF IInv, OrdersTyped, LostIsDrafted

LEMMA PageStep ==
  ASSUME IInv,
         \/ ChainDecides \/ Show \/ SetMode \/ LoadHistory \/ (\E r \in Review : LoadQuote(r))
         \/ Invalidate \/ (\E o \in 1..Len(orders) : OpenOrder(o)) \/ LeaveOrder \/ Refresh
         \/ Poll \/ PollStatus \/ Tick
  PROVE  IInv'
<1>1. PageTyped(page) /\ CallsTyped(calls)
  BY DEF IInv
<1>2. UNCHANGED <<orders, draft, lost, calls>>
  BY DEF ChainDecides, Show, SetMode, LoadHistory, LoadQuote, Invalidate, OpenOrder, LeaveOrder,
         Refresh, Poll, PollStatus, Tick
<1>3. PageTyped(page')
  <2>1. CASE ChainDecides \/ LoadHistory
    BY <1>1, <2>1 DEF ChainDecides, LoadHistory
  <2>2. CASE Show
    BY <2>2, FreshPageTyped DEF Show
  <2>3. CASE SetMode
    BY <1>1, <2>3 DEF SetMode, PageTyped, PageField
  <2>4. ASSUME NEW r \in Review, LoadQuote(r) PROVE PageTyped(page')
    BY <1>1, <2>4, QuoteSet DEF LoadQuote
  <2>5. CASE Invalidate
    BY <1>1, <2>5, QuoteSet DEF Invalidate
  <2>6. ASSUME NEW o \in 1..Len(orders), OpenOrder(o) PROVE PageTyped(page')
    <3>1. page' = [Follow(page, o) EXCEPT !.session = Restored(o)]
      BY <2>6 DEF OpenOrder
    <3>2. QED
      BY <1>1, <3>1, FollowTyped DEF PageTyped, PageField
  <2>7. CASE LeaveOrder \/ Refresh
    BY <1>1, <2>7, FollowTyped DEF LeaveOrder, Refresh
  <2>8. CASE Poll
    BY <1>1, <2>8 DEF Poll, PageTyped, PageField
  <2>9. CASE PollStatus \/ Tick
    BY <1>1, <2>9 DEF PollStatus, Tick, PageTyped, PageField
  <2>10. QED
    BY <2>1, <2>2, <2>3, <2>4, <2>5, <2>6, <2>7, <2>8, <2>9
<1>4. QED
  BY <1>1, <1>2, <1>3, Leaves

-----------------------------------------------------------------------------
(* Garden's orders *)

\* One order becomes new, with the nonce it had.
LEMMA OrderBecomes ==
  ASSUME OrdersTyped, LostIsDrafted, NEW o \in 1..Len(orders), NEW new,
         DOMAIN new = OrderField, new.nonce = orders[o].nonce, orders' = [orders EXCEPT ![o] = new],
         UNCHANGED <<draft, lost>>
  PROVE  OrdersTyped' /\ LostIsDrafted'
<1>1. PICK S : orders \in Seq(S)
  BY DEF OrdersTyped
<1>2. orders \in Seq(S \cup {new}) /\ new \in S \cup {new}
  BY <1>1
<1>3. /\ orders' \in Seq(S \cup {new}) /\ Len(orders') = Len(orders)
      /\ \A p \in 1..Len(orders) : orders'[p] = IF p = o THEN new ELSE orders[p]
  BY <1>2, ExceptSeq
<1>4. OrdersTyped'
  BY <1>3 DEF OrdersTyped
<1>5. LostIsDrafted'
  BY <1>3 DEF LostIsDrafted
<1>6. QED
  BY <1>4, <1>5

LEMMA GardenStep == ASSUME IInv, GardenMoves PROVE IInv'
<1>1. PICK o \in 1..Len(orders) : Moves(o)
  BY DEF GardenMoves
<1>2. DOMAIN orders[o] = OrderField
  BY DEF IInv, OrdersTyped
<1>3. \E new : DOMAIN new = OrderField /\ new.nonce = orders[o].nonce /\ orders' = [orders EXCEPT ![o] = new]
  BY <1>1, <1>2 DEF Moves, OrderField
<1>4. UNCHANGED <<draft, page, calls, lost>>
  BY DEF GardenMoves
<1>5. OrdersTyped' /\ LostIsDrafted'
  BY <1>3, <1>4, OrderBecomes DEF IInv
<1>6. QED
  BY <1>4, <1>5 DEF IInv

-----------------------------------------------------------------------------
(* The calls *)

LEMMA PressStep == ASSUME IInv, Create \/ Fund \/ Refund PROVE IInv'
<1>1. UNCHANGED <<orders, draft, lost, page>> /\ PageTyped(page) /\ CallsTyped(calls) /\ Room
  BY DEF IInv, Create, Fund, Refund
<1>2. CallsTyped(calls')
  <2>1. CASE Create
    <3>1. page.quote \in Review /\ calls' = calls \cup {Call("fee", page.quote, 0)}
      BY <1>1, <2>1 DEF Create, PageTyped
    <3>2. QED
      BY <1>1, <3>1, CallAdded
  <2>2. CASE Fund
    BY <1>1, <2>2, CallAdded DEF Fund
  <2>3. CASE Refund
    BY <1>1, <2>3, CallAdded DEF Refund
  <2>4. QED
    BY <2>1, <2>2, <2>3
<1>3. QED
  BY <1>1, <1>2, Leaves

LEMMA ReloadStep == ASSUME IInv, Reload PROVE IInv'
<1> DEFINE L(c) == IF c.mount = 0 THEN c ELSE Left(c)
<1>1. UNCHANGED <<orders, draft, lost>> /\ PageTyped(page')
  BY FreshPageTyped DEF Reload
<1>2. \A d \in calls' : \E c \in calls : d = L(c)
  BY DEF Reload
<1>3. \A c \in calls : CallTyped(c)
  BY DEF IInv, CallsTyped
<1>4. ASSUME NEW c \in calls PROVE CallTyped(L(c)) /\ L(c).id = c.id
  BY <1>3 DEF Left, CallTyped, CallField
<1> HIDE DEF L
<1>5. CallsTyped(calls')
  BY <1>2, <1>4 DEF IInv, CallsTyped
<1>6. QED
  BY <1>1, <1>5, Leaves

\* A call goes on, the request it made known, or ends.
LEMMA CallStepTyped ==
  ASSUME IInv, NEW c \in calls, CallStep(c)
  PROVE  CallsTyped(calls')
<1>1. CallsTyped(calls) /\ CallTyped(c)
  BY DEF IInv, CallsTyped
<1>2. ASSUME NEW d, CallTyped(d), d.id = c.id, Goes(c, d) \/ Ends(c) PROVE CallsTyped(calls')
  BY <1>1, <1>2, CallGoes
<1>3. CASE Ends(c)
  BY <1>1, <1>3, CallEnds
<1>4. CASE Post(c)
  <2>1. PICK n : Goes(c, [c EXCEPT !.pc = "list", !.nonce = n])
    BY <1>4 DEF Post
  <2>2. CallTyped([c EXCEPT !.pc = "list", !.nonce = n])
    BY <1>1, <1>4 DEF Post, CallTyped, CallField
  <2>3. [c EXCEPT !.pc = "list", !.nonce = n].id = c.id
    BY <1>1 DEF CallTyped, CallField
  <2>4. QED
    BY <1>2, <2>1, <2>2, <2>3
<1>5. ASSUME NEW d, DOMAIN d = CallField, d.id = c.id, d.review = c.review,
             d.pc \notin {"fee", "list", "post"} \/ c.pc \in {"list", "post"}, Goes(c, d) \/ Ends(c)
      PROVE  CallsTyped(calls')
  <2>1. CallTyped(d)
    BY <1>1, <1>5 DEF CallTyped
  <2>2. QED
    BY <1>2, <1>5, <2>1
<1>6. DOMAIN c = CallField
  BY <1>1 DEF CallTyped
<1>7. CASE ServerLists(c)
  <2>1. c.pc = "list" /\ \/ Goes(c, [c EXCEPT !.pc = "post"])
                         \/ \E o : Answers(c, [c EXCEPT !.pc = "created", !.order = o])
    BY <1>7 DEF ServerLists
  <2>2. CASE Goes(c, [c EXCEPT !.pc = "post"])
    <3> DEFINE d == [c EXCEPT !.pc = "post"]
    <3>1. DOMAIN d = CallField /\ d.id = c.id /\ d.review = c.review
      BY <1>6 DEF CallField
    <3> HIDE DEF d
    <3>2. QED
      BY <2>1, <2>2, <3>1, <1>5 DEF d
  <2>3. ASSUME NEW o, Answers(c, [c EXCEPT !.pc = "created", !.order = o]) PROVE CallsTyped(calls')
    <3> DEFINE d == [c EXCEPT !.pc = "created", !.order = o]
    <3>1. DOMAIN d = CallField /\ d.id = c.id /\ d.review = c.review
      BY <1>6 DEF CallField
    <3>2. Goes(c, d) \/ Ends(c)
      BY <2>3 DEF Answers
    <3> HIDE DEF d
    <3>3. QED
      BY <2>1, <3>1, <3>2, <1>5
  <2>4. QED
    BY <2>1, <2>2, <2>3
<1>8. CASE ServerCreates(c)
  <2>1. c.pc = "post" /\ \/ \E o : Answers(c, [c EXCEPT !.pc = "created", !.order = o])
                         \/ \E pc : Answers(c, [c EXCEPT !.pc = pc])
    BY <1>8 DEF ServerCreates
  <2>2. ASSUME NEW o, Answers(c, [c EXCEPT !.pc = "created", !.order = o]) PROVE CallsTyped(calls')
    <3> DEFINE d == [c EXCEPT !.pc = "created", !.order = o]
    <3>1. DOMAIN d = CallField /\ d.id = c.id /\ d.review = c.review
      BY <1>6 DEF CallField
    <3>2. Goes(c, d) \/ Ends(c)
      BY <2>2 DEF Answers
    <3> HIDE DEF d
    <3>3. QED
      BY <2>1, <3>1, <3>2, <1>5
  <2>3. ASSUME NEW pc, Answers(c, [c EXCEPT !.pc = pc]) PROVE CallsTyped(calls')
    <3> DEFINE d == [c EXCEPT !.pc = pc]
    <3>1. DOMAIN d = CallField /\ d.id = c.id /\ d.review = c.review
      BY <1>6 DEF CallField
    <3>2. Goes(c, d) \/ Ends(c)
      BY <2>3 DEF Answers
    <3> HIDE DEF d
    <3>3. QED
      BY <2>1, <3>1, <3>2, <1>5
  <2>4. QED
    BY <2>1, <2>2, <2>3
<1>9. CASE CreateFails(c)
  <2>1. CASE c.pc \in {"list", "post"}
    <3>1. Goes(c, Left(c))
      BY <1>9, <2>1 DEF CreateFails
    <3>2. DOMAIN Left(c) = CallField /\ Left(c).id = c.id /\ Left(c).review = c.review
      BY <1>6 DEF CallField, Left
    <3>3. QED
      BY <2>1, <3>1, <3>2, <1>5
  <2>2. CASE c.pc \notin {"list", "post"}
    BY <1>3, <1>9, <2>2 DEF CreateFails
  <2>3. QED
    BY <2>1, <2>2
<1>10. ASSUME NEW pc \in {"prepared", "wallet", "asked"}, Goes(c, [c EXCEPT !.pc = pc])
       PROVE  CallsTyped(calls')
  <2> DEFINE d == [c EXCEPT !.pc = pc]
  <2>1. DOMAIN d = CallField /\ d.id = c.id /\ d.review = c.review /\ d.pc = pc
    BY <1>6 DEF CallField
  <2>2. Goes(c, d)
    BY <1>10
  <2> HIDE DEF d
  <2>3. QED
    BY <1>5, <1>10, <2>1, <2>2
<1>11. CASE ServerPrepares(c) \/ Attempt(c) \/ Ask(c)
  <2>1. Ends(c) \/ \E pc \in {"prepared", "wallet", "asked"} : Goes(c, [c EXCEPT !.pc = pc])
    BY <1>11 DEF ServerPrepares, Attempt, Ask
  <2>2. QED
    BY <1>3, <1>10, <2>1
<1>12. CASE WalletSends(c)
  <2> DEFINE d == [c EXCEPT !.pc = "sent", !.nonce = Len(txs) + 1]
  <2>1. DOMAIN d = CallField /\ d.id = c.id /\ d.review = c.review /\ d.pc = "sent"
    BY <1>6 DEF CallField
  <2>2. Goes(c, d) \/ Ends(c)
    BY <1>12 DEF WalletSends, Answers
  <2> HIDE DEF d
  <2>3. QED
    BY <1>5, <2>1, <2>2
<1>13. CASE Created(c) \/ Funded(c) \/ FundFails(c) \/ Dismiss(c) \/ ServerRefunds(c)
  BY <1>3, <1>13 DEF Created, Funded, FundFails, Dismiss, ServerRefunds
<1>14. QED
  BY <1>4, <1>7, <1>8, <1>9, <1>11, <1>12, <1>13 DEF CallStep

LEMMA CallPageTyped ==
  ASSUME IInv, NEW c \in calls, CallStep(c)
  PROVE  PageTyped(page')
<1>1. PageTyped(page)
  BY DEF IInv
<1>2. CASE \/ Post(c) \/ ServerLists(c) \/ ServerCreates(c) \/ ServerPrepares(c) \/ Attempt(c)
           \/ Ask(c) \/ WalletSends(c) \/ Dismiss(c)
  BY <1>1, <1>2 DEF Post, ServerLists, ServerCreates, ServerPrepares, Attempt, Ask, WalletSends, Dismiss
<1>3. CASE Created(c)
  <2>1. PageTyped(Follow(page, c.order))
    BY <1>1, FollowTyped
  <2>2. \/ page' = page
        \/ page' = [Follow(page, c.order) EXCEPT !.quote = None,
                      !.session = [order |-> c.order, status |-> "submitted"]]
    BY <1>3 DEF Created
  <2>3. QED
    BY <1>1, <2>1, <2>2 DEF PageTyped, PageField
<1>4. CASE CreateFails(c)
  BY <1>1, <1>4, ClearedTyped, QuoteSet DEF CreateFails
<1>5. CASE Funded(c) \/ ServerRefunds(c)
  BY <1>1, <1>5, FollowTyped DEF Funded, ServerRefunds
<1>6. CASE FundFails(c)
  BY <1>1, <1>6 DEF FundFails, PageTyped, PageField
<1>7. QED
  BY <1>2, <1>3, <1>4, <1>5, <1>6 DEF CallStep

\* Another order keeps those that were.
LEMMA OrderAppended ==
  ASSUME OrdersTyped, NEW new, DOMAIN new = OrderField, orders' = Append(orders, new)
  PROVE  /\ OrdersTyped'
         /\ Len(orders) \in Nat /\ Len(orders') = Len(orders) + 1
         /\ orders'[Len(orders) + 1] = new
         /\ \A o \in 1..Len(orders) : orders'[o] = orders[o]
<1>1. PICK S : orders \in Seq(S)
  BY DEF OrdersTyped
<1>2. orders \in Seq(S \cup {new}) /\ new \in S \cup {new}
  BY <1>1
<1>3. /\ orders' \in Seq(S \cup {new}) /\ Len(orders) \in Nat /\ Len(orders') = Len(orders) + 1
      /\ orders'[Len(orders) + 1] = new
      /\ \A o \in 1..Len(orders) : orders'[o] = orders[o]
  BY <1>2, AppendProperties, LenProperties
<1>4. OrdersTyped'
  BY <1>3 DEF OrdersTyped
<1>5. QED
  BY <1>3, <1>4

LEMMA CallOrders ==
  ASSUME IInv, NEW c \in calls, CallStep(c)
  PROVE  OrdersTyped' /\ LostIsDrafted'
<1>1. OrdersTyped /\ LostIsDrafted /\ CallTyped(c)
  BY DEF IInv, CallsTyped
<1>2. CASE UNCHANGED <<orders, draft, lost>>
  BY <1>1, <1>2 DEF OrdersTyped, LostIsDrafted
<1>3. CASE Post(c)
  <2>1. /\ orders' = orders /\ draft' = [review |-> c.review, nonce |-> NonceFor(c.review)]
        /\ lost' = [r \in Review |-> IF r = c.review THEN lost[r] ELSE 0]
    BY <1>3 DEF Post
  <2>2. draft.review = c.review => draft'.nonce = draft.nonce
    BY <2>1 DEF NonceFor
  <2>3. QED
    BY <1>1, <2>1, <2>2 DEF OrdersTyped, LostIsDrafted
<1>4. CASE ServerCreates(c)
  <2>1. CASE orders' = orders /\ lost' = lost
    BY <1>2, <1>4, <2>1 DEF ServerCreates
  <2>2. CASE /\ orders' = Append(orders, NewOrder(c.review, c.nonce))
             /\ lost' = IF draft = [review |-> c.review, nonce |-> c.nonce]
                        THEN [lost EXCEPT ![c.review] = Len(orders) + 1] ELSE lost
    <3> DEFINE new == NewOrder(c.review, c.nonce)
    <3>1. DOMAIN new = OrderField /\ new.nonce = c.nonce
      BY DEF NewOrder, OrderField
    <3> HIDE DEF new
    <3>2. orders' = Append(orders, new)
      BY <2>2 DEF new
    <3>3. /\ OrdersTyped'
          /\ Len(orders) \in Nat /\ Len(orders') = Len(orders) + 1
          /\ orders'[Len(orders) + 1] = new
          /\ \A o \in 1..Len(orders) : orders'[o] = orders[o]
      BY <1>1, <3>1, <3>2, OrderAppended
    <3>4. draft' = draft
      BY <1>4 DEF ServerCreates
    <3>5. CASE draft = [review |-> c.review, nonce |-> c.nonce]
      <4>1. draft.review = c.review /\ draft.nonce = c.nonce
        BY <3>5
      <4>2. lost' = [lost EXCEPT ![c.review] = Len(orders) + 1]
        BY <2>2, <3>5
      <4>3. DOMAIN lost' = Review
        BY <1>1, <4>2 DEF LostIsDrafted
      <4>4. ASSUME NEW r \in Review, lost'[r] # 0
            PROVE  /\ lost'[r] \in 1..Len(orders') /\ orders'[lost'[r]].nonce = draft'.nonce
                   /\ draft'.review = r
        <5>1. CASE r = c.review
          BY <1>1, <3>1, <3>3, <3>4, <4>1, <4>2, <5>1 DEF LostIsDrafted
        <5>2. CASE r # c.review
          BY <1>1, <3>3, <3>4, <4>1, <4>2, <4>4, <5>2 DEF LostIsDrafted
        <5>3. QED
          BY <5>1, <5>2
      <4>5. QED
        BY <3>3, <4>3, <4>4 DEF LostIsDrafted
    <3>6. CASE draft # [review |-> c.review, nonce |-> c.nonce]
      <4>1. lost' = lost
        BY <2>2, <3>6
      <4>2. QED
        BY <1>1, <3>3, <3>4, <4>1 DEF LostIsDrafted
    <3>7. QED
      BY <3>5, <3>6
  <2>3. QED
    BY <1>4, <2>1, <2>2 DEF ServerCreates
<1>5. CASE Created(c)
  BY <1>1, <1>5 DEF Created, OrdersTyped, LostIsDrafted
<1>6. CASE ServerRefunds(c)
  <2>1. CASE UNCHANGED orders
    BY <1>2, <1>6, <2>1 DEF ServerRefunds
  <2>2. CASE orders' = [orders EXCEPT ![c.order].refund = "sent", ![c.order].dead = FALSE]
    <3>1. CASE c.order \in 1..Len(orders)
      <4>1. DOMAIN orders[c.order] = OrderField
        BY <1>1, <3>1 DEF OrdersTyped
      <4>2. PICK S : orders \in Seq(S)
        BY <1>1 DEF OrdersTyped
      <4>3. DOMAIN orders = 1..Len(orders)
        BY <4>2, LenProperties
      <4> DEFINE new == [orders[c.order] EXCEPT !.refund = "sent", !.dead = FALSE]
      <4>4. DOMAIN new = OrderField /\ new.nonce = orders[c.order].nonce
        BY <4>1 DEF OrderField
      <4>5. orders' = [orders EXCEPT ![c.order] = new]
        BY <2>2, <3>1, <4>3
      <4>6. UNCHANGED <<draft, lost>>
        BY <1>6 DEF ServerRefunds
      <4> HIDE DEF new
      <4>7. QED
        BY <1>1, <3>1, <4>4, <4>5, <4>6, OrderBecomes
    <3>2. CASE c.order \notin 1..Len(orders)
      <4>1. PICK S : orders \in Seq(S)
        BY <1>1 DEF OrdersTyped
      <4>2. DOMAIN orders = 1..Len(orders)
        BY <4>1, LenProperties
      <4>3. orders' = orders
        BY <2>2, <3>2, <4>2, <4>1
      <4>4. QED
        BY <1>2, <1>6, <4>3 DEF ServerRefunds
    <3>3. QED
      BY <3>1, <3>2
  <2>3. QED
    BY <1>6, <2>1, <2>2 DEF ServerRefunds
<1>7. CASE \/ ServerLists(c) \/ CreateFails(c) \/ ServerPrepares(c) \/ Attempt(c) \/ Ask(c)
           \/ WalletSends(c) \/ Funded(c) \/ FundFails(c) \/ Dismiss(c)
  BY <1>2, <1>7 DEF ServerLists, CreateFails, ServerPrepares, Attempt, Ask, WalletSends, Funded,
                    FundFails, Dismiss
<1>8. QED
  BY <1>3, <1>4, <1>5, <1>6, <1>7 DEF CallStep

-----------------------------------------------------------------------------
(* The theorems *)

LEMMA Start == Init => IInv
<1>1. SUFFICES ASSUME Init PROVE IInv
  OBVIOUS
<1>2. OrdersTyped
  <2>1. <<>> \in Seq({}) /\ Len(<<>>) = 0
    OBVIOUS
  <2>2. QED
    BY <1>1, <2>1 DEF Init, OrdersTyped
<1>3. PageTyped(page)
  BY <1>1, FreshPageTyped DEF Init
<1>4. QED
  BY <1>1, <1>2, <1>3 DEF Init, IInv, CallsTyped, LostIsDrafted

LEMMA Preserved == IInv /\ [Next]_vars => IInv'
<1>1. SUFFICES ASSUME IInv, [Next]_vars PROVE IInv'
  OBVIOUS
<1>2. CASE UNCHANGED vars
  BY <1>1, <1>2, Leaves DEF vars, IInv
<1>3. CASE Reload
  BY <1>1, <1>3, ReloadStep
<1>4. CASE GardenMoves
  BY <1>1, <1>4, GardenStep
<1>5. CASE Create \/ Fund \/ Refund
  BY <1>1, <1>5, PressStep
<1>6. ASSUME NEW c \in calls, CallStep(c) PROVE IInv'
  BY <1>1, <1>6, CallStepTyped, CallPageTyped, CallOrders DEF IInv
<1>7. CASE \/ ChainDecides \/ Show \/ SetMode \/ LoadHistory \/ (\E r \in Review : LoadQuote(r))
           \/ Invalidate \/ (\E o \in 1..Len(orders) : OpenOrder(o)) \/ LeaveOrder \/ Refresh
           \/ Poll \/ PollStatus \/ Tick
  BY <1>1, <1>7, PageStep
<1>8. QED
  BY <1>1, <1>2, <1>3, <1>4, <1>5, <1>6, <1>7 DEF Next

\* The invariant of the garden's orders, of the calls in flight and of the draft.
THEOREM Inductive == Spec => []IInv
<1>1. QED
  BY Start, Preserved, PTL DEF Spec

\* A call goes on from looking for its order to creating one only when Garden lists none.
LEMMA OnlyNotListed ==
  ASSUME IInv, [Next]_vars, NEW c \in calls, c.pc = "list", [c EXCEPT !.pc = "post"] \in calls'
  PROVE  \A o \in 1..Len(orders) : orders[o].nonce # c.nonce
<1> DEFINE d == [c EXCEPT !.pc = "post"]
<1>1. CallsTyped(calls) /\ CallTyped(c) /\ \A e \in calls : CallTyped(e)
  BY DEF IInv, CallsTyped
<1>2. d.id = c.id /\ d.pc = "post"
  BY <1>1 DEF CallTyped, CallField
<1>3. d \in calls'
  OBVIOUS
<1> HIDE DEF d
<1>4. d \notin calls
  BY <1>1, <1>2 DEF CallsTyped
<1>5. CASE Reload
  <2>1. PICK e \in calls : d = IF e.mount = 0 THEN e ELSE Left(e)
    BY <1>3, <1>5 DEF Reload
  <2>2. e.id = d.id /\ e.pc = d.pc
    BY <1>1, <2>1 DEF Left, CallTyped, CallField
  <2>3. QED
    BY <1>1, <1>2, <2>2 DEF CallsTyped
<1>6. CASE Create \/ Fund \/ Refund
  <2>1. Room /\ \E pc, r, o : calls' = calls \cup {Call(pc, r, o)}
    BY <1>6 DEF Create, Fund, Refund
  <2>2. PICK pc, r, o : calls' = calls \cup {Call(pc, r, o)}
    BY <2>1
  <2>3. \A e \in calls : e.id # Call(pc, r, o).id
    BY <1>1, <2>1, FreshId
  <2>4. d = Call(pc, r, o)
    BY <1>3, <1>4, <2>2
  <2>5. QED
    BY <1>2, <2>3, <2>4
<1>7. ASSUME NEW e \in calls, CallStep(e) PROVE \A o \in 1..Len(orders) : orders[o].nonce # c.nonce
  <2>1. \A f : f \in calls' /\ f \notin calls => f.id = e.id
    BY <1>1, <1>7, NewKeepsId
  <2>2. e = c
    BY <1>1, <1>2, <1>3, <1>4, <2>1 DEF CallsTyped
  <2>3. CASE ServerLists(c)
    <3>1. CASE {o \in 1..Len(orders) : orders[o].nonce = c.nonce} = {}
      BY <3>1
    <3>2. CASE {o \in 1..Len(orders) : orders[o].nonce = c.nonce} # {}
      <4>1. PICK o : Answers(c, [c EXCEPT !.pc = "created", !.order = o])
        BY <2>3, <3>2 DEF ServerLists
      <4>2. [c EXCEPT !.pc = "created", !.order = o].pc = "created"
        BY <1>1 DEF CallTyped, CallField
      <4>3. calls' \subseteq calls \cup {[c EXCEPT !.pc = "created", !.order = o]}
        BY <4>1 DEF Answers, Goes, Ends
      <4>4. QED
        BY <1>2, <1>3, <1>4, <4>2, <4>3
    <3>3. QED
      BY <3>1, <3>2
  <2>4. CASE CreateFails(c)
    <3>1. calls' \subseteq calls \cup {Left(c)}
      BY <2>4 DEF CreateFails, Goes, Ends
    <3>2. Left(c).pc = "list"
      BY <1>1 DEF Left, CallTyped, CallField
    <3>3. QED
      BY <1>2, <1>3, <1>4, <3>1, <3>2
  <2>5. QED
    BY <1>7, <2>2, <2>3, <2>4
       DEF CallStep, Post, ServerCreates, Created, ServerPrepares, Attempt, Ask, WalletSends, Funded,
           FundFails, Dismiss, ServerRefunds
<1>8. CASE UNCHANGED calls
  BY <1>3, <1>4, <1>8
<1>9. UNCHANGED calls \/ Reload \/ Create \/ Fund \/ Refund \/ \E e \in calls : CallStep(e)
  BY DEF Next, vars, GardenMoves, ChainDecides, Show, SetMode, LoadHistory, LoadQuote, Invalidate,
         OpenOrder, LeaveOrder, Refresh, Poll, PollStatus, Tick
<1>10. QED
  BY <1>5, <1>6, <1>7, <1>8, <1>9

\* The same request finds the order whose answer was lost: the server creates no
\* second one (lib/garden/server.ts), however often the page is reloaded or left.
THEOREM RetryFinds == Spec => RetryFindsOrder
<1>1. IInv /\ [Next]_vars =>
        \A c \in calls : c.pc = "list" /\ [c EXCEPT !.pc = "post"] \in calls' /\ c.nonce = draft.nonce
          => lost[c.review] = 0
  <2>1. SUFFICES ASSUME IInv, [Next]_vars, NEW c \in calls, c.pc = "list",
                        [c EXCEPT !.pc = "post"] \in calls', c.nonce = draft.nonce
                 PROVE  lost[c.review] = 0
    OBVIOUS
  <2>2. \A o \in 1..Len(orders) : orders[o].nonce # c.nonce
    BY <2>1, OnlyNotListed
  <2>3. c.review \in Review
    BY <2>1 DEF IInv, CallsTyped, CallTyped
  <2>4. QED
    BY <2>1, <2>2, <2>3 DEF IInv, LostIsDrafted
<1>2. QED
  BY <1>1, Inductive, PTL DEF Spec, RetryFindsOrder

-----------------------------------------------------------------------------
(* The rows of localStorage *)

Row == [order : Nat, tx : Nat, attempted : BOOLEAN, agent : BOOLEAN]

Distinct(rows) == \A i, j \in 1..Len(rows) : rows[i].order = rows[j].order => i = j

\* Rows of the orders 1 to n, one of each at most; a row with a transaction was attempted.
RowsOf(rows, n) ==
  /\ rows \in Seq(Row)
  /\ Distinct(rows)
  /\ \A i \in 1..Len(rows) : rows[i].order \in 1..n /\ (rows[i].tx # 0 => rows[i].attempted)

LEMMA PlaceFacts ==
  ASSUME NEW rows, rows \in Seq(Row), Distinct(rows), NEW o
  PROVE  /\ PlaceIn(rows, o) \in 0..Len(rows)
         /\ PlaceIn(rows, o) # 0 => rows[PlaceIn(rows, o)].order = o
         /\ \A i \in 1..Len(rows) : rows[i].order = o => PlaceIn(rows, o) = i
<1> DEFINE at == {i \in 1..Len(rows) : rows[i].order = o}
<1>0. Len(rows) \in Nat
  BY LenProperties
<1>1. PlaceIn(rows, o) = IF at # {} THEN Min(at) ELSE 0
  BY DEF PlaceIn, SelectInSeq
<1>2. ASSUME NEW i \in at PROVE Min(at) = i
  <2>1. at = {i}
    BY <1>2 DEF Distinct
  <2>2. i \in Nat
    BY <1>0
  <2> HIDE DEF at
  <2>3. \A x \in at : \A y \in at : x <= y
    BY <2>1, <2>2
  <2>4. QED
    BY <2>1, <2>3 DEF Min
<1>3. CASE at = {}
  BY <1>0, <1>1, <1>3
<1>4. CASE at # {}
  <2>1. PICK i \in at : TRUE
    BY <1>4
  <2>2. PlaceIn(rows, o) = i
    BY <1>1, <1>2, <1>4, <2>1
  <2>3. QED
    BY <1>0, <2>1, <2>2 DEF Distinct
<1>5. QED
  BY <1>3, <1>4

\* RowIn finds the row of an order.
LEMMA RowFacts ==
  ASSUME NEW rows, rows \in Seq(Row), Distinct(rows), NEW o
  PROVE  /\ \A i \in 1..Len(rows) : rows[i].order = o => RowIn(rows, o) = rows[i]
         /\ (\A i \in 1..Len(rows) : rows[i].order # o) => RowIn(rows, o) = NoRow
         /\ RowIn(rows, o) = NoRow \/ \E i \in 1..Len(rows) : rows[i].order = o /\ RowIn(rows, o) = rows[i]
<1>0. Len(rows) \in Nat
  BY LenProperties
<1>1. QED
  BY <1>0, PlaceFacts DEF RowIn

LEMMA RowTyped ==
  ASSUME NEW n \in Nat, NEW rows, RowsOf(rows, n), NEW o
  PROVE  /\ RowIn(rows, o) \in Row
         /\ RowIn(rows, o).tx # 0 => RowIn(rows, o).attempted
         /\ RowIn(rows, o).order \in {0, o}
         /\ RowIn(rows, o) # NoRow => o \in 1..n /\ RowIn(rows, o).order = o
<1>1. rows \in Seq(Row) /\ Distinct(rows)
  BY DEF RowsOf
<1>2. NoRow \in Row /\ NoRow.tx = 0 /\ NoRow.order = 0
  BY DEF NoRow, Row
<1>3. \A i \in 1..Len(rows) : rows[i] \in Row
  BY <1>1, ElementOfSeq
<1>4. QED
  BY <1>1, <1>2, <1>3, RowFacts DEF RowsOf

\* remember writes one row and leaves or drops the others.
LEMMA RememberFacts ==
  ASSUME NEW n \in Nat, NEW rows, RowsOf(rows, n),
         NEW row \in Row, row.order \in 1..n, row.tx # 0 => row.attempted
  PROVE  /\ RowsOf(Remember(rows, row), n)
         /\ RowIn(Remember(rows, row), row.order) = row
         /\ \A o : o # row.order => RowIn(Remember(rows, row), o) \in {RowIn(rows, o), NoRow}
<1> DEFINE at   == PlaceIn(rows, row.order)
           rest == IF at = 0 THEN rows ELSE RemoveAt(rows, at)
           all  == <<row>> \o rest
           N    == Len(rows)
<1>1. rows \in Seq(Row) /\ Distinct(rows) /\ N \in Nat
  BY LenProperties DEF RowsOf
<1>2. /\ at \in 0..N
      /\ at # 0 => rows[at].order = row.order
      /\ \A i \in 1..N : rows[i].order = row.order => at = i
  BY <1>1, PlaceFacts
<1> HIDE DEF at
<1>3. /\ rest \in Seq(Row) /\ Len(rest) = IF at = 0 THEN N ELSE N - 1
      /\ \A i \in 1..Len(rest) : rest[i] = IF at = 0 \/ i < at THEN rows[i] ELSE rows[i + 1]
  <2>1. CASE at = 0
    BY <1>1, <2>1
  <2>2. CASE at # 0
    <3> DEFINE s == SubSeq(rows, 1, at - 1)
               t == SubSeq(rows, at + 1, N)
    <3>1. \A i \in 1..N : rows[i] \in Row
      BY <1>1, ElementOfSeq
    <3>2. s \in Seq(Row) /\ Len(s) = at - 1 /\ \A i \in 1..(at - 1) : s[i] = rows[i]
      <4>1. 1 \in Int /\ at - 1 \in Int /\ \A i \in 1..(at - 1) : rows[i] \in Row
        BY <1>1, <1>2, <2>2, <3>1
      <4>2. /\ s \in Seq(Row) /\ Len(s) = IF 1 <= at - 1 THEN (at - 1) - 1 + 1 ELSE 0
            /\ \A i \in 1..((at - 1) - 1 + 1) : s[i] = rows[1 + i - 1]
        BY <4>1, SubSeqProperties
      <4> HIDE DEF s
      <4>3. QED
        BY <1>2, <2>2, <4>2
    <3>3. t \in Seq(Row) /\ Len(t) = N - at /\ \A i \in 1..(N - at) : t[i] = rows[at + i]
      <4>1. at + 1 \in Int /\ N \in Int /\ \A i \in (at + 1)..N : rows[i] \in Row
        BY <1>1, <1>2, <2>2, <3>1
      <4>2. /\ t \in Seq(Row) /\ Len(t) = IF at + 1 <= N THEN N - (at + 1) + 1 ELSE 0
            /\ \A i \in 1..(N - (at + 1) + 1) : t[i] = rows[(at + 1) + i - 1]
        BY <4>1, SubSeqProperties
      <4> HIDE DEF t, N
      <4>n. N \in Nat
        BY <1>1
      <4>3. N - (at + 1) + 1 = N - at
        BY <1>2, <2>2, <4>n
      <4>4. \A i \in 1..(N - at) : (at + 1) + i - 1 = at + i
        BY <1>2, <2>2, <4>n
      <4>5. QED
        BY <1>2, <2>2, <4>2, <4>3, <4>4, <4>n
    <3>4. rest = s \o t
      BY <2>2 DEF RemoveAt
    <3> HIDE DEF s, t, N, rest
    <3>n. N \in Nat
      BY <1>1
    <3>5. /\ rest \in Seq(Row) /\ Len(rest) = Len(s) + Len(t)
          /\ \A i \in 1..(Len(s) + Len(t)) : rest[i] = IF i <= Len(s) THEN s[i] ELSE t[i - Len(s)]
      BY <3>2, <3>3, <3>4, ConcatProperties
    <3>6. Len(rest) = N - 1
      BY <1>2, <2>2, <3>2, <3>3, <3>5, <3>n
    <3>7. ASSUME NEW i \in 1..(N - 1) PROVE rest[i] = IF i < at THEN rows[i] ELSE rows[i + 1]
      <4>1. rest[i] = IF i <= at - 1 THEN s[i] ELSE t[i - (at - 1)]
        BY <1>2, <2>2, <3>2, <3>3, <3>5, <3>6, <3>n
      <4>2. CASE i < at
        BY <1>2, <2>2, <3>2, <4>1, <4>2, <3>n
      <4>3. CASE ~(i < at)
        <5>1. i - (at - 1) \in 1..(N - at) /\ at + (i - (at - 1)) = i + 1 /\ ~(i <= at - 1)
          BY <1>2, <2>2, <4>3, <3>n
        <5>2. QED
          BY <3>3, <4>1, <4>3, <5>1
      <4>4. QED
        BY <4>2, <4>3
    <3>8. QED
      BY <2>2, <3>5, <3>6, <3>7
  <2>3. QED
    BY <2>1, <2>2
<1> HIDE DEF rest
<1>4. /\ all \in Seq(Row) /\ Len(all) = Len(rest) + 1 /\ all[1] = row /\ Len(rest) \in Nat
      /\ \A i \in 1..Len(rest) : all[i + 1] = rest[i]
  <2>1. <<row>> \in Seq(Row) /\ Len(<<row>>) = 1 /\ <<row>>[1] = row
    OBVIOUS
  <2>2. Len(rest) \in Nat
    BY <1>3, LenProperties
  <2>3. /\ all \in Seq(Row) /\ Len(all) = 1 + Len(rest)
        /\ \A i \in 1..(1 + Len(rest)) : all[i] = IF i <= 1 THEN <<row>>[i] ELSE rest[i - 1]
    BY <1>3, <2>1, ConcatProperties
  <2> HIDE DEF all
  <2>4. QED
    BY <2>1, <2>2, <2>3
<1> HIDE DEF all, N
<1>n. N = Len(rows) /\ N \in Nat
  BY <1>1 DEF N
\* Every other row comes from one of rows, each from its own.
<1> DEFINE from(i) == IF at = 0 \/ i < at THEN i ELSE i + 1
<1>5. \A i \in 1..Len(rest) : from(i) \in 1..N /\ from(i) # at /\ rest[i] = rows[from(i)]
  BY <1>2, <1>3, <1>n
<1>6. \A i, j \in 1..Len(rest) : from(i) = from(j) => i = j
  BY <1>2, <1>3, <1>n
<1>7. \A k \in 1..N : k # at => \E i \in 1..Len(rest) : from(i) = k
  <2>1. ASSUME NEW k \in 1..N, k # at PROVE \E i \in 1..Len(rest) : from(i) = k
    <3>1. CASE at = 0 \/ k < at
      BY <1>2, <1>3, <1>n, <2>1, <3>1
    <3>2. CASE ~(at = 0 \/ k < at)
      <4>1. k - 1 \in 1..Len(rest) /\ from(k - 1) = k
        BY <1>2, <1>3, <1>n, <2>1, <3>2
      <4>2. QED
        BY <4>1
    <3>3. QED
      BY <3>1, <3>2
  <2>2. QED
    BY <2>1
<1> HIDE DEF from
<1>8. \A i \in 1..Len(rest) : rest[i].order # row.order
  BY <1>2, <1>5, <1>n
<1>9. \A i \in 1..Len(all) : i = 1 \/ (i - 1 \in 1..Len(rest) /\ all[i] = rest[i - 1])
  <2>1. ASSUME NEW i \in 1..Len(all), i # 1 PROVE i - 1 \in 1..Len(rest) /\ all[i] = rest[i - 1]
    <3>1. i - 1 \in 1..Len(rest) /\ (i - 1) + 1 = i
      BY <1>4, <2>1
    <3>2. QED
      BY <1>4, <3>1
  <2>2. QED
    BY <2>1
<1>10. Distinct(all)
  <2>1. ASSUME NEW i \in 1..Len(all), NEW j \in 1..Len(all), all[i].order = all[j].order PROVE i = j
    <3>0. \A k \in 1..Len(all) : k # 1 => all[k].order # row.order
      BY <1>8, <1>9
    <3>1. CASE i = 1 \/ j = 1
      <4>1. all[1].order = row.order
        BY <1>4
      <4>2. QED
        BY <2>1, <3>0, <3>1, <4>1
    <3>2. CASE i # 1 /\ j # 1
      <4>1. i - 1 \in 1..Len(rest) /\ j - 1 \in 1..Len(rest) /\ rest[i - 1].order = rest[j - 1].order
        BY <1>9, <2>1, <3>2
      <4>2. from(i - 1) = from(j - 1)
        BY <1>1, <1>5, <1>n, <4>1 DEF Distinct
      <4>3. i - 1 = j - 1
        BY <1>6, <4>1, <4>2
      <4>4. QED
        BY <4>3
    <3>3. QED
      BY <3>1, <3>2
  <2>2. QED
    BY <2>1 DEF Distinct
<1>11. RowsOf(all, n)
  <2>1. ASSUME NEW i \in 1..Len(all) PROVE all[i].order \in 1..n /\ (all[i].tx # 0 => all[i].attempted)
    <3>1. CASE i = 1
      BY <1>4, <3>1
    <3>2. CASE i # 1
      <4>1. i - 1 \in 1..Len(rest) /\ all[i] = rest[i - 1]
        BY <1>9, <3>2
      <4>2. QED
        BY <1>5, <1>n, <4>1 DEF RowsOf
    <3>3. QED
      BY <3>1, <3>2
  <2>2. QED
    BY <1>4, <1>10, <2>1 DEF RowsOf
<1>12. RowIn(all, row.order) = row
  <2>1. 1 \in 1..Len(all) /\ all[1].order = row.order
    BY <1>4
  <2>2. QED
    BY <1>4, <1>10, <2>1, RowFacts
<1>13. ASSUME NEW o, o # row.order PROVE RowIn(all, o) = RowIn(rows, o)
  <2>1. CASE \E k \in 1..N : rows[k].order = o
    <3>1. PICK k \in 1..N : rows[k].order = o
      BY <2>1
    <3>2. k # at
      BY <1>2, <1>13, <3>1
    <3>3. PICK i \in 1..Len(rest) : from(i) = k
      BY <1>7, <3>2
    <3>4. PICK j \in 1..Len(all) : all[j] = rows[k]
      <4>1. i + 1 \in 1..Len(all) /\ all[i + 1] = rows[k]
        BY <1>4, <1>5, <3>3
      <4>2. QED
        BY <4>1
    <3>5. RowIn(rows, o) = rows[k]
      BY <1>1, <1>n, <3>1, RowFacts
    <3>6. RowIn(all, o) = all[j]
      BY <1>4, <1>10, <3>1, <3>4, RowFacts, ZenonT(40)
    <3>7. QED
      BY <3>4, <3>5, <3>6
  <2>2. CASE \A k \in 1..N : rows[k].order # o
    <3>1. ASSUME NEW i \in 1..Len(all) PROVE all[i].order # o
      <4>1. CASE i = 1
        BY <1>4, <1>13, <4>1
      <4>2. CASE i # 1
        <5>1. i - 1 \in 1..Len(rest) /\ all[i] = rest[i - 1]
          BY <1>9, <4>2
        <5>2. from(i - 1) \in 1..N /\ all[i] = rows[from(i - 1)]
          BY <1>5, <5>1
        <5>3. QED
          BY <2>2, <5>2
      <4>3. QED
        BY <4>1, <4>2
    <3>2. QED
      BY <1>1, <1>4, <1>10, <1>n, <2>2, <3>1, RowFacts
  <2>3. QED
    BY <2>1, <2>2
\* Of them, the first are kept.
<1> DEFINE m == IF Len(all) < Keep THEN Len(all) ELSE Keep
           new == SubSeq(all, 1, m)
<1>14. Remember(rows, row) = new
  BY DEF Remember, all, rest, at
<1>15. m \in Nat /\ 1 <= m /\ m <= Len(all) /\ Len(all) \in Nat
  BY <1>4, GardenBridgeAssumption
<1>16. new \in Seq(Row) /\ Len(new) = m /\ \A i \in 1..m : i \in 1..Len(all) /\ new[i] = all[i]
  <2> HIDE DEF m
  <2>1. \A i \in 1..m : i \in 1..Len(all) /\ all[i] \in Row
    BY <1>4, <1>15, ElementOfSeq
  <2>2. 1 \in Int /\ m \in Int /\ m - 1 + 1 = m
    BY <1>15
  <2>3. /\ new \in Seq(Row) /\ Len(new) = IF 1 <= m THEN m - 1 + 1 ELSE 0
        /\ \A i \in 1..(m - 1 + 1) : new[i] = all[1 + i - 1]
    BY <2>1, <2>2, SubSeqProperties
  <2> HIDE DEF new
  <2>4. \A i \in 1..m : 1 + i - 1 = i
    BY <1>15
  <2>5. QED
    BY <1>15, <2>1, <2>2, <2>3, <2>4
<1> HIDE DEF new, m
<1>17. RowsOf(new, n)
  BY <1>11, <1>16 DEF RowsOf, Distinct
<1>18. RowIn(new, row.order) = row
  <2>1. 1 \in 1..m /\ new[1] = row
    BY <1>4, <1>15, <1>16
  <2>2. QED
    BY <1>16, <1>17, <2>1, RowFacts DEF RowsOf
<1>19. ASSUME NEW o PROVE RowIn(new, o) = NoRow \/ RowIn(new, o) = RowIn(all, o)
  <2>1. CASE \E i \in 1..m : new[i].order = o /\ RowIn(new, o) = new[i]
    <3>1. PICK i \in 1..m : new[i].order = o /\ RowIn(new, o) = new[i]
      BY <2>1
    <3>2. QED
      BY <1>4, <1>10, <1>16, <3>1, RowFacts
  <2>2. QED
    BY <1>16, <1>17, <2>1, RowFacts DEF RowsOf
<1>20. QED
  BY <1>13, <1>14, <1>17, <1>18, <1>19
-----------------------------------------------------------------------------
(* The fundings of an order *)

Tx == [order : Nat, state : {"pending", "accepted", "reverted"}]
Busy == {"wallet", "asked", "sent"}
Preparing == {"prepare", "prepared"}

\* The transactions that fund an order, if they are not reverted, and the calls that ask
\* the wallet for one or wait to tell its hash.
LiveOf(T, o) == {t \in 1..Len(T) : T[t].order = o /\ T[t].state # "reverted"}
Claims(C, o) == {c \in C : c.order = o /\ c.pc \in Busy}
Clean(T, C, o) == LiveOf(T, o) = {} /\ Claims(C, o) = {}

\* One funding at most: known to the row by its transaction, or still with one call.
Funding(L, K, row) ==
  /\ L # {} \/ K # {} => row.attempted
  /\ \A t, u \in L : t = u
  /\ \A c, d \in K : c = d
  /\ \A c \in K : row.tx = 0 /\ \A t \in L : c.pc = "sent" /\ c.nonce = t
  /\ row.tx # 0 => \A t \in L : t = row.tx

EachFunding(T, C, R, rows) == \A o \in Nat \ R : Funding(LiveOf(T, o), Claims(C, o), RowIn(rows, o))

\* The transaction a poll asks for is the row's.
PollRow(p, R, rows) ==
  p.poll.at = "status" /\ p.poll.row.order \notin R
    => RowIn(rows, p.poll.row.order).tx = p.poll.row.tx

\* An order is prepared for a funding it does not have.
Prep(C, m, T, R, rows) ==
  \A c \in C : c.mount = m /\ c.pc \in Preparing /\ c.order \notin R
    => Clean(T, C, c.order) /\ RowIn(rows, c.order).tx = 0

\* The box is ticked for an order that is not funded, or is being funded since.
Ticked(p, C, T, R) ==
  p.ticked => \/ p.active \in R \/ Clean(T, C, p.active)
              \/ \E c \in C : c.mount = p.mount /\ c.pc \in Busy

Placed(C, n, m) ==
  \A c \in C : /\ c.pc \in Busy \cup Preparing \cup {"created"} => c.order \in 1..n
               /\ c.pc = "sent" => c.nonce \in Nat
               /\ c.mount \in 0..m

OneCurrent(C, m) == \A c, d \in C : c.mount = m /\ d.mount = m => c = d

PageFits(p, n) ==
  /\ p.views \in Nat /\ p.mount \in 1..(p.views + 1) /\ p.active \in 0..n
  /\ p.poll.at = "status" => p.poll.row \in Row /\ p.poll.row.order \in 1..n /\ p.poll.row.tx # 0

Fitting ==
  /\ Len(orders) \in Nat /\ Len(orders) <= MaxOrders
  /\ txs \in Seq(Tx)
  /\ RowsOf(saved, Len(orders))
  /\ Placed(calls, Len(orders), page.mount)
  /\ OneCurrent(calls, page.mount)
  /\ PageFits(page, Len(orders))

JInv ==
  /\ Fitting
  /\ EachFunding(txs, calls, forgotten, saved)
  /\ PollRow(page, forgotten, saved)
  /\ Prep(calls, page.mount, txs, forgotten, saved)
  /\ Ticked(page, calls, txs, forgotten)

-----------------------------------------------------------------------------
(* Steps that fund nothing *)

\* A call that goes on with what it had.
Same(e, d) ==
  /\ d.id = e.id /\ d.order = e.order /\ d.nonce = e.nonce /\ d.mount \in {0, e.mount}
  /\ d.pc \in Busy => e.pc \in Busy
  /\ d.pc \in Preparing => e.pc \in Preparing
  /\ e.pc = "sent" => d.pc = "sent"

QuietCalls(C, D) == \A d \in D : d.pc \in Busy \cup Preparing => \E e \in C : Same(e, d)
SameRow(a, b) == a.tx = b.tx /\ a.attempted = b.attempted
Blank(a) == a.tx = 0 /\ a.attempted = FALSE

LEMMA FundingKept ==
  ASSUME NEW L, NEW K, NEW row, Funding(L, K, row),
         NEW M \in SUBSET L, NEW D, \A d \in D : \E e \in K : Same(e, d),
         \A c, d \in D : c.id = d.id => c = d,
         NEW row2, SameRow(row, row2)
  PROVE  Funding(M, D, row2)
<1>1. D # {} => K # {}
  OBVIOUS
<1>2. ASSUME NEW c \in D, NEW d \in D PROVE c = d
  <2>1. PICK e \in K : Same(e, c)
    OBVIOUS
  <2>2. PICK f \in K : Same(f, d)
    OBVIOUS
  <2>3. e = f
    BY DEF Funding
  <2>4. QED
    BY <2>1, <2>2, <2>3 DEF Same
<1>3. ASSUME NEW c \in D PROVE row2.tx = 0 /\ \A t \in M : c.pc = "sent" /\ c.nonce = t
  <2>1. PICK e \in K : Same(e, c)
    OBVIOUS
  <2>2. row.tx = 0 /\ \A t \in L : e.pc = "sent" /\ e.nonce = t
    BY DEF Funding
  <2>3. QED
    BY <2>1, <2>2 DEF Same, SameRow
<1>4. QED
  BY <1>1, <1>2, <1>3 DEF Funding, SameRow

LEMMA CleanKept ==
  ASSUME NEW T, NEW C, NEW o, Clean(T, C, o),
         NEW U, LiveOf(U, o) \subseteq LiveOf(T, o), NEW D, QuietCalls(C, D)
  PROVE  Clean(U, D, o)
<1>1. ASSUME NEW d \in Claims(D, o) PROVE FALSE
  <2>1. PICK e \in C : Same(e, d)
    BY DEF Claims, QuietCalls
  <2>2. e \in Claims(C, o)
    BY <2>1 DEF Claims, Same
  <2>3. QED
    BY <2>2 DEF Clean
<1>2. QED
  BY <1>1 DEF Clean

LEMMA QuietClaims ==
  ASSUME NEW C, NEW D, QuietCalls(C, D), NEW o, NEW d \in Claims(D, o)
  PROVE  \E e \in Claims(C, o) : Same(e, d)
<1>1. PICK e \in C : Same(e, d)
  BY DEF Claims, QuietCalls
<1>2. e \in Claims(C, o)
  BY <1>1 DEF Claims, Same
<1>3. QED
  BY <1>1, <1>2

\* What keeps the fundings: no new transaction, no new claim, the rows as they were.
QuietLive == \A o : LiveOf(txs', o) \subseteq LiveOf(txs, o)
Knows(o) == o \in forgotten' \/ SameRow(RowIn(saved, o), RowIn(saved', o))
QuietRows == \A o : Knows(o)

LEMMA FundedKept ==
  ASSUME JInv, CallsTyped(calls'), QuietCalls(calls, calls'), QuietLive, QuietRows, forgotten \subseteq forgotten'
  PROVE  EachFunding(txs', calls', forgotten', saved')
<1>1. ASSUME NEW o \in Nat \ forgotten'
      PROVE  Funding(LiveOf(txs', o), Claims(calls', o), RowIn(saved', o))
  <2>1. Funding(LiveOf(txs, o), Claims(calls, o), RowIn(saved, o))
    BY DEF JInv, EachFunding
  <2>2. LiveOf(txs', o) \in SUBSET LiveOf(txs, o) /\ SameRow(RowIn(saved, o), RowIn(saved', o))
    BY DEF QuietLive, QuietRows, Knows
  <2>3. \A d \in Claims(calls', o) : \E e \in Claims(calls, o) : Same(e, d)
    BY QuietClaims
  <2>4. \A c, d \in Claims(calls', o) : c.id = d.id => c = d
    BY DEF CallsTyped, Claims
  <2>5. QED
    BY <2>1, <2>2, <2>3, <2>4, FundingKept
<1>2. QED
  BY <1>1 DEF EachFunding

LEMMA PollKept ==
  ASSUME JInv, QuietRows, forgotten \subseteq forgotten', page'.poll.at = "status" => page'.poll = page.poll
  PROVE  PollRow(page', forgotten', saved')
BY DEF JInv, PollRow, QuietRows, Knows, SameRow

\* The page is the same, or no call is its own.
SameMount == page'.mount = page.mount \/ \A d \in calls' : d.mount # page'.mount

LEMMA PrepKept ==
  ASSUME JInv, QuietCalls(calls, calls'), QuietLive, QuietRows, forgotten \subseteq forgotten', SameMount
  PROVE  Prep(calls', page'.mount, txs', forgotten', saved')
<1>1. ASSUME NEW d \in calls', d.mount = page'.mount, d.pc \in Preparing, d.order \notin forgotten'
      PROVE  Clean(txs', calls', d.order) /\ RowIn(saved', d.order).tx = 0
  <2>1. page'.mount = page.mount /\ page.mount # 0
    BY <1>1 DEF SameMount, JInv, Fitting, PageFits
  <2>2. PICK e \in calls : Same(e, d)
    BY <1>1 DEF QuietCalls
  <2>3. e.mount = page.mount /\ e.pc \in Preparing /\ e.order = d.order
    BY <1>1, <2>1, <2>2 DEF Same
  <2>4. Clean(txs, calls, d.order) /\ RowIn(saved, d.order).tx = 0
    BY <1>1, <2>3 DEF JInv, Prep
  <2>5. LiveOf(txs', d.order) \subseteq LiveOf(txs, d.order)
    BY DEF QuietLive
  <2>6. QED
    BY <1>1, <2>4, <2>5, CleanKept DEF QuietRows, Knows, SameRow
<1>2. QED
  BY <1>1 DEF Prep

\* The box stays ticked only on the same page, where a call that funds goes on.
TickStays ==
  page'.ticked =>
    /\ page.ticked /\ page'.active = page.active /\ page'.mount = page.mount
    /\ \A e \in calls : e.mount = page.mount /\ e.pc \in Busy
         => \E d \in calls' : d.mount = page.mount /\ d.pc \in Busy

LEMMA TickedKept ==
  ASSUME JInv, QuietCalls(calls, calls'), QuietLive, forgotten \subseteq forgotten', TickStays
  PROVE  Ticked(page', calls', txs', forgotten')
<1>1. SUFFICES ASSUME page'.ticked
               PROVE  \/ page'.active \in forgotten' \/ Clean(txs', calls', page'.active)
                      \/ \E c \in calls' : c.mount = page'.mount /\ c.pc \in Busy
  BY DEF Ticked
<1>2. page.ticked /\ page'.active = page.active /\ page'.mount = page.mount
  BY <1>1 DEF TickStays
<1>3. CASE Clean(txs, calls, page.active)
  <2>1. LiveOf(txs', page.active) \subseteq LiveOf(txs, page.active)
    BY DEF QuietLive
  <2>2. QED
    BY <1>2, <1>3, <2>1, CleanKept
<1>4. CASE \E c \in calls : c.mount = page.mount /\ c.pc \in Busy
  BY <1>1, <1>2, <1>4 DEF TickStays
<1>5. QED
  BY <1>2, <1>3, <1>4 DEF JInv, Ticked

\* All of it.
LEMMA Quiet ==
  ASSUME JInv, CallsTyped(calls'), Fitting', QuietCalls(calls, calls'), QuietLive, QuietRows,
         forgotten \subseteq forgotten', SameMount, TickStays, page'.poll.at = "status" => page'.poll = page.poll
  PROVE  JInv'
BY FundedKept, PollKept, PrepKept, TickedKept DEF JInv
-----------------------------------------------------------------------------
(* The rows of Activity *)

\* A set of numbers has a least one.
LEMMA Least ==
  ASSUME NEW S \in SUBSET Nat, S # {}
  PROVE  \E n \in S : \A m \in S : n <= m
<1>1. \A R, U, T : IsWellFoundedOn(R, U) /\ T \subseteq U /\ T # {}
                   => \E n \in T : \A m \in T : ~(<<m, n>> \in R)
  BY WFMin
<1>2. PICK n \in S : \A m \in S : ~(<<m, n>> \in OpToRel(<, Nat))
  BY <1>1, NatLessThanWellFounded
<1>3. \A m \in S : ~(m < n)
  BY <1>2 DEF OpToRel
<1>4. QED
  BY <1>3

LEMMA ListedFacts ==
  ASSUME NEW n \in Nat, NEW rows, RowsOf(rows, n), NEW o \in 1..n
  PROVE  /\ RowsOf(Listed(rows, o), n)
         /\ \A p : \/ SameRow(RowIn(rows, p), RowIn(Listed(rows, o), p))
                   \/ Blank(RowIn(Listed(rows, o), p))
<1> DEFINE row == [RowIn(rows, o) EXCEPT !.order = o]
<1>1. RowIn(rows, o) \in Row /\ (RowIn(rows, o).tx # 0 => RowIn(rows, o).attempted)
  BY RowTyped
<1>2. /\ row \in Row /\ row.order = o /\ row.tx = RowIn(rows, o).tx
      /\ row.attempted = RowIn(rows, o).attempted
  BY <1>1 DEF Row
<1>3. Listed(rows, o) = Remember(rows, row)
  BY DEF Listed
<1> HIDE DEF row
<1>4. RowsOf(Remember(rows, row), n) /\ RowIn(Remember(rows, row), o) = row
  BY <1>1, <1>2, RememberFacts
<1>5. \A p : p # o => RowIn(Remember(rows, row), p) \in {RowIn(rows, p), NoRow}
  BY <1>1, <1>2, RememberFacts
<1>6. QED
  BY <1>2, <1>3, <1>4, <1>5 DEF SameRow, Blank, NoRow

\* The recursion of Loaded has a solution.
LEMMA LoadedDefined ==
  ASSUME Len(orders) \in Nat
  PROVE  Loaded = [k \in 0..Len(orders) |->
                     IF k = 0 THEN saved ELSE Listed(Loaded[k - 1], Len(orders) + 1 - k)]
<1> DEFINE n == Len(orders)
           Rec(f, m) == f = [k \in 0..m |-> IF k = 0 THEN saved ELSE Listed(f[k - 1], n + 1 - k)]
           S == {m \in Nat : ~ \E f : Rec(f, m)}
<1>1. S = {}
  <2>1. SUFFICES ASSUME S # {} PROVE FALSE
    OBVIOUS
  <2>2. PICK m \in S : \A i \in S : m <= i
    BY <2>1, Least
  <2>3. m # 0
    <3>1. Rec([k \in 0..0 |-> saved], 0)
      OBVIOUS
    <3>2. QED
      BY <2>2, <3>1
  <2>4. m - 1 \in Nat /\ m - 1 \notin S
    BY <2>2, <2>3
  <2>5. PICK f : Rec(f, m - 1)
    BY <2>4
  <2> DEFINE g == [k \in 0..m |-> IF k = 0 THEN saved ELSE Listed(f[k - 1], n + 1 - k)]
  <2>6. ASSUME NEW k \in 0..(m - 1) PROVE f[k] = g[k]
    <3>1. f[k] = IF k = 0 THEN saved ELSE Listed(f[k - 1], n + 1 - k)
      BY <2>5
    <3>2. k \in 0..m
      BY <2>2
    <3>3. QED
      BY <3>1, <3>2
  <2>7. ASSUME NEW k \in 0..m, k # 0 PROVE g[k - 1] = f[k - 1]
    <3>1. k - 1 \in 0..(m - 1)
      BY <2>2, <2>7
    <3> HIDE DEF g
    <3>2. QED
      BY <2>6, <3>1
  <2>8. Rec(g, m)
    <3>1. \A k \in 0..m : (IF k = 0 THEN saved ELSE Listed(f[k - 1], n + 1 - k))
                         = (IF k = 0 THEN saved ELSE Listed(g[k - 1], n + 1 - k))
      BY <2>7
    <3>2. QED
      BY <3>1
  <2>9. QED
    BY <2>2, <2>8
<1>2. \E f : Rec(f, n)
  BY <1>1
<1>3. Loaded = CHOOSE f : Rec(f, n)
  BY DEF Loaded
<1> HIDE DEF Rec, n
<1>4. Rec(Loaded, n)
  BY <1>2, <1>3
<1>5. QED
  BY <1>4 DEF Rec, n

LEMMA LoadedFacts ==
  ASSUME Len(orders) \in Nat, RowsOf(saved, Len(orders))
  PROVE  /\ RowsOf(Loaded[Len(orders)], Len(orders))
         /\ \A p : \/ SameRow(RowIn(saved, p), RowIn(Loaded[Len(orders)], p))
                   \/ Blank(RowIn(Loaded[Len(orders)], p))
<1> DEFINE n == Len(orders)
           Good(k) == /\ RowsOf(Loaded[k], n)
                      /\ \A p : SameRow(RowIn(saved, p), RowIn(Loaded[k], p)) \/ Blank(RowIn(Loaded[k], p))
           S == {k \in 0..n : ~Good(k)}
<1>1. S = {}
  <2>1. SUFFICES ASSUME S # {} PROVE FALSE
    OBVIOUS
  <2>0. S \in SUBSET Nat
    OBVIOUS
  <2>2. PICK k \in S : \A i \in S : k <= i
    <3> HIDE DEF S
    <3>1. QED
      BY <2>0, <2>1, Least
  <2>3. k # 0
    <3>1. Loaded[0] = saved
      BY LoadedDefined
    <3>2. QED
      BY <2>2, <3>1 DEF SameRow
  <2>4. k \in 1..n /\ k - 1 \in 0..n /\ k - 1 \notin S
    BY <2>2, <2>3
  <2>5. Good(k - 1)
    BY <2>4
  <2>6. Loaded[k] = Listed(Loaded[k - 1], n + 1 - k)
    BY <2>3, <2>4, LoadedDefined
  <2>7. n + 1 - k \in 1..n
    BY <2>4
  <2>8. /\ RowsOf(Loaded[k], n)
        /\ \A p : SameRow(RowIn(Loaded[k - 1], p), RowIn(Loaded[k], p)) \/ Blank(RowIn(Loaded[k], p))
    BY <2>5, <2>6, <2>7, ListedFacts
  <2>9. Good(k)
    BY <2>5, <2>8 DEF SameRow, Blank
  <2>10. QED
    BY <2>2, <2>9
<1>2. QED
  BY <1>1

\* A row that is as it was or blank is forgotten only if it was attempted.
LEMMA Forgot ==
  ASSUME JInv, NEW p, SameRow(RowIn(saved, p), RowIn(saved', p)) \/ Blank(RowIn(saved', p))
  PROVE  p \in Forgets \/ SameRow(RowIn(saved, p), RowIn(saved', p))
<1> DEFINE row == RowIn(saved, p)
<1>1. /\ row \in Row /\ (row.tx # 0 => row.attempted)
      /\ row # NoRow => p \in 1..Len(orders)
  BY RowTyped DEF JInv, Fitting
<1>2. row.attempted => row # NoRow
  BY DEF NoRow
<1> HIDE DEF row
<1>3. CASE row.attempted
  <2>1. p \in 1..Len(orders) /\ RowOf(p).attempted
    BY <1>1, <1>2, <1>3 DEF RowOf, row
  <2>2. Blank(RowIn(saved', p)) => ~RowIn(saved', p).attempted
    BY DEF Blank
  <2>3. QED
    BY <2>1, <2>2 DEF Forgets
<1>4. CASE ~row.attempted
  <2>1. row.attempted = FALSE /\ row.tx = 0
    BY <1>1, <1>4 DEF Row
  <2>2. Blank(RowIn(saved', p)) => SameRow(row, RowIn(saved', p))
    BY <2>1 DEF Blank, SameRow
  <2>3. QED
    BY <2>2 DEF row
<1>5. QED
  BY <1>3, <1>4
-----------------------------------------------------------------------------
(* Steps of the page *)

LEMMA SameCalls == ASSUME NEW C PROVE QuietCalls(C, C)
BY DEF QuietCalls, Same

LEMMA PageMoves ==
  ASSUME IInv', JInv, UNCHANGED <<txs, saved, calls, forgotten>>, Len(orders') = Len(orders),
         PageFits(page', Len(orders)), page'.mount = page.mount \/ page'.mount = page.views + 2,
         page'.ticked => page.ticked /\ page'.active = page.active /\ page'.mount = page.mount,
         page'.poll.at = "status" => page'.poll = page.poll
  PROVE  JInv'
<1>1. Fitting /\ CallsTyped(calls')
  BY DEF JInv, IInv
<1>2. page.views \in Nat /\ page.mount \in 1..(page.views + 1) /\ \A c \in calls : c.mount \in 0..page.mount
  BY <1>1 DEF Fitting, PageFits, Placed
<1>3. Placed(calls, Len(orders), page'.mount) /\ OneCurrent(calls, page'.mount)
  <2>1. CASE page'.mount = page.mount
    BY <1>1, <2>1 DEF Fitting
  <2>2. CASE page'.mount = page.views + 2
    <3>1. ASSUME NEW c \in calls PROVE c.mount \in 0..page'.mount /\ c.mount # page'.mount
      BY <1>2, <2>2
    <3>2. QED
      BY <1>1, <3>1 DEF Fitting, Placed, OneCurrent
  <2>3. QED
    BY <2>1, <2>2
<1>4. Fitting'
  BY <1>1, <1>3 DEF Fitting
<1>5. SameMount
  <2>1. CASE page'.mount = page.views + 2
    <3>1. ASSUME NEW c \in calls PROVE c.mount # page'.mount
      BY <1>2, <2>1
    <3>2. QED
      BY <3>1 DEF SameMount
  <2>2. QED
    BY <2>1 DEF SameMount
<1>6. QuietCalls(calls, calls') /\ QuietLive /\ QuietRows /\ TickStays
  BY SameCalls DEF QuietLive, QuietRows, Knows, SameRow, TickStays
<1>7. QED
  BY <1>1, <1>4, <1>5, <1>6, Quiet

\* A step that leaves the page, the calls and the rows.
LEMMA PageStays ==
  ASSUME IInv', JInv, UNCHANGED <<txs, saved, page, calls, forgotten>>, Len(orders') = Len(orders)
  PROVE  JInv'
<1>1. PageFits(page, Len(orders))
  BY DEF JInv, Fitting
<1>2. QED
  BY <1>1, PageMoves

LEMMA GardenMovesKeeps == ASSUME IInv, IInv', JInv, GardenMoves PROVE JInv'
<1>1. PICK S : orders \in Seq(S)
  BY DEF IInv, OrdersTyped
<1>2. PICK o \in 1..Len(orders) : \E new : orders' = [orders EXCEPT ![o] = new]
  BY DEF GardenMoves, Moves
<1>n. PICK new : orders' = [orders EXCEPT ![o] = new]
  BY <1>2
<1>3. orders \in Seq(S \cup {new}) /\ new \in S \cup {new}
  BY <1>1
<1>4. Len(orders') = Len(orders)
  BY <1>n, <1>3, ExceptSeq
<1>5. UNCHANGED <<txs, saved, page, calls, forgotten>>
  BY DEF GardenMoves
<1>6. QED
  BY <1>4, <1>5, PageStays

\* The chain only makes fewer transactions live.
LEMMA ChainDecidesKeeps == ASSUME IInv, IInv', JInv, ChainDecides PROVE JInv'
<1>1. UNCHANGED <<orders, saved, page, calls, forgotten>> /\ Fitting /\ CallsTyped(calls')
  BY DEF ChainDecides, JInv, IInv
<1>2. txs \in Seq(Tx)
  BY <1>1 DEF Fitting
<1>3. PICK t \in 1..Len(txs), s \in {"accepted", "reverted"} :
        txs[t].state = "pending" /\ txs' = [txs EXCEPT ![t].state = s]
  BY DEF ChainDecides
<1>4. txs[t] \in Tx
  BY <1>2, ElementOfSeq
<1> DEFINE new == [txs[t] EXCEPT !.state = s]
<1>5. new \in Tx /\ new.order = txs[t].order
  BY <1>4 DEF Tx
<1>6. txs' = [txs EXCEPT ![t] = new]
  BY <1>3
<1> HIDE DEF new
<1>7. /\ txs' \in Seq(Tx) /\ Len(txs') = Len(txs)
      /\ \A u \in 1..Len(txs) : txs'[u] = IF u = t THEN new ELSE txs[u]
  BY <1>2, <1>5, <1>6, ExceptSeq
<1>8. QuietLive
  <2>1. ASSUME NEW o, NEW u \in LiveOf(txs', o) PROVE u \in LiveOf(txs, o)
    BY <1>3, <1>5, <1>7 DEF LiveOf
  <2>2. QED
    BY <2>1 DEF QuietLive
<1>9. Fitting'
  BY <1>1, <1>7 DEF Fitting
<1>10. QuietCalls(calls, calls') /\ QuietRows /\ TickStays /\ SameMount
  BY <1>1, SameCalls DEF QuietRows, Knows, SameRow, TickStays, SameMount
<1>11. QED
  BY <1>1, <1>8, <1>9, <1>10, Quiet

LEMMA LoadHistoryKeeps == ASSUME IInv, IInv', JInv, LoadHistory PROVE JInv'
<1>1. UNCHANGED <<orders, txs, page, calls>> /\ Fitting /\ CallsTyped(calls')
  BY DEF LoadHistory, JInv, IInv
<1>2. saved' = Loaded[Len(orders)] /\ forgotten' = forgotten \cup Forgets
  BY DEF LoadHistory
<1>3. Len(orders) \in Nat /\ RowsOf(saved, Len(orders))
  BY <1>1 DEF Fitting
<1>4. /\ RowsOf(saved', Len(orders))
      /\ \A o : SameRow(RowIn(saved, o), RowIn(saved', o)) \/ Blank(RowIn(saved', o))
  BY <1>2, <1>3, LoadedFacts
<1>5. Fitting'
  BY <1>1, <1>4 DEF Fitting
<1>6. QuietRows
  BY <1>2, <1>4, Forgot DEF QuietRows, Knows
<1>7. QuietCalls(calls, calls') /\ QuietLive /\ TickStays /\ SameMount
  BY <1>1, SameCalls DEF QuietLive, TickStays, SameMount
<1>8. QED
  BY <1>1, <1>2, <1>5, <1>6, <1>7, Quiet

LEMMA PageStepsKeep ==
  ASSUME IInv, IInv', JInv,
         \/ Show \/ SetMode \/ (\E r \in Review : LoadQuote(r)) \/ Invalidate
         \/ (\E o \in 1..Len(orders) : OpenOrder(o)) \/ LeaveOrder \/ Refresh
  PROVE  JInv'
<1>1. UNCHANGED <<orders, txs, saved, calls, forgotten>>
  BY DEF Show, SetMode, LoadQuote, Invalidate, OpenOrder, LeaveOrder, Refresh
<1> DEFINE n == Len(orders)
<1>2. PageFits(page, n) /\ n \in Nat /\ DOMAIN page = PageField
  BY DEF JInv, Fitting, IInv, PageTyped
<1> HIDE DEF n
<1>3. CASE Show
  <2>1. PICK a \in BOOLEAN : page' = FreshPage(page.views + 1, a, page.mode)
    BY <1>3 DEF Show
  <2>2. /\ page'.views = page.views + 1 /\ page'.mount = page.views + 2 /\ page'.active = 0
        /\ page'.ticked = FALSE /\ page'.poll.at = "idle"
    BY <1>2, <2>1 DEF FreshPage, Idle, PageFits
  <2>3. PageFits(page', n)
    BY <1>2, <2>2 DEF PageFits
  <2>4. QED
    BY <1>1, <2>2, <2>3, PageMoves DEF n
<1>4. ASSUME page'.views \in {page.views, page.views + 1}, page'.mount = page.mount, page'.active = page.active,
             page'.ticked = page.ticked, page'.poll = page.poll
      PROVE  JInv'
  <2>1. PageFits(page', n)
    BY <1>2, <1>4 DEF PageFits
  <2>2. QED
    BY <1>1, <1>4, <2>1, PageMoves DEF n
<1>5. ASSUME NEW o \in 0..n, page'.views = page.views, page'.mount = page.mount, page'.active = o,
             page'.ticked = FALSE, page'.poll = Idle
      PROVE  JInv'
  <2>1. page'.poll.at = "idle"
    BY <1>5 DEF Idle
  <2>2. PageFits(page', n)
    BY <1>2, <1>5, <2>1 DEF PageFits
  <2>3. QED
    BY <1>1, <1>5, <2>1, <2>2, PageMoves DEF n
<1>6. CASE SetMode \/ (\E r \in Review : LoadQuote(r)) \/ Invalidate
  <2>1. /\ page'.views \in {page.views, page.views + 1} /\ page'.mount = page.mount
        /\ page'.active = page.active /\ page'.ticked = page.ticked /\ page'.poll = page.poll
    BY <1>2, <1>6 DEF SetMode, LoadQuote, Invalidate, PageField
  <2>2. QED
    BY <1>4, <2>1
<1>7. ASSUME NEW o \in 1..n, OpenOrder(o) PROVE JInv'
  <2>1. /\ page'.views = page.views /\ page'.mount = page.mount /\ page'.active = o
        /\ page'.ticked = FALSE /\ page'.poll = Idle
    BY <1>2, <1>7 DEF OpenOrder, Follow, PageField
  <2>2. o \in 0..n
    BY <1>2
  <2>3. QED
    BY <1>5, <2>1, <2>2
<1>8. CASE LeaveOrder \/ Refresh
  <2>1. PICK o \in {0, page.active} : page' = Follow(page, o)
    BY <1>8 DEF LeaveOrder, Refresh
  <2>2. o \in 0..n
    BY <1>2 DEF PageFits
  <2>3. /\ page'.views = page.views /\ page'.mount = page.mount /\ page'.active = o
        /\ page'.ticked = FALSE /\ page'.poll = Idle
    BY <1>2, <2>1 DEF Follow, PageField
  <2>4. QED
    BY <1>5, <2>2, <2>3
<1>9. QED
  BY <1>3, <1>6, <1>7, <1>8 DEF n

\* A poll that goes on to a transaction has it from the row.
LEMMA PollKeeps == ASSUME IInv, IInv', JInv, Poll PROVE JInv'
<1>1. UNCHANGED <<orders, txs, saved, calls, forgotten>> /\ Fitting /\ CallsTyped(calls') /\ DOMAIN page = PageField
  BY DEF Poll, JInv, IInv, PageTyped
<1>2. /\ page'.views = page.views /\ page'.mount = page.mount /\ page'.active = page.active
      /\ page'.ticked = page.ticked
  BY <1>1 DEF Poll, PageField
<1> DEFINE row == RowOf(page.active)
<1>3. \/ page'.poll.at \in {"over", "idle"}
      \/ page'.poll = [at |-> "status", row |-> row] /\ row.tx # 0
  BY <1>1 DEF Poll, PageField, Idle
<1>4. page.active \in 0..Len(orders) /\ page.active # 0
  BY <1>1 DEF Fitting, PageFits, Poll
<1>5. row \in Row /\ (row.tx # 0 => row.order = page.active /\ page.active \in 1..Len(orders))
  <2>1. Len(orders) \in Nat /\ RowsOf(saved, Len(orders))
    BY <1>1 DEF Fitting
  <2>2. NoRow.tx = 0
    BY DEF NoRow
  <2>3. QED
    BY <2>1, <2>2, RowTyped DEF RowOf
<1> HIDE DEF row
<1>6. page'.poll.at = "status" =>
        page'.poll.row = row /\ page'.poll.row \in Row /\ row.tx # 0 /\ row.order = page.active
        /\ page.active \in 1..Len(orders)
  BY <1>3, <1>5
<1>7. PageFits(page', Len(orders))
  BY <1>1, <1>2, <1>6 DEF Fitting, PageFits
<1>8. Fitting'
  BY <1>1, <1>2, <1>7 DEF Fitting
<1>9. PollRow(page', forgotten', saved')
  BY <1>1, <1>6 DEF PollRow, RowOf, row
<1>10. QuietCalls(calls, calls') /\ QuietRows /\ QuietLive /\ TickStays /\ SameMount
  BY <1>1, <1>2, SameCalls DEF QuietRows, Knows, QuietLive, TickStays, SameMount, SameRow
<1>11. QED
  BY <1>1, <1>8, <1>9, <1>10, FundedKept, PrepKept, TickedKept DEF JInv

\* The user ticks the box of an order that is not funded.
LEMMA TickKeeps == ASSUME IInv, IInv', JInv, Tick PROVE JInv'
<1>1. UNCHANGED <<orders, txs, saved, calls, forgotten>> /\ Fitting /\ CallsTyped(calls') /\ DOMAIN page = PageField
  BY DEF Tick, JInv, IInv, PageTyped
<1>2. /\ page'.views = page.views /\ page'.mount = page.mount /\ page'.active = page.active
      /\ page'.poll = page.poll
  BY <1>1 DEF Tick, PageField
<1>3. Clean(txs, calls, page.active)
  BY DEF Tick, Unfunded, Clean, LiveOf, Claims, Busy
<1>4. Fitting'
  BY <1>1, <1>2 DEF Fitting, PageFits
<1>5. Ticked(page', calls', txs', forgotten')
  BY <1>1, <1>2, <1>3 DEF Ticked
<1>6. QuietCalls(calls, calls') /\ QuietRows /\ QuietLive /\ SameMount
  BY <1>1, <1>2, SameCalls DEF QuietRows, Knows, QuietLive, SameMount, SameRow
<1>7. QED
  BY <1>1, <1>2, <1>4, <1>5, <1>6, FundedKept, PrepKept, PollKept DEF JInv
-----------------------------------------------------------------------------
(* The buttons *)

\* A call is made where there is none of the page.
LEMMA PressFits ==
  ASSUME JInv, UNCHANGED <<orders, txs, saved, page, forgotten>>, \A c \in calls : c.mount # page.mount,
         NEW d, calls' = calls \cup {d}, d.mount = page.mount, d.pc \notin Busy, d.pc # "created",
         d.pc \in Preparing => d.order \in 1..Len(orders)
  PROVE  Fitting'
<1>1. Fitting /\ page.mount \in Nat
  BY DEF JInv, Fitting, PageFits
<1>2. Placed(calls', Len(orders), page.mount)
  BY <1>1 DEF Fitting, Placed, Busy
<1>3. OneCurrent(calls', page.mount)
  BY DEF OneCurrent
<1>4. QED
  BY <1>1, <1>2, <1>3 DEF Fitting

LEMMA CallFields ==
  ASSUME NEW pc, NEW r, NEW o
  PROVE  Call(pc, r, o).pc = pc /\ Call(pc, r, o).mount = page.mount /\ Call(pc, r, o).order = o
BY DEF Call

LEMMA NoneCurrent == ASSUME ~Working PROVE \A c \in calls : c.mount # page.mount
BY DEF Working, Current

LEMMA PressKeeps == ASSUME IInv, IInv', JInv, Create \/ Refund PROVE JInv'
<1>1. UNCHANGED <<orders, txs, saved, page, forgotten>> /\ CallsTyped(calls')
  BY DEF Create, Refund, IInv
<1>2. \E pc \in {"fee", "refund"} : \E r, o : calls' = calls \cup {Call(pc, r, o)}
  BY DEF Create, Refund
<1>p. PICK pc \in {"fee", "refund"} : \E r, o : calls' = calls \cup {Call(pc, r, o)}
  BY <1>2
<1>3. PICK r, o : calls' = calls \cup {Call(pc, r, o)}
  BY <1>p
<1> DEFINE d == Call(pc, r, o)
<1>4. calls' = calls \cup {d} /\ d.mount = page.mount /\ d.pc \in {"fee", "refund"}
  BY <1>3, CallFields
<1> HIDE DEF d
<1>5. \A c \in calls : c.mount # page.mount
  BY NoneCurrent DEF Create, Refund
<1>6. Fitting'
  BY <1>1, <1>4, <1>5, PressFits DEF Busy, Preparing
<1>7. QuietCalls(calls, calls')
  BY <1>4 DEF QuietCalls, Same, Busy, Preparing
<1>8. QuietRows /\ QuietLive /\ SameMount /\ TickStays
  BY <1>1, <1>4 DEF QuietRows, Knows, QuietLive, SameRow, SameMount, TickStays
<1>9. QED
  BY <1>1, <1>6, <1>7, <1>8, Quiet

\* Fund: without an attempt in the row there is no funding; with one the box is ticked.
LEMMA FundKeeps == ASSUME IInv, IInv', JInv, Fund PROVE JInv'
<1>1. UNCHANGED <<orders, txs, saved, page, forgotten>> /\ Fitting
  BY DEF Fund, JInv
<1> DEFINE d == Call("prepare", None, page.active)
<1>2. calls' = calls \cup {d} /\ d.mount = page.mount /\ d.pc = "prepare" /\ d.order = page.active
  BY CallFields DEF Fund
<1> HIDE DEF d
<1>3. \A c \in calls : c.mount # page.mount
  BY NoneCurrent DEF Fund
<1>4. page.active \in 1..Len(orders)
  BY <1>1 DEF Fitting, PageFits, Fund
<1>5. Fitting'
  BY <1>1, <1>2, <1>3, <1>4, PressFits DEF Busy
<1>6. \A o : Claims(calls', o) = Claims(calls, o)
  BY <1>2 DEF Claims, Busy
<1>7. EachFunding(txs', calls', forgotten', saved')
  BY <1>1, <1>6 DEF JInv, EachFunding
<1>8. PollRow(page', forgotten', saved')
  BY <1>1 DEF JInv
<1>9. Ticked(page', calls', txs', forgotten')
  BY <1>1, <1>2, <1>6 DEF JInv, Ticked, Clean
<1>10. page.active \notin forgotten => Clean(txs, calls, page.active) /\ RowIn(saved, page.active).tx = 0
  <2>1. SUFFICES ASSUME page.active \notin forgotten
                 PROVE  Clean(txs, calls, page.active) /\ RowIn(saved, page.active).tx = 0
    OBVIOUS
  <2> DEFINE row == RowIn(saved, page.active)
  <2>2. row.tx = 0 /\ (row.attempted => page.ticked)
    BY DEF Fund, FundAllowed, RowOf
  <2>3. CASE page.ticked
    BY <1>3, <2>1, <2>2, <2>3 DEF JInv, Ticked
  <2>4. CASE ~page.ticked
    <3>1. page.active \in Nat \ forgotten
      BY <1>1, <1>4, <2>1 DEF Fitting
    <3>2. Funding(LiveOf(txs, page.active), Claims(calls, page.active), row)
      BY <3>1 DEF JInv, EachFunding
    <3>3. QED
      BY <2>2, <2>4, <3>2 DEF Funding, Clean
  <2>5. QED
    BY <2>3, <2>4
<1>11. Prep(calls', page'.mount, txs', forgotten', saved')
  BY <1>1, <1>2, <1>3, <1>6, <1>10 DEF Prep, Clean
<1>12. QED
  BY <1>5, <1>7, <1>8, <1>9, <1>11 DEF JInv

-----------------------------------------------------------------------------
(* The calls: steps that fund nothing *)

\* What is left of the calls when c ends or becomes d.
LEMMA CallsOf ==
  ASSUME NEW c \in calls, NEW d, Ends(c) \/ Goes(c, d)
  PROVE  calls' \subseteq (calls \ {c}) \cup {d} /\ calls \ {c} \subseteq calls'
BY DEF Ends, Goes

\* A call ends or goes on with what it had, and the page is not another.
LEMMA CallQuiet ==
  ASSUME IInv', JInv, UNCHANGED <<txs, saved, forgotten>>, Len(orders') \in Nat,
         Len(orders) <= Len(orders'), Len(orders') <= MaxOrders,
         NEW c \in calls, NEW d, Ends(c) \/ Goes(c, d),
         d.mount \in {0, c.mount}, d.pc \in Busy \cup Preparing => Same(c, d) /\ d.pc # "sent",
         d.pc = "created" => d.order \in 1..Len(orders'),
         page'.views = page.views, page'.mount = page.mount, page'.active = page.active,
         page'.poll = page.poll \/ page'.poll = Idle,
         page'.ticked => page.ticked /\ (c.pc \in Busy /\ c.mount = page.mount =>
                                           Goes(c, d) /\ d.pc \in Busy /\ d.mount = c.mount)
  PROVE  JInv'
<1>1. Fitting /\ CallsTyped(calls')
  BY DEF JInv, IInv
<1>2. calls' \subseteq (calls \ {c}) \cup {d} /\ calls \ {c} \subseteq calls'
  BY CallsOf
<1> DEFINE n == Len(orders)
           n2 == Len(orders')
<1>3. n \in Nat /\ n2 \in Nat /\ n <= n2 /\ n2 <= MaxOrders /\ 1..n \subseteq 1..n2 /\ 0..n \subseteq 0..n2
  <2>1. n \in Nat
    BY <1>1 DEF Fitting
  <2>2. QED
    BY <2>1
<1>4. txs' \in Seq(Tx) /\ RowsOf(saved', n2)
  BY <1>1, <1>3 DEF Fitting, RowsOf
<1> HIDE DEF n, n2
<1>5. Placed(calls', n2, page'.mount)
  <2>1. Placed(calls, n, page.mount) /\ page.mount \in Nat
    BY <1>1 DEF Fitting, PageFits, n
  <2>2. d.pc \in Busy \cup Preparing => d.order \in 1..n2
    BY <1>3, <2>1 DEF Same, Placed
  <2>3. d.mount \in 0..page.mount
    BY <2>1 DEF Placed
  <2>4. d.pc \in Busy \cup Preparing \cup {"created"} => d.order \in 1..n2
    BY <2>2 DEF n2
  <2>5. d.pc = "sent" => FALSE
    BY DEF Busy
  <2>6. QED
    BY <1>2, <1>3, <2>1, <2>3, <2>4, <2>5 DEF Placed
<1>6. OneCurrent(calls', page'.mount)
  <2>1. OneCurrent(calls, page.mount) /\ page.mount # 0
    BY <1>1 DEF Fitting, PageFits
  <2>2. QED
    BY <1>2, <2>1 DEF OneCurrent
<1>7. PageFits(page', n2)
  <2>1. PageFits(page, n) /\ Idle.at = "idle"
    BY <1>1 DEF Fitting, Idle, n
  <2>2. QED
    BY <1>3, <2>1 DEF PageFits
<1>8. Fitting'
  BY <1>3, <1>4, <1>5, <1>6, <1>7 DEF Fitting, n2
<1>9. QuietCalls(calls, calls')
  BY <1>2 DEF QuietCalls, Same
<1>10. TickStays
  <2>1. ASSUME page'.ticked, NEW e \in calls, e.mount = page.mount, e.pc \in Busy
        PROVE  \E f \in calls' : f.mount = page.mount /\ f.pc \in Busy
    <3>1. CASE e = c
      BY <2>1, <3>1 DEF Goes
    <3>2. CASE e # c
      BY <1>2, <2>1, <3>2
    <3>3. QED
      BY <3>1, <3>2
  <2>2. QED
    BY <2>1 DEF TickStays
<1>11. QuietRows /\ QuietLive /\ SameMount
  BY DEF QuietRows, Knows, QuietLive, SameRow, SameMount
<1>12. page'.poll.at = "status" => page'.poll = page.poll
  BY DEF Idle
<1>13. QED
  BY <1>1, <1>8, <1>9, <1>10, <1>11, <1>12, Quiet
LEMMA CallEndsQuiet ==
  ASSUME IInv', JInv, UNCHANGED <<txs, saved, forgotten>>, Len(orders') = Len(orders),
         NEW c \in calls, Ends(c),
         page'.views = page.views, page'.mount = page.mount, page'.active = page.active,
         page'.poll = page.poll \/ page'.poll = Idle,
         page'.ticked => page.ticked /\ ~(c.pc \in Busy /\ c.mount = page.mount)
  PROVE  JInv'
<1> DEFINE d == [mount |-> 0, pc |-> "ended"]
<1>1. d.mount \in {0, c.mount} /\ d.pc \notin Busy \cup Preparing /\ d.pc # "created"
  BY DEF Busy, Preparing
<1>2. Len(orders') \in Nat /\ Len(orders) <= Len(orders') /\ Len(orders') <= MaxOrders
  BY DEF JInv, Fitting
<1> HIDE DEF d
<1>3. QED
  BY <1>1, <1>2, CallQuiet

LEMMA QuietCallKeeps ==
  ASSUME IInv, IInv', JInv, NEW c \in calls,
         \/ Post(c) \/ ServerLists(c) \/ ServerCreates(c) \/ CreateFails(c) \/ ServerPrepares(c)
         \/ (Attempt(c) /\ ~Current(c)) \/ Ask(c) \/ FundFails(c) \/ Dismiss(c) \/ ServerRefunds(c)
  PROVE  JInv'
<1>1. UNCHANGED <<txs, saved, forgotten>>
  <2>1. CASE Attempt(c) /\ ~Current(c)
    <3>1. UNCHANGED <<orders, txs, saved>> /\ forgotten' = forgotten \cup Forgets
      BY <2>1 DEF Attempt
    <3>2. Forgets = {}
      BY <3>1 DEF Forgets, RowOf
    <3>3. QED
      BY <3>1, <3>2
  <2>2. QED
    BY <2>1 DEF Post, ServerLists, ServerCreates, CreateFails, ServerPrepares, Ask, FundFails,
                Dismiss, ServerRefunds
<1>2. DOMAIN c = CallField /\ DOMAIN page = PageField
  BY DEF IInv, CallsTyped, CallTyped, PageTyped
<1>3. /\ Len(orders) \in Nat /\ Len(orders) <= MaxOrders /\ page.mount # 0
  BY DEF JInv, Fitting, PageFits
<1> DEFINE PageSame == /\ page'.views = page.views /\ page'.mount = page.mount
                       /\ page'.active = page.active /\ page'.ticked = page.ticked /\ page'.poll = page.poll
\* Goes on, to something that has no claim.
<1>4. ASSUME NEW d, d.mount \in {0, c.mount}, d.pc \notin Busy \cup Preparing, Ends(c) \/ Goes(c, d),
             Len(orders') \in Nat, Len(orders) <= Len(orders'), Len(orders') <= MaxOrders,
             d.pc = "created" => d.order \in 1..Len(orders'), PageSame, c.pc \notin Busy
      PROVE  JInv'
  BY <1>1, <1>4, CallQuiet
<1>5. CASE Post(c)
  <2>1. PICK m : Goes(c, [c EXCEPT !.pc = "list", !.nonce = m])
    BY <1>5 DEF Post
  <2> DEFINE d == [c EXCEPT !.pc = "list", !.nonce = m]
  <2>2. d.mount = c.mount /\ d.pc = "list"
    BY <1>2 DEF CallField
  <2>3. Goes(c, d)
    BY <2>1
  <2> HIDE DEF d
  <2>4. PageSame /\ c.pc = "fee" /\ orders' = orders
    BY <1>5 DEF Post
  <2>5. QED
    BY <1>3, <1>4, <2>2, <2>3, <2>4 DEF Busy, Preparing
<1>6. CASE ServerLists(c)
  <2>1. PageSame /\ c.pc = "list" /\ orders' = orders
    BY <1>6 DEF ServerLists
  <2>2. CASE Goes(c, [c EXCEPT !.pc = "post"])
    <3> DEFINE d == [c EXCEPT !.pc = "post"]
    <3>1. d.mount = c.mount /\ d.pc = "post" /\ Goes(c, d)
      BY <1>2, <2>2 DEF CallField
    <3> HIDE DEF d
    <3>2. QED
      BY <1>3, <1>4, <2>1, <3>1 DEF Busy, Preparing
  <2>3. ASSUME NEW o \in 1..Len(orders), Answers(c, [c EXCEPT !.pc = "created", !.order = o]) PROVE JInv'
    <3> DEFINE d == [c EXCEPT !.pc = "created", !.order = o]
    <3>1. d.mount = c.mount /\ d.pc = "created" /\ d.order = o
      BY <1>2 DEF CallField
    <3>2. Ends(c) \/ Goes(c, d)
      BY <2>3 DEF Answers
    <3> HIDE DEF d
    <3>3. QED
      BY <1>3, <1>4, <2>1, <3>1, <3>2 DEF Busy, Preparing
  <2>4. QED
    BY <1>6, <2>2, <2>3 DEF ServerLists
<1>7. CASE ServerCreates(c)
  <2>1. PageSame /\ c.pc = "post"
    BY <1>7 DEF ServerCreates
  <2>2. CASE /\ Len(orders) < MaxOrders
             /\ orders' = Append(orders, NewOrder(c.review, c.nonce))
             /\ Answers(c, [c EXCEPT !.pc = "created", !.order = Len(orders) + 1])
    <3> DEFINE d == [c EXCEPT !.pc = "created", !.order = Len(orders) + 1]
               new == NewOrder(c.review, c.nonce)
    <3>1. d.mount = c.mount /\ d.pc = "created" /\ d.order = Len(orders) + 1
      BY <1>2 DEF CallField
    <3>2. Ends(c) \/ Goes(c, d)
      BY <2>2 DEF Answers
    <3>3. DOMAIN new = OrderField
      BY DEF NewOrder, OrderField
    <3> HIDE DEF d, new
    <3>4. orders' = Append(orders, new)
      BY <2>2 DEF new
    <3>5. Len(orders') = Len(orders) + 1
      BY <3>3, <3>4, OrderAppended DEF IInv
    <3>6. /\ Len(orders') \in Nat /\ Len(orders) <= Len(orders') /\ Len(orders') <= MaxOrders
          /\ d.order \in 1..Len(orders')
      BY <1>3, <2>2, <3>1, <3>5, GardenBridgeAssumption
    <3>7. QED
      BY <1>4, <2>1, <3>1, <3>2, <3>6 DEF Busy, Preparing
  <2>3. ASSUME NEW pc \in {"refused", "changed"}, Answers(c, [c EXCEPT !.pc = pc]), orders' = orders
        PROVE  JInv'
    <3> DEFINE d == [c EXCEPT !.pc = pc]
    <3>1. d.mount = c.mount /\ d.pc = pc
      BY <1>2 DEF CallField
    <3>2. Ends(c) \/ Goes(c, d)
      BY <2>3 DEF Answers
    <3> HIDE DEF d
    <3>3. QED
      BY <1>3, <1>4, <2>1, <2>3, <3>1, <3>2 DEF Busy, Preparing
  <2>4. QED
    BY <1>7, <2>2, <2>3 DEF ServerCreates
<1>8. CASE CreateFails(c)
  <2>1. PageSame /\ c.pc \notin Busy /\ orders' = orders
    BY <1>2, <1>8 DEF CreateFails, Cleared, PageField, Busy
  <2>2. CASE Goes(c, Left(c)) /\ c.pc \in {"list", "post"}
    <3>1. Left(c).mount = 0 /\ Left(c).pc = c.pc
      BY <1>2 DEF Left, CallField
    <3>2. QED
      BY <1>3, <1>4, <2>1, <2>2, <3>1 DEF Busy, Preparing
  <2>3. CASE Ends(c)
    BY <1>1, <2>1, <2>3, CallEndsQuiet
  <2>4. QED
    BY <1>8, <2>2, <2>3 DEF CreateFails
<1>9. CASE ServerPrepares(c) \/ Ask(c)
  <2>1. PageSame /\ orders' = orders
    BY <1>9 DEF ServerPrepares, Ask
  <2>2. PICK pc \in {"prepared", "asked"} :
          Goes(c, [c EXCEPT !.pc = pc]) /\ c.pc = IF pc = "prepared" THEN "prepare" ELSE "wallet"
    BY <1>9 DEF ServerPrepares, Ask
  <2> DEFINE d == [c EXCEPT !.pc = pc]
  <2>3. d.mount = c.mount /\ d.pc = pc /\ d.order = c.order /\ d.nonce = c.nonce /\ d.id = c.id /\ Goes(c, d)
    BY <1>2, <2>2 DEF CallField
  <2> HIDE DEF d
  <2>4. Same(c, d) /\ d.pc # "sent" /\ d.pc # "created" /\ (c.pc \in Busy => d.pc \in Busy)
    BY <2>2, <2>3 DEF Same, Busy, Preparing
  <2>5. QED
    BY <1>1, <1>3, <2>1, <2>3, <2>4, CallQuiet
<1>10. CASE (Attempt(c) /\ ~Current(c)) \/ Dismiss(c)
  <2>1. PageSame /\ orders' = orders /\ Ends(c) /\ c.mount # page.mount
    BY <1>3, <1>10 DEF Attempt, Dismiss, Current
  <2>2. QED
    BY <1>1, <2>1, CallEndsQuiet
<1>11. CASE FundFails(c)
  <2>1. /\ orders' = orders /\ Ends(c)
        /\ page'.views = page.views /\ page'.mount = page.mount /\ page'.active = page.active
        /\ page'.poll = page.poll /\ (page'.ticked => page.ticked /\ c.mount # page.mount)
    BY <1>2, <1>11 DEF FundFails, Current, PageField
  <2>2. QED
    BY <1>1, <2>1, CallEndsQuiet
<1>12. CASE ServerRefunds(c)
  <2>1. /\ Ends(c) /\ c.pc \notin Busy
        /\ page'.views = page.views /\ page'.mount = page.mount /\ page'.active = page.active
        /\ page'.poll = page.poll \/ page'.poll = Idle
        /\ page'.ticked => page.ticked
    BY <1>2, <1>12 DEF ServerRefunds, Follow, PageField, Busy
  <2>2. Len(orders') = Len(orders)
    <3>1. DOMAIN orders' = DOMAIN orders
      BY <1>12 DEF ServerRefunds
    <3>2. PICK S : orders \in Seq(S)
      BY DEF IInv, OrdersTyped
    <3>3. PICK T : orders' \in Seq(T)
      BY DEF IInv, OrdersTyped
    <3>4. /\ Len(orders) \in Nat /\ DOMAIN orders = 1..Len(orders)
          /\ Len(orders') \in Nat /\ DOMAIN orders' = 1..Len(orders')
      BY <3>2, <3>3, LenProperties
    <3>5. QED
      BY <3>1, <3>4
  <2>3. QED
    BY <1>1, <2>1, <2>2, CallEndsQuiet
<1>13. QED
  BY <1>5, <1>6, <1>7, <1>8, <1>9, <1>10, <1>11, <1>12
-----------------------------------------------------------------------------
(* The calls: steps that fund an order or write its row *)

\* Nothing happens to the other orders.
Others(o) ==
  \A p : p # o => /\ LiveOf(txs', p) \subseteq LiveOf(txs, p)
                  /\ Claims(calls', p) \subseteq Claims(calls, p)
                  /\ Knows(p)

LEMMA OthersFunded ==
  ASSUME JInv, NEW o, Others(o), forgotten \subseteq forgotten',
         o \notin forgotten' => Funding(LiveOf(txs', o), Claims(calls', o), RowIn(saved', o))
  PROVE  EachFunding(txs', calls', forgotten', saved')
<1>1. ASSUME NEW p \in Nat \ forgotten', p # o
      PROVE  Funding(LiveOf(txs', p), Claims(calls', p), RowIn(saved', p))
  <2>1. Funding(LiveOf(txs, p), Claims(calls, p), RowIn(saved, p))
    BY DEF JInv, EachFunding
  <2>2. /\ LiveOf(txs', p) \subseteq LiveOf(txs, p) /\ Claims(calls', p) \subseteq Claims(calls, p)
        /\ SameRow(RowIn(saved, p), RowIn(saved', p))
    BY <1>1 DEF Others, Knows
  <2>3. QED
    BY <2>1, <2>2 DEF Funding, SameRow
<1>2. QED
  BY <1>1 DEF EachFunding

\* The orders that others prepare stay clean.
LEMMA OthersPrepared ==
  ASSUME JInv, NEW o, Others(o), forgotten \subseteq forgotten', page'.mount = page.mount,
         NEW c \in calls, NEW d, Ends(c) \/ Goes(c, d), d.pc \notin Preparing,
         \A e \in calls : e # c /\ e.mount = page.mount /\ e.order = o /\ Clean(txs, calls, o)
                            => Clean(txs', calls', o) /\ RowIn(saved', o).tx = 0
  PROVE  Prep(calls', page'.mount, txs', forgotten', saved')
<1>1. calls' \subseteq (calls \ {c}) \cup {d}
  BY CallsOf
<1>2. ASSUME NEW e \in calls', e.mount = page'.mount, e.pc \in Preparing, e.order \notin forgotten'
      PROVE  Clean(txs', calls', e.order) /\ RowIn(saved', e.order).tx = 0
  <2>1. e \in calls /\ e # c
    BY <1>1, <1>2
  <2>2. Clean(txs, calls, e.order) /\ RowIn(saved, e.order).tx = 0
    BY <1>2, <2>1 DEF JInv, Prep
  <2>3. CASE e.order # o
    BY <1>2, <2>2, <2>3 DEF Others, Knows, Clean, SameRow
  <2>4. CASE e.order = o
    BY <1>2, <2>1, <2>2, <2>4
  <2>5. QED
    BY <2>3, <2>4
<1>3. QED
  BY <1>2 DEF Prep

LEMMA CallFits ==
  ASSUME JInv, orders' = orders, txs' \in Seq(Tx), RowsOf(saved', Len(orders)),
         NEW c \in calls, NEW d, Ends(c) \/ Goes(c, d), d.mount \in {0, c.mount},
         d.pc \in Busy => d.order \in 1..Len(orders) /\ (d.pc = "sent" => d.nonce \in Nat),
         d.pc \notin Preparing, d.pc # "created", page'.mount = page.mount, PageFits(page', Len(orders))
  PROVE  Fitting'
<1>1. Fitting /\ Placed(calls, Len(orders), page.mount) /\ OneCurrent(calls, page.mount)
  BY DEF JInv, Fitting
<1>2. calls' \subseteq (calls \ {c}) \cup {d}
  BY CallsOf
<1>3. page.mount \in Nat /\ page.mount # 0
  BY <1>1 DEF Fitting, PageFits
<1>4. d.mount \in 0..page.mount
  BY <1>1, <1>3 DEF Placed
<1>5. Placed(calls', Len(orders), page.mount)
  BY <1>1, <1>2, <1>4 DEF Placed, Busy
<1>6. OneCurrent(calls', page.mount)
  BY <1>1, <1>2, <1>3 DEF OneCurrent
<1>7. QED
  BY <1>1, <1>5, <1>6 DEF Fitting

\* What remembering a row changes.
LEMMA RowWritten ==
  ASSUME JInv, NEW row \in Row, row.order \in 1..Len(orders), row.tx # 0 => row.attempted,
         saved' = Remember(saved, row), Forgets \ {row.order} \subseteq forgotten'
  PROVE  /\ RowsOf(saved', Len(orders))
         /\ RowIn(saved', row.order) = row
         /\ \A p : p # row.order => Knows(p)
<1>1. Len(orders) \in Nat /\ RowsOf(saved, Len(orders))
  BY DEF JInv, Fitting
<1>2. /\ RowsOf(Remember(saved, row), Len(orders))
      /\ RowIn(Remember(saved, row), row.order) = row
      /\ \A p : p # row.order => RowIn(Remember(saved, row), p) \in {RowIn(saved, p), NoRow}
  BY <1>1, RememberFacts
<1>3. ASSUME NEW p, p # row.order PROVE Knows(p)
  <2>1. SameRow(RowIn(saved, p), RowIn(saved', p)) \/ Blank(RowIn(saved', p))
    BY <1>2, <1>3 DEF SameRow, Blank, NoRow
  <2>2. QED
    BY <1>3, <2>1, Forgot DEF Knows
<1>4. QED
  BY <1>2, <1>3

LEMMA SameClaims ==
  ASSUME NEW c \in calls, NEW d, Ends(c) \/ Goes(c, d), NEW p, d.pc \in Busy => d.order # p
  PROVE  Claims(calls', p) \subseteq Claims(calls, p) \ {c}
BY CallsOf DEF Claims

\* Attempt: the order is clean, its row says that it is attempted, and the call claims it.
LEMMA AttemptKeeps ==
  ASSUME IInv, JInv, NEW c \in calls, Attempt(c), Current(c)
  PROVE  JInv'
<1> DEFINE o == c.order
           d == [c EXCEPT !.pc = "wallet"]
           row == [NoRow EXCEPT !.order = o, !.attempted = TRUE]
<1>1. UNCHANGED <<orders, txs, page>> /\ Goes(c, d) /\ saved' = Remember(saved, row)
      /\ forgotten' = forgotten \cup Forgets /\ c.pc = "prepared" /\ c.mount = page.mount
  BY DEF Attempt, Current
<1>2. DOMAIN c = CallField
  BY DEF IInv, CallsTyped, CallTyped
<1>3. d.pc = "wallet" /\ d.mount = c.mount /\ d.order = o
  BY <1>2 DEF CallField
<1>4. o \in 1..Len(orders) /\ Len(orders) \in Nat
  BY <1>1 DEF JInv, Fitting, Placed, Preparing
<1>5. row \in Row /\ row.order = o /\ row.tx = 0 /\ row.attempted
  <2>1. NoRow \in Row /\ NoRow.tx = 0
    BY DEF NoRow, Row
  <2>2. o \in Nat
    BY <1>4
  <2> HIDE DEF o
  <2>3. QED
    BY <2>1, <2>2 DEF Row
<1> HIDE DEF o, d, row
<1>6. /\ RowsOf(saved', Len(orders)) /\ RowIn(saved', o) = row
      /\ \A p : p # o => Knows(p)
  BY <1>1, <1>4, <1>5, RowWritten
<1>7. \A p : p # o => Claims(calls', p) \subseteq Claims(calls, p)
  BY <1>1, <1>3, SameClaims
<1>8. Others(o)
  BY <1>1, <1>6, <1>7 DEF Others
<1>9. o \notin forgotten => Clean(txs, calls, o) /\ RowIn(saved, o).tx = 0
  BY <1>1 DEF JInv, Prep, Preparing, o
<1>10. ASSUME o \notin forgotten PROVE Funding(LiveOf(txs', o), Claims(calls', o), RowIn(saved', o))
  <2>1. LiveOf(txs', o) = {} /\ Claims(calls, o) = {}
    BY <1>1, <1>9, <1>10 DEF Clean
  <2>2. Claims(calls', o) \subseteq {d}
    BY <1>1, <2>1, CallsOf DEF Claims
  <2>3. QED
    BY <1>5, <1>6, <2>1, <2>2 DEF Funding
<1>11. EachFunding(txs', calls', forgotten', saved')
  BY <1>1, <1>8, <1>10, OthersFunded
<1>12. Fitting'
  <2>1. txs' \in Seq(Tx) /\ PageFits(page', Len(orders)) /\ page'.mount = page.mount
    BY <1>1 DEF JInv, Fitting
  <2>2. d.mount \in {0, c.mount} /\ d.pc # "sent" /\ d.order \in 1..Len(orders) /\ d.pc \notin Preparing /\ d.pc # "created"
    BY <1>3, <1>4 DEF Preparing
  <2>3. QED
    BY <1>1, <1>6, <2>1, <2>2, CallFits
<1>13. PollRow(page', forgotten', saved')
  <2>1. ASSUME page.poll.at = "status", page.poll.row.order \notin forgotten'
        PROVE  RowIn(saved', page.poll.row.order).tx = page.poll.row.tx
    <3>1. RowIn(saved, page.poll.row.order).tx = page.poll.row.tx /\ page.poll.row.tx # 0
      BY <1>1, <2>1 DEF JInv, PollRow, Fitting, PageFits
    <3>2. page.poll.row.order # o
      BY <1>1, <1>9, <2>1, <3>1
    <3>3. QED
      BY <1>6, <2>1, <3>1, <3>2 DEF Knows, SameRow
  <2>2. QED
    BY <1>1, <2>1 DEF PollRow
<1>14. Prep(calls', page'.mount, txs', forgotten', saved')
  <2>1. \A e \in calls : e # c => e.mount # page.mount
    BY <1>1 DEF JInv, Fitting, OneCurrent
  <2>2. page'.mount = page.mount /\ d.pc \notin Preparing /\ forgotten \subseteq forgotten'
    BY <1>1, <1>3 DEF Preparing
  <2>3. QED
    BY <1>1, <1>8, <2>1, <2>2, OthersPrepared
<1>15. Ticked(page', calls', txs', forgotten')
  <2>1. d \in calls' /\ d.mount = page'.mount /\ d.pc \in Busy
    BY <1>1, <1>3 DEF Goes, Busy
  <2>2. QED
    BY <2>1 DEF Ticked
<1>16. QED
  BY <1>11, <1>12, <1>13, <1>14, <1>15 DEF JInv

\* WalletSends: the claim becomes a transaction, and what is left of it knows which.
LEMMA WalletSendsKeeps ==
  ASSUME IInv, JInv, NEW c \in calls, WalletSends(c)
  PROVE  JInv'
<1> DEFINE o == c.order
           n == Len(txs)
           d == [c EXCEPT !.pc = "sent", !.nonce = n + 1]
           tx == [order |-> o, state |-> "pending"]
<1>1. /\ UNCHANGED <<orders, saved, page, forgotten>> /\ (Ends(c) \/ Goes(c, d)) /\ (c.mount # 0 => Goes(c, d))
      /\ txs' = Append(txs, tx) /\ c.pc = "asked"
  BY DEF WalletSends, Answers
<1>2. DOMAIN c = CallField
  BY DEF IInv, CallsTyped, CallTyped
<1>3. d.pc = "sent" /\ d.mount = c.mount /\ d.order = o /\ d.nonce = n + 1
  BY <1>2 DEF CallField
<1>4. o \in 1..Len(orders) /\ Len(orders) \in Nat /\ txs \in Seq(Tx)
  BY <1>1 DEF JInv, Fitting, Placed, Busy
<1>5. tx \in Tx /\ tx.order = o
  BY <1>4 DEF Tx
<1>6. n \in Nat
  BY <1>4, LenProperties
<1> HIDE DEF o, d, tx
<1>7. /\ txs' \in Seq(Tx) /\ Len(txs') = n + 1 /\ txs'[n + 1] = tx
      /\ \A t \in 1..n : txs'[t] = txs[t]
  BY <1>1, <1>4, <1>5, AppendProperties
<1>8. \A p : LiveOf(txs', p) \subseteq LiveOf(txs, p) \cup (IF p = o THEN {n + 1} ELSE {})
  <2> HIDE DEF n
  <2>1. ASSUME NEW p, NEW t \in LiveOf(txs', p) PROVE t \in LiveOf(txs, p) \/ (p = o /\ t = n + 1)
    <3>1. t \in 1..(n + 1) /\ txs'[t].order = p /\ txs'[t].state # "reverted"
      BY <1>7, <2>1 DEF LiveOf
    <3>2. CASE t = n + 1
      BY <1>5, <1>7, <3>1, <3>2
    <3>3. CASE t # n + 1
      BY <1>6, <1>7, <3>1, <3>3 DEF LiveOf, n
    <3>4. QED
      BY <3>2, <3>3
  <2>2. QED
    BY <2>1
<1> HIDE DEF n
<1>9. \A p : p # o => Claims(calls', p) \subseteq Claims(calls, p)
  BY <1>1, <1>3, SameClaims
<1>10. Others(o)
  BY <1>1, <1>8, <1>9 DEF Others, Knows, SameRow
<1>11. c \in Claims(calls, o)
  BY <1>1 DEF Claims, Busy, o
<1>12. ASSUME o \notin forgotten PROVE Funding(LiveOf(txs', o), Claims(calls', o), RowIn(saved', o))
  <2>1. Funding(LiveOf(txs, o), Claims(calls, o), RowIn(saved, o))
    BY <1>4, <1>12 DEF JInv, EachFunding
  <2>2. LiveOf(txs, o) = {} /\ RowIn(saved, o).tx = 0 /\ RowIn(saved, o).attempted
    BY <1>1, <1>11, <2>1 DEF Funding
  <2>3. Claims(calls, o) = {c}
    BY <1>11, <2>1 DEF Funding
  <2>4. Claims(calls', o) \subseteq {d}
    BY <1>1, <2>3, CallsOf DEF Claims
  <2>5. LiveOf(txs', o) \subseteq {n + 1}
    BY <1>8, <2>2
  <2>6. saved' = saved
    BY <1>1
  <2>7. QED
    BY <1>3, <2>2, <2>4, <2>5, <2>6 DEF Funding
<1>13. EachFunding(txs', calls', forgotten', saved')
  BY <1>1, <1>10, <1>12, OthersFunded
<1>14. Fitting'
  <2>1. RowsOf(saved', Len(orders)) /\ PageFits(page', Len(orders)) /\ page'.mount = page.mount
    BY <1>1 DEF JInv, Fitting
  <2>2. d.mount \in {0, c.mount} /\ d.nonce \in Nat /\ d.order \in 1..Len(orders) /\ d.pc \notin Preparing /\ d.pc # "created"
    BY <1>3, <1>4, <1>6 DEF Preparing
  <2>3. QED
    BY <1>1, <1>7, <2>1, <2>2, CallFits
<1>15. PollRow(page', forgotten', saved')
  BY <1>1 DEF JInv
<1>16. Prep(calls', page'.mount, txs', forgotten', saved')
  <2>1. ~Clean(txs, calls, o)
    BY <1>11 DEF Clean
  <2>2. page'.mount = page.mount /\ d.pc \notin Preparing /\ forgotten \subseteq forgotten'
    BY <1>1, <1>3 DEF Preparing
  <2>3. QED
    BY <1>1, <1>10, <2>1, <2>2, OthersPrepared
<1>17. Ticked(page', calls', txs', forgotten')
  <2>1. CASE Clean(txs, calls, page.active)
    <3>1. page.active # o
      BY <1>11, <2>1 DEF Clean
    <3>2. Clean(txs', calls', page.active)
      BY <1>10, <2>1, <3>1 DEF Others, Clean
    <3>3. QED
      BY <1>1, <3>2 DEF Ticked
  <2>2. ASSUME NEW e \in calls, e.mount = page.mount, e.pc \in Busy
        PROVE  Ticked(page', calls', txs', forgotten')
    <3>1. CASE e # c
      <4>1. e \in calls'
        BY <1>1, <3>1, CallsOf
      <4>2. QED
        BY <1>1, <2>2, <4>1 DEF Ticked
    <3>2. CASE e = c
      <4>1. c.mount # 0
        BY <2>2, <3>2 DEF JInv, Fitting, PageFits
      <4>2. d \in calls' /\ d.mount = page'.mount /\ d.pc \in Busy
        BY <1>1, <1>3, <2>2, <3>2, <4>1 DEF Goes, Busy
      <4>3. QED
        BY <4>2 DEF Ticked
    <3>3. QED
      BY <3>1, <3>2
  <2>3. CASE ~page.ticked \/ page.active \in forgotten
    BY <1>1, <2>3 DEF Ticked
  <2>4. QED
    BY <2>1, <2>2, <2>3 DEF JInv, Ticked
<1>18. QED
  BY <1>13, <1>14, <1>15, <1>16, <1>17 DEF JInv

\* Funded: the row knows the transaction, and the claim ends.
LEMMA FundedKeeps ==
  ASSUME IInv, JInv, NEW c \in calls, Funded(c)
  PROVE  JInv'
<1> DEFINE o == c.order
           row == [order |-> o, tx |-> c.nonce, attempted |-> TRUE, agent |-> FALSE]
           d == [pc |-> "ended", mount |-> 0]
<1>1. /\ UNCHANGED <<orders, txs>> /\ Ends(c) /\ saved' = Remember(saved, row) /\ c.pc = "sent"
      /\ forgotten' = forgotten \cup Forgets
      /\ page' = IF Current(c) THEN Follow(page, page.active) ELSE page
  BY DEF Funded
<1>2. DOMAIN page = PageField
  BY DEF IInv, PageTyped
<1>3. /\ page'.views = page.views /\ page'.mount = page.mount /\ page'.active = page.active
      /\ page'.poll = page.poll \/ page'.poll = Idle
      /\ page'.ticked => page.ticked /\ c.mount # page.mount
  BY <1>1, <1>2 DEF Follow, Current, PageField
<1>4. o \in 1..Len(orders) /\ Len(orders) \in Nat /\ c.nonce \in Nat
  BY <1>1 DEF JInv, Fitting, Placed, Busy
<1>5. row \in Row /\ row.order = o /\ row.tx = c.nonce /\ row.attempted
  BY <1>4 DEF Row
<1>6. d.pc \notin Busy \cup Preparing /\ d.pc # "created" /\ d.mount = 0
  BY DEF Busy, Preparing
<1>7. c \in Claims(calls, o)
  BY <1>1 DEF Claims, Busy
<1> HIDE DEF o, d, row
<1>8. /\ RowsOf(saved', Len(orders)) /\ RowIn(saved', o) = row
      /\ \A p : p # o => Knows(p)
  BY <1>1, <1>4, <1>5, RowWritten
<1>9. \A p : Claims(calls', p) \subseteq Claims(calls, p) \ {c}
  BY <1>1, <1>6, SameClaims
<1>10. Others(o)
  BY <1>1, <1>8, <1>9 DEF Others
<1>11. o \notin forgotten => Funding(LiveOf(txs, o), Claims(calls, o), RowIn(saved, o))
  BY <1>4 DEF JInv, EachFunding
<1>12. ASSUME o \notin forgotten PROVE Funding(LiveOf(txs', o), Claims(calls', o), RowIn(saved', o))
  <2>1. \A t \in LiveOf(txs', o) : t = c.nonce
    BY <1>1, <1>7, <1>11, <1>12 DEF Funding
  <2>2. Claims(calls', o) = {}
    BY <1>7, <1>9, <1>11, <1>12 DEF Funding
  <2>3. QED
    BY <1>5, <1>8, <2>1, <2>2 DEF Funding
<1>13. EachFunding(txs', calls', forgotten', saved')
  BY <1>1, <1>10, <1>12, OthersFunded
<1>14. Fitting'
  <2>1. PageFits(page', Len(orders)) /\ txs' \in Seq(Tx)
    BY <1>1, <1>3 DEF JInv, Fitting, PageFits, Idle
  <2>2. QED
    BY <1>1, <1>3, <1>6, <1>8, <2>1, CallFits
<1>15. PollRow(page', forgotten', saved')
  <2>1. ASSUME page'.poll.at = "status", page'.poll.row.order \notin forgotten'
        PROVE  RowIn(saved', page'.poll.row.order).tx = page'.poll.row.tx
    <3>1. page'.poll = page.poll
      BY <1>3, <2>1 DEF Idle
    <3>2. RowIn(saved, page.poll.row.order).tx = page.poll.row.tx /\ page.poll.row.tx # 0
      BY <1>1, <2>1, <3>1 DEF JInv, PollRow, Fitting, PageFits
    <3>3. page.poll.row.order # o
      BY <1>1, <1>7, <1>11, <2>1, <3>1, <3>2 DEF Funding
    <3>4. QED
      BY <1>8, <2>1, <3>1, <3>2, <3>3 DEF Knows, SameRow
  <2>2. QED
    BY <1>1, <2>1 DEF PollRow
<1>16. Prep(calls', page'.mount, txs', forgotten', saved')
  <2>1. ~Clean(txs, calls, o)
    BY <1>7 DEF Clean
  <2>2. QED
    BY <1>1, <1>3, <1>6, <1>10, <2>1, OthersPrepared
<1>17. Ticked(page', calls', txs', forgotten')
  <2>1. SUFFICES ASSUME page'.ticked PROVE Ticked(page', calls', txs', forgotten')
    BY DEF Ticked
  <2>2. page.ticked /\ c.mount # page.mount
    BY <1>3, <2>1
  <2>3. Clean(txs, calls, page.active) => Clean(txs', calls', page.active)
    BY <1>1, <1>9 DEF Clean
  <2>4. \A e \in calls : e.mount = page.mount => e \in calls'
    BY <1>1, <2>2 DEF Ends
  <2>5. QED
    BY <1>1, <1>3, <2>2, <2>3, <2>4 DEF JInv, Ticked
<1>18. QED
  BY <1>13, <1>14, <1>15, <1>16, <1>17 DEF JInv

\* The row of a created order knows of no funding.
LEMMA CreatedRow ==
  ASSUME JInv, NEW o \in 1..Len(orders)
  PROVE  /\ RowsOf(CreatedRows(o), Len(orders))
         /\ RowIn(CreatedRows(o), o).tx = 0 /\ RowIn(CreatedRows(o), o).attempted = FALSE
         /\ \A p : p # o => \/ SameRow(RowIn(saved, p), RowIn(CreatedRows(o), p))
                            \/ Blank(RowIn(CreatedRows(o), p))
<1> DEFINE first == [NoRow EXCEPT !.order = o]
           created == Remember(saved, first)
           second == [RowIn(created, o) EXCEPT !.agent = TRUE]
<1>1. Len(orders) \in Nat /\ RowsOf(saved, Len(orders))
  BY DEF JInv, Fitting
<1>2. NoRow \in Row /\ NoRow.tx = 0 /\ NoRow.attempted = FALSE
  BY DEF NoRow, Row
<1>3. o \in Nat
  BY <1>1
<1>4. first \in Row /\ first.order = o /\ first.tx = 0 /\ first.attempted = FALSE
  BY <1>2, <1>3 DEF Row
<1> HIDE DEF first
<1>5. /\ RowsOf(created, Len(orders)) /\ RowIn(created, o) = first
      /\ \A p : p # o => RowIn(created, p) \in {RowIn(saved, p), NoRow}
  BY <1>1, <1>4, RememberFacts
<1> HIDE DEF created
<1>6. CreatedRows(o) = Remember(created, second)
  BY DEF CreatedRows, created, first
<1>7. RowIn(created, o) \in Row
  BY <1>4, <1>5
<1>8. second \in Row /\ second.order = o /\ second.tx = 0 /\ second.attempted = FALSE
  BY <1>4, <1>5, <1>7 DEF Row
<1> HIDE DEF second
<1>9. /\ RowsOf(Remember(created, second), Len(orders)) /\ RowIn(Remember(created, second), o) = second
      /\ \A p : p # o => RowIn(Remember(created, second), p) \in {RowIn(created, p), NoRow}
  BY <1>1, <1>5, <1>8, RememberFacts
<1>10. QED
  BY <1>5, <1>6, <1>8, <1>9 DEF SameRow, Blank, NoRow

\* Created: the row forgets a funding, if there was one, and then the order is forgotten.
LEMMA CreatedKeeps ==
  ASSUME IInv, JInv, NEW c \in calls, Created(c)
  PROVE  JInv'
<1> DEFINE o == c.order
           d == [pc |-> "ended", mount |-> 0]
<1>1. /\ UNCHANGED <<orders, txs>> /\ Ends(c) /\ saved' = CreatedRows(o) /\ c.pc = "created"
      /\ forgotten' = forgotten \cup Forgets
      /\ page' = IF Current(c)
                 THEN [Follow(page, o) EXCEPT !.quote = None, !.session = [order |-> o, status |-> "submitted"]]
                 ELSE page
  BY DEF Created, RowOf
<1>2. DOMAIN page = PageField
  BY DEF IInv, PageTyped
<1>3. o \in 1..Len(orders) /\ Len(orders) \in Nat
  BY <1>1 DEF JInv, Fitting, Placed
<1> HIDE DEF o
<1>4. \/ page' = page /\ c.mount # page.mount
      \/ /\ page'.views = page.views /\ page'.mount = page.mount /\ page'.active = o
         /\ page'.poll = Idle /\ page'.ticked = FALSE
  BY <1>1, <1>2 DEF Follow, Current, PageField
<1>5. d.pc \notin Busy \cup Preparing /\ d.pc # "created" /\ d.mount = 0
  BY DEF Busy, Preparing
<1> HIDE DEF d
<1>6. /\ RowsOf(saved', Len(orders))
      /\ RowIn(saved', o).tx = 0 /\ RowIn(saved', o).attempted = FALSE
      /\ \A p : p # o => Knows(p)
  <2>1. /\ RowsOf(saved', Len(orders))
        /\ RowIn(saved', o).tx = 0 /\ RowIn(saved', o).attempted = FALSE
        /\ \A p : p # o => SameRow(RowIn(saved, p), RowIn(saved', p)) \/ Blank(RowIn(saved', p))
    BY <1>1, <1>3, CreatedRow
  <2>2. \A p : p # o => Knows(p)
    BY <1>1, <2>1, Forgot DEF Knows
  <2>3. QED
    BY <2>1, <2>2
<1>7. \A p : Claims(calls', p) \subseteq Claims(calls, p)
  BY <1>1, <1>5, SameClaims
<1>8. Others(o) /\ forgotten \subseteq forgotten'
  BY <1>1, <1>6, <1>7 DEF Others
<1>9. ASSUME o \notin forgotten' PROVE Clean(txs, calls, o) /\ ~RowIn(saved, o).attempted
  <2>1. o \in Nat \ forgotten /\ ~RowIn(saved, o).attempted
    BY <1>1, <1>3, <1>6, <1>8, <1>9 DEF Forgets, RowOf
  <2>2. Funding(LiveOf(txs, o), Claims(calls, o), RowIn(saved, o))
    BY <2>1 DEF JInv, EachFunding
  <2>3. QED
    BY <2>1, <2>2 DEF Funding, Clean
<1>10. ASSUME o \notin forgotten' PROVE Funding(LiveOf(txs', o), Claims(calls', o), RowIn(saved', o))
  <2>1. LiveOf(txs', o) = {} /\ Claims(calls', o) = {}
    BY <1>1, <1>7, <1>9, <1>10 DEF Clean
  <2>2. QED
    BY <1>6, <2>1 DEF Funding
<1>11. EachFunding(txs', calls', forgotten', saved')
  BY <1>8, <1>10, OthersFunded
<1>12. page'.mount = page.mount
  BY <1>4
<1>13. Fitting'
  <2>1. PageFits(page, Len(orders)) /\ txs' \in Seq(Tx)
    BY <1>1 DEF JInv, Fitting
  <2>2. Idle.at = "idle" /\ o \in 0..Len(orders)
    BY <1>3 DEF Idle
  <2>3. PageFits(page', Len(orders))
    BY <1>4, <2>1, <2>2 DEF PageFits
  <2>4. QED
    BY <1>1, <1>5, <1>6, <1>12, <2>1, <2>3, CallFits
<1>14. PollRow(page', forgotten', saved')
  <2>1. ASSUME page'.poll.at = "status", page'.poll.row.order \notin forgotten'
        PROVE  RowIn(saved', page'.poll.row.order).tx = page'.poll.row.tx
    <3>1. page'.poll = page.poll
      BY <1>4, <2>1 DEF Idle
    <3>2. RowIn(saved, page.poll.row.order).tx = page.poll.row.tx /\ page.poll.row.tx # 0
      BY <1>8, <2>1, <3>1 DEF JInv, PollRow, Fitting, PageFits
    <3>3. page.poll.row.order # o
      <4>1. RowIn(saved, o).tx # 0 => RowIn(saved, o).attempted
        BY <1>3, RowTyped DEF JInv, Fitting
      <4>2. QED
        BY <1>9, <2>1, <3>1, <3>2, <4>1
    <3>4. QED
      BY <1>6, <2>1, <3>1, <3>2, <3>3 DEF Knows, SameRow
  <2>2. QED
    BY <2>1 DEF PollRow
<1>15. Prep(calls', page'.mount, txs', forgotten', saved')
  <2>1. Clean(txs, calls, o) => Clean(txs', calls', o) /\ RowIn(saved', o).tx = 0
    BY <1>1, <1>6, <1>7 DEF Clean
  <2>2. QED
    BY <1>1, <1>5, <1>8, <1>12, <2>1, OthersPrepared
<1>16. Ticked(page', calls', txs', forgotten')
  <2>1. SUFFICES ASSUME page'.ticked PROVE Ticked(page', calls', txs', forgotten')
    BY DEF Ticked
  <2>2. page' = page /\ c.mount # page.mount
    BY <1>4, <2>1
  <2>3. Clean(txs, calls, page.active) => Clean(txs', calls', page.active)
    BY <1>1, <1>7 DEF Clean
  <2>4. \A e \in calls : e.mount = page.mount => e \in calls'
    BY <1>1, <2>2 DEF Ends
  <2>5. QED
    BY <1>8, <2>1, <2>2, <2>3, <2>4 DEF JInv, Ticked
<1>17. QED
  BY <1>11, <1>13, <1>14, <1>15, <1>16 DEF JInv

\* PollStatus: the row forgets the transaction that was reverted, the only one there was.
LEMMA PollStatusKeeps == ASSUME IInv, IInv', JInv, PollStatus PROVE JInv'
<1>1. /\ UNCHANGED <<orders, txs, calls>> /\ page.poll.at = "status" /\ page' = [page EXCEPT !.poll = Idle]
      /\ forgotten' = forgotten \cup (Forgets \ {page.poll.row.order})
  BY DEF PollStatus
<1>2. DOMAIN page = PageField /\ CallsTyped(calls')
  BY DEF IInv, PageTyped
<1>3. /\ page'.views = page.views /\ page'.mount = page.mount /\ page'.active = page.active
      /\ page'.poll = Idle /\ page'.poll.at = "idle" /\ page'.ticked = page.ticked
  BY <1>1, <1>2 DEF PageField, Idle
<1>4. PageFits(page', Len(orders))
  BY <1>3 DEF JInv, Fitting, PageFits
<1>5. CASE saved' = saved
  <2>1. Forgets = {}
    BY <1>5 DEF Forgets, RowOf
  <2>2. forgotten' = forgotten
    BY <1>1, <2>1
  <2>3. QED
    BY <1>1, <1>3, <1>4, <1>5, <2>2, PageMoves
<1> DEFINE row == [page.poll.row EXCEPT !.tx = 0, !.attempted = FALSE]
           o == page.poll.row.order
<1>6. CASE txs[page.poll.row.tx].state = "reverted" /\ saved' = Remember(saved, row)
  <2>1. page.poll.row \in Row /\ o \in 1..Len(orders) /\ page.poll.row.tx # 0 /\ Len(orders) \in Nat
    BY <1>1 DEF JInv, Fitting, PageFits
  <2>2. row \in Row /\ row.order = o /\ row.tx = 0 /\ row.attempted = FALSE
    BY <2>1 DEF Row
  <2> HIDE DEF row
  <2>3. /\ RowsOf(saved', Len(orders)) /\ RowIn(saved', o) = row
        /\ \A p : p # o => Knows(p)
    BY <1>1, <1>6, <2>1, <2>2, RowWritten
  <2>4. Others(o) /\ forgotten \subseteq forgotten'
    BY <1>1, <2>3 DEF Others
  <2>5. ASSUME o \notin forgotten PROVE Funding(LiveOf(txs', o), Claims(calls', o), RowIn(saved', o))
    <3>1. RowIn(saved, o).tx = page.poll.row.tx
      BY <1>1, <2>4, <2>5 DEF JInv, PollRow
    <3>2. Funding(LiveOf(txs, o), Claims(calls, o), RowIn(saved, o))
      BY <2>1, <2>5 DEF JInv, EachFunding
    <3>3. LiveOf(txs, o) = {}
      BY <1>6, <2>1, <3>1, <3>2 DEF Funding, LiveOf
    <3>4. Claims(calls, o) = {}
      BY <2>1, <3>1, <3>2 DEF Funding
    <3>5. QED
      BY <1>1, <2>2, <2>3, <3>3, <3>4 DEF Funding
  <2>6. EachFunding(txs', calls', forgotten', saved')
    BY <1>1, <2>4, <2>5, OthersFunded
  <2>7. Fitting'
    BY <1>1, <1>3, <1>4, <2>3 DEF JInv, Fitting
  <2>8. PollRow(page', forgotten', saved')
    BY <1>3 DEF PollRow
  <2>9. Prep(calls', page'.mount, txs', forgotten', saved')
    <3>1. \A p : p \notin forgotten' /\ RowIn(saved, p).tx = 0 => RowIn(saved', p).tx = 0
      BY <2>2, <2>3 DEF Knows, SameRow
    <3>2. QED
      BY <1>1, <1>3, <2>4, <3>1 DEF JInv, Prep
  <2>10. Ticked(page', calls', txs', forgotten')
    BY <1>1, <1>3 DEF JInv, Ticked
  <2>11. QED
    BY <2>6, <2>7, <2>8, <2>9, <2>10 DEF JInv
<1>7. QED
  BY <1>5, <1>6 DEF PollStatus

LEMMA ReloadKeeps == ASSUME IInv, IInv', JInv, Reload PROVE JInv'
<1> DEFINE L(c) == IF c.mount = 0 THEN c ELSE Left(c)
<1>1. UNCHANGED <<orders, txs, saved, forgotten>> /\ page' = FreshPage(page.views + 1, FALSE, "normal")
  BY DEF Reload
<1>2. \A d \in calls' : \E c \in calls : d = L(c)
  BY DEF Reload
<1>3. Fitting /\ CallsTyped(calls') /\ \A c \in calls : DOMAIN c = CallField
  BY DEF JInv, IInv, CallsTyped, CallTyped
<1>4. ASSUME NEW c \in calls
      PROVE  L(c).mount = 0 /\ L(c).pc = c.pc /\ L(c).order = c.order /\ L(c).nonce = c.nonce /\ L(c).id = c.id
  BY <1>3 DEF Left, CallField
<1> HIDE DEF L
<1>5. ASSUME NEW d \in calls'
      PROVE  \E c \in calls : /\ d.mount = 0 /\ d.pc = c.pc /\ d.order = c.order /\ d.nonce = c.nonce
                              /\ d.id = c.id
  BY <1>2, <1>4
<1>6. page.views \in Nat /\ 0 \in 0..Len(orders)
  BY <1>3 DEF Fitting, PageFits
<1>7. /\ page'.views = page.views + 1 /\ page'.mount = page.views + 2 /\ page'.active = 0
      /\ page'.ticked = FALSE /\ page'.poll.at = "idle"
  BY <1>1, <1>6 DEF FreshPage, Idle
<1>8. PageFits(page', Len(orders))
  BY <1>6, <1>7 DEF PageFits
<1>9. Placed(calls', Len(orders), page'.mount) /\ OneCurrent(calls', page'.mount)
  <2>1. Placed(calls, Len(orders), page.mount) /\ page'.mount \in Nat /\ page'.mount # 0
    BY <1>3, <1>6, <1>7 DEF Fitting
  <2>2. QED
    BY <1>5, <2>1 DEF Placed, OneCurrent
<1>10. Fitting'
  BY <1>1, <1>3, <1>8, <1>9 DEF Fitting
<1>11. QuietCalls(calls, calls')
  BY <1>5 DEF QuietCalls, Same
<1>12. SameMount
  BY <1>5, <1>6, <1>7 DEF SameMount
<1>13. QuietRows /\ QuietLive /\ TickStays
  BY <1>1, <1>7 DEF QuietRows, Knows, QuietLive, SameRow, TickStays
<1>14. QED
  BY <1>1, <1>3, <1>7, <1>10, <1>11, <1>12, <1>13, Quiet

-----------------------------------------------------------------------------

LEMMA JStart == Init => JInv
<1>0. SUFFICES ASSUME Init PROVE JInv
  OBVIOUS
<1>1. /\ orders = <<>> /\ txs = <<>> /\ saved = <<>> /\ calls = {} /\ page = FreshPage(0, FALSE, "normal")
  BY <1>0 DEF Init
<1>2. Len(orders) = 0 /\ Len(txs) = 0 /\ Len(saved) = 0 /\ txs \in Seq(Tx) /\ saved \in Seq(Row)
  BY <1>1
<1>3. page.views = 0 /\ page.mount = 1 /\ page.active = 0 /\ page.ticked = FALSE /\ page.poll.at = "idle"
  BY <1>1 DEF FreshPage, Idle
<1>4. RowsOf(saved, Len(orders))
  BY <1>2 DEF RowsOf, Distinct
<1>5. Len(orders) \in Nat /\ Len(orders) <= MaxOrders /\ PageFits(page, Len(orders))
  BY <1>2, <1>3, GardenBridgeAssumption DEF PageFits
<1>6. Fitting
  BY <1>1, <1>2, <1>4, <1>5 DEF Fitting, Placed, OneCurrent
<1>7. \A o : LiveOf(txs, o) = {} /\ Claims(calls, o) = {}
  BY <1>1, <1>2 DEF LiveOf, Claims
<1>8. ASSUME NEW o PROVE RowIn(saved, o) = NoRow
  <2>1. Distinct(saved) /\ \A i \in 1..Len(saved) : saved[i].order # o
    BY <1>2 DEF Distinct
  <2>2. QED
    BY <1>2, <2>1, RowFacts
<1>9. EachFunding(txs, calls, forgotten, saved)
  BY <1>7, <1>8 DEF EachFunding, Funding, NoRow
<1>10. QED
  BY <1>1, <1>3, <1>6, <1>9 DEF JInv, PollRow, Prep, Ticked

LEMMA JPreserved == ASSUME IInv, IInv', JInv, [Next]_vars PROVE JInv'
<1>1. CASE UNCHANGED vars
  BY <1>1, PageStays DEF vars
<1>2. ASSUME NEW c \in calls, CallStep(c) PROVE JInv'
  <2>1. CASE Attempt(c) /\ Current(c)
    BY <2>1, AttemptKeeps
  <2>2. CASE WalletSends(c)
    BY <2>2, WalletSendsKeeps
  <2>3. CASE Funded(c)
    BY <2>3, FundedKeeps
  <2>4. CASE Created(c)
    BY <2>4, CreatedKeeps
  <2>5. CASE \/ Post(c) \/ ServerLists(c) \/ ServerCreates(c) \/ CreateFails(c) \/ ServerPrepares(c)
             \/ (Attempt(c) /\ ~Current(c)) \/ Ask(c) \/ FundFails(c) \/ Dismiss(c) \/ ServerRefunds(c)
    BY <2>5, QuietCallKeeps
  <2>6. QED
    BY <1>2, <2>1, <2>2, <2>3, <2>4, <2>5 DEF CallStep
<1>3. CASE GardenMoves
  BY <1>3, GardenMovesKeeps
<1>4. CASE ChainDecides
  BY <1>4, ChainDecidesKeeps
<1>5. CASE LoadHistory
  BY <1>5, LoadHistoryKeeps
<1>6. CASE Reload
  BY <1>6, ReloadKeeps
<1>7. CASE Poll
  BY <1>7, PollKeeps
<1>8. CASE PollStatus
  BY <1>8, PollStatusKeeps
<1>9. CASE Tick
  BY <1>9, TickKeeps
<1>10. CASE Fund
  BY <1>10, FundKeeps
<1>11. CASE Create \/ Refund
  BY <1>11, PressKeeps
<1>12. CASE \/ Show \/ SetMode \/ (\E r \in Review : LoadQuote(r)) \/ Invalidate
            \/ (\E o \in 1..Len(orders) : OpenOrder(o)) \/ LeaveOrder \/ Refresh
  BY <1>12, PageStepsKeep
<1>13. QED
  BY <1>1, <1>2, <1>3, <1>4, <1>5, <1>6, <1>7, <1>8, <1>9, <1>10, <1>11, <1>12 DEF Next

\* An order is funded twice only if its row was made anew or dropped after an attempt:
\* through lost answers, reloads, other mounts, late hashes, a poll that read the
\* transaction before, and Activity's rows (GardenBridge.tsx, fund and the poll effect).
THEOREM NotFundedTwice == Spec => []FundedTwiceOnlyForgotten
<1>1. Init => JInv
  BY JStart
<1>2. IInv /\ IInv' /\ JInv /\ [Next]_vars => JInv'
  BY JPreserved
<1>3. JInv => FundedTwiceOnlyForgotten
  <2>1. SUFFICES ASSUME JInv, NEW o \in 1..Len(orders), FundedTwice(o) PROVE o \in forgotten
    BY DEF FundedTwiceOnlyForgotten
  <2>2. PICK t \in LiveOf(txs, o) : \E u \in LiveOf(txs, o) : t # u
    BY <2>1 DEF FundedTwice, Live, LiveOf
  <2>3. Len(orders) \in Nat
    BY <2>1 DEF JInv, Fitting
  <2>4. o \notin forgotten => Funding(LiveOf(txs, o), Claims(calls, o), RowIn(saved, o))
    BY <2>1, <2>3 DEF JInv, EachFunding
  <2>5. QED
    BY <2>2, <2>4 DEF Funding
<1>4. QED
  BY <1>1, <1>2, <1>3, Inductive, PTL DEF Spec
=============================================================================
