------------------------ MODULE WalletProviderProofs ------------------------
(***************************************************************************)
(* The wallet provider asks only the connected account to sign, never lets *)
(* two calls hold one ref and leaves none set, for any handlers, accounts  *)
(* and number of calls.  A call keeps what it needs from its own record:   *)
(* the connection it was made in and whether it holds its ref.             *)
(***************************************************************************)
EXTENDS WalletProvider, TLAPS

\* What is in `calls'.
HandlerCall ==
  [kind : Handler, pc : Holding \cup {"held", "checking"}, conn : Nat, busy : BOOLEAN,
   revealed : BOOLEAN, fresh : BOOLEAN, at : Nat, from : Account \cup {None}]

Call ==
  HandlerCall \cup [kind : {"refresh"}, pc : {"refresh"}, conn : Nat]
              \cup [kind : {"reveal"}, pc : {"reveal"}, conn : Nat]
              \cup [kind : {None}, pc : {"done"}]

Holds(c) == c.kind \in Handler /\ c.pc \in Holding

TypeInv ==
  /\ selected \in Account /\ owner \in Seq(Account) /\ current \in 0..Len(owner)
  /\ busy \in BOOLEAN
  /\ calls \in Seq(Call)
  /\ \A i \in Ids : calls[i].kind \in Handler => calls[i].conn <= Len(owner)

\* A ref taken before the first await stays set until its call ends.
EarlyRefsSet ==
  \A i \in Ids : Holds(calls[i]) /\ Of(calls[i]).early => LocksOf(calls[i]) \subseteq locks

\* What is set is held by a call whose finally block clears it.
LocksHeld == \A l \in locks : \E i \in Ids : Holds(calls[i]) /\ l \in LocksOf(calls[i])
BusyHeld == busy => \E i \in Ids : Holds(calls[i]) \/ calls[i].pc = "reveal"

\* The chain is read before the ref is taken by a handler that takes it late.
ChecksLate == \A i \in Ids : calls[i].pc = "checking" => ~Of(calls[i]).early

IInv ==
  /\ TypeInv /\ AsksConnectedAccount /\ RefHeldOnce
  /\ EarlyRefsSet /\ LocksHeld /\ BusyHeld /\ ChecksLate

-----------------------------------------------------------------------------
(* Lemmas about the handlers and the calls *)

\* The refs of these handlers are taken after an await.
LateLock == {"lend", "lendWithdraw", "agentFee"}

\* A ref is taken before the first await by every handler that takes it, or by none.
LEMMA Refs ==
  \A k \in DOMAIN Profile :
    /\ Profile[k].early \in BOOLEAN
    /\ Profile[k].early => Profile[k].lock \notin LateLock
    /\ ~Profile[k].early => Profile[k].lock \in LateLock
<1> DEFINE Good(p) == /\ p.early \in BOOLEAN
                      /\ p.early => p.lock \notin LateLock
                      /\ ~p.early => p.lock \in LateLock
<1>1. DOMAIN Profile =
        {"shield", "unshield", "executeShieldAsset", "executeUnshieldAsset",
         "executeUnshieldCollateral", "executeSwap", "executeShieldSwap",
         "executeUnshieldSwapStart", "completeUnshieldSwap", "executeStakingAction",
         "executeShieldStaking", "executeShieldLend", "executeLend",
         "executeWithdrawVesuLend", "executeBorrow", "executeRepay",
         "executeAddVesuCollateral", "executeWithdrawVesuCollateral",
         "executeCloseVesuPosition", "executeAgentFee", "executeBridge"}
  BY DEF Profile
<1>2. /\ Good(shield) /\ Good(unshield) /\ Good(executeShieldAsset)
      /\ Good(executeUnshieldAsset) /\ Good(executeUnshieldCollateral)
  BY DEF shield, unshield, executeShieldAsset, executeUnshieldAsset, executeUnshieldCollateral,
         LateLock, Base, None
<1>3. /\ Good(executeSwap) /\ Good(executeShieldSwap)
      /\ Good(executeUnshieldSwapStart) /\ Good(completeUnshieldSwap)
  BY DEF executeSwap, executeShieldSwap, executeUnshieldSwapStart, completeUnshieldSwap,
         LateLock, Base
<1>4. /\ Good(executeStakingAction) /\ Good(executeShieldStaking)
      /\ Good(executeShieldLend) /\ Good(executeLend) /\ Good(executeWithdrawVesuLend)
  BY DEF executeStakingAction, executeShieldStaking, executeShieldLend, executeLend,
         executeWithdrawVesuLend, LateLock, Base, Vesu
<1>5. /\ Good(executeBorrow) /\ Good(executeRepay) /\ Good(executeAddVesuCollateral)
      /\ Good(executeWithdrawVesuCollateral) /\ Good(executeCloseVesuPosition)
      /\ Good(executeAgentFee) /\ Good(executeBridge)
  BY DEF executeBorrow, executeRepay, executeAddVesuCollateral, executeWithdrawVesuCollateral,
         executeCloseVesuPosition, executeAgentFee, executeBridge, LateLock, Base, Vesu
<1>6. QED
  BY <1>1, <1>2, <1>3, <1>4, <1>5 DEF Profile

\* Neither is the name of a handler that of a reading, nor of a call that has ended.
LEMMA NotReading == {"refresh", "reveal", None} \cap DOMAIN Profile = {}
  BY DEF Profile, None

\* A call of a handler is told from a reading of balances.
LEMMA Kinds ==
  ASSUME NEW c \in Call
  PROVE  /\ c.kind \in Handler => c \in HandlerCall
         /\ c.pc \in {"held", "checking", "first", "last", "sign", "wait"} => c \in HandlerCall
         /\ c.pc = "refresh" => c \in HandlerCall \/ c.kind = "refresh"
         /\ c.kind = "refresh" => c \notin HandlerCall /\ c.kind \notin Handler /\ c.pc = "refresh"
         /\ c.pc = "reveal" => c.kind \notin Handler
         /\ c.kind = None => c.kind \notin Handler
<1>1. "refresh" \notin Handler /\ "reveal" \notin Handler /\ None \notin Handler
  BY NotReading, WalletProviderAssumption
<1>2. QED
  BY <1>1 DEF Call, HandlerCall, Holding, None

\* The calls after one of them has changed.
LEMMA Change ==
  ASSUME calls \in Seq(Call), NEW i \in Ids, NEW c \in Call, Set(i, c)
  PROVE  /\ calls' \in Seq(Call) /\ Len(calls') = Len(calls)
         /\ calls'[i] = c /\ \A j \in Ids : j # i => calls'[j] = calls[j]
BY DEF Set, Ids

\* The calls after one was made.
LEMMA Grow ==
  ASSUME calls \in Seq(Call), NEW c \in Call, calls' = Append(calls, c)
  PROVE  /\ calls' \in Seq(Call) /\ Len(calls') = Len(calls) + 1
         /\ calls'[Len(calls) + 1] = c /\ \A j \in Ids : calls'[j] = calls[j]
BY DEF Ids

\* One ref is taken early by all its handlers or late by all.
LEMMA EarlyLate ==
  ASSUME NEW c \in HandlerCall, NEW d \in HandlerCall, Of(c).early, ~Of(d).early
  PROVE  LocksOf(c) \cap LocksOf(d) = {}
BY Refs, WalletProviderAssumption DEF HandlerCall, Of, LocksOf

-----------------------------------------------------------------------------
(* What the steps of a call do to the invariant *)

\* A call goes on and holds what it held.
LEMMA Keeps ==
  ASSUME IInv, NEW i \in Ids, NEW c \in HandlerCall, calls[i] \in HandlerCall, Set(i, c),
         c.kind = calls[i].kind, c.conn = calls[i].conn,
         c.pc \in Holding <=> calls[i].pc \in Holding,
         c.at # 0 => c.at = c.conn /\ c.from = owner[c.conn],
         c.pc = "checking" => ~Of(c).early,
         UNCHANGED <<connection, busy, locks>>
  PROVE  IInv'
<1>0. c \in Call
  BY DEF Call
<1>1. /\ calls' \in Seq(Call) /\ Len(calls') = Len(calls)
      /\ calls'[i] = c /\ \A j \in Ids : j # i => calls'[j] = calls[j]
  BY <1>0, Change DEF IInv, TypeInv
<1>2. TypeInv'
  BY <1>1 DEF IInv, TypeInv, connection, Ids
<1>3. AsksConnectedAccount'
  BY <1>1 DEF IInv, AsksConnectedAccount, connection, Ids, Executed
<1>4. ASSUME NEW j \in Ids
      PROVE  /\ Holds(calls'[j]) <=> Holds(calls[j])
             /\ Of(calls'[j]) = Of(calls[j]) /\ LocksOf(calls'[j]) = LocksOf(calls[j])
  <2>1. calls'[j].kind = calls[j].kind /\ (calls'[j].pc \in Holding <=> calls[j].pc \in Holding)
    BY <1>1
  <2>2. QED
    BY <2>1 DEF Of, LocksOf, Holds
<1>6. RefHeldOnce'
  BY <1>1, <1>4 DEF IInv, RefHeldOnce, Ids, Executed, Holds
<1>7. EarlyRefsSet' /\ LocksHeld'
  BY <1>1, <1>4 DEF IInv, EarlyRefsSet, LocksHeld, Ids
<1>8. BusyHeld'
  <2>1. ASSUME NEW j \in Ids, calls[j].pc = "reveal" PROVE calls'[j].pc = "reveal"
    BY <1>1, <2>1, Kinds DEF HandlerCall, Holding
  <2>2. QED
    BY <1>1, <1>4, <2>1 DEF IInv, BusyHeld, Ids
<1>9. ChecksLate'
  BY <1>1, <1>4 DEF IInv, ChecksLate, Ids
<1>10. QED
  BY <1>2, <1>3, <1>6, <1>7, <1>8, <1>9 DEF IInv

\* A call takes its ref and busy: an early one has found its ref free.
LEMMA Takes ==
  ASSUME IInv, NEW i \in Ids, NEW c \in HandlerCall, calls[i] \in HandlerCall, Set(i, c),
         c.kind = calls[i].kind, c.conn = calls[i].conn,
         c.pc \in Holding, calls[i].pc \notin Holding,
         c.at # 0 => c.at = c.conn /\ c.from = owner[c.conn],
         Of(c).early => LocksOf(c) \cap locks = {},
         busy' = TRUE, locks' = locks \cup LocksOf(c), UNCHANGED connection
  PROVE  IInv'
<1>0. c \in Call
  BY DEF Call
<1>1. /\ calls' \in Seq(Call) /\ Len(calls') = Len(calls)
      /\ calls'[i] = c /\ \A j \in Ids : j # i => calls'[j] = calls[j]
  BY <1>0, Change DEF IInv, TypeInv
<1>2. TypeInv'
  BY <1>1 DEF IInv, TypeInv, connection, Ids
<1>3. AsksConnectedAccount'
  BY <1>1 DEF IInv, AsksConnectedAccount, connection, Ids, Executed
<1>4. Holds(c) /\ ~Holds(calls[i])
  BY DEF Holds, HandlerCall
<1>5. RefHeldOnce'
  <2>1. ASSUME NEW j \in Ids, j # i, Holds(calls[j]), Of(calls[j]).early, Of(c).early
        PROVE  LocksOf(calls[j]) \cap LocksOf(c) = {}
    BY <2>1 DEF IInv, EarlyRefsSet
  <2> DEFINE Early(j) == Holds(calls[j]) /\ Of(calls[j]).early
             Meet(j, k) == LocksOf(calls[j]) \cap LocksOf(calls[k]) # {}
  <2>2. ASSUME NEW j \in Ids, NEW k \in Ids, j # i, k # i, Early(j)', Early(k)', Meet(j, k)'
        PROVE  j = k
    BY <1>1, <2>2 DEF IInv, RefHeldOnce, Executed, Holds
  <2>3. ASSUME NEW j \in Ids, j # i, Early(j)', Early(i)'
        PROVE  ~Meet(j, i)' /\ ~Meet(i, j)'
    <3>1. Holds(calls[j]) /\ Of(calls[j]).early /\ Of(c).early
      BY <1>1, <2>3
    <3>2. LocksOf(calls[j]) \cap LocksOf(c) = {}
      BY <2>1, <2>3, <3>1
    <3>3. QED
      BY <1>1, <2>3, <3>2
  <2>4. \A j, k \in Ids : Early(j)' /\ Early(k)' /\ Meet(j, k)' => j = k
    BY <2>2, <2>3
  <2>5. Ids' = Ids
    BY <1>1 DEF Ids
  <2>6. QED
    BY <2>4, <2>5 DEF RefHeldOnce, Executed, Holds
<1>6. EarlyRefsSet'
  BY <1>1 DEF IInv, EarlyRefsSet, Ids
<1>7. LocksHeld'
  BY <1>1, <1>4 DEF IInv, LocksHeld, Ids
<1>8. BusyHeld'
  BY <1>1, <1>4 DEF BusyHeld, Ids
<1>9. ChecksLate'
  BY <1>1 DEF IInv, ChecksLate, Ids, Holding
<1>10. QED
  BY <1>2, <1>3, <1>5, <1>6, <1>7, <1>8, <1>9 DEF IInv

\* The record of a call that has ended.
Over == [kind |-> None, pc |-> "done"]

\* It is no call of a handler.
LEMMA OverCall == Over \in Call /\ Over.kind \notin Handler
  BY NotReading, WalletProviderAssumption DEF Over, Call

\* A call ends in its finally block: only its own ref goes.
LEMMA Releases ==
  ASSUME IInv, NEW i \in Ids, calls[i] \in HandlerCall, calls[i].pc \in Holding,
         End(i), Finally(i), UNCHANGED connection
  PROVE  IInv'
<1>1. /\ calls' \in Seq(Call) /\ Len(calls') = Len(calls)
      /\ calls'[i] = Over /\ \A j \in Ids : j # i => calls'[j] = calls[j]
  BY OverCall, Change DEF IInv, TypeInv, End, Over
<1>2. TypeInv'
  BY <1>1, OverCall DEF IInv, TypeInv, connection, Ids, Finally
<1>3. AsksConnectedAccount'
  BY <1>1, OverCall DEF IInv, AsksConnectedAccount, connection, Ids, Executed
<1>4. ~Holds(Over)
  BY OverCall DEF Holds
<1>5. RefHeldOnce'
  BY <1>1, <1>4 DEF IInv, RefHeldOnce, Ids, Executed, Holds
<1>6. EarlyRefsSet'
  <2>1. ASSUME NEW j \in Ids, j # i, Holds(calls[j]), Of(calls[j]).early
        PROVE  LocksOf(calls[j]) \cap LocksOf(calls[i]) = {}
    <3>1. calls[j] \in HandlerCall
      BY <2>1, Kinds DEF IInv, TypeInv, Holds, Ids
    <3>2. CASE Of(calls[i]).early
      BY <2>1, <3>2 DEF IInv, RefHeldOnce, Executed, Holds, HandlerCall
    <3>3. CASE ~Of(calls[i]).early
      BY <2>1, <3>1, <3>3, EarlyLate
    <3>4. QED
      BY <3>2, <3>3
  <2>2. ASSUME NEW j \in Ids', Holds(calls[j])', Of(calls[j])'.early
        PROVE  (LocksOf(calls[j]) \subseteq locks)'
    <3>1. j \in Ids /\ j # i /\ calls'[j] = calls[j]
      BY <1>1, <1>4, <2>2 DEF Ids
    <3>2. LocksOf(calls[j]) \subseteq locks /\ LocksOf(calls[j]) \cap LocksOf(calls[i]) = {}
      BY <2>1, <2>2, <3>1 DEF IInv, EarlyRefsSet
    <3>3. QED
      BY <3>1, <3>2 DEF Finally
  <2>3. QED
    BY <2>2 DEF EarlyRefsSet
<1>7. LocksHeld'
  BY <1>1, <1>4 DEF IInv, LocksHeld, Ids, Finally
<1>8. BusyHeld'
  BY DEF BusyHeld, Finally
<1>9. ChecksLate'
  BY <1>1 DEF IInv, ChecksLate, Ids, Over
<1>10. QED
  BY <1>2, <1>3, <1>5, <1>6, <1>7, <1>8, <1>9 DEF IInv

\* A call that holds no ref ends; a reveal clears busy.
LEMMA Drops ==
  ASSUME IInv, NEW i \in Ids, ~Holds(calls[i]), End(i),
         busy' = FALSE \/ (busy' = busy /\ calls[i].pc # "reveal"),
         UNCHANGED <<connection, locks>>
  PROVE  IInv'
<1>1. /\ calls' \in Seq(Call) /\ Len(calls') = Len(calls)
      /\ calls'[i] = Over /\ \A j \in Ids : j # i => calls'[j] = calls[j]
  BY OverCall, Change DEF IInv, TypeInv, End, Over
<1>2. TypeInv'
  BY <1>1, OverCall DEF IInv, TypeInv, connection, Ids
<1>3. AsksConnectedAccount'
  BY <1>1, OverCall DEF IInv, AsksConnectedAccount, connection, Ids, Executed
<1>4. ~Holds(Over)
  BY OverCall DEF Holds
<1>5. RefHeldOnce'
  BY <1>1, <1>4 DEF IInv, RefHeldOnce, Ids, Executed, Holds
<1>6. EarlyRefsSet' /\ LocksHeld' /\ BusyHeld'
  BY <1>1, <1>4 DEF IInv, EarlyRefsSet, LocksHeld, BusyHeld, Ids
<1>7. ChecksLate'
  BY <1>1 DEF IInv, ChecksLate, Ids, Over
<1>8. QED
  BY <1>2, <1>3, <1>5, <1>6, <1>7 DEF IInv

\* A call is made: it holds nothing yet.
LEMMA Adds ==
  ASSUME IInv, NEW c \in Call, calls' = Append(calls, c), ~Holds(c), c.pc # "checking",
         c.kind \in Handler => c.conn <= Len(owner) /\ c.at = 0,
         busy' = busy \/ (busy' = TRUE /\ c.pc = "reveal"),
         UNCHANGED <<connection, locks>>
  PROVE  IInv'
<1>1. /\ calls' \in Seq(Call) /\ Len(calls') = Len(calls) + 1
      /\ calls'[Len(calls) + 1] = c /\ \A j \in Ids : calls'[j] = calls[j]
  BY Grow DEF IInv, TypeInv
<1>2. Len(calls) \in Nat
  BY DEF IInv, TypeInv
<1>3. \A j \in Ids' : j \in Ids \/ j = Len(calls) + 1
  BY <1>1, <1>2 DEF Ids
<1>4. Ids \subseteq Ids' /\ Len(calls) + 1 \in Ids'
  BY <1>1, <1>2 DEF Ids
<1>5. TypeInv'
  BY <1>1, <1>3 DEF IInv, TypeInv, connection
<1>6. AsksConnectedAccount'
  BY <1>1, <1>3 DEF IInv, AsksConnectedAccount, connection, Executed
<1>7. RefHeldOnce'
  BY <1>1, <1>3 DEF IInv, RefHeldOnce, Executed, Holds
<1>8. EarlyRefsSet'
  BY <1>1, <1>3 DEF IInv, EarlyRefsSet
<1>9. LocksHeld' /\ BusyHeld'
  <2>1. LocksHeld'
    BY <1>1, <1>4 DEF IInv, LocksHeld
  <2>2. CASE busy' = busy
    <3>1. ASSUME busy'
          PROVE  \E j \in Ids : Holds(calls[j]) \/ calls[j].pc = "reveal"
      BY <2>2, <3>1 DEF IInv, BusyHeld
    <3>2. QED
      BY <1>1, <1>4, <2>1, <3>1 DEF BusyHeld
  <2>3. CASE c.pc = "reveal"
    BY <1>1, <1>4, <2>1, <2>3 DEF BusyHeld
  <2>4. QED
    BY <2>1, <2>2, <2>3
<1>10. ChecksLate'
  BY <1>1, <1>3 DEF IInv, ChecksLate
<1>11. QED
  BY <1>5, <1>6, <1>7, <1>8, <1>9, <1>10 DEF IInv

-----------------------------------------------------------------------------
(* The steps *)

\* Connecting and disconnecting leave the calls and the connections made.
LEMMA ConnectingStep ==
  ASSUME IInv, Connecting
  PROVE  IInv'
<1>1. /\ UNCHANGED <<busy, locks, calls>> /\ selected' \in Account
      /\ owner' = owner \/ owner' = Append(owner, selected)
      /\ current' \in {current, 0, Len(owner')}
  BY DEF IInv, TypeInv, Connecting, Select, Connect, Connected, ConnectEnds, Disconnect, shown
<1>2. /\ owner' \in Seq(Account) /\ Len(owner') >= Len(owner)
      /\ \A n \in 1..Len(owner) : owner'[n] = owner[n]
  <2>1. owner \in Seq(Account) /\ Len(owner) \in Nat /\ selected \in Account
    BY DEF IInv, TypeInv
  <2>2. CASE owner' = owner
    BY <2>1, <2>2
  <2>3. CASE owner' = Append(owner, selected)
    BY <2>1, <2>3
  <2>4. QED
    BY <1>1, <2>2, <2>3
<1>3. TypeInv'
  <2>1. current' \in 0..Len(owner')
    BY <1>1, <1>2 DEF IInv, TypeInv
  <2>2. \A j \in Ids : calls[j].kind \in Handler => calls[j].conn <= Len(owner')
    BY <1>2, Kinds DEF IInv, TypeInv, Ids, HandlerCall
  <2>3. QED
    BY <1>1, <1>2, <2>1, <2>2 DEF IInv, TypeInv, Ids
<1>4. AsksConnectedAccount'
  <2>1. ASSUME NEW j \in Ids, Executed(calls[j]), calls[j].at # 0
        PROVE  calls[j].at = calls[j].conn /\ calls[j].from = owner'[calls[j].conn]
    <3>1. calls[j] \in HandlerCall
      BY <2>1, Kinds DEF IInv, TypeInv, Ids, Executed
    <3>2. /\ calls[j].at = calls[j].conn /\ calls[j].from = owner[calls[j].conn]
          /\ calls[j].conn <= Len(owner)
      BY <2>1 DEF IInv, AsksConnectedAccount, TypeInv, Executed
    <3>3. calls[j].conn \in 1..Len(owner)
      BY <2>1, <3>1, <3>2 DEF HandlerCall, IInv, TypeInv
    <3>4. QED
      BY <1>2, <3>2, <3>3
  <2>2. QED
    BY <1>1, <2>1 DEF AsksConnectedAccount, Ids
<1>5. RefHeldOnce' /\ EarlyRefsSet' /\ LocksHeld' /\ BusyHeld' /\ ChecksLate'
  BY <1>1 DEF IInv, RefHeldOnce, EarlyRefsSet, LocksHeld, BusyHeld, ChecksLate, Ids
<1>6. QED
  BY <1>3, <1>4, <1>5 DEF IInv

\* A quick action takes no ref.
LEMMA QuickLocks == \A c \in HandlerCall : c.kind \in Quick => LocksOf(c) = {}
<1>1. shield.lock = None /\ unshield.lock = None
  BY DEF shield, unshield, Base
<1>2. Profile["shield"] = shield /\ Profile["unshield"] = unshield
  BY DEF Profile
<1>3. QED
  BY <1>1, <1>2 DEF Quick, LocksOf, Of

\* Reading the balances takes no ref.
LEMMA ReadingStep ==
  ASSUME IInv, Reading
  PROVE  IInv'
<1>1. CASE RefreshPublic
  <2> DEFINE c == [kind |-> "refresh", pc |-> "refresh", conn |-> current]
  <2>1. c \in Call /\ c.kind \notin Handler
    BY NotReading, WalletProviderAssumption DEF Call, IInv, TypeInv
  <2>2. /\ calls' = Append(calls, c) /\ UNCHANGED <<connection, locks>>
        /\ busy' = busy \/ (busy' = TRUE /\ c.pc = "reveal")
    BY <1>1 DEF RefreshPublic
  <2>3. ~Holds(c) /\ c.pc # "checking"
    BY <2>1 DEF Holds
  <2> HIDE DEF c
  <2>4. QED
    BY <2>1, <2>2, <2>3, Adds
<1>2. CASE Reveal
  <2> DEFINE c == [kind |-> "reveal", pc |-> "reveal", conn |-> current]
  <2>1. c \in Call /\ c.kind \notin Handler /\ c.pc = "reveal"
    BY NotReading, WalletProviderAssumption DEF Call, IInv, TypeInv
  <2>2. /\ calls' = Append(calls, c) /\ UNCHANGED <<connection, locks>>
        /\ busy' = busy \/ (busy' = TRUE /\ c.pc = "reveal")
    BY <1>2 DEF Reveal
  <2>3. ~Holds(c) /\ c.pc # "checking"
    BY <2>1 DEF Holds
  <2> HIDE DEF c
  <2>4. QED
    BY <2>1, <2>2, <2>3, Adds
<1>3. ASSUME NEW i \in 1..Len(calls), RefreshReturns(i) PROVE IInv'
  <2>1. i \in Ids /\ calls[i] \in Call
    BY <1>3 DEF IInv, TypeInv, Ids
  <2>2. ~Holds(calls[i]) /\ calls[i].pc # "reveal"
    BY <1>3, NotReading, WalletProviderAssumption DEF RefreshReturns, Holds
  <2>3. End(i) /\ busy' = busy /\ UNCHANGED <<connection, locks>>
    BY <1>3 DEF RefreshReturns
  <2>4. QED
    BY <2>1, <2>2, <2>3, Drops
<1>4. ASSUME NEW i \in 1..Len(calls), RevealReturns(i) PROVE IInv'
  <2>1. i \in Ids /\ calls[i] \in Call
    BY <1>4 DEF IInv, TypeInv, Ids
  <2>2. ~Holds(calls[i])
    BY <1>4 DEF RevealReturns, Holds, Holding
  <2>3. /\ End(i) /\ UNCHANGED <<connection, locks>>
        /\ busy' = FALSE \/ (busy' = busy /\ calls[i].pc # "reveal")
    BY <1>4 DEF RevealReturns
  <2>4. QED
    BY <2>1, <2>2, <2>3, Drops
<1>5. QED
  BY <1>1, <1>2, <1>3, <1>4 DEF Reading

\* A step of a call that goes on: it is of the same kind and made in the same session.
LEMMA ToCall ==
  ASSUME IInv, NEW i \in Ids, calls[i] \in HandlerCall, NEW q \in Holding \cup {"held", "checking"}
  PROVE  LET c == [calls[i] EXCEPT !.pc = q] IN
         /\ c \in HandlerCall /\ c.kind = calls[i].kind /\ c.conn = calls[i].conn /\ c.pc = q
         /\ Of(c) = Of(calls[i]) /\ LocksOf(c) = LocksOf(calls[i])
         /\ c.at # 0 => c.at = c.conn /\ c.from = owner[c.conn]
<1> DEFINE c == [calls[i] EXCEPT !.pc = q]
<1>1. c \in HandlerCall /\ c.kind = calls[i].kind /\ c.conn = calls[i].conn /\ c.pc = q
      /\ c.at = calls[i].at /\ c.from = calls[i].from
  BY DEF HandlerCall
<1>2. Of(c) = Of(calls[i]) /\ LocksOf(c) = LocksOf(calls[i])
  BY <1>1 DEF Of, LocksOf
<1>3. c.at # 0 => c.at = c.conn /\ c.from = owner[c.conn]
  BY <1>1 DEF IInv, AsksConnectedAccount, Executed, HandlerCall
<1>4. QED
  BY <1>1, <1>2, <1>3

\* A step of a handler: it holds its ref from the request to its end.
LEMMA ExecutingStep ==
  ASSUME IInv, revealed \in BOOLEAN, Executing
  PROVE  IInv'
<1> DEFINE Step(i, q) == [calls[i] EXCEPT !.pc = q]
<1>1. ASSUME NEW k \in Handler, Capture(k) PROVE IInv'
  <2> DEFINE c == Captured(k)
  <2>1. c \in HandlerCall /\ c.pc = "held" /\ c.conn <= Len(owner) /\ c.at = 0
    BY DEF Captured, HandlerCall, IInv, TypeInv
  <2>2. /\ calls' = Append(calls, c) /\ UNCHANGED <<connection, locks>>
        /\ busy' = busy \/ (busy' = TRUE /\ c.pc = "reveal")
    BY <1>1 DEF Capture
  <2>3. c \in Call /\ ~Holds(c) /\ c.pc # "checking"
    BY <2>1 DEF Call, Holds, Holding
  <2> HIDE DEF c
  <2>4. QED
    BY <2>1, <2>2, <2>3, Adds
<1>2. ASSUME NEW i \in 1..Len(calls),
             Expire(i) \/ Request(i) \/ Refused(i) \/ Lock(i) \/ FirstCheck(i) \/ LastCheck(i)
               \/ Throws(i) \/ Signed(i) \/ Waited(i) \/ Returns(i)
      PROVE  IInv'
  <2>1. i \in Ids /\ calls[i] \in Call
    BY <1>2 DEF IInv, TypeInv, Ids
  <2>2. calls[i] \in HandlerCall
    BY <1>2, <2>1, Kinds
    DEF Expire, Request, Refused, Lock, FirstCheck, LastCheck, Throws, Signed, Waited, Returns
  <2>3. CASE Expire(i)
    <3> DEFINE c == [calls[i] EXCEPT !.fresh = FALSE]
    <3>1. c \in HandlerCall /\ c.kind = calls[i].kind /\ c.conn = calls[i].conn
          /\ c.pc = calls[i].pc /\ c.at = calls[i].at /\ c.from = calls[i].from
      BY <2>2 DEF HandlerCall
    <3>2. c.at # 0 => c.at = c.conn /\ c.from = owner[c.conn]
      BY <2>1, <2>2, <3>1 DEF IInv, AsksConnectedAccount, Executed, HandlerCall
    <3>3. Set(i, c) /\ UNCHANGED <<connection, busy, locks>>
      BY <2>3 DEF Expire
    <3>4. c.pc = "checking" => ~Of(c).early
      BY <2>1, <3>1 DEF IInv, ChecksLate, Of
    <3> HIDE DEF c
    <3>5. QED
      BY <2>1, <2>2, <3>1, <3>2, <3>3, <3>4, Keeps
  <2>4. CASE Request(i)
    <3>1. CASE Of(calls[i]).early
      <4> DEFINE c == Step(i, Asserting(calls[i]))
      <4>1. Asserting(calls[i]) \in Holding /\ calls[i].pc = "held"
        BY <2>4 DEF Asserting, Holding, Request
      <4>2. /\ c \in HandlerCall /\ c.kind = calls[i].kind /\ c.conn = calls[i].conn
            /\ c.pc \in Holding /\ LocksOf(c) = LocksOf(calls[i])
            /\ c.at # 0 => c.at = c.conn /\ c.from = owner[c.conn]
        BY <2>1, <2>2, <4>1, ToCall
      <4>3. LocksOf(calls[i]) \cap locks = {}
        BY <2>2, <2>4, QuickLocks DEF Request, Accepts, Free
      <4>4. /\ Set(i, c) /\ busy' = TRUE /\ locks' = locks \cup LocksOf(calls[i])
            /\ UNCHANGED connection
        BY <2>4, <3>1 DEF Request, To
      <4>5. calls[i].pc \notin Holding
        BY <4>1 DEF Holding
      <4> HIDE DEF c
      <4>6. QED
        BY <2>1, <2>2, <4>2, <4>3, <4>4, <4>5, Takes
    <3>2. CASE ~Of(calls[i]).early
      <4> DEFINE c == Step(i, "checking")
      <4>1. /\ c \in HandlerCall /\ c.kind = calls[i].kind /\ c.conn = calls[i].conn
            /\ c.pc = "checking" /\ Of(c) = Of(calls[i])
            /\ c.at # 0 => c.at = c.conn /\ c.from = owner[c.conn]
        BY <2>1, <2>2, ToCall
      <4>2. Set(i, c) /\ UNCHANGED <<connection, busy, locks>> /\ calls[i].pc = "held"
        BY <2>4, <3>2 DEF Request, To
      <4>3. c.pc \notin Holding /\ calls[i].pc \notin Holding
        BY <4>1, <4>2 DEF Holding
      <4> HIDE DEF c
      <4>4. QED
        BY <2>1, <2>2, <3>2, <4>1, <4>2, <4>3, Keeps
    <3>3. QED
      BY <3>1, <3>2
  <2>5. CASE Refused(i)
    <3>1. ~Holds(calls[i]) /\ calls[i].pc # "reveal"
      BY <2>5 DEF Refused, Holds, Holding
    <3>2. /\ End(i) /\ UNCHANGED <<connection, locks>>
          /\ busy' = FALSE \/ (busy' = busy /\ calls[i].pc # "reveal")
      BY <2>5, <3>1 DEF Refused
    <3>3. QED
      BY <2>1, <3>1, <3>2, Drops
  <2>6. CASE Lock(i)
    <3> DEFINE c == Step(i, "last")
    <3>1. /\ c \in HandlerCall /\ c.kind = calls[i].kind /\ c.conn = calls[i].conn
          /\ c.pc = "last" /\ LocksOf(c) = LocksOf(calls[i])
          /\ c.at # 0 => c.at = c.conn /\ c.from = owner[c.conn]
      BY <2>1, <2>2, ToCall, ZenonT(40) DEF Holding
    <3>2. /\ Set(i, c) /\ busy' = TRUE /\ locks' = locks \cup LocksOf(calls[i])
          /\ UNCHANGED connection /\ calls[i].pc = "checking"
      BY <2>6 DEF Lock, To
    <3>3. c.pc \in Holding /\ calls[i].pc \notin Holding
      BY <3>1, <3>2 DEF Holding
    <3>4. ~Of(c).early
      BY <2>1, <3>1, <3>2 DEF IInv, ChecksLate, Of
    <3> HIDE DEF c
    <3>5. QED
      BY <2>1, <2>2, <3>1, <3>2, <3>3, <3>4, Takes
  <2>7. CASE FirstCheck(i)
    <3> DEFINE c == Step(i, "last")
    <3>1. /\ c \in HandlerCall /\ c.kind = calls[i].kind /\ c.conn = calls[i].conn
          /\ c.pc = "last"
          /\ c.at # 0 => c.at = c.conn /\ c.from = owner[c.conn]
      BY <2>1, <2>2, ToCall, ZenonT(40) DEF Holding
    <3>2. Set(i, c) /\ UNCHANGED <<connection, busy, locks>> /\ calls[i].pc = "first"
      BY <2>7 DEF FirstCheck, To
    <3>3. c.pc \in Holding /\ calls[i].pc \in Holding
      BY <3>1, <3>2 DEF Holding
    <3> HIDE DEF c
    <3>4. QED
      BY <2>1, <2>2, <3>1, <3>2, <3>3, Keeps
  <2>8. CASE LastCheck(i)
    <3> DEFINE c == [calls[i] EXCEPT !.pc = "sign", !.at = current, !.from = selected]
    <3>1. current = calls[i].conn /\ selected = owner[calls[i].conn] /\ calls[i].pc = "last"
      BY <2>8 DEF LastCheck, SessionUnchanged, AccountOf
    <3>2. /\ c \in HandlerCall /\ c.kind = calls[i].kind /\ c.conn = calls[i].conn
          /\ c.pc = "sign" /\ c.at = current /\ c.from = selected
      <4>1. current \in Nat /\ selected \in Account
        BY DEF IInv, TypeInv
      <4>2. QED
        BY <2>2, <4>1 DEF HandlerCall, Holding
    <3>3. Set(i, c) /\ UNCHANGED <<connection, busy, locks>>
      BY <2>8 DEF LastCheck
    <3>4. c.pc \in Holding /\ calls[i].pc \in Holding
      BY <3>1, <3>2 DEF Holding
    <3> HIDE DEF c
    <3>5. QED
      BY <2>1, <2>2, <3>1, <3>2, <3>3, <3>4, Keeps
  <2>9. CASE Throws(i)
    BY <2>1, <2>2, <2>9, Releases DEF Throws, Holding
  <2>10. CASE Signed(i)
    <3>1. CASE Of(calls[i]).wait = "none"
      BY <2>1, <2>2, <2>10, <3>1, Releases DEF Signed, Holding
    <3>2. CASE Of(calls[i]).wait # "none"
      <4> DEFINE c == Step(i, "wait")
      <4>1. /\ c \in HandlerCall /\ c.kind = calls[i].kind /\ c.conn = calls[i].conn
            /\ c.pc = "wait"
            /\ c.at # 0 => c.at = c.conn /\ c.from = owner[c.conn]
        BY <2>1, <2>2, ToCall, ZenonT(40) DEF Holding
      <4>2. Set(i, c) /\ UNCHANGED <<connection, busy, locks>> /\ calls[i].pc = "sign"
        BY <2>10, <3>2 DEF Signed, To
      <4>3. c.pc \in Holding /\ calls[i].pc \in Holding
        BY <4>1, <4>2 DEF Holding
      <4> HIDE DEF c
      <4>4. QED
        BY <2>1, <2>2, <4>1, <4>2, <4>3, Keeps
    <3>3. QED
      BY <3>1, <3>2
  <2>11. CASE Waited(i)
    <3> DEFINE c == Step(i, "refresh")
    <3>1. /\ c \in HandlerCall /\ c.kind = calls[i].kind /\ c.conn = calls[i].conn
          /\ c.pc = "refresh"
          /\ c.at # 0 => c.at = c.conn /\ c.from = owner[c.conn]
      BY <2>1, <2>2, ToCall, ZenonT(40) DEF Holding
    <3>2. Set(i, c) /\ UNCHANGED <<connection, busy, locks>> /\ calls[i].pc = "wait"
      BY <2>11 DEF Waited, To
    <3>3. c.pc \in Holding /\ calls[i].pc \in Holding
      BY <3>1, <3>2 DEF Holding
    <3> HIDE DEF c
    <3>4. QED
      BY <2>1, <2>2, <3>1, <3>2, <3>3, Keeps
  <2>12. CASE Returns(i)
    BY <2>1, <2>2, <2>12, Releases DEF Returns, Holding
  <2>13. QED
    BY <1>2, <2>3, <2>4, <2>5, <2>6, <2>7, <2>8, <2>9, <2>10, <2>11, <2>12
<1>3. QED
  BY <1>1, <1>2 DEF Executing

\* The disclosure is a flag.
LEMMA RevealedFlag == Spec => [](revealed \in BOOLEAN)
<1>1. Init => revealed \in BOOLEAN
  BY DEF Init
<1>2. revealed \in BOOLEAN /\ [Next]_vars => (revealed \in BOOLEAN)'
  BY DEF vars, shown, Next, Connecting, Select, Connect, Connected, ConnectEnds, Disconnect,
         Reading, RefreshPublic, Reveal, RefreshReturns, RevealReturns,
         Executing, Capture, Expire, Request, Refused, Lock, FirstCheck, LastCheck, Throws,
         Signed, Waited, Returns
<1>3. QED
  BY <1>1, <1>2, PTL DEF Spec

\* The invariant holds from the start and is kept by every step.
THEOREM Inductive == Spec => []IInv
<1>1. Init => IInv
  <2> SUFFICES ASSUME Init PROVE IInv
    OBVIOUS
  <2>1. Ids = {} /\ Len(owner) = 0 /\ calls \in Seq(Call) /\ owner \in Seq(Account)
    BY DEF Init, Ids
  <2>2. TypeInv
    <3>1. current = 0 /\ busy = FALSE /\ selected \in Account
      BY DEF Init
    <3>2. current \in 0..Len(owner)
      BY <2>1, <3>1
    <3>3. QED
      BY <2>1, <3>1, <3>2 DEF TypeInv
  <2>3. AsksConnectedAccount /\ RefHeldOnce /\ EarlyRefsSet /\ ChecksLate
    BY <2>1 DEF AsksConnectedAccount, RefHeldOnce, EarlyRefsSet, ChecksLate
  <2>4. LocksHeld /\ BusyHeld
    BY DEF Init, LocksHeld, BusyHeld
  <2>5. QED
    BY <2>2, <2>3, <2>4 DEF IInv
<1>2. IInv /\ revealed \in BOOLEAN /\ [Next]_vars => IInv'
  <2> SUFFICES ASSUME IInv, revealed \in BOOLEAN, [Next]_vars PROVE IInv'
    OBVIOUS
  <2>1. CASE UNCHANGED vars
    BY <2>1 DEF vars, connection, shown, IInv, TypeInv, AsksConnectedAccount, RefHeldOnce,
                EarlyRefsSet, LocksHeld, BusyHeld, ChecksLate, Ids
  <2>2. QED
    BY <2>1, ConnectingStep, ReadingStep, ExecutingStep DEF Next
<1>3. QED
  BY <1>1, <1>2, RevealedFlag, PTL DEF Spec

\* The wallet is asked to sign for the account and the connection the call was made in,
\* whatever is selected, connected or disconnected while it reads.
THEOREM SignsForItsAccount == Spec => []AsksConnectedAccount
<1>1. IInv => AsksConnectedAccount
  BY DEF IInv
<1>2. QED
  BY <1>1, Inductive, PTL

\* No two calls hold one ref, of those taken before the first await, for any number of
\* calls of any of the handlers.
THEOREM RefsExclusive == Spec => []RefHeldOnce
<1>1. IInv => RefHeldOnce
  BY DEF IInv
<1>2. QED
  BY <1>1, Inductive, PTL

\* When every call has ended no ref and no busy flag is left set.
THEOREM RefsReleased == Spec => []NothingLeftSet
<1>1. IInv => NothingLeftSet
  <2> SUFFICES ASSUME IInv, \A i \in Ids : calls[i].pc \in {"held", "checking", "done"}
               PROVE  locks = {} /\ ~busy
    BY DEF NothingLeftSet
  <2>1. \A i \in Ids : ~Holds(calls[i]) /\ calls[i].pc # "reveal"
    BY DEF Holds, Holding
  <2>2. QED
    BY <2>1 DEF IInv, LocksHeld, BusyHeld
<1>2. QED
  BY <1>1, Inductive, PTL
=============================================================================
