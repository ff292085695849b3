---------------------------- MODULE FeeGateProofs ----------------------------
(***************************************************************************)
(* The fee gate never starts a run unpaid, never uses a fee twice and      *)
(* never charges an attempt twice, for any number of plans, modes,         *)
(* recoveries, reloads and objects.  None of it rests on run ids being     *)
(* fresh: what a run was settled by is in the server's ledger and decides. *)
(***************************************************************************)
EXTENDS FeeGate, FiniteSetTheorems, SequenceTheorems, TLAPS

Object ==
  [run : Run, plan : Plan, started : BOOLEAN, policy : {"unread", "on", "off"},
   fee : {"none", "quoted", "expired", "submitted", "lapsed", "settled"}, tx : Nat]

\* A press at an await, or none.
Presses ==
  [pc : {"idle", "policy", "quote", "wallet", "paid", "settle", "stage", "sent"}, obj : Nat]

\* A recovery that is under way.
Attempt ==
  [pc : {"capsule", "policy", "server"}, run : Run, plan : Plan, cancelled : BOOLEAN]

Objects == 1..Len(heap)
Paid == {"submitted", "lapsed", "settled"}

TypeInv ==
  /\ feeOn \in BOOLEAN
  /\ heap \in Seq(Object) /\ active \in 0..Len(heap)
  /\ press \in Presses
  /\ press.pc = "idle" => press.obj = 0
  /\ press.pc # "idle" => press.obj \in Objects
  /\ recovery \in [Recovery -> {NoRecovery} \cup Attempt]
  /\ pointer \in {NoPointer} \cup [run : Run, plan : Plan]
  /\ session \in {0} \cup Run
  /\ payments \in Seq(Nat) /\ \A s \in 1..Len(payments) : payments[s] \in Objects
  /\ settledBy \in [Run -> Nat] /\ starts \in [Run -> Nat]

\* What an object says of its fee is so.
FeesKnown ==
  \A i \in Objects :
    /\ heap[i].policy = "unread" => heap[i].fee = "none"
    /\ heap[i].policy = "off" => ~feeOn
    /\ heap[i].fee \in Paid => heap[i].tx \in 1..Len(payments) /\ payments[heap[i].tx] = i
    /\ heap[i].fee = "settled" => settledBy[heap[i].run] = heap[i].tx

\* A settled run was settled by a payment for it.
SettledKnown ==
  \A r \in Run : settledBy[r] # 0 =>
    settledBy[r] \in 1..Len(payments) /\ heap[payments[settledBy[r]]].run = r

\* What a caller knows at its await is still so.
PressKnown ==
  /\ press.pc = "policy" => Current.policy = "unread"
  /\ press.pc = "quote" => Current.fee = "none" /\ Current.policy # "unread"
  /\ press.pc \in {"wallet", "paid"} => Current.fee \in {"quoted", "expired"}
  /\ press.pc = "settle" => Current.fee \in {"submitted", "lapsed"}
  /\ press.pc = "paid" => Len(payments) # 0 /\ payments[Len(payments)] = press.obj
  /\ press.pc = "stage" /\ feeOn => Current.fee = "settled" /\ starts[Current.run] = 0
  /\ press.pc = "sent" => starts[Current.run] > 0

\* A started run is settled by a fee that its object knows to be settled.
StartsKnown ==
  feeOn => \A r \in Run : starts[r] > 0 =>
    starts[r] = 1 /\ settledBy[r] # 0 /\ heap[payments[settledBy[r]]].fee = "settled"

\* The object of a started run is not reused.
StartedLeft ==
  feeOn => \A i \in Objects : heap[i].fee = "settled" /\ starts[heap[i].run] > 0 =>
    i # active \/ heap[i].started \/ (press.pc = "sent" /\ press.obj = i)

\* An object that was paid knows it, or is left.
PaidLeft ==
  \A s \in 1..Len(payments) :
    \/ heap[payments[s]].fee \in Paid
    \/ press.pc = "paid" /\ press.obj = payments[s]
    \/ payments[s] # active /\ payments[s] # press.obj

\* What localStorage and the effects refer to was started.
RecoveryKnown ==
  /\ session # 0 => starts[session] > 0 \/ (press.pc = "stage" /\ session = Current.run)
  /\ pointer # NoPointer => starts[pointer.run] > 0
  /\ \A v \in Recovery : recovery[v] # NoRecovery => starts[recovery[v].run] > 0

IInv ==
  /\ TypeInv /\ FeesKnown /\ SettledKnown /\ PressKnown /\ StartsKnown
  /\ StartedLeft /\ PaidLeft /\ OneChargePerAttempt /\ RecoveryKnown

-----------------------------------------------------------------------------
(* The objects after a step *)

\* One object changes.
LEMMA Updated ==
  ASSUME heap \in Seq(Object), NEW i \in Objects, NEW n \in Object, heap' = [heap EXCEPT ![i] = n]
  PROVE  /\ heap' \in Seq(Object) /\ Len(heap') = Len(heap) /\ Objects' = Objects
         /\ heap'[i] = n /\ \A j \in Objects : j # i => heap'[j] = heap[j]
BY DEF Objects

\* One object is made.
LEMMA Appended ==
  ASSUME heap \in Seq(Object), NEW n \in Object, heap' = Append(heap, n)
  PROVE  /\ heap' \in Seq(Object) /\ Len(heap') = Len(heap) + 1
         /\ Objects' = Objects \cup {Len(heap) + 1} /\ Len(heap) + 1 \notin Objects
         /\ heap'[Len(heap) + 1] = n /\ \A j \in Objects : heap'[j] = heap[j]
BY DEF Objects

\* prepare goes on with an object, of which no less is known than before.
LEMMA Proceeds ==
  ASSUME IInv, NEW i \in Objects, NEW o \in Object, Proceed(heap, i, o),
         UNCHANGED <<active, recovery, pointer, feeOn, payments, starts>>,
         o.run = heap[i].run, o.started = heap[i].started,
         \/ press.pc = "idle" /\ i = active
         \/ press.pc \in {"policy", "quote", "paid", "settle"} /\ i = press.obj,
         o.policy = "unread" => o.fee = "none",
         o.policy = "off" => ~feeOn,
         o.fee \in Paid => o.tx \in 1..Len(payments) /\ payments[o.tx] = i,
         heap[i].fee \in Paid \/ press.pc = "paid" => o.fee \in Paid,
         heap[i].fee = "settled" => o.fee = "settled",
         \/ settledBy' = settledBy
         \/ /\ settledBy[o.run] \in {0, o.tx} /\ o.fee = "settled"
            /\ settledBy' = [settledBy EXCEPT ![o.run] = o.tx],
         o.fee = "settled" => settledBy'[o.run] = o.tx,
         o.fee = "settled" /\ feeOn => starts[o.run] = 0
  PROVE  IInv'
<1> DEFINE n == [o EXCEPT !.fee = IF @ = "expired" THEN "none" ELSE @]
<1>1. /\ n \in Object /\ n.run = o.run /\ n.started = o.started /\ n.policy = o.policy /\ n.tx = o.tx
      /\ n.fee = IF o.fee = "expired" THEN "none" ELSE o.fee
  BY DEF Object
<1>2. /\ heap' = [heap EXCEPT ![i] = n] /\ press' = [pc |-> Await(o), obj |-> i]
      /\ session' = IF Await(o) = "stage" THEN o.run ELSE session
  BY DEF Proceed
<1> HIDE DEF n
<1>3. /\ heap' \in Seq(Object) /\ Len(heap') = Len(heap) /\ Objects' = Objects
      /\ heap'[i] = n /\ \A j \in Objects : j # i => heap'[j] = heap[j]
  BY <1>1, <1>2, Updated DEF IInv, TypeInv
<1>4. /\ Await(o) \in {"policy", "quote", "wallet", "settle", "stage"}
      /\ Await(o) = "policy" => o.policy = "unread"
      /\ Await(o) = "quote" => o.fee \in {"none", "expired"} /\ o.policy # "unread"
      /\ Await(o) = "wallet" => o.fee = "quoted"
      /\ Await(o) = "settle" => o.fee \in {"submitted", "lapsed"}
      /\ Await(o) = "stage" => o.policy = "off" \/ o.fee = "settled"
  BY DEF Await, Object
<1>5. o.run \in Run /\ o.tx \in Nat
  BY DEF Object
<1>6. press'.pc = Await(o) /\ press'.obj = i /\ Current' = n
  BY <1>2, <1>3 DEF Current
<1>7. TypeInv'
  <2>1. press' \in Presses
    BY <1>2, <1>4 DEF Objects, Presses
  <2>2. settledBy' \in [Run -> Nat]
    BY <1>5 DEF IInv, TypeInv
  <2>3. press'.pc # "idle" /\ press'.obj \in Objects' /\ session' \in {0} \cup Run
    BY <1>2, <1>3, <1>4, <1>5, <1>6 DEF IInv, TypeInv
  <2>4. QED
    BY <1>3, <2>1, <2>2, <2>3 DEF IInv, TypeInv
<1>8. \A r \in Run : settledBy[r] # 0 => settledBy'[r] = settledBy[r]
  BY <1>5 DEF IInv, TypeInv
<1>9. FeesKnown'
  <2>1. ASSUME NEW j \in Objects, j # i
        PROVE  /\ heap[j].policy = "unread" => heap[j].fee = "none"
               /\ heap[j].policy = "off" => ~feeOn'
               /\ heap[j].fee \in Paid =>
                     heap[j].tx \in 1..Len(payments') /\ payments'[heap[j].tx] = j
               /\ heap[j].fee = "settled" => settledBy'[heap[j].run] = heap[j].tx
    <3>1. heap[j].run \in Run
      <4>1. heap[j] \in Object
        BY DEF IInv, TypeInv, Objects
      <4>2. QED
        BY <4>1 DEF Object
    <3>2. heap[j].fee = "settled" => heap[j].tx \in 1..Len(payments)
      BY DEF IInv, FeesKnown, Paid
    <3>3. heap[j].fee = "settled" => settledBy'[heap[j].run] = heap[j].tx
      BY <1>8, <3>1, <3>2 DEF IInv, FeesKnown
    <3>4. QED
      BY <3>3 DEF IInv, FeesKnown
  <2>2. /\ n.policy = "unread" => n.fee = "none"
        /\ n.policy = "off" => ~feeOn'
        /\ n.fee \in Paid => n.tx \in 1..Len(payments') /\ payments'[n.tx] = i
        /\ n.fee = "settled" => settledBy'[n.run] = n.tx
    BY <1>1 DEF Paid
  <2>3. QED
    BY <1>3, <2>1, <2>2 DEF FeesKnown
<1>10. SettledKnown'
  <2>1. ASSUME NEW r \in Run, settledBy'[r] # 0
        PROVE  settledBy'[r] \in 1..Len(payments) /\ heap'[payments[settledBy'[r]]].run = r
    <3>1. CASE settledBy[r] # 0
      <4>1. /\ settledBy'[r] \in 1..Len(payments) /\ heap[payments[settledBy'[r]]].run = r
            /\ payments[settledBy'[r]] \in Objects
        BY <1>8, <3>1 DEF IInv, SettledKnown, TypeInv
      <4>2. QED
        BY <1>1, <1>3, <4>1
    <3>2. CASE settledBy[r] = 0
      <4>1. r = o.run /\ settledBy'[r] = o.tx /\ o.fee = "settled"
        BY <1>5, <2>1, <3>2 DEF IInv, TypeInv
      <4>2. QED
        BY <1>1, <1>3, <4>1 DEF Paid
    <3>3. QED
      BY <3>1, <3>2
  <2>2. QED
    BY <2>1 DEF SettledKnown
<1>11. PressKnown'
  BY <1>1, <1>4, <1>6 DEF PressKnown
<1>12. StartsKnown'
  <2>1. \A j \in Objects : heap[j].fee = "settled" => heap'[j].fee = "settled"
    BY <1>1, <1>3
  <2>2. \A r \in Run : settledBy[r] # 0 => payments[settledBy[r]] \in Objects
    BY DEF IInv, SettledKnown, TypeInv
  <2>3. ASSUME feeOn, NEW r \in Run, starts[r] > 0
        PROVE  starts[r] = 1 /\ settledBy'[r] # 0 /\ heap'[payments[settledBy'[r]]].fee = "settled"
    <3>1. starts[r] = 1 /\ settledBy[r] # 0 /\ heap[payments[settledBy[r]]].fee = "settled"
      BY <2>3 DEF IInv, StartsKnown
    <3>2. QED
      BY <1>8, <2>1, <2>2, <3>1
  <2>4. QED
    BY <2>3 DEF StartsKnown
<1>13. StartedLeft'
  BY <1>1, <1>3, <1>6 DEF IInv, StartedLeft
<1>14. PaidLeft'
  BY <1>1, <1>3, <1>6 DEF IInv, PaidLeft, TypeInv, Paid
<1>15. OneChargePerAttempt'
  BY DEF IInv, OneChargePerAttempt
<1>16. RecoveryKnown'
  BY <1>1, <1>2, <1>4, <1>6 DEF IInv, RecoveryKnown
<1>17. QED
  BY <1>7, <1>9, <1>10, <1>11, <1>12, <1>13, <1>14, <1>15, <1>16 DEF IInv

\* An object is made that has no fee; it may be the one a press goes on with.
LEMMA Makes ==
  ASSUME IInv, NEW n \in Object, heap' = Append(heap, n), active' = Len(heap) + 1,
         n.fee = "none", n.policy = "off" => ~feeOn,
         UNCHANGED <<pointer, world>>,
         \/ press' = press
         \/ /\ press.pc = "idle" /\ n.policy = "unread"
            /\ press' = [pc |-> "policy", obj |-> Len(heap) + 1],
         session' = session \/ (session' \in Run /\ starts[session'] > 0),
         recovery' = recovery \/ \E v \in Recovery : EndRecovery(v)
  PROVE  IInv'
<1>1. /\ heap' \in Seq(Object) /\ Len(heap') = Len(heap) + 1
      /\ Objects' = Objects \cup {Len(heap) + 1} /\ Len(heap) + 1 \notin Objects
      /\ heap'[Len(heap) + 1] = n /\ \A j \in Objects : heap'[j] = heap[j]
  BY Appended DEF IInv, TypeInv
<1>2. UNCHANGED <<feeOn, payments, settledBy, starts>>
  BY DEF world
<1>3. \A v \in Recovery : recovery'[v] = recovery[v] \/ recovery'[v] = NoRecovery
  BY DEF EndRecovery, IInv, TypeInv
<1>4. Len(heap) \in Nat /\ 0 \notin Objects
  BY DEF IInv, TypeInv, Objects
<1>5. TypeInv'
  <2>1. recovery' \in [Recovery -> {NoRecovery} \cup Attempt]
    BY DEF EndRecovery, IInv, TypeInv
  <2>2. /\ press' \in Presses
        /\ press'.pc = "idle" => press'.obj = 0
        /\ press'.pc # "idle" => press'.obj \in Objects'
    BY <1>1, <1>4 DEF IInv, TypeInv, Presses
  <2>3. active' \in 0..Len(heap')
    BY <1>1, <1>4
  <2>4. QED
    BY <1>1, <1>2, <2>1, <2>2, <2>3 DEF IInv, TypeInv
<1>6. FeesKnown'
  <2>1. ASSUME NEW j \in Objects
        PROVE  /\ heap[j].policy = "unread" => heap[j].fee = "none"
               /\ heap[j].policy = "off" => ~feeOn
               /\ heap[j].fee \in Paid => heap[j].tx \in 1..Len(payments) /\ payments[heap[j].tx] = j
               /\ heap[j].fee = "settled" => settledBy[heap[j].run] = heap[j].tx
    BY DEF IInv, FeesKnown
  <2>2. n.fee \notin Paid /\ n.fee # "settled"
    BY DEF Paid
  <2>3. ASSUME NEW j \in Objects'
        PROVE  /\ heap'[j].policy = "unread" => heap'[j].fee = "none"
               /\ heap'[j].policy = "off" => ~feeOn
               /\ heap'[j].fee \in Paid => heap'[j].tx \in 1..Len(payments) /\ payments[heap'[j].tx] = j
               /\ heap'[j].fee = "settled" => settledBy[heap'[j].run] = heap'[j].tx
    <3>1. CASE j \in Objects
      BY <1>1, <2>1, <3>1
    <3>2. CASE j = Len(heap) + 1
      BY <1>1, <2>2, <3>2
    <3>3. QED
      BY <1>1, <3>1, <3>2
  <2>4. QED
    BY <1>2, <2>3 DEF FeesKnown
<1>7. SettledKnown' /\ StartsKnown'
  <2>1. \A r \in Run : settledBy[r] # 0 =>
          /\ settledBy[r] \in 1..Len(payments)
          /\ heap'[payments[settledBy[r]]] = heap[payments[settledBy[r]]]
    BY <1>1 DEF IInv, SettledKnown, TypeInv
  <2>2. SettledKnown'
    BY <1>2, <2>1 DEF IInv, SettledKnown
  <2>3. StartsKnown'
    BY <1>2, <2>1 DEF IInv, StartsKnown
  <2>4. QED
    BY <2>2, <2>3
<1>8. CASE press' = press
  <2>1. press.pc # "idle" => Current' = Current
    BY <1>1, <1>8 DEF IInv, TypeInv, Current
  <2>2. PressKnown'
    BY <1>2, <1>8, <2>1 DEF IInv, PressKnown
  <2>3. StartedLeft'
    BY <1>1, <1>2, <1>8 DEF IInv, StartedLeft
  <2>4. PaidLeft'
    BY <1>1, <1>2, <1>8 DEF IInv, PaidLeft, TypeInv
  <2>5. RecoveryKnown'
    BY <1>2, <1>3, <1>8, <2>1 DEF IInv, RecoveryKnown
  <2>6. QED
    BY <1>2, <1>5, <1>6, <1>7, <2>2, <2>3, <2>4, <2>5 DEF IInv, OneChargePerAttempt
<1>9. CASE /\ press.pc = "idle" /\ n.policy = "unread"
           /\ press' = [pc |-> "policy", obj |-> Len(heap) + 1]
  <2>1. press'.pc = "policy" /\ press'.obj = Len(heap) + 1 /\ Current' = n
    BY <1>1, <1>9 DEF Current
  <2>2. PressKnown'
    BY <1>9, <2>1 DEF PressKnown
  <2>3. StartedLeft'
    BY <1>1, <1>2, <1>9, <2>1 DEF IInv, StartedLeft
  <2>4. PaidLeft'
    BY <1>1, <1>2, <1>9, <2>1 DEF IInv, PaidLeft, TypeInv
  <2>5. RecoveryKnown'
    BY <1>2, <1>3, <1>9, <2>1 DEF IInv, RecoveryKnown
  <2>6. QED
    BY <1>2, <1>5, <1>6, <1>7, <2>2, <2>3, <2>4, <2>5 DEF IInv, OneChargePerAttempt
<1>10. QED
  BY <1>8, <1>9

\* Nothing of the fee changes: what the page holds is dropped or of started runs.
LEMMA Quiet ==
  ASSUME IInv, UNCHANGED <<heap, world>>, active' \in {active, 0},
         \/ press' = press /\ session' \in {session, 0}
         \/ press' = NoPress /\ session' = 0 /\ (active' = 0 \/ press.pc \notin {"paid", "sent"}),
         pointer' \in {pointer, NoPointer},
         recovery' \in [Recovery -> {NoRecovery} \cup Attempt],
         \A v \in Recovery : recovery'[v] # NoRecovery => starts[recovery'[v].run] > 0
  PROVE  IInv'
<1>1. UNCHANGED <<feeOn, payments, settledBy, starts>> /\ Objects' = Objects
  BY DEF world, Objects
<1>2. TypeInv'
  BY <1>1 DEF IInv, TypeInv, NoPress, Presses
<1>3. FeesKnown' /\ SettledKnown' /\ StartsKnown' /\ OneChargePerAttempt'
  BY <1>1 DEF IInv, FeesKnown, SettledKnown, StartsKnown, OneChargePerAttempt
<1>4. CASE press' = press /\ session' \in {session, 0}
  <2>1. Current' = Current
    BY <1>4 DEF Current
  <2>2. PressKnown' /\ StartedLeft' /\ PaidLeft' /\ RecoveryKnown'
    <3>1. PressKnown'
      BY <1>1, <1>4, <2>1 DEF IInv, PressKnown
    <3>2. 0 \notin Objects
      BY DEF Objects
    <3>3. StartedLeft'
      BY <1>1, <1>4, <3>2 DEF IInv, StartedLeft
    <3>4. PaidLeft'
      BY <1>1, <1>4, <3>2 DEF IInv, PaidLeft, TypeInv
    <3>5. RecoveryKnown'
      BY <1>1, <1>4, <2>1 DEF IInv, RecoveryKnown
    <3>6. QED
      BY <3>1, <3>3, <3>4, <3>5
  <2>3. QED
    BY <1>2, <1>3, <2>2 DEF IInv
<1>5. CASE press' = NoPress /\ session' = 0 /\ (active' = 0 \/ press.pc \notin {"paid", "sent"})
  <2>1. press'.pc = "idle" /\ press'.obj = 0 /\ 0 \notin Objects
    BY <1>5 DEF NoPress, Objects
  <2>2. PressKnown' /\ RecoveryKnown'
    BY <1>1, <1>5, <2>1 DEF IInv, PressKnown, RecoveryKnown
  <2>3. StartedLeft'
    BY <1>1, <1>5, <2>1 DEF IInv, StartedLeft
  <2>4. PaidLeft'
    BY <1>1, <1>5, <2>1 DEF IInv, PaidLeft, TypeInv
  <2>5. QED
    BY <1>2, <1>3, <2>2, <2>3, <2>4 DEF IInv
<1>6. QED
  BY <1>4, <1>5

-----------------------------------------------------------------------------
(* startFlow *)

\* The number of runs is a number.
LEMMA FreshRunType == ASSUME heap \in Seq(Object) PROVE FreshRun \in Nat \ {0}
<1> DEFINE S == {heap[i].run : i \in 1..Len(heap)}
           f == [i \in 1..Len(heap) |-> heap[i].run]
<1>1. Len(heap) \in Nat /\ f \in Surjection(1..Len(heap), S)
  BY DEF Surjection
<1>2. IsFiniteSet(S)
  BY <1>1, FS_NatSurjection DEF ExistsSurjection
<1>3. Cardinality(S) \in Nat
  BY <1>2, FS_CardinalityType
<1>4. QED
  BY <1>3 DEF FreshRun

\* What is known of an object of the heap.
LEMMA ObjectType ==
  ASSUME IInv, NEW i \in Objects
  PROVE  /\ heap[i] \in Object /\ heap[i].run \in Run /\ heap[i].plan \in Plan
         /\ heap[i].policy = "unread" => heap[i].fee = "none"
         /\ heap[i].policy = "off" => ~feeOn
         /\ heap[i].fee \in Paid => heap[i].tx \in 1..Len(payments) /\ payments[heap[i].tx] = i
         /\ heap[i].fee = "settled" => settledBy[heap[i].run] = heap[i].tx
<1>1. heap[i] \in Object
  BY DEF IInv, TypeInv, Objects
<1>2. heap[i].run \in Run /\ heap[i].plan \in Plan
  BY <1>1 DEF Object
<1>3. QED
  BY <1>1, <1>2 DEF IInv, FeesKnown

\* Pressing reuses the active run or makes one.
LEMMA PressStep == ASSUME IInv, NEW p \in Plan, Press(p) PROVE IInv'
<1>1. press.pc = "idle" /\ UNCHANGED <<recovery, pointer, feeOn, payments, settledBy, starts>>
  BY DEF Press, world
<1>2. CASE Reusable(p)
  <2> DEFINE o == heap[active]
  <2>1. active \in Objects /\ ~o.started
    BY <1>2 DEF Reusable, IInv, TypeInv, Objects
  <2>2. Proceed(heap, active, o) /\ UNCHANGED active
    BY <1>2 DEF Press
  <2>3. /\ o \in Object
        /\ o.policy = "unread" => o.fee = "none"
        /\ o.policy = "off" => ~feeOn
        /\ o.fee \in Paid => o.tx \in 1..Len(payments) /\ payments[o.tx] = active
        /\ o.fee = "settled" => settledBy[o.run] = o.tx
    BY <2>1, ObjectType
  <2>4. o.fee = "settled" /\ feeOn => starts[o.run] = 0
    <3>1. o.run \in Run /\ starts[o.run] \in Nat
      BY <2>1, ObjectType DEF IInv, TypeInv
    <3>2. QED
      BY <1>1, <2>1, <3>1 DEF IInv, StartedLeft
  <2> HIDE DEF o
  <2>5. o = heap[active]
    BY DEF o
  <2>6. /\ UNCHANGED <<active, recovery, pointer, feeOn, payments, starts>>
        /\ o.run = heap[active].run /\ o.started = heap[active].started
        /\ settledBy' = settledBy
        /\ o.fee = "settled" => settledBy'[o.run] = o.tx
    BY <1>1, <2>2, <2>3, <2>5
  <2>7. QED
    BY <1>1, <2>1, <2>2, <2>3, <2>4, <2>5, <2>6, Proceeds
<1>3. CASE ~Reusable(p)
  <2> DEFINE o == NewObject(FreshRun, p)
  <2>1. FreshRun \in Run
    BY <1>3, FreshRunType DEF Press, Run, IInv, TypeInv
  <2>2. o \in Object /\ o.fee = "none" /\ o.policy = "unread" /\ o.run = FreshRun
    BY <2>1 DEF NewObject, Object
  <2>3. Await(o) = "policy" /\ [o EXCEPT !.fee = IF @ = "expired" THEN "none" ELSE @] = o
    BY <2>2 DEF Await, Object
  <2>4. active' = Len(heap) + 1 /\ Proceed(Append(heap, o), active', o)
    BY <1>3 DEF Press
  <2> HIDE DEF o
  <2>5. heap' = [Append(heap, o) EXCEPT ![Len(heap) + 1] = o]
    BY <2>3, <2>4 DEF Proceed
  <2>6. heap' = Append(heap, o)
    <3> DEFINE h == Append(heap, o)
    <3>1. h \in Seq(Object) /\ Len(h) = Len(heap) + 1 /\ h[Len(heap) + 1] = o
      BY <2>2 DEF IInv, TypeInv
    <3>2. h = [j \in 1..Len(h) |-> h[j]]
      BY <3>1, LenProperties
    <3> HIDE DEF h
    <3>3. [h EXCEPT ![Len(heap) + 1] = o] = h
      BY <3>1, <3>2
    <3>4. QED
      BY <2>5, <3>3 DEF h
  <2>7. press' = [pc |-> "policy", obj |-> Len(heap) + 1] /\ session' = session
    BY <2>3, <2>4 DEF Proceed
  <2>8. UNCHANGED <<pointer, world>> /\ recovery' = recovery
    BY DEF Press
  <2>9. QED
    BY <1>1, <2>2, <2>4, <2>6, <2>7, <2>8, Makes
<1>4. QED
  BY <1>2, <1>3

\* The object a press is at.
LEMMA CurrentType ==
  ASSUME IInv, press.pc # "idle"
  PROVE  press.obj \in Objects /\ Current = heap[press.obj] /\ Current \in Object /\ Current.run \in Run
<1>1. press.obj \in Objects
  BY DEF IInv, TypeInv
<1>2. QED
  BY <1>1, ObjectType DEF Current

\* The policy is read.
LEMMA PolicyReadStep == ASSUME IInv, PolicyRead PROVE IInv'
<1> DEFINE o == [Current EXCEPT !.policy = IF feeOn THEN "on" ELSE "off"]
<1>1. press.pc = "policy" /\ UNCHANGED <<active, recovery, pointer, feeOn, payments, settledBy, starts>>
  BY DEF PolicyRead, world
<1>2. press.obj \in Objects /\ Current = heap[press.obj] /\ Current \in Object
  BY <1>1, CurrentType
<1>3. Current.fee = "none"
  BY <1>1, <1>2, ObjectType DEF IInv, PressKnown
<1>4. /\ o \in Object /\ o.run = heap[press.obj].run /\ o.started = heap[press.obj].started
      /\ o.fee = "none" /\ o.policy = (IF feeOn THEN "on" ELSE "off")
  BY <1>2, <1>3 DEF Object
<1>5. o.fee \notin Paid /\ o.fee # "settled" /\ heap[press.obj].fee \notin Paid
  BY <1>2, <1>3, <1>4 DEF Paid
<1>6. Proceed(heap, press.obj, o)
  BY DEF PolicyRead
<1>7. (o.policy = "off" => ~feeOn) /\ heap[press.obj].fee # "settled"
  BY <1>2, <1>3, <1>4
<1> HIDE DEF o
<1>8. QED
  BY <1>1, <1>2, <1>4, <1>5, <1>6, <1>7, Proceeds

\* The server quotes.
LEMMA QuotedStep == ASSUME IInv, Quoted PROVE IInv'
<1> DEFINE o == [Current EXCEPT !.fee = "quoted"]
<1>1. press.pc = "quote" /\ UNCHANGED <<active, recovery, pointer, feeOn, payments, settledBy, starts>>
  BY DEF Quoted, world
<1>2. press.obj \in Objects /\ Current = heap[press.obj] /\ Current \in Object
  BY <1>1, CurrentType
<1>3. Current.fee = "none"
  BY <1>1 DEF IInv, PressKnown
<1>4. /\ o \in Object /\ o.run = heap[press.obj].run /\ o.started = heap[press.obj].started
      /\ o.fee = "quoted" /\ o.policy = heap[press.obj].policy
  BY <1>2 DEF Object
<1>5. o.fee \notin Paid /\ o.fee # "settled" /\ heap[press.obj].fee \notin Paid
  BY <1>2, <1>3, <1>4 DEF Paid
<1>6. Proceed(heap, press.obj, o)
  BY DEF Quoted
<1>7. (o.policy = "off" => ~feeOn) /\ o.policy # "unread" /\ heap[press.obj].fee # "settled"
  BY <1>1, <1>2, <1>3, <1>4, ObjectType DEF IInv, PressKnown
<1> HIDE DEF o
<1>8. QED
  BY <1>1, <1>2, <1>4, <1>5, <1>6, <1>7, Proceeds

\* The wallet's hash comes back: the fee is submitted.
LEMMA HashReturnedStep == ASSUME IInv, HashReturned PROVE IInv'
<1> DEFINE o == [Current EXCEPT !.fee = "submitted", !.tx = Len(payments)]
<1>1. press.pc = "paid" /\ UNCHANGED <<active, recovery, pointer, feeOn, payments, settledBy, starts>>
  BY DEF HashReturned, world
<1>2. press.obj \in Objects /\ Current = heap[press.obj] /\ Current \in Object
  BY <1>1, CurrentType
<1>3. /\ Current.fee \in {"quoted", "expired"}
      /\ Len(payments) \in Nat \ {0} /\ payments[Len(payments)] = press.obj
  BY <1>1 DEF IInv, PressKnown, TypeInv
<1>4. /\ o \in Object /\ o.run = heap[press.obj].run /\ o.started = heap[press.obj].started
      /\ o.fee = "submitted" /\ o.policy = heap[press.obj].policy /\ o.tx = Len(payments)
  BY <1>2, <1>3 DEF Object
<1>5. /\ o.fee \in Paid /\ o.fee # "settled" /\ heap[press.obj].fee \notin Paid
      /\ o.tx \in 1..Len(payments) /\ payments[o.tx] = press.obj
  BY <1>2, <1>3, <1>4 DEF Paid
<1>6. Proceed(heap, press.obj, o)
  BY DEF HashReturned
<1>7. (o.policy = "off" => ~feeOn) /\ o.policy # "unread" /\ heap[press.obj].fee # "settled"
  BY <1>2, <1>3, <1>4, ObjectType
<1> HIDE DEF o
<1>8. QED
  BY <1>1, <1>2, <1>4, <1>5, <1>6, <1>7, Proceeds

\* What the server settles: the fee of the object the press is at, which starts nothing
\* that was started.
LEMMA Settling ==
  ASSUME IInv, ServerSettles
  PROVE  /\ press.pc = "settle" /\ press.obj \in Objects /\ Current = heap[press.obj]
         /\ Current \in Object /\ Current.run \in Run /\ Current.fee = "submitted"
         /\ Current.tx \in 1..Len(payments) /\ payments[Current.tx] = press.obj
         /\ settledBy[Current.run] \in {0, Current.tx}
         /\ settledBy' = [settledBy EXCEPT ![Current.run] = Current.tx]
         /\ feeOn => starts[Current.run] = 0
<1>1. /\ press.pc = "settle" /\ Current.fee = "submitted"
      /\ settledBy[Current.run] \in {0, Current.tx}
      /\ settledBy' = [settledBy EXCEPT ![Current.run] = Current.tx]
  BY DEF ServerSettles
<1>2. press.obj \in Objects /\ Current = heap[press.obj] /\ Current \in Object /\ Current.run \in Run
  BY <1>1, CurrentType
<1>3. Current.tx \in 1..Len(payments) /\ payments[Current.tx] = press.obj
  BY <1>1, <1>2, ObjectType DEF Paid
<1>4. ASSUME feeOn PROVE starts[Current.run] = 0
  <2>1. starts[Current.run] \in Nat
    BY <1>2 DEF IInv, TypeInv
  <2>2. CASE starts[Current.run] > 0
    <3>1. /\ settledBy[Current.run] # 0
          /\ heap[payments[settledBy[Current.run]]].fee = "settled"
      BY <1>2, <1>4, <2>2 DEF IInv, StartsKnown
    <3>2. heap[payments[Current.tx]].fee = "settled"
      BY <1>1, <3>1
    <3>3. QED
      BY <1>1, <1>2, <1>3, <3>2
  <2>3. QED
    BY <2>1, <2>2
<1>5. QED
  BY <1>1, <1>2, <1>3, <1>4

\* The server settles and answers.
LEMMA SettleStep == ASSUME IInv, Settle PROVE IInv'
<1> DEFINE o == [Current EXCEPT !.fee = "settled"]
<1>1. UNCHANGED <<active, recovery, pointer, feeOn, payments, starts>>
  BY DEF Settle
<1>2. /\ press.pc = "settle" /\ press.obj \in Objects /\ Current = heap[press.obj]
      /\ Current \in Object /\ Current.run \in Run /\ Current.fee = "submitted"
      /\ Current.tx \in 1..Len(payments) /\ payments[Current.tx] = press.obj
      /\ settledBy[Current.run] \in {0, Current.tx}
      /\ settledBy' = [settledBy EXCEPT ![Current.run] = Current.tx]
      /\ feeOn => starts[Current.run] = 0
  BY Settling DEF Settle
<1>3. /\ o \in Object /\ o.run = Current.run /\ o.started = Current.started
      /\ o.fee = "settled" /\ o.policy = Current.policy /\ o.tx = Current.tx
  BY <1>2 DEF Object
<1>4. o.fee \in Paid /\ settledBy'[o.run] = o.tx
  BY <1>2, <1>3 DEF Paid, IInv, TypeInv
<1>5. Proceed(heap, press.obj, o)
  BY DEF Settle
<1>6. (o.policy = "off" => ~feeOn) /\ o.policy # "unread"
  BY <1>2, <1>3, ObjectType
<1> HIDE DEF o
<1>7. /\ o.run = heap[press.obj].run /\ o.started = heap[press.obj].started
      /\ settledBy[o.run] \in {0, o.tx} /\ settledBy' = [settledBy EXCEPT ![o.run] = o.tx]
      /\ o.tx \in 1..Len(payments) /\ payments[o.tx] = press.obj
      /\ o.fee = "settled" /\ feeOn => starts[o.run] = 0
  BY <1>2, <1>3
<1>8. QED
  BY <1>1, <1>2, <1>3, <1>4, <1>5, <1>6, <1>7, Proceeds

\* The wallet sends the fee: the object was not paid before.
LEMMA PayStep == ASSUME IInv, Pay PROVE IInv'
<1>1. /\ press.pc = "wallet" /\ press' = [press EXCEPT !.pc = "paid"]
      /\ payments' = Append(payments, press.obj)
      /\ UNCHANGED <<heap, active, recovery, session, pointer, feeOn, settledBy, starts>>
  BY DEF Pay
<1>2. press.obj \in Objects /\ Current = heap[press.obj] /\ Current \in Object /\ press.obj \in Nat
  BY <1>1, CurrentType DEF Objects
<1>3. Current.fee = "quoted"
  BY DEF Pay
<1>4. /\ press'.pc = "paid" /\ press'.obj = press.obj
      /\ press' \in Presses
  BY <1>1 DEF IInv, TypeInv, Presses
<1>5. /\ Len(payments) \in Nat /\ payments' \in Seq(Nat) /\ Len(payments') = Len(payments) + 1
      /\ payments'[Len(payments) + 1] = press.obj
      /\ \A s \in 1..Len(payments) : payments'[s] = payments[s]
  BY <1>1, <1>2 DEF IInv, TypeInv
<1>6. Objects' = Objects /\ Current' = Current
  BY <1>1, <1>4 DEF Objects, Current
<1>7. \A s \in 1..Len(payments') : s \in 1..Len(payments) \/ s = Len(payments) + 1
  BY <1>5
<1>8. TypeInv'
  BY <1>1, <1>2, <1>4, <1>5, <1>6, <1>7 DEF IInv, TypeInv
<1>9. FeesKnown' /\ SettledKnown' /\ StartsKnown'
  <2>1. \A s \in 1..Len(payments) : s \in 1..Len(payments')
    BY <1>5
  <2>2. FeesKnown'
    BY <1>1, <1>5, <1>6, <2>1 DEF IInv, FeesKnown
  <2>3. SettledKnown'
    BY <1>1, <1>5, <2>1 DEF IInv, SettledKnown
  <2>4. StartsKnown'
    BY <1>1, <1>5 DEF IInv, StartsKnown, SettledKnown
  <2>5. QED
    BY <2>2, <2>3, <2>4
<1>10. PressKnown'
  BY <1>3, <1>4, <1>5, <1>6 DEF PressKnown
<1>11. StartedLeft' /\ RecoveryKnown'
  BY <1>1, <1>4, <1>6 DEF IInv, StartedLeft, RecoveryKnown
<1>12. PaidLeft'
  BY <1>1, <1>4, <1>5, <1>7 DEF IInv, PaidLeft
<1>13. \A s \in 1..Len(payments) : payments[s] # press.obj
  BY <1>1, <1>2, <1>3 DEF IInv, PaidLeft, Paid
<1>14. OneChargePerAttempt'
  BY <1>5, <1>7, <1>13 DEF IInv, OneChargePerAttempt
<1>15. QED
  BY <1>8, <1>9, <1>10, <1>11, <1>12, <1>14 DEF IInv

\* The server settles and the answer is lost: the object keeps its submitted fee.
LEMMA AnswerLostStep == ASSUME IInv, SettleAnswerLost PROVE IInv'
<1>1. /\ press' = NoPress /\ session' = 0
      /\ UNCHANGED <<heap, active, recovery, pointer, feeOn, payments, starts>>
  BY DEF SettleAnswerLost, Abandon
<1>2. /\ press.pc = "settle" /\ press.obj \in Objects /\ Current = heap[press.obj]
      /\ Current.run \in Run /\ Current.fee = "submitted"
      /\ Current.tx \in 1..Len(payments) /\ payments[Current.tx] = press.obj
      /\ settledBy[Current.run] \in {0, Current.tx}
      /\ settledBy' = [settledBy EXCEPT ![Current.run] = Current.tx]
  BY Settling DEF SettleAnswerLost
<1>3. press'.pc = "idle" /\ press'.obj = 0 /\ Objects' = Objects /\ 0 \notin Objects
  BY <1>1 DEF NoPress, Objects
<1>4. /\ settledBy' \in [Run -> Nat]
      /\ \A r \in Run : settledBy[r] # 0 => settledBy'[r] = settledBy[r]
      /\ \A r \in Run : settledBy[r] = 0 /\ settledBy'[r] # 0 => r = Current.run /\ settledBy'[r] = Current.tx
  BY <1>2 DEF IInv, TypeInv
<1>5. TypeInv'
  <2>1. press' \in Presses
    BY <1>1 DEF NoPress, Presses
  <2>2. QED
    BY <1>1, <1>3, <1>4, <2>1 DEF IInv, TypeInv
<1>6. FeesKnown'
  <2>1. ASSUME NEW j \in Objects, heap[j].fee = "settled"
        PROVE  settledBy'[heap[j].run] = heap[j].tx
    <3>1. heap[j].run \in Run /\ heap[j].tx \in 1..Len(payments) /\ settledBy[heap[j].run] = heap[j].tx
      BY <2>1, ObjectType DEF Paid
    <3>2. QED
      BY <1>4, <3>1
  <2>2. QED
    BY <1>1, <1>3, <2>1 DEF IInv, FeesKnown
<1>7. SettledKnown'
  <2>1. ASSUME NEW r \in Run, settledBy'[r] # 0
        PROVE  settledBy'[r] \in 1..Len(payments) /\ heap[payments[settledBy'[r]]].run = r
    <3>1. CASE settledBy[r] # 0
      BY <1>4, <3>1 DEF IInv, SettledKnown
    <3>2. CASE settledBy[r] = 0
      BY <1>2, <1>4, <2>1, <3>2
    <3>3. QED
      BY <3>1, <3>2
  <2>2. QED
    BY <1>1, <2>1 DEF SettledKnown
<1>8. PressKnown' /\ RecoveryKnown'
  BY <1>1, <1>2, <1>3 DEF IInv, PressKnown, RecoveryKnown
<1>9. StartsKnown' /\ StartedLeft'
  BY <1>1, <1>2, <1>3, <1>4 DEF IInv, StartsKnown, StartedLeft
<1>10. PaidLeft' /\ OneChargePerAttempt'
  BY <1>1, <1>2, <1>3 DEF IInv, PaidLeft, OneChargePerAttempt, TypeInv
<1>11. QED
  BY <1>5, <1>6, <1>7, <1>8, <1>9, <1>10 DEF IInv

\* The first transaction is sent: with fees on, for a settled run that sent none.
LEMMA SendStep == ASSUME IInv, SendStage PROVE IInv'
<1>1. /\ press.pc = "stage" /\ press' = [press EXCEPT !.pc = "sent"]
      /\ starts' = [starts EXCEPT ![Current.run] = @ + 1]
      /\ UNCHANGED <<heap, active, recovery, session, pointer, feeOn, payments, settledBy>>
  BY DEF SendStage
<1>2. press.obj \in Objects /\ Current = heap[press.obj] /\ Current \in Object /\ Current.run \in Run
  BY <1>1, CurrentType
<1>3. /\ press'.pc = "sent" /\ press'.obj = press.obj
      /\ press' \in Presses
  BY <1>1 DEF IInv, TypeInv, Presses
<1>4. Objects' = Objects /\ Current' = Current
  BY <1>1, <1>3 DEF Objects, Current
<1>5. /\ starts' \in [Run -> Nat] /\ starts'[Current.run] = starts[Current.run] + 1
      /\ \A r \in Run : r # Current.run => starts'[r] = starts[r]
      /\ \A r \in Run : starts[r] > 0 => starts'[r] > 0
  BY <1>1, <1>2 DEF IInv, TypeInv
<1>6. starts[Current.run] \in Nat
  BY <1>2 DEF IInv, TypeInv
<1>7. feeOn => /\ Current.fee = "settled" /\ starts[Current.run] = 0
              /\ Current.tx \in 1..Len(payments) /\ payments[Current.tx] = press.obj
              /\ settledBy[Current.run] = Current.tx
  BY <1>1, <1>2, ObjectType DEF IInv, PressKnown, Paid
<1>8. TypeInv'
  BY <1>1, <1>2, <1>3, <1>4, <1>5 DEF IInv, TypeInv
<1>9. FeesKnown' /\ SettledKnown' /\ OneChargePerAttempt'
  BY <1>1, <1>4 DEF IInv, FeesKnown, SettledKnown, OneChargePerAttempt
<1>10. PressKnown'
  BY <1>3, <1>4, <1>5, <1>6 DEF PressKnown
<1>11. StartsKnown'
  BY <1>1, <1>2, <1>5, <1>7 DEF IInv, StartsKnown
<1>12. StartedLeft'
  <2>1. ASSUME feeOn, NEW j \in Objects, j # press.obj, heap[j].fee = "settled",
               starts'[heap[j].run] > 0
        PROVE  j # active \/ heap[j].started
    <3>1. /\ heap[j].run \in Run /\ heap[j].tx \in 1..Len(payments) /\ payments[heap[j].tx] = j
          /\ settledBy[heap[j].run] = heap[j].tx
      BY <2>1, ObjectType DEF Paid
    <3>2. heap[j].run # Current.run
      BY <1>7, <2>1, <3>1
    <3>3. starts[heap[j].run] > 0
      BY <1>5, <2>1, <3>1, <3>2
    <3>4. QED
      BY <1>1, <2>1, <3>3 DEF IInv, StartedLeft
  <2>2. QED
    BY <1>1, <1>3, <1>4, <2>1 DEF StartedLeft
<1>13. PaidLeft'
  BY <1>1, <1>3 DEF IInv, PaidLeft
<1>14. RecoveryKnown'
  <2>1. session # 0 => starts'[session] > 0
    BY <1>5, <1>6, <1>2 DEF IInv, RecoveryKnown, TypeInv
  <2>2. pointer # NoPointer => starts'[pointer.run] > 0
    BY <1>5 DEF IInv, RecoveryKnown, TypeInv
  <2>3. \A v \in Recovery : recovery[v] # NoRecovery => starts'[recovery[v].run] > 0
    BY <1>5 DEF IInv, RecoveryKnown, TypeInv, Attempt
  <2>4. QED
    BY <1>1, <2>1, <2>2, <2>3 DEF RecoveryKnown
<1>15. QED
  BY <1>8, <1>9, <1>10, <1>11, <1>12, <1>13, <1>14 DEF IInv

\* One object changes and keeps what is known of it.
LEMMA Retouched ==
  ASSUME IInv, NEW i \in Objects, NEW n \in Object, heap' = [heap EXCEPT ![i] = n],
         n.run = heap[i].run, n.policy = heap[i].policy, n.tx = heap[i].tx,
         n.fee = heap[i].fee \/ (n.fee = "expired" /\ heap[i].fee = "quoted")
                             \/ (n.fee = "lapsed" /\ heap[i].fee = "submitted"),
         UNCHANGED <<feeOn, payments, settledBy, starts>>
  PROVE  /\ heap' \in Seq(Object) /\ Len(heap') = Len(heap) /\ Objects' = Objects
         /\ heap'[i] = n /\ (\A j \in Objects : j # i => heap'[j] = heap[j])
         /\ FeesKnown' /\ SettledKnown' /\ StartsKnown' /\ OneChargePerAttempt'
<1>1. /\ heap' \in Seq(Object) /\ Len(heap') = Len(heap) /\ Objects' = Objects
      /\ heap'[i] = n /\ (\A j \in Objects : j # i => heap'[j] = heap[j])
  BY Updated DEF IInv, TypeInv
<1>2. FeesKnown'
  <2>1. /\ n.policy = "unread" => n.fee = "none"
        /\ n.policy = "off" => ~feeOn
        /\ n.fee \in Paid => n.tx \in 1..Len(payments) /\ payments[n.tx] = i
        /\ n.fee = "settled" => settledBy[n.run] = n.tx
    BY ObjectType DEF Paid
  <2>2. QED
    BY <1>1, <2>1 DEF IInv, FeesKnown
<1>3. \A r \in Run : settledBy[r] # 0 =>
        /\ settledBy[r] \in 1..Len(payments) /\ payments[settledBy[r]] \in Objects
        /\ heap'[payments[settledBy[r]]].run = r
        /\ heap[payments[settledBy[r]]].fee = "settled" => heap'[payments[settledBy[r]]].fee = "settled"
  <2>1. ASSUME NEW j \in Objects
        PROVE  /\ heap'[j].run = heap[j].run
               /\ heap[j].fee = "settled" => heap'[j].fee = "settled"
    BY <1>1
  <2>2. QED
    BY <2>1 DEF IInv, SettledKnown, TypeInv
<1>4. SettledKnown' /\ StartsKnown'
  BY <1>3 DEF IInv, SettledKnown, StartsKnown
<1>5. OneChargePerAttempt'
  BY DEF IInv, OneChargePerAttempt
<1>6. QED
  BY <1>1, <1>2, <1>4, <1>5

\* The active object of the run is marked, or the press is abandoned and its object left.
LEMMA MarkStep == ASSUME IInv, MarkStarted PROVE IInv'
<1>1. press.pc = "sent" /\ UNCHANGED <<active, recovery, feeOn, payments, settledBy, starts>>
  BY DEF MarkStarted, world
<1>2. /\ press.obj \in Objects /\ Current = heap[press.obj] /\ Current \in Object
      /\ Current.run \in Run /\ Current.plan \in Plan /\ starts[Current.run] > 0
  <2>1. press.obj \in Objects /\ Current = heap[press.obj]
    BY <1>1, CurrentType
  <2>2. starts[Current.run] > 0
    BY <1>1 DEF IInv, PressKnown
  <2>3. QED
    BY <2>1, <2>2, ObjectType
<1>3. CASE active # 0 /\ heap[active].run = Current.run
  <2> DEFINE n == [heap[active] EXCEPT !.started = TRUE]
  <2>1. active \in Objects /\ heap[active] \in Object
    BY <1>3, ObjectType DEF IInv, TypeInv, Objects
  <2>2. /\ n \in Object /\ n.run = heap[active].run /\ n.policy = heap[active].policy
        /\ n.tx = heap[active].tx /\ n.fee = heap[active].fee /\ n.started
    BY <2>1 DEF Object
  <2>3. /\ heap' = [heap EXCEPT ![active] = n] /\ session' = Current.run
        /\ pointer' = [run |-> Current.run, plan |-> Current.plan] /\ press' = NoPress
    BY <1>3 DEF MarkStarted
  <2> HIDE DEF n
  <2>4. /\ heap' \in Seq(Object) /\ Len(heap') = Len(heap) /\ Objects' = Objects
        /\ heap'[active] = n /\ (\A j \in Objects : j # active => heap'[j] = heap[j])
        /\ FeesKnown' /\ SettledKnown' /\ StartsKnown' /\ OneChargePerAttempt'
    BY <1>1, <2>1, <2>2, <2>3, Retouched
  <2>5. press'.pc = "idle" /\ press'.obj = 0 /\ 0 \notin Objects
    BY <2>3 DEF NoPress, Objects
  <2>6. TypeInv'
    <3>1. pointer' \in [run : Run, plan : Plan] /\ session' \in Run
      BY <1>2, <2>3
    <3>2. press' \in Presses
      BY <2>3 DEF NoPress, Presses
    <3>3. QED
      BY <1>1, <2>4, <2>5, <3>1, <3>2 DEF IInv, TypeInv
  <2>7. PressKnown'
    BY <2>5 DEF PressKnown
  <2>8. StartedLeft'
    <3>1. \A j \in Objects : j = active => heap'[j].started
      BY <2>2, <2>4
    <3>2. QED
      BY <1>1, <2>4, <3>1 DEF StartedLeft
  <2>9. PaidLeft'
    <3>1. ASSUME NEW s \in 1..Len(payments)
          PROVE  heap'[payments[s]].fee \in Paid \/ (payments[s] # active /\ payments[s] # 0)
      <4>1. payments[s] \in Objects
        BY DEF IInv, TypeInv
      <4>2. heap'[payments[s]].fee = heap[payments[s]].fee
        BY <2>2, <2>4, <4>1
      <4>3. QED
        BY <1>1, <2>5, <4>1, <4>2 DEF IInv, PaidLeft
    <3>2. QED
      BY <1>1, <2>5, <3>1 DEF PaidLeft
  <2>10. RecoveryKnown'
    BY <1>1, <1>2, <2>3 DEF IInv, RecoveryKnown
  <2>11. QED
    BY <2>4, <2>6, <2>7, <2>8, <2>9, <2>10 DEF IInv
<1>4. CASE ~(active # 0 /\ heap[active].run = Current.run)
  <2>1. press' = NoPress /\ session' = 0 /\ UNCHANGED <<heap, pointer>>
    BY <1>4 DEF MarkStarted, Abandon
  <2>2. press'.pc = "idle" /\ press'.obj = 0 /\ 0 \notin Objects /\ Objects' = Objects
    BY <2>1 DEF NoPress, Objects
  <2>3. TypeInv'
    <3>1. press' \in Presses
      BY <2>1 DEF NoPress, Presses
    <3>2. QED
      BY <1>1, <2>1, <2>2, <3>1 DEF IInv, TypeInv
  <2>4. FeesKnown' /\ SettledKnown' /\ StartsKnown' /\ OneChargePerAttempt'
    BY <1>1, <2>1, <2>2 DEF IInv, FeesKnown, SettledKnown, StartsKnown, OneChargePerAttempt
  <2>5. PressKnown' /\ RecoveryKnown'
    BY <1>1, <2>1, <2>2 DEF IInv, PressKnown, RecoveryKnown
  <2>6. press.obj # active
    BY <1>2, <1>4, <2>2
  <2>7. StartedLeft'
    BY <1>1, <2>1, <2>2, <2>6 DEF IInv, StartedLeft
  <2>8. PaidLeft'
    BY <1>1, <2>1, <2>2 DEF IInv, PaidLeft, TypeInv
  <2>9. QED
    BY <2>3, <2>4, <2>5, <2>7, <2>8 DEF IInv
<1>5. QED
  BY <1>3, <1>4

\* A quote expires or a submitted fee outlives its grace: it is still paid.
LEMMA TimeStep == ASSUME IInv, NEW i \in Objects, TimePasses(i) PROVE IInv'
<1>1. PICK f \in {"expired", "lapsed"} :
        /\ heap' = [heap EXCEPT ![i].fee = f]
        /\ (f = "expired" /\ heap[i].fee = "quoted") \/ (f = "lapsed" /\ heap[i].fee = "submitted")
  BY DEF TimePasses
<1>2. UNCHANGED <<active, press, recovery, session, pointer, feeOn, payments, settledBy, starts>>
  BY DEF TimePasses, world
<1> DEFINE n == [heap[i] EXCEPT !.fee = f]
<1>3. heap[i] \in Object
  BY ObjectType
<1>4. /\ n \in Object /\ n.run = heap[i].run /\ n.policy = heap[i].policy /\ n.tx = heap[i].tx
      /\ n.started = heap[i].started /\ n.fee = f
  BY <1>3 DEF Object
<1>5. heap' = [heap EXCEPT ![i] = n]
  BY <1>1
<1> HIDE DEF n
<1>6. /\ heap' \in Seq(Object) /\ Len(heap') = Len(heap) /\ Objects' = Objects
      /\ heap'[i] = n /\ (\A j \in Objects : j # i => heap'[j] = heap[j])
      /\ FeesKnown' /\ SettledKnown' /\ StartsKnown' /\ OneChargePerAttempt'
  BY <1>1, <1>2, <1>4, <1>5, Retouched
<1>7. TypeInv'
  BY <1>2, <1>6 DEF IInv, TypeInv
<1>8. ASSUME NEW j \in Objects
      PROVE  /\ heap'[j].run = heap[j].run /\ heap'[j].policy = heap[j].policy
             /\ heap'[j].started = heap[j].started
             /\ heap'[j].fee = "settled" <=> heap[j].fee = "settled"
             /\ heap[j].fee \in Paid => heap'[j].fee \in Paid
             /\ heap'[j].fee = "none" <=> heap[j].fee = "none"
             /\ heap[j].fee \in {"quoted", "expired"} => heap'[j].fee \in {"quoted", "expired"}
             /\ heap[j].fee \in {"submitted", "lapsed"} => heap'[j].fee \in {"submitted", "lapsed"}
  BY <1>1, <1>4, <1>6 DEF Paid
<1>9. PressKnown' /\ RecoveryKnown'
  <2>1. press'.pc = press.pc /\ press'.obj = press.obj /\ Current' = heap'[press.obj]
    BY <1>2 DEF Current
  <2>2. CASE press.pc = "idle"
    BY <1>2, <2>1, <2>2 DEF IInv, PressKnown, RecoveryKnown
  <2>3. CASE press.pc # "idle"
    <3>1. press.obj \in Objects /\ Current = heap[press.obj]
      BY <2>3, CurrentType
    <3>2. PressKnown'
      BY <1>2, <1>8, <2>1, <3>1 DEF IInv, PressKnown
    <3>3. RecoveryKnown'
      BY <1>2, <1>8, <2>1, <3>1 DEF IInv, RecoveryKnown
    <3>4. QED
      BY <3>2, <3>3
  <2>4. QED
    BY <2>2, <2>3
<1>10. StartedLeft' /\ PaidLeft'
  BY <1>2, <1>6, <1>8 DEF IInv, StartedLeft, PaidLeft, TypeInv
<1>11. QED
  BY <1>6, <1>7, <1>9, <1>10 DEF IInv

-----------------------------------------------------------------------------
(* The recovery effect *)

\* The effect starts a recovery of the pointer's run, which was started.
LEMMA EffectStep ==
  ASSUME IInv, NEW rec \in [Recovery -> {NoRecovery} \cup Attempt],
         \A v \in Recovery : rec[v] # NoRecovery => starts[rec[v].run] > 0,
         Effect(rec)
  PROVE  /\ recovery' \in [Recovery -> {NoRecovery} \cup Attempt]
         /\ \A v \in Recovery : recovery'[v] # NoRecovery => starts[recovery'[v].run] > 0
<1>1. CASE recovery' = rec
  BY <1>1
<1>2. CASE /\ pointer # NoPointer
           /\ \E v \in Recovery :
                recovery' = [rec EXCEPT ![v] = [pc |-> "capsule", run |-> pointer.run,
                                                plan |-> pointer.plan, cancelled |-> FALSE]]
  <2> DEFINE a == [pc |-> "capsule", run |-> pointer.run, plan |-> pointer.plan, cancelled |-> FALSE]
  <2>1. a \in Attempt /\ a.run = pointer.run
    BY <1>2 DEF IInv, TypeInv, Attempt
  <2>2. starts[a.run] > 0
    BY <1>2, <2>1 DEF IInv, RecoveryKnown
  <2>3. PICK v \in Recovery : recovery' = [rec EXCEPT ![v] = a]
    BY <1>2
  <2> HIDE DEF a
  <2>4. QED
    BY <2>1, <2>2, <2>3
<1>3. QED
  BY <1>1, <1>2 DEF Effect

\* A change of mode cancels the recoveries and starts another; the press goes on.
LEMMA SwitchStep == ASSUME IInv, NEW m \in Mode, Switch(m) PROVE IInv'
<1> DEFINE rec == [v \in Recovery |-> Cancelled(recovery[v])]
<1>1. rec \in [Recovery -> {NoRecovery} \cup Attempt]
  <2>1. ASSUME NEW v \in Recovery PROVE Cancelled(recovery[v]) \in {NoRecovery} \cup Attempt
    <3>1. recovery[v] \in {NoRecovery} \cup Attempt
      BY DEF IInv, TypeInv
    <3>2. QED
      BY <3>1 DEF Cancelled, Attempt
  <2>2. QED
    BY <2>1
<1>2. \A v \in Recovery : rec[v] # NoRecovery => starts[rec[v].run] > 0
  <2>1. ASSUME NEW v \in Recovery, rec[v] # NoRecovery
        PROVE  recovery[v] # NoRecovery /\ rec[v].run = recovery[v].run
    <3>1. recovery[v] # NoRecovery /\ recovery[v] \in Attempt
      BY <2>1 DEF Cancelled, IInv, TypeInv
    <3>2. QED
      BY <3>1 DEF Cancelled, Attempt
  <2>2. QED
    BY <2>1 DEF IInv, RecoveryKnown
<1>3. Effect(rec)
  BY DEF Switch
<1>4. /\ UNCHANGED <<heap, world>> /\ active' \in {active, 0} /\ pointer' \in {pointer, NoPointer}
      /\ press' = press /\ session' \in {session, 0}
  BY DEF Switch
<1> HIDE DEF rec
<1>5. /\ recovery' \in [Recovery -> {NoRecovery} \cup Attempt]
      /\ \A v \in Recovery : recovery'[v] # NoRecovery => starts[recovery'[v].run] > 0
  BY <1>1, <1>2, <1>3, EffectStep
<1>6. QED
  BY <1>4, <1>5, Quiet

\* A reload keeps localStorage and the server.
LEMMA ReloadStep == ASSUME IInv, Reload PROVE IInv'
<1> DEFINE rec == [v \in Recovery |-> NoRecovery]
<1>1. /\ rec \in [Recovery -> {NoRecovery} \cup Attempt]
      /\ \A v \in Recovery : rec[v] # NoRecovery => starts[rec[v].run] > 0
  OBVIOUS
<1>2. Effect(rec)
  BY DEF Reload
<1>3. /\ UNCHANGED <<heap, world>> /\ active' = 0 /\ pointer' \in {pointer, NoPointer}
      /\ press' = NoPress /\ session' = 0
  BY DEF Reload
<1> HIDE DEF rec
<1>4. /\ recovery' \in [Recovery -> {NoRecovery} \cup Attempt]
      /\ \A v \in Recovery : recovery'[v] # NoRecovery => starts[recovery'[v].run] > 0
  BY <1>1, <1>2, EffectStep
<1>5. QED
  BY <1>3, <1>4, Quiet

\* A recovery moves on, or ends with nothing restored.
LEMMA MovesOn ==
  ASSUME IInv, NEW v \in Recovery, UNCHANGED <<heap, active, press, session, pointer, mode, world, bounds>>,
         \/ EndRecovery(v)
         \/ \E q \in {"policy", "server"} :
              recovery[v].pc \in {"capsule", "policy"} /\ recovery' = [recovery EXCEPT ![v].pc = q]
  PROVE  IInv'
<1>1. /\ UNCHANGED <<heap, world>> /\ active' \in {active, 0} /\ pointer' \in {pointer, NoPointer}
      /\ press' = press /\ session' \in {session, 0}
  OBVIOUS
<1>2. CASE EndRecovery(v)
  <2>1. recovery' = [recovery EXCEPT ![v] = NoRecovery]
    BY <1>2 DEF EndRecovery
  <2>2. recovery' \in [Recovery -> {NoRecovery} \cup Attempt]
    BY <2>1 DEF IInv, TypeInv
  <2>3. \A w \in Recovery : recovery'[w] # NoRecovery => starts[recovery'[w].run] > 0
    BY <2>1 DEF IInv, TypeInv, RecoveryKnown
  <2>4. QED
    BY <1>1, <2>2, <2>3, Quiet
<1>3. ASSUME NEW q \in {"policy", "server"},
             recovery[v].pc \in {"capsule", "policy"}, recovery' = [recovery EXCEPT ![v].pc = q]
      PROVE  IInv'
  <2> DEFINE a == [recovery[v] EXCEPT !.pc = q]
  <2>1. recovery[v] # NoRecovery /\ recovery[v] \in Attempt
    BY <1>3 DEF IInv, TypeInv, NoRecovery
  <2>2. a \in Attempt /\ a.run = recovery[v].run
    BY <2>1 DEF Attempt
  <2>3. recovery' = [recovery EXCEPT ![v] = a]
    BY <1>3
  <2> HIDE DEF a
  <2>4. recovery' \in [Recovery -> {NoRecovery} \cup Attempt]
    BY <2>2, <2>3 DEF IInv, TypeInv
  <2>5. recovery'[v] = a /\ \A w \in Recovery : w # v => recovery'[w] = recovery[w]
    BY <2>3 DEF IInv, TypeInv
  <2>6. \A w \in Recovery : recovery'[w] # NoRecovery => starts[recovery'[w].run] > 0
    BY <2>1, <2>2, <2>5 DEF IInv, RecoveryKnown
  <2>7. QED
    BY <1>1, <2>4, <2>6, Quiet
<1>4. QED
  BY <1>2, <1>3

\* A recovery makes the active object, and restores the session unless it was cancelled.
LEMMA ResumedStep ==
  ASSUME IInv, NEW v \in Recovery, NEW policy \in {"on", "off"}, Resumed(v, policy),
         policy = "off" => ~feeOn, recovery[v].pc \in {"policy", "server"}
  PROVE  IInv'
<1> DEFINE a == recovery[v]
           n == [NewObject(a.run, a.plan) EXCEPT !.policy = policy, !.started = ~a.cancelled]
<1>1. a # NoRecovery /\ a \in Attempt
  BY DEF IInv, TypeInv, NoRecovery
<1>2. a.run \in Run /\ a.plan \in Plan /\ a.cancelled \in BOOLEAN /\ starts[a.run] > 0
  BY <1>1 DEF Attempt, IInv, RecoveryKnown
<1>3. n \in Object /\ n.fee = "none" /\ n.policy = policy
  BY <1>2 DEF NewObject, Object
<1>4. /\ heap' = Append(heap, n) /\ active' = Len(heap) + 1 /\ UNCHANGED <<pointer, world>>
      /\ press' = press /\ EndRecovery(v)
      /\ session' = session \/ (session' \in Run /\ starts[session'] > 0)
  BY <1>2 DEF Resumed
<1>5. n.policy = "off" => ~feeOn
  BY <1>3
<1> HIDE DEF n
<1>6. QED
  BY <1>3, <1>4, <1>5, Makes

\* A recovery moves on, resumes or fails.
LEMMA RecoveryStep ==
  ASSUME IInv, NEW v \in Recovery,
         CapsuleLoaded(v) \/ ResumePolicyRead(v) \/ ServerResumes(v) \/ RecoveryFails(v)
  PROVE  IInv'
<1>1. CASE CapsuleLoaded(v)
  BY <1>1, MovesOn DEF CapsuleLoaded
<1>2. CASE ResumePolicyRead(v)
  <2>1. CASE ~feeOn /\ Resumed(v, "off")
    BY <1>2, <2>1, ResumedStep DEF ResumePolicyRead
  <2>2. CASE ~(~feeOn /\ Resumed(v, "off"))
    BY <1>2, <2>2, MovesOn DEF ResumePolicyRead
  <2>3. QED
    BY <2>1, <2>2
<1>3. CASE ServerResumes(v)
  BY <1>3, ResumedStep DEF ServerResumes
<1>4. CASE RecoveryFails(v)
  BY <1>4, MovesOn DEF RecoveryFails
<1>5. QED
  BY <1>1, <1>2, <1>3, <1>4

-----------------------------------------------------------------------------
(* The specification *)

\* The invariant holds from the start and is kept by every step.
THEOREM Inductive == Spec => []IInv
<1>1. Init => IInv
  <2> SUFFICES ASSUME Init PROVE IInv
    OBVIOUS
  <2>1. /\ heap = <<>> /\ payments = <<>> /\ active = 0 /\ session = 0 /\ pointer = NoPointer
        /\ press = NoPress /\ feeOn \in BOOLEAN
        /\ settledBy = [r \in Run |-> 0] /\ starts = [r \in Run |-> 0]
        /\ recovery = [v \in Recovery |-> NoRecovery]
    BY DEF Init
  <2>2. /\ Objects = {} /\ 1..Len(payments) = {} /\ Len(heap) = 0
        /\ heap \in Seq(Object) /\ payments \in Seq(Nat)
    BY <2>1 DEF Objects
  <2>3. press.pc = "idle" /\ press.obj = 0 /\ press \in Presses
    BY <2>1 DEF NoPress, Presses
  <2>4. TypeInv
    <3>1. active \in 0..Len(heap) /\ session \in {0} \cup Run
      BY <2>1, <2>2
    <3>2. settledBy \in [Run -> Nat] /\ starts \in [Run -> Nat]
      BY <2>1
    <3>3. recovery \in [Recovery -> {NoRecovery} \cup Attempt]
      BY <2>1
    <3>4. QED
      BY <2>1, <2>2, <2>3, <3>1, <3>2, <3>3 DEF TypeInv
  <2>5. FeesKnown /\ StartedLeft /\ PaidLeft /\ OneChargePerAttempt
    BY <2>2 DEF FeesKnown, StartedLeft, PaidLeft, OneChargePerAttempt
  <2>6. SettledKnown /\ StartsKnown /\ PressKnown /\ RecoveryKnown
    BY <2>1, <2>3 DEF SettledKnown, StartsKnown, PressKnown, RecoveryKnown
  <2>7. QED
    BY <2>4, <2>5, <2>6 DEF IInv
<1>2. IInv /\ [Next]_vars => IInv'
  <2> SUFFICES ASSUME IInv, [Next]_vars PROVE IInv'
    OBVIOUS
  <2>1. CASE UNCHANGED vars
    <3>1. UNCHANGED <<heap, world, active, press, session, pointer, recovery>>
      BY <2>1 DEF vars, client
    <3>2. /\ recovery' \in [Recovery -> {NoRecovery} \cup Attempt]
          /\ \A v \in Recovery : recovery'[v] # NoRecovery => starts[recovery'[v].run] > 0
      BY <3>1 DEF IInv, TypeInv, RecoveryKnown
    <3>3. QED
      BY <3>1, <3>2, Quiet
  <2>2. CASE PressFails \/ Complete
    <3>1. /\ UNCHANGED <<heap, world, active, recovery>> /\ pointer' \in {pointer, NoPointer}
          /\ \/ press' = press /\ session' \in {session, 0}
             \/ press' = NoPress /\ session' = 0 /\ press.pc \notin {"paid", "sent"}
      BY <2>2 DEF PressFails, Complete, Abandon
    <3>2. /\ recovery' \in [Recovery -> {NoRecovery} \cup Attempt]
          /\ \A v \in Recovery : recovery'[v] # NoRecovery => starts[recovery'[v].run] > 0
      BY <3>1 DEF IInv, TypeInv, RecoveryKnown
    <3>3. QED
      BY <3>1, <3>2, Quiet
  <2>3. CASE \E i \in 1..Len(heap) : TimePasses(i)
    BY <2>3, TimeStep DEF Objects
  <2>4. CASE \/ \E p \in Plan : Press(p)
             \/ PolicyRead \/ Quoted \/ Pay \/ HashReturned \/ Settle \/ SettleAnswerLost
             \/ SendStage \/ MarkStarted
    BY <2>4, PressStep, PolicyReadStep, QuotedStep, PayStep, HashReturnedStep, SettleStep,
       AnswerLostStep, SendStep, MarkStep
  <2>5. CASE \/ \E m \in Mode : Switch(m)
             \/ Reload
             \/ \E v \in Recovery : \/ CapsuleLoaded(v) \/ ResumePolicyRead(v)
                                    \/ ServerResumes(v) \/ RecoveryFails(v)
    BY <2>5, SwitchStep, ReloadStep, RecoveryStep
  <2>6. QED
    BY <2>1, <2>2, <2>3, <2>4, <2>5 DEF Next
<1>3. QED
  BY <1>1, <1>2, PTL DEF Spec

\* With fees on, a run that has sent its first transaction is settled on the server by a
\* payment made for it, for any number of plans, recoveries, reloads and retries.
THEOREM NoStartUnpaid == Spec => []StartedRunPaid
<1>1. IInv => StartedRunPaid
  BY DEF IInv, StartsKnown, SettledKnown, StartedRunPaid
<1>2. QED
  BY <1>1, Inductive, PTL

\* A fee buys one protocol start, also when the run is resumed after a reload.
THEOREM NoFeeUsedTwice == Spec => []FeeBuysOneStart
<1>1. IInv => FeeBuysOneStart
  <2> SUFFICES ASSUME IInv, feeOn, NEW r \in Run PROVE starts[r] <= 1
    BY DEF FeeBuysOneStart
  <2>1. starts[r] \in Nat
    BY DEF IInv, TypeInv
  <2>2. starts[r] > 0 => starts[r] = 1
    BY DEF IInv, StartsKnown
  <2>3. QED
    BY <2>1, <2>2
<1>2. QED
  BY <1>1, Inductive, PTL

\* No retry of an attempt calls the wallet for a fee again.
THEOREM NoSecondCharge == Spec => []OneChargePerAttempt
<1>1. IInv => OneChargePerAttempt
  BY DEF IInv
<1>2. QED
  BY <1>1, Inductive, PTL

\* The session and the pointer of a page are of runs that sent their first stage.
THEOREM RestoredIsReal == Spec => []SessionStarted
<1>1. IInv => SessionStarted
  BY DEF IInv, RecoveryKnown, SessionStarted
<1>2. QED
  BY <1>1, Inductive, PTL
=============================================================================
