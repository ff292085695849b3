--------------------------- MODULE FeeStoreProofs ---------------------------
(***************************************************************************)
(* Proofs about FeeStore for any runs, executions, transactions, requests  *)
(* and number of deaths.                                                   *)
(*                                                                         *)
(* Keys are written once, so what a request has learnt at one await is     *)
(* still true at the next.  The inductive invariant says what each request *)
(* has learnt by the step it is at.                                        *)
(***************************************************************************)
EXTENDS FeeStore, TLAPS

Paid(x) == <<x.tx, x.exe>> \in Pays \/ x \in Legacy

\* Only a settle or a resume with a receipt gets past bind, and only for a fee
\* that was paid.
CarriesPaid(q) ==
  ~Idle(q) =>
    /\ request[q].kind = "quote" => request[q].pc \in {"bind", "bindGet"}
    /\ request[q].tx # NoTx => Paid(ReceiptOf(q))
    /\ request[q].kind # "quote" /\ request[q].pc # "load" => request[q].tx # NoTx

HasBinding(q) ==
  request[q].pc \in {"claim", "claimGet", "settle", "settleGet"} =>
    binding[request[q].run] = request[q].exe

HasClaim(q) ==
  request[q].pc \in {"settle", "settleGet"} => claim[request[q].tx] = ReceiptOf(q)

SawSettlement(q) ==
  request[q].pc = "settleGet" => settlement[request[q].run] # None

RequestInv ==
  \A q \in Request : CarriesPaid(q) /\ HasBinding(q) /\ HasClaim(q) /\ SawSettlement(q)

IInv == TypeOK /\ SettlementBacked /\ AnswersDurable /\ SettledWasPaid /\ RequestInv

-----------------------------------------------------------------------------
(* What every step does to the store: keys are never overwritten. *)

KeysKept ==
  /\ \A r \in Run : binding[r] # None => binding'[r] = binding[r]
  /\ \A t \in Tx : claim[t] # None => claim'[t] = claim[t]
  /\ \A r \in Run : settlement[r] # None => settlement'[r] = settlement[r]

LEMMA Nones == None \notin Execution /\ None \notin Receipt /\ NoTx \notin Tx
BY FeeStoreAssumption

LEMMA BusyTyped ==
  ASSUME TypeOK, NEW q \in Request, ~Idle(q)
  PROVE  /\ request[q] \in RequestState
         /\ request[q].run \in Run /\ request[q].exe \in Execution
         /\ request[q].tx \in Tx \cup {NoTx}
         /\ request[q].pc \in Steps
<1>1. request[q] \in RequestState \cup {NoRequest}
  BY DEF TypeOK
<1>2. NoRequest.pc = "idle"
  BY DEF NoRequest
<1>3. request[q] \in RequestState
  BY <1>1, <1>2 DEF Idle
<1>4. QED
  BY <1>3 DEF RequestState

\* The state of the requests after End, Goto and Start.
LEMMA RequestAfter ==
  ASSUME TypeOK, NEW q \in Request
  PROVE  /\ End(q) => \A x \in Request :
              request'[x] = IF x = q THEN NoRequest ELSE request[x]
         /\ \A pc \in Steps : ~Idle(q) /\ Goto(q, pc) =>
              /\ request'[q] \in RequestState
              /\ request'[q].pc = pc
              /\ request'[q].kind = request[q].kind
              /\ request'[q].run = request[q].run
              /\ request'[q].exe = request[q].exe
              /\ request'[q].tx = request[q].tx
              /\ \A x \in Request : x # q => request'[x] = request[x]
         /\ End(q) => request' \in [Request -> RequestState \cup {NoRequest}]
         /\ \A pc \in Steps : ~Idle(q) /\ Goto(q, pc) =>
              request' \in [Request -> RequestState \cup {NoRequest}]
<1>1. request \in [Request -> RequestState \cup {NoRequest}]
  BY DEF TypeOK
<1>2. ASSUME NEW pc \in Steps, ~Idle(q), Goto(q, pc)
      PROVE  /\ request'[q] = [request[q] EXCEPT !.pc = pc]
             /\ \A x \in Request : x # q => request'[x] = request[x]
             /\ request' = [request EXCEPT ![q] = [request[q] EXCEPT !.pc = pc]]
  BY <1>1, <1>2 DEF Goto
<1>3. ASSUME NEW pc \in Steps, ~Idle(q), Goto(q, pc)
      PROVE  /\ request'[q] \in RequestState
             /\ request'[q].pc = pc
             /\ request'[q].kind = request[q].kind
             /\ request'[q].run = request[q].run
             /\ request'[q].exe = request[q].exe
             /\ request'[q].tx = request[q].tx
  <2>1. request[q] \in RequestState
    BY <1>3, BusyTyped
  <2>2. QED
    BY <1>2, <1>3, <2>1 DEF RequestState
<1>4. QED
  BY <1>1, <1>2, <1>3 DEF End

\* A request that is where it was still knows what it knew.
LEMMA RequestKept ==
  ASSUME IInv, KeysKept, NEW x \in Request, request'[x] = request[x],
         TypeOK'
  PROVE  (CarriesPaid(x) /\ HasBinding(x) /\ HasClaim(x) /\ SawSettlement(x))'
<1>1. CarriesPaid(x) /\ HasBinding(x) /\ HasClaim(x) /\ SawSettlement(x)
  BY DEF IInv, RequestInv
<1>2. CASE Idle(x)
  <2>1. Idle(x)' /\ request'[x].pc = "idle"
    BY <1>2 DEF Idle
  <2>2. QED
    BY <2>1 DEF CarriesPaid, HasBinding, HasClaim, SawSettlement
<1>3. CASE ~Idle(x)
  <2>1. /\ request[x].run \in Run /\ request[x].exe \in Execution
        /\ request[x].tx \in Tx \cup {NoTx}
    BY <1>3, BusyTyped DEF IInv
  <2>2. ReceiptOf(x)' = ReceiptOf(x)
    BY DEF ReceiptOf
  <2>3. CarriesPaid(x)'
    BY <1>1, <1>3, <2>2 DEF CarriesPaid, Idle, Paid
  <2>4. HasBinding(x)'
    BY <1>1, <2>1, Nones DEF KeysKept, HasBinding
  <2>5. HasClaim(x)'
    <3>1. CASE request[x].pc \in {"settle", "settleGet"}
      <4>1. ReceiptOf(x) \in Receipt /\ request[x].tx \in Tx
        BY <1>1, <1>3, <2>1, <3>1 DEF CarriesPaid, ReceiptOf, Receipt
      <4>2. claim[request[x].tx] = ReceiptOf(x)
        BY <1>1, <3>1 DEF HasClaim
      <4>3. claim'[request[x].tx] = ReceiptOf(x)
        BY <4>1, <4>2, Nones DEF KeysKept
      <4>4. QED
        BY <2>2, <4>3 DEF HasClaim
    <3>2. QED
      BY <3>1 DEF HasClaim
  <2>6. SawSettlement(x)'
    BY <1>1, <2>1 DEF KeysKept, SawSettlement
  <2>7. QED
    BY <2>3, <2>4, <2>5, <2>6
<1>4. QED
  BY <1>2, <1>3

-----------------------------------------------------------------------------
(* The invariant *)

LEMMA InitIInv == Init => IInv
<1> SUFFICES ASSUME Init PROVE IInv
  OBVIOUS
<1>1. TypeOK
  BY FeeStoreAssumption DEF Init, TypeOK, NoRequest
<1>2. \A q \in Request : request[q].pc = "idle" /\ Idle(q)
  BY DEF Init, Idle, NoRequest
<1>3. RequestInv
  BY <1>2 DEF RequestInv, CarriesPaid, HasBinding, HasClaim, SawSettlement
<1>4. SettlementBacked /\ AnswersDurable /\ SettledWasPaid
  BY DEF Init, SettlementBacked, AnswersDurable, SettledWasPaid
<1>5. QED
  BY <1>1, <1>3, <1>4 DEF IInv

\* A step that leaves the store alone.
LEMMA StoreUnchanged ==
  ASSUME IInv, UNCHANGED store
  PROVE  KeysKept /\ SettlementBacked' /\ SettledWasPaid'
BY DEF IInv, KeysKept, store, SettlementBacked, SettledWasPaid

\* Enough to reestablish the invariant: the other requests follow by RequestKept.
LEMMA StepIInv ==
  ASSUME IInv, KeysKept, NEW q \in Request,
         TypeOK', SettlementBacked', AnswersDurable', SettledWasPaid',
         \A x \in Request : x # q => request'[x] = request[x],
         (CarriesPaid(q) /\ HasBinding(q) /\ HasClaim(q) /\ SawSettlement(q))'
  PROVE  IInv'
<1>1. ASSUME NEW x \in Request
      PROVE  (CarriesPaid(x) /\ HasBinding(x) /\ HasClaim(x) /\ SawSettlement(x))'
  <2>1. CASE x = q
    BY <2>1
  <2>2. CASE x # q
    BY <2>2, RequestKept
  <2>3. QED
    BY <2>1, <2>2
<1>2. QED
  BY <1>1 DEF IInv, RequestInv

\* A request that ended knows nothing.
LEMMA Ended ==
  ASSUME TypeOK, NEW q \in Request, End(q)
  PROVE  /\ \A x \in Request : x # q => request'[x] = request[x]
         /\ (CarriesPaid(q) /\ HasBinding(q) /\ HasClaim(q) /\ SawSettlement(q))'
         /\ request' \in [Request -> RequestState \cup {NoRequest}]
<1>1. request'[q] = NoRequest /\ NoRequest.pc = "idle"
  BY RequestAfter DEF NoRequest
<1>2. Idle(q)'
  BY <1>1 DEF Idle
<1>3. QED
  BY <1>1, <1>2, RequestAfter DEF CarriesPaid, HasBinding, HasClaim, SawSettlement

\* A request that goes on carries what it carried.
LEMMA Went ==
  ASSUME IInv, NEW q \in Request, ~Idle(q), NEW pc \in Steps, Goto(q, pc)
  PROVE  /\ \A x \in Request : x # q => request'[x] = request[x]
         /\ request' \in [Request -> RequestState \cup {NoRequest}]
         /\ ~Idle(q)'
         /\ request'[q].pc = pc /\ request'[q].run = request[q].run
         /\ request'[q].exe = request[q].exe /\ request'[q].tx = request[q].tx
         /\ request'[q].kind = request[q].kind
         /\ ReceiptOf(q)' = ReceiptOf(q)
         /\ (request[q].kind # "quote" \/ pc \in {"bind", "bindGet"})
              /\ (request[q].pc # "load" \/ request[q].tx # NoTx)
            => CarriesPaid(q)'
<1>1. /\ request'[q].pc = pc /\ request'[q].run = request[q].run
      /\ request'[q].exe = request[q].exe /\ request'[q].tx = request[q].tx
      /\ request'[q].kind = request[q].kind
      /\ \A x \in Request : x # q => request'[x] = request[x]
      /\ request' \in [Request -> RequestState \cup {NoRequest}]
  BY RequestAfter DEF IInv
<1>2. ReceiptOf(q)' = ReceiptOf(q)
  BY <1>1 DEF ReceiptOf
<1>3. ~Idle(q)'
  BY <1>1 DEF Idle, Steps
<1>4. CarriesPaid(q)
  BY DEF IInv, RequestInv
<1>5. QED
  BY <1>1, <1>2, <1>3, <1>4 DEF CarriesPaid, Paid

LEMMA ArriveIInv ==
  ASSUME IInv, NEW q \in Request, Arrive(q)
  PROVE  IInv'
<1> USE DEF IInv
<1>1. ASSUME NEW r \in Run, NEW e \in Execution, NEW t \in Tx \cup {NoTx},
             NEW kind \in {"quote", "settle", "resume"}, NEW pc \in {"bind", "load"},
             Start(q, pc, kind, r, e, t), Idle(q),
             UNCHANGED <<store, quoted, answers, deaths>>,
             t # NoTx => Paid([run |-> r, exe |-> e, tx |-> t]),
             kind # "quote" /\ pc # "load" => t # NoTx,
             kind = "quote" => pc = "bind"
      PROVE  IInv'
  <2> DEFINE new == [pc |-> pc, kind |-> kind, run |-> r, exe |-> e, tx |-> t]
  <2>1. new \in RequestState
    BY DEF RequestState, Steps
  <2>2. /\ request' = [request EXCEPT ![q] = new]
        /\ request \in [Request -> RequestState \cup {NoRequest}]
    BY <1>1 DEF Start, TypeOK
  <2>3. /\ request'[q] = new /\ \A x \in Request : x # q => request'[x] = request[x]
        /\ request' \in [Request -> RequestState \cup {NoRequest}]
    BY <2>1, <2>2
  <2>4. KeysKept /\ SettlementBacked' /\ SettledWasPaid'
    BY <1>1, StoreUnchanged
  <2>5. TypeOK' /\ AnswersDurable'
    BY <1>1, <2>3 DEF TypeOK, AnswersDurable, store
  <2>6. (CarriesPaid(q) /\ HasBinding(q) /\ HasClaim(q) /\ SawSettlement(q))'
    <3>1. /\ request'[q].pc = pc /\ request'[q].kind = kind /\ request'[q].tx = t
          /\ ReceiptOf(q)' = [run |-> r, exe |-> e, tx |-> t]
      BY <2>3 DEF ReceiptOf
    <3>2. QED
      BY <1>1, <3>1 DEF CarriesPaid, HasBinding, HasClaim, SawSettlement, Paid
  <2>7. QED
    BY <2>3, <2>4, <2>5, <2>6, StepIInv
<1>2. ASSUME NEW r \in Run, NEW e \in Execution, PostQuote(q, r, e) PROVE IInv'
  BY <1>1, <1>2 DEF PostQuote
<1>3. ASSUME NEW r \in Run, NEW e \in Execution, NEW t \in Tx, PostSettle(q, r, e, t)
      PROVE  IInv'
  <2>1. t # NoTx /\ Paid([run |-> r, exe |-> e, tx |-> t])
    BY <1>3, Nones DEF PostSettle, Paid
  <2>2. QED
    BY <1>1, <1>3, <2>1 DEF PostSettle
<1>4. ASSUME NEW r \in Run, NEW e \in Execution, NEW t \in Tx \cup {NoTx},
             PostResume(q, r, e, t)
      PROVE  IInv'
  <2>1. t # NoTx => Paid([run |-> r, exe |-> e, tx |-> t])
    <3>1. ASSUME [run |-> r, exe |-> e, tx |-> t] \in answers
          PROVE  Paid([run |-> r, exe |-> e, tx |-> t])
      <4> DEFINE x == [run |-> r, exe |-> e, tx |-> t]
      <4>1. settlement[r] = x /\ x \in Receipt
        BY <3>1 DEF AnswersDurable, TypeOK
      <4>2. settlement[r] # None
        BY <4>1, Nones
      <4>3. QED
        BY <4>1, <4>2 DEF SettledWasPaid, Paid
    <3>2. QED
      BY <1>4, <3>1 DEF PostResume, Paid
  <2>2. QED
    BY <1>1, <1>4, <2>1 DEF PostResume
<1>5. QED
  BY <1>2, <1>3, <1>4 DEF Arrive

\* A step that ends a request and leaves the keys alone.
LEMMA EndIInv ==
  ASSUME IInv, NEW q \in Request, End(q), UNCHANGED store,
         quoted' \subseteq Run \X Execution,
         deaths' \in 0..MaxDeaths,
         answers' \subseteq answers \cup {settlement[r] : r \in {x \in Run : settlement[x] # None}}
  PROVE  IInv'
<1>1. KeysKept /\ SettlementBacked' /\ SettledWasPaid'
  BY StoreUnchanged
<1>2. \A r \in Run : settlement[r] # None => settlement[r] \in Receipt /\ settlement[r].run = r
  BY DEF IInv, TypeOK, SettlementBacked
<1>3. AnswersDurable' /\ answers' \subseteq Receipt
  BY <1>2 DEF IInv, TypeOK, AnswersDurable, store
<1>4. /\ \A x \in Request : x # q => request'[x] = request[x]
      /\ (CarriesPaid(q) /\ HasBinding(q) /\ HasClaim(q) /\ SawSettlement(q))'
      /\ request' \in [Request -> RequestState \cup {NoRequest}]
  BY Ended DEF IInv
<1>5. TypeOK'
  BY <1>3, <1>4 DEF IInv, TypeOK, store
<1>6. QED
  BY <1>1, <1>3, <1>4, <1>5, StepIInv

\* Facts about a request that is at a step of persistSettlement.
LEMMA Persisting ==
  ASSUME IInv, NEW q \in Request,
         request[q].pc \in {"bind", "bindGet", "claim", "claimGet", "settle", "settleGet", "load"}
  PROVE  /\ ~Idle(q)
         /\ request[q].run \in Run /\ request[q].exe \in Execution
         /\ request[q].tx \in Tx \cup {NoTx}
         /\ request[q].pc \in {"claim", "claimGet", "settle", "settleGet"} =>
              /\ request[q].kind # "quote"
              /\ request[q].tx \in Tx
              /\ ReceiptOf(q) \in Receipt /\ ReceiptOf(q) # None
              /\ Paid(ReceiptOf(q))
<1>1. ~Idle(q)
  BY DEF Idle
<1>2. /\ request[q].run \in Run /\ request[q].exe \in Execution
      /\ request[q].tx \in Tx \cup {NoTx}
  BY <1>1, BusyTyped DEF IInv
<1>3. CarriesPaid(q)
  BY DEF IInv, RequestInv
<1>4. ASSUME request[q].pc \in {"claim", "claimGet", "settle", "settleGet"}
      PROVE  /\ request[q].kind # "quote"
             /\ request[q].tx \in Tx
             /\ Paid(ReceiptOf(q))
  BY <1>1, <1>2, <1>3, <1>4 DEF CarriesPaid
<1>5. QED
  BY <1>1, <1>2, <1>4, Nones DEF ReceiptOf, Receipt

LEMMA LoadIInv ==
  ASSUME IInv, NEW q \in Request, Load(q)
  PROVE  IInv'
<1> DEFINE r == request[q].run
<1>1. /\ request[q].pc = "load" /\ ~Idle(q) /\ r \in Run
      /\ UNCHANGED <<store, quoted, deaths>>
      /\ quoted' \subseteq Run \X Execution /\ deaths' \in 0..MaxDeaths
  BY Persisting DEF Load, IInv, TypeOK
<1>2. CASE settlement[r] # None /\ End(q)
           /\ answers' = IF settlement[r].exe = request[q].exe
                         THEN answers \cup {settlement[r]} ELSE answers
  BY <1>1, <1>2, EndIInv
<1>3. CASE settlement[r] = None /\ request[q].tx # NoTx /\ Goto(q, "bind") /\ UNCHANGED answers
  <2>1. "bind" \in Steps
    BY DEF Steps
  <2>2. /\ \A x \in Request : x # q => request'[x] = request[x]
        /\ request' \in [Request -> RequestState \cup {NoRequest}]
        /\ request'[q].pc = "bind" /\ CarriesPaid(q)'
    BY <1>1, <1>3, <2>1, Went
  <2>3. KeysKept /\ SettlementBacked' /\ SettledWasPaid'
    BY <1>1, StoreUnchanged
  <2>4. TypeOK' /\ AnswersDurable'
    BY <1>1, <1>3, <2>2 DEF IInv, TypeOK, AnswersDurable, store
  <2>5. (HasBinding(q) /\ HasClaim(q) /\ SawSettlement(q))'
    BY <2>2 DEF HasBinding, HasClaim, SawSettlement
  <2>6. QED
    BY <2>2, <2>3, <2>4, <2>5, StepIInv
<1>4. CASE End(q) /\ UNCHANGED answers
  BY <1>1, <1>4, EndIInv
<1>5. QED
  BY <1>2, <1>3, <1>4 DEF Load

\* The step of bind that succeeds.
LEMMA BoundIInv ==
  ASSUME IInv, NEW q \in Request, request[q].pc \in {"bind", "bindGet"}, Bound(q),
         KeysKept, SettlementBacked', SettledWasPaid',
         binding' \in [Run -> Execution \cup {None}],
         binding'[request[q].run] = request[q].exe,
         UNCHANGED <<claim, settlement, answers, deaths>>
  PROVE  IInv'
<1>1. /\ ~Idle(q) /\ request[q].run \in Run /\ request[q].exe \in Execution
      /\ AnswersDurable'
  BY Persisting DEF IInv, AnswersDurable
<1>2. CASE request[q].kind = "quote"
  <2>1. /\ \A x \in Request : x # q => request'[x] = request[x]
        /\ (CarriesPaid(q) /\ HasBinding(q) /\ HasClaim(q) /\ SawSettlement(q))'
        /\ request' \in [Request -> RequestState \cup {NoRequest}]
    BY <1>2, Ended DEF IInv, Bound
  <2>2. quoted' \subseteq Run \X Execution
    BY <1>1, <1>2 DEF Bound, IInv, TypeOK
  <2>3. TypeOK'
    BY <2>1, <2>2 DEF IInv, TypeOK
  <2>4. QED
    BY <1>1, <2>1, <2>3, StepIInv
<1>3. CASE request[q].kind # "quote"
  <2>1. "claim" \in Steps /\ Goto(q, "claim") /\ UNCHANGED quoted
    BY <1>3 DEF Bound, Steps
  <2>2. /\ \A x \in Request : x # q => request'[x] = request[x]
        /\ request' \in [Request -> RequestState \cup {NoRequest}]
        /\ request'[q].pc = "claim" /\ CarriesPaid(q)'
        /\ request'[q].run = request[q].run /\ request'[q].exe = request[q].exe
    BY <1>1, <1>3, <2>1, Went
  <2>3. TypeOK'
    BY <2>1, <2>2 DEF IInv, TypeOK
  <2>4. (HasBinding(q) /\ HasClaim(q) /\ SawSettlement(q))'
    BY <2>2 DEF HasBinding, HasClaim, SawSettlement
  <2>5. QED
    BY <1>1, <2>2, <2>3, <2>4, StepIInv
<1>4. QED
  BY <1>2, <1>3

\* A step from one await to the next that leaves the keys and the rest alone.
LEMMA GotoIInv ==
  ASSUME IInv, NEW q \in Request, NEW pc \in Steps, Goto(q, pc),
         request[q].pc \in {"bind", "bindGet", "claim", "claimGet", "settle", "settleGet"},
         request[q].kind # "quote" \/ pc \in {"bind", "bindGet"},
         UNCHANGED <<binding, claim, settlement, quoted, answers, deaths>>,
         (HasBinding(q) /\ HasClaim(q) /\ SawSettlement(q))'
  PROVE  IInv'
<1>1. ~Idle(q) /\ request[q].pc # "load"
  BY Persisting
<1>2. /\ \A x \in Request : x # q => request'[x] = request[x]
      /\ request' \in [Request -> RequestState \cup {NoRequest}]
      /\ CarriesPaid(q)'
  BY <1>1, Went
<1>3. KeysKept /\ SettlementBacked' /\ SettledWasPaid'
  BY StoreUnchanged DEF store
<1>4. TypeOK' /\ AnswersDurable'
  BY <1>2 DEF IInv, TypeOK, AnswersDurable
<1>5. QED
  BY <1>2, <1>3, <1>4, StepIInv

LEMMA BindIInv ==
  ASSUME IInv, NEW q \in Request, Bind(q) \/ BindGet(q)
  PROVE  IInv'
<1> DEFINE r == request[q].run
<1>1. CASE Bind(q) /\ binding[r] = None
  <2>1. /\ request[q].pc = "bind" /\ r \in Run /\ request[q].exe \in Execution
        /\ binding' = [binding EXCEPT ![r] = request[q].exe] /\ Bound(q)
        /\ UNCHANGED <<claim, settlement, answers, deaths>>
        /\ binding \in [Run -> Execution \cup {None}]
    BY <1>1, Persisting DEF Bind, IInv, TypeOK
  <2>2. KeysKept
    BY <1>1, <2>1 DEF KeysKept
  <2>3. SettlementBacked' /\ SettledWasPaid'
    <3>1. \A x \in Run : settlement[x] # None => binding'[x] = binding[x]
      BY <1>1, <2>1, Nones DEF IInv, SettlementBacked, TypeOK, Receipt
    <3>2. QED
      BY <2>1, <3>1 DEF IInv, SettlementBacked, SettledWasPaid
  <2>4. QED
    BY <2>1, <2>2, <2>3, BoundIInv
<1>2. CASE Bind(q) /\ binding[r] # None
  <2>1. /\ request[q].pc = "bind" /\ Goto(q, "bindGet") /\ "bindGet" \in Steps /\ ~Idle(q)
        /\ UNCHANGED <<binding, claim, settlement, quoted, answers, deaths>>
    BY <1>2, Persisting DEF Bind, Steps
  <2>2. request'[q].pc = "bindGet"
    BY <2>1, Went
  <2>3. (HasBinding(q) /\ HasClaim(q) /\ SawSettlement(q))'
    BY <2>2 DEF HasBinding, HasClaim, SawSettlement
  <2>4. QED
    BY <2>1, <2>3, GotoIInv
<1>3. CASE BindGet(q) /\ binding[r] = request[q].exe
  <2>1. KeysKept /\ SettlementBacked' /\ SettledWasPaid'
    BY <1>3, StoreUnchanged DEF BindGet
  <2>2. request[q].pc = "bindGet" /\ Bound(q) /\ UNCHANGED <<store, answers, deaths>>
    BY <1>3 DEF BindGet
  <2>3. /\ binding' \in [Run -> Execution \cup {None}] /\ binding'[r] = request[q].exe
        /\ UNCHANGED <<claim, settlement, answers, deaths>>
    BY <1>3, <2>2 DEF store, IInv, TypeOK
  <2>4. QED
    BY <2>1, <2>2, <2>3, BoundIInv
<1>4. CASE BindGet(q) /\ binding[r] # request[q].exe
  BY <1>4, EndIInv DEF BindGet, IInv, TypeOK
<1>5. QED
  BY <1>1, <1>2, <1>3, <1>4

LEMMA ClaimIInv ==
  ASSUME IInv, NEW q \in Request, Claim(q) \/ ClaimGet(q)
  PROVE  IInv'
<1> DEFINE t == request[q].tx
<1>0. /\ request[q].pc \in {"claim", "claimGet"} /\ ~Idle(q)
      /\ request[q].run \in Run /\ t \in Tx /\ request[q].kind # "quote"
      /\ ReceiptOf(q) \in Receipt /\ ReceiptOf(q) # None
      /\ binding[request[q].run] = request[q].exe
      /\ {"settle", "claimGet"} \subseteq Steps
  BY Persisting DEF Claim, ClaimGet, IInv, RequestInv, HasBinding, Steps
<1>1. CASE Claim(q) /\ claim[t] = None
  <2>1. /\ claim' = [claim EXCEPT ![t] = ReceiptOf(q)] /\ Goto(q, "settle")
        /\ UNCHANGED <<binding, settlement, quoted, answers, deaths>>
        /\ claim \in [Tx -> Receipt \cup {None}]
    BY <1>1 DEF Claim, IInv, TypeOK
  <2>2. KeysKept
    BY <1>0, <1>1, <2>1 DEF KeysKept
  <2>3. SettlementBacked' /\ SettledWasPaid'
    <3>1. \A x \in Run : settlement[x] # None => settlement[x].tx # t
      BY <1>1, Nones DEF IInv, SettlementBacked, TypeOK
    <3>2. \A x \in Run : settlement[x] # None => claim'[settlement[x].tx] = claim[settlement[x].tx]
      BY <2>1, <3>1 DEF IInv, TypeOK, Receipt
    <3>3. QED
      BY <2>1, <3>2 DEF IInv, SettlementBacked, SettledWasPaid
  <2>4. /\ \A x \in Request : x # q => request'[x] = request[x]
        /\ request' \in [Request -> RequestState \cup {NoRequest}]
        /\ CarriesPaid(q)' /\ ReceiptOf(q)' = ReceiptOf(q)
        /\ request'[q].pc = "settle" /\ request'[q].tx = t
        /\ request'[q].run = request[q].run /\ request'[q].exe = request[q].exe
    BY <1>0, <2>1, Went
  <2>5. TypeOK' /\ AnswersDurable'
    BY <1>0, <2>1, <2>4 DEF IInv, TypeOK, AnswersDurable
  <2>6. (HasBinding(q) /\ HasClaim(q) /\ SawSettlement(q))'
    BY <1>0, <2>1, <2>4 DEF HasBinding, HasClaim, SawSettlement
  <2>7. QED
    BY <2>2, <2>3, <2>4, <2>5, <2>6, StepIInv
<1>2. CASE Claim(q) /\ claim[t] # None
  <2>1. /\ Goto(q, "claimGet")
        /\ UNCHANGED <<binding, claim, settlement, quoted, answers, deaths>>
    BY <1>2 DEF Claim
  <2>2. /\ request'[q].pc = "claimGet"
        /\ request'[q].run = request[q].run /\ request'[q].exe = request[q].exe
    BY <1>0, <2>1, Went
  <2>3. (HasBinding(q) /\ HasClaim(q) /\ SawSettlement(q))'
    BY <1>0, <2>1, <2>2 DEF HasBinding, HasClaim, SawSettlement
  <2>4. QED
    BY <1>0, <2>1, <2>3, GotoIInv
<1>3. CASE ClaimGet(q) /\ claim[t] = ReceiptOf(q) /\ Goto(q, "settle")
  <2>1. UNCHANGED <<binding, claim, settlement, quoted, answers, deaths>>
    BY <1>3 DEF ClaimGet, store
  <2>2. /\ request'[q].pc = "settle" /\ request'[q].tx = t
        /\ request'[q].run = request[q].run /\ request'[q].exe = request[q].exe
        /\ ReceiptOf(q)' = ReceiptOf(q)
    BY <1>0, <1>3, Went
  <2>3. (HasBinding(q) /\ HasClaim(q) /\ SawSettlement(q))'
    BY <1>0, <1>3, <2>1, <2>2 DEF HasBinding, HasClaim, SawSettlement
  <2>4. QED
    BY <1>0, <1>3, <2>1, <2>3, GotoIInv
<1>4. CASE ClaimGet(q) /\ End(q)
  BY <1>4, EndIInv DEF ClaimGet, IInv, TypeOK
<1>5. QED
  BY <1>1, <1>2, <1>3, <1>4 DEF ClaimGet

LEMMA SettleIInv ==
  ASSUME IInv, NEW q \in Request, Settle(q) \/ SettleGet(q)
  PROVE  IInv'
<1> DEFINE r == request[q].run
<1>0. /\ request[q].pc \in {"settle", "settleGet"} /\ ~Idle(q)
      /\ r \in Run /\ request[q].tx \in Tx /\ request[q].kind # "quote"
      /\ ReceiptOf(q) \in Receipt /\ ReceiptOf(q) # None /\ Paid(ReceiptOf(q))
      /\ ReceiptOf(q).run = r /\ ReceiptOf(q).exe = request[q].exe
      /\ ReceiptOf(q).tx = request[q].tx
      /\ binding[r] = request[q].exe /\ claim[request[q].tx] = ReceiptOf(q)
      /\ "settleGet" \in Steps
  BY Persisting DEF Settle, SettleGet, IInv, RequestInv, HasBinding, HasClaim, Steps, ReceiptOf
<1>1. CASE Settle(q) /\ settlement[r] = None
  <2>1. /\ settlement' = [settlement EXCEPT ![r] = ReceiptOf(q)]
        /\ answers' = answers \cup {ReceiptOf(q)}
        /\ End(q)
        /\ UNCHANGED <<binding, claim, quoted, deaths>>
        /\ settlement \in [Run -> Receipt \cup {None}]
    BY <1>1 DEF Settle, IInv, TypeOK
  <2>2. \A x \in Run : settlement'[x] = IF x = r THEN ReceiptOf(q) ELSE settlement[x]
    BY <1>0, <2>1
  <2>3. KeysKept
    BY <1>1, <2>1, <2>2 DEF KeysKept
  <2>4. SettlementBacked' /\ SettledWasPaid'
    BY <1>0, <2>1, <2>2 DEF IInv, SettlementBacked, SettledWasPaid, Paid
  <2>5. AnswersDurable'
    <3>1. \A x \in answers : x.run \in Run /\ x # None /\ settlement[x.run] = x
      BY Nones DEF IInv, TypeOK, AnswersDurable, Receipt
    <3>2. \A x \in answers : x.run # r
      BY <1>1, <3>1
    <3>3. QED
      BY <1>0, <2>1, <2>2, <3>1, <3>2 DEF AnswersDurable
  <2>6. /\ \A x \in Request : x # q => request'[x] = request[x]
        /\ (CarriesPaid(q) /\ HasBinding(q) /\ HasClaim(q) /\ SawSettlement(q))'
        /\ request' \in [Request -> RequestState \cup {NoRequest}]
    BY <2>1, Ended DEF IInv
  <2>7. TypeOK'
    BY <1>0, <2>1, <2>6 DEF IInv, TypeOK
  <2>8. QED
    BY <2>3, <2>4, <2>5, <2>6, <2>7, StepIInv
<1>2. CASE Settle(q) /\ settlement[r] # None
  <2>1. /\ Goto(q, "settleGet")
        /\ UNCHANGED <<binding, claim, settlement, quoted, answers, deaths>>
    BY <1>2 DEF Settle
  <2>2. /\ request'[q].pc = "settleGet" /\ request'[q].run = request[q].run
        /\ request'[q].exe = request[q].exe
        /\ request'[q].tx = request[q].tx /\ ReceiptOf(q)' = ReceiptOf(q)
    BY <1>0, <2>1, Went
  <2>3. HasBinding(q)'
    BY <1>0, <2>1, <2>2 DEF HasBinding
  <2>4. HasClaim(q)'
    <3>1. claim'[request'[q].tx] = ReceiptOf(q)
      BY <1>0, <2>1, <2>2
    <3>2. QED
      BY <2>2, <3>1 DEF HasClaim
  <2>5. SawSettlement(q)'
    BY <1>2, <2>1, <2>2 DEF SawSettlement
  <2>6. QED
    BY <1>0, <2>1, <2>3, <2>4, <2>5, GotoIInv
<1>3. CASE SettleGet(q)
  <2>1. settlement[r] # None
    BY <1>3 DEF SettleGet, IInv, RequestInv, SawSettlement
  <2>2. /\ answers' \subseteq answers \cup {settlement[r]}
        /\ End(q) /\ UNCHANGED <<store, quoted, deaths>>
    BY <1>3 DEF SettleGet
  <2>3. answers' \subseteq answers \cup {settlement[y] : y \in {x \in Run : settlement[x] # None}}
    BY <1>0, <2>1, <2>2
  <2>4. quoted' \subseteq Run \X Execution /\ deaths' \in 0..MaxDeaths
    BY <2>2 DEF IInv, TypeOK
  <2>5. QED
    BY <2>2, <2>3, <2>4, EndIInv
<1>4. QED
  BY <1>1, <1>2, <1>3

LEMMA DieIInv ==
  ASSUME IInv, NEW q \in Request, Die(q)
  PROVE  IInv'
<1>1. End(q) /\ UNCHANGED <<store, quoted, answers>> /\ quoted' \subseteq Run \X Execution
  BY DEF Die, IInv, TypeOK
<1>2. deaths' \in 0..MaxDeaths
  BY FeeStoreAssumption DEF Die, IInv, TypeOK
<1>3. QED
  BY <1>1, <1>2, EndIInv

LEMMA NextIInv == IInv /\ [Next]_vars => IInv'
<1> SUFFICES ASSUME IInv, [Next]_vars PROVE IInv'
  OBVIOUS
<1>1. CASE Next
  BY <1>1, ArriveIInv, LoadIInv, BindIInv, ClaimIInv, SettleIInv, DieIInv DEF Next, Serve
<1>2. CASE UNCHANGED vars
  <2>1. KeysKept /\ SettlementBacked' /\ SettledWasPaid'
    BY <1>2, StoreUnchanged DEF vars, store
  <2>2. TypeOK' /\ AnswersDurable'
    BY <1>2 DEF IInv, TypeOK, AnswersDurable, vars
  <2>3. RequestInv'
    <3>1. \A x \in Request : request'[x] = request[x]
      BY <1>2 DEF vars
    <3>2. QED
      BY <2>1, <2>2, <3>1, RequestKept DEF RequestInv
  <2>4. QED
    BY <2>1, <2>2, <2>3 DEF IInv
<1>3. QED
  BY <1>1, <1>2

LEMMA AlwaysIInv == Spec => []IInv
BY InitIInv, NextIInv, PTL DEF Spec

-----------------------------------------------------------------------------
(* Theorems *)

\* The keys hold what was written there, and a request at each await what it then knows.
THEOREM TypeCorrect == Spec => []TypeOK
<1>1. IInv => TypeOK
  BY DEF IInv
<1>2. QED
  BY <1>1, AlwaysIInv, PTL

\* The three keys of every settled run agree.
THEOREM StoreBacked == Spec => []SettlementBacked
<1>1. IInv => SettlementBacked
  BY DEF IInv
<1>2. QED
  BY <1>1, AlwaysIInv, PTL

\* One transaction is never given to two executions, nor two transactions to one
\* run: two answers with the same run are the same stored settlement, two with
\* the same transaction the same claim.
THEOREM OneFeeOneExecution == Spec => []AnswersAgree
<1>1. ASSUME IInv PROVE AnswersAgree
  <2>1. ASSUME NEW x \in answers
        PROVE  settlement[x.run] = x /\ claim[x.tx] = x
    BY <1>1, Nones DEF IInv, AnswersDurable, SettlementBacked, TypeOK, Receipt
  <2>2. QED
    BY <2>1 DEF AnswersAgree
<1>2. QED
  BY <1>1, AlwaysIInv, PTL

\* What a client was told is in the store, for ever.
THEOREM AnswersStayDurable == Spec => []AnswersDurable
<1>1. IInv => AnswersDurable
  BY DEF IInv
<1>2. QED
  BY <1>1, AlwaysIInv, PTL

\* No run is settled by a transaction that did not pay its fee.
THEOREM NothingSettledUnpaid == Spec => []SettledWasPaid
<1>1. IInv => SettledWasPaid
  BY DEF IInv
<1>2. QED
  BY <1>1, AlwaysIInv, PTL

\* The store implements the ledger: only the SET NX of the settlement key is a
\* step of the ledger, and the claim it holds shows that no other run has its
\* transaction.
THEOREM StoreImplementsLedger == Spec => LedgerSpec
<1> DEFINE by == [r \in Run |-> IF settlement[r] = None THEN NoTx ELSE settlement[r].tx]
<1>1. Init => Ledger!Init
  BY DEF Init, Ledger!Init
<1>2. IInv /\ [Next]_vars => [Ledger!Next]_by
  <2> SUFFICES ASSUME IInv, [Next]_vars PROVE [Ledger!Next]_by
    OBVIOUS
  <2>1. CASE UNCHANGED settlement
    BY <2>1
  <2>2. ASSUME NEW q \in Request, Settle(q), settlement[request[q].run] = None
        PROVE  Ledger!Next
    <3> DEFINE r == request[q].run
               t == request[q].tx
    <3>1. /\ r \in Run /\ t \in Tx /\ ReceiptOf(q) # None
          /\ ReceiptOf(q).tx = t /\ ReceiptOf(q).run = r
          /\ claim[t] = ReceiptOf(q)
      BY <2>2, Persisting DEF Settle, IInv, RequestInv, HasClaim, ReceiptOf
    <3>2. /\ settlement' = [settlement EXCEPT ![r] = ReceiptOf(q)]
          /\ settlement \in [Run -> Receipt \cup {None}]
      BY <2>2 DEF Settle, IInv, TypeOK
    <3>3. \A x \in Run : settlement'[x] = IF x = r THEN ReceiptOf(q) ELSE settlement[x]
      BY <3>1, <3>2
    <3>4. by' = [by EXCEPT ![r] = t]
      BY <3>1, <3>3
    <3>5. \A x \in Run : by[x] # t
      BY <2>2, <3>1, Nones DEF IInv, SettlementBacked
    <3>6. by[r] = NoTx
      BY <2>2, <3>1
    <3>7. QED
      BY <3>1, <3>4, <3>5, <3>6 DEF Ledger!Next, Ledger!Settle
  <2>3. ASSUME NEW q \in Request, Settle(q), settlement[request[q].run] # None
        PROVE  UNCHANGED settlement
    BY <2>3 DEF Settle
  <2>4. ASSUME NEW q \in Request,
               Arrive(q) \/ Load(q) \/ Bind(q) \/ BindGet(q) \/ Claim(q) \/ ClaimGet(q)
                 \/ SettleGet(q) \/ Die(q)
        PROVE  UNCHANGED settlement
    BY <2>4 DEF Arrive, PostQuote, PostSettle, PostResume, Load, Bind, BindGet, Claim,
         ClaimGet, SettleGet, Die, store
  <2>5. QED
    BY <2>1, <2>2, <2>3, <2>4 DEF Next, Serve, vars
<1>3. QED
  BY <1>1, <1>2, AlwaysIInv, PTL DEF Spec, LedgerSpec, Ledger!Spec
=============================================================================
