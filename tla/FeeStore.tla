------------------------------ MODULE FeeStore ------------------------------
(***************************************************************************)
(* The durable Agent fee store, lib/agent/server-fee-store.ts, and the     *)
(* three routes that use it: fee/quote, fee/settle and fee/resume under    *)
(* app/api/agent.                                                          *)
(*                                                                         *)
(* Any number of requests are served at once; each awaits Redis at every   *)
(* step, so every SET NX and every GET is an action of its own, and a      *)
(* request may die between any two of them.  Redis has three families of   *)
(* keys: binding and settlement per run, claim per transaction.  Keys are  *)
(* only ever written with NX and never deleted; their expiry (30 days by   *)
(* default) is not modelled.                                               *)
(*                                                                         *)
(* An Execution stands for the rest of what a binding compares: the plan   *)
(* digest, the payer and the chain.  The idempotency key is a function of  *)
(* the run id, the run ids and hashes are already normalised.              *)
(***************************************************************************)
EXTENDS Naturals

CONSTANTS
  Run, Execution, Tx,
  Request,              \* the requests being served at the same time
  MaxDeaths,            \* bound on the requests that die before they answer
  Pays,                 \* pairs <<t, e>>: the chain shows t paying e's fee
  Legacy,               \* receipts signed before there was a durable store
  None, NoTx

Receipt == [run : Run, exe : Execution, tx : Tx]

ASSUME FeeStoreAssumption ==
  /\ Pays \subseteq Tx \X Execution
  /\ Legacy \subseteq Receipt
  /\ NoTx \notin Tx
  /\ None \notin Execution \cup Receipt
  /\ MaxDeaths \in Nat

VARIABLES
  binding,              \* bindingKey(run): the execution the run is bound to, or None
  claim,                \* transactionClaimKey(tx): [run, exe, tx], or None
  settlement,           \* settlementKey(run): [run, exe, tx], or None
  quoted,               \* signed quotes that have left the server: <<run, exe>>
  answers,              \* "settled: true" answers that have left it: [run, exe, tx]
  request,              \* the requests being served
  deaths                \* how many have died

vars == <<binding, claim, settlement, quoted, answers, request, deaths>>

store == <<binding, claim, settlement>>

Steps == {"bind", "bindGet", "claim", "claimGet", "settle", "settleGet", "load"}

NoRequest == [pc |-> "idle"]

\* tx is NoTx for a quote, and for a resume that brings no receipt.
RequestState ==
  [pc : Steps, kind : {"quote", "settle", "resume"},
   run : Run, exe : Execution, tx : Tx \cup {NoTx}]

Idle(q) == request[q].pc = "idle"

Goto(q, pc) == request' = [request EXCEPT ![q].pc = pc]

\* The request is over: it answered, it threw, or it died.
End(q) == request' = [request EXCEPT ![q] = NoRequest]

Start(q, pc, kind, r, e, t) ==
  request' = [request EXCEPT ![q] = [pc |-> pc, kind |-> kind, run |-> r, exe |-> e, tx |-> t]]

ReceiptOf(q) == [run |-> request[q].run, exe |-> request[q].exe, tx |-> request[q].tx]

-----------------------------------------------------------------------------
Init ==
  /\ binding = [r \in Run |-> None]
  /\ claim = [t \in Tx |-> None]
  /\ settlement = [r \in Run |-> None]
  /\ quoted = {}
  /\ answers = {}
  /\ request = [q \in Request |-> NoRequest]
  /\ deaths = 0

\* POST fee/quote: createSignedAgentFeeQuote, then bindRun.
PostQuote(q, r, e) ==
  /\ Idle(q)
  /\ Start(q, "bind", "quote", r, e, NoTx)
  /\ UNCHANGED <<store, quoted, answers, deaths>>

\* Mutant: the transfer is not looked up on the chain.
PostSettle_Unverified(q, r, e, t) ==
  /\ Idle(q)
  /\ <<r, e>> \in quoted
  /\ Start(q, "bind", "settle", r, e, t)
  /\ UNCHANGED <<store, quoted, answers, deaths>>

\* POST fee/settle: the quote carries the server's signature and the chain shows
\* the transfer (verifyAgentFeeSettlement), then persistSettlement.
PostSettle(q, r, e, t) ==
  /\ Idle(q)
  /\ <<r, e>> \in quoted
  /\ <<t, e>> \in Pays
  /\ Start(q, "bind", "settle", r, e, t)
  /\ UNCHANGED <<store, quoted, answers, deaths>>

\* POST fee/resume, with the receipt the browser kept or without one.
PostResume(q, r, e, t) ==
  /\ Idle(q)
  /\ t # NoTx => [run |-> r, exe |-> e, tx |-> t] \in answers \cup Legacy
  /\ Start(q, "load", "resume", r, e, t)
  /\ UNCHANGED <<store, quoted, answers, deaths>>

\* loadSettlement: GET settlement.  A stored one is the answer if it is of the
\* same execution; else a receipt from the browser seeds the store.
Load(q) ==
  LET r == request[q].run IN
  /\ request[q].pc = "load"
  /\ \/ /\ settlement[r] # None
        /\ answers' = IF settlement[r].exe = request[q].exe
                      THEN answers \cup {settlement[r]} ELSE answers
        /\ End(q)
     \/ /\ settlement[r] = None /\ request[q].tx # NoTx
        /\ Goto(q, "bind")
        /\ UNCHANGED answers
     \/ /\ settlement[r] = None /\ request[q].tx = NoTx
        /\ End(q)
        /\ UNCHANGED answers
  /\ UNCHANGED <<store, quoted, deaths>>

\* Mutant: the transaction is not claimed.
Bound_NoClaim(q) ==
  IF request[q].kind = "quote"
  THEN End(q) /\ quoted' = quoted \cup {<<request[q].run, request[q].exe>>}
  ELSE Goto(q, "settle") /\ UNCHANGED quoted

\* What follows a successful bind: bindRun returns and the quote leaves the
\* server; persistSettlement goes on to the claim.
Bound(q) ==
  IF request[q].kind = "quote"
  THEN End(q) /\ quoted' = quoted \cup {<<request[q].run, request[q].exe>>}
  ELSE Goto(q, "claim") /\ UNCHANGED quoted

\* Mutant: the settlement candidate is written under the binding key.
Bind_WrongValue(q) ==
  /\ request[q].pc = "bind"
  /\ binding' = [binding EXCEPT ![request[q].run] = ReceiptOf(q)]
  /\ Bound(q)
  /\ UNCHANGED <<claim, settlement, answers, deaths>>

\* Mutant: SET without NX.
Bind_NotNX(q) ==
  /\ request[q].pc = "bind"
  /\ binding' = [binding EXCEPT ![request[q].run] = request[q].exe]
  /\ Bound(q)
  /\ UNCHANGED <<claim, settlement, answers, deaths>>

\* bind: SET NX binding
Bind(q) ==
  LET r == request[q].run IN
  /\ request[q].pc = "bind"
  /\ \/ /\ binding[r] = None
        /\ binding' = [binding EXCEPT ![r] = request[q].exe]
        /\ Bound(q)
     \/ /\ binding[r] # None
        /\ Goto(q, "bindGet")
        /\ UNCHANGED <<binding, quoted>>
  /\ UNCHANGED <<claim, settlement, answers, deaths>>

\* bind: GET binding and sameBinding
BindGet(q) ==
  /\ request[q].pc = "bindGet"
  /\ \/ binding[request[q].run] = request[q].exe /\ Bound(q)
     \/ binding[request[q].run] # request[q].exe /\ End(q) /\ UNCHANGED quoted
  /\ UNCHANGED <<store, answers, deaths>>

\* persistSettlement: SET NX claim
Claim(q) ==
  LET t == request[q].tx IN
  /\ request[q].pc = "claim"
  /\ \/ /\ claim[t] = None
        /\ claim' = [claim EXCEPT ![t] = ReceiptOf(q)]
        /\ Goto(q, "settle")
     \/ /\ claim[t] # None
        /\ Goto(q, "claimGet")
        /\ UNCHANGED claim
  /\ UNCHANGED <<binding, settlement, quoted, answers, deaths>>

\* Mutant: any existing claim will do.
ClaimGet_NotCompared(q) ==
  /\ request[q].pc = "claimGet"
  /\ Goto(q, "settle")
  /\ UNCHANGED <<store, quoted, answers, deaths>>

\* Mutant: an existing claim is always a conflict.
ClaimGet_NotIdempotent(q) ==
  /\ request[q].pc = "claimGet"
  /\ End(q)
  /\ UNCHANGED <<store, quoted, answers, deaths>>

\* persistSettlement: GET claim and compare it with the candidate
ClaimGet(q) ==
  /\ request[q].pc = "claimGet"
  /\ \/ claim[request[q].tx] = ReceiptOf(q) /\ Goto(q, "settle")
     \/ claim[request[q].tx] # ReceiptOf(q) /\ End(q)
  /\ UNCHANGED <<store, quoted, answers, deaths>>

\* Mutant: SET without NX.
Settle_NotNX(q) ==
  /\ request[q].pc = "settle"
  /\ settlement' = [settlement EXCEPT ![request[q].run] = ReceiptOf(q)]
  /\ answers' = answers \cup {ReceiptOf(q)}
  /\ End(q)
  /\ UNCHANGED <<binding, claim, quoted, deaths>>

\* persistSettlement: SET NX settlement
Settle(q) ==
  LET r == request[q].run IN
  /\ request[q].pc = "settle"
  /\ \/ /\ settlement[r] = None
        /\ settlement' = [settlement EXCEPT ![r] = ReceiptOf(q)]
        /\ answers' = answers \cup {ReceiptOf(q)}
        /\ End(q)
     \/ /\ settlement[r] # None
        /\ Goto(q, "settleGet")
        /\ UNCHANGED <<settlement, answers>>
  /\ UNCHANGED <<binding, claim, quoted, deaths>>

\* persistSettlement: GET settlement; another execution or another transaction
\* is an error, the same one is the answer.
SettleGet(q) ==
  LET existing == settlement[request[q].run] IN
  /\ request[q].pc = "settleGet"
  /\ answers' = IF existing.exe = request[q].exe /\ existing.tx = request[q].tx
                THEN answers \cup {existing} ELSE answers
  /\ End(q)
  /\ UNCHANGED <<store, quoted, deaths>>

\* The process serving the request dies, or its Redis call throws.
Die(q) ==
  /\ ~Idle(q)
  /\ deaths < MaxDeaths
  /\ deaths' = deaths + 1
  /\ End(q)
  /\ UNCHANGED <<store, quoted, answers>>

Serve(q) ==
  Load(q) \/ Bind(q) \/ BindGet(q) \/ Claim(q) \/ ClaimGet(q) \/ Settle(q) \/ SettleGet(q)

Arrive(q) ==
  \E r \in Run, e \in Execution :
    \/ PostQuote(q, r, e)
    \/ \E t \in Tx : PostSettle(q, r, e, t)
    \/ \E t \in Tx \cup {NoTx} : PostResume(q, r, e, t)

Next == \E q \in Request : Arrive(q) \/ Serve(q) \/ Die(q)

Spec == Init /\ [][Next]_vars

\* The server works on every request until it answers or dies, only MaxDeaths
\* die, and the client that paid keeps asking while its quote is accepted (the
\* press of a button: client-fee-gate.ts, prepare).
Retry(r, e, t) == \E q \in Request : PostSettle(q, r, e, t)

FairSpec ==
  /\ Spec
  /\ \A q \in Request : WF_vars(Serve(q))
  /\ \A r \in Run, p \in Pays : SF_vars(Retry(r, p[2], p[1]))

-----------------------------------------------------------------------------
(* Properties *)

\* Type invariant.
TypeOK ==
  /\ binding \in [Run -> Execution \cup {None}]
  /\ claim \in [Tx -> Receipt \cup {None}]
  /\ settlement \in [Run -> Receipt \cup {None}]
  /\ quoted \subseteq Run \X Execution
  /\ answers \subseteq Receipt
  /\ request \in [Request -> RequestState \cup {NoRequest}]
  /\ deaths \in 0..MaxDeaths

\* The three keys of a settled run agree: the run is bound to the execution it
\* settled, and the transaction that settled it is claimed by it.
SettlementBacked ==
  \A r \in Run : settlement[r] # None =>
    /\ settlement[r].run = r
    /\ binding[r] = settlement[r].exe
    /\ claim[settlement[r].tx] = settlement[r]

\* "A fee transaction may authorize exactly one Agent execution"
\* (server-fee-store.ts:736): whatever requests were served, retried or died, no
\* two settled answers give one transaction to two executions, nor two
\* transactions to one run ("SET NX makes the first verified fee transaction
\* canonical", fee/settle/route.ts:91).
AnswersAgree ==
  \A x, y \in answers : (x.run = y.run \/ x.tx = y.tx) => x = y

\* Every answer is the store's: a client that was told "settled" finds it again
\* with a resume after any reload.
AnswersDurable == \A x \in answers : settlement[x.run] = x

\* A settled fee was paid: the chain shows it, or an older server had seen it.
SettledWasPaid ==
  \A r \in Run : settlement[r] # None =>
    \/ <<settlement[r].tx, settlement[r].exe>> \in Pays
    \/ settlement[r] \in Legacy

\* A request that dies between the claim and the settlement does not strand the
\* fee: a claimed transaction's run is settled in the end, the retries of the
\* same claim being idempotent.
ClaimCompletes ==
  \A t \in Tx, r \in Run :
    (claim[t] # None /\ claim[t].run = r /\ <<r, claim[t].exe>> \in quoted) ~> settlement[r] # None

\* The store implements the ledger.
Ledger == INSTANCE FeeLedger WITH
  settledBy <- [r \in Run |-> IF settlement[r] = None THEN NoTx ELSE settlement[r].tx]

LedgerSpec == Ledger!Spec
=============================================================================
