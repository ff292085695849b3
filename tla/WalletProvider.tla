--------------------------- MODULE WalletProvider ---------------------------
(***************************************************************************)
(* The wallet provider: the connected account, the `busy' flag, one ref per *)
(* protocol that is locked while a call of it is being signed, and the      *)
(* balances the page shows.  Every handler is an async function of a React  *)
(* render: it sees the account, `busy' and the disclosure of the render it  *)
(* was taken from, and the refs as they are.  A flow may keep a render's    *)
(* handlers through the awaits of its own (the fee gate, a preparation).    *)
(*                                                                         *)
(* What a handler does is the record Profile gives for it; the actions are  *)
(* the steps between two awaits.  Amounts, calldata and what is shown of a  *)
(* transaction are left out: a check of them is one of the refusals.        *)
(***************************************************************************)
EXTENDS Integers, Sequences

CONSTANTS
  Account, NetworkOf,     \* accounts of the wallet, each with its network
  Handler,                \* the handlers an instance calls
  MaxConnects, MaxCalls   \* bounds

VARIABLES
  selected,     \* the account the wallet itself has selected
  owner,        \* every connection made (a WalletAccountV6): its account
  current,      \* walletAccount and currentAccount: a connection, 0 when null
  connecting,   \* "no", "asked" or "reading"
  busy, locks,  \* the state flag and the refs that are set
  public,       \* the account whose public balances are shown, None for none
  private,      \* the same of the private ones
  revealed,     \* privateRevealed
  calls         \* every call made: see Captured

connection == <<selected, owner, current, connecting>>
shown == <<public, private, revealed>>
vars == <<connection, busy, locks, shown, calls>>

None == "none"
Network == {"mainnet", "sepolia"}
Anywhere == Network
Mainnet == {"mainnet"}
Sepolia == {"sepolia"}

-----------------------------------------------------------------------------
(* The handlers *)

\* lock: the ref it takes.  early: it takes it before its first await.  on: the
\* networks it accepts.  prepared: a server prepared it and it expires.  needs: it
\* wants a disclosure.  builds: it awaits between a first and a last session check.
\* signsFresh: it checks the expiry in the step that asks the wallet.  wait: what a
\* late confirmation does.  clears: it drops the disclosure afterwards.  refreshes: it
\* reads the public balances afterwards.  rereads: and a disclosed balance.
Base == [lock |-> None, early |-> TRUE, on |-> Anywhere, prepared |-> FALSE, needs |-> FALSE,
         builds |-> FALSE, signsFresh |-> FALSE, wait |-> "caught", clears |-> FALSE,
         refreshes |-> TRUE, rereads |-> FALSE]

Vesu(lock) == [Base EXCEPT !.lock = lock, !.on = Mainnet, !.prepared = TRUE, !.signsFresh = TRUE]

shield == Base
unshield == [Base EXCEPT !.rereads = TRUE]
executeShieldAsset == [Base EXCEPT !.clears = TRUE]
executeUnshieldAsset == [Base EXCEPT !.clears = TRUE, !.needs = TRUE]
executeUnshieldCollateral == [Base EXCEPT !.on = Mainnet, !.clears = TRUE, !.needs = TRUE]
executeSwap == [Base EXCEPT !.lock = "swap", !.builds = TRUE]
executeShieldSwap == [Base EXCEPT !.lock = "swap", !.builds = TRUE]
executeUnshieldSwapStart ==
  [Base EXCEPT !.lock = "swap", !.builds = TRUE, !.wait = "thrown", !.clears = TRUE, !.refreshes = FALSE]
completeUnshieldSwap ==
  [Base EXCEPT !.lock = "swap", !.builds = TRUE, !.clears = TRUE, !.refreshes = FALSE]
executeStakingAction == [Base EXCEPT !.lock = "staking", !.on = Mainnet, !.builds = TRUE]
executeShieldStaking ==
  [Base EXCEPT !.lock = "staking", !.on = Mainnet, !.builds = TRUE, !.clears = TRUE, !.refreshes = FALSE]
executeShieldLend == [Vesu("lend") EXCEPT !.early = FALSE, !.signsFresh = FALSE, !.clears = TRUE]
executeLend == [Vesu("lend") EXCEPT !.early = FALSE]
executeWithdrawVesuLend == [Vesu("lendWithdraw") EXCEPT !.early = FALSE]
executeBorrow == [Vesu("borrow") EXCEPT !.builds = TRUE, !.signsFresh = FALSE]
executeRepay == Vesu("repay")
executeAddVesuCollateral == Vesu("addVesuCollateral")
executeWithdrawVesuCollateral == Vesu("withdrawVesuCollateral")
executeCloseVesuPosition == Vesu("closeVesu")
executeAgentFee ==
  [Base EXCEPT !.lock = "agentFee", !.early = FALSE, !.prepared = TRUE, !.signsFresh = TRUE,
                !.wait = "none", !.refreshes = FALSE]
executeBridge ==
  [Base EXCEPT !.lock = "bridge", !.on = Sepolia, !.builds = TRUE, !.wait = "none", !.refreshes = FALSE]

Profile ==
  [shield |-> shield, unshield |-> unshield, executeShieldAsset |-> executeShieldAsset,
   executeUnshieldAsset |-> executeUnshieldAsset, executeUnshieldCollateral |-> executeUnshieldCollateral,
   executeSwap |-> executeSwap, executeShieldSwap |-> executeShieldSwap,
   executeUnshieldSwapStart |-> executeUnshieldSwapStart, completeUnshieldSwap |-> completeUnshieldSwap,
   executeStakingAction |-> executeStakingAction, executeShieldStaking |-> executeShieldStaking,
   executeShieldLend |-> executeShieldLend, executeLend |-> executeLend,
   executeWithdrawVesuLend |-> executeWithdrawVesuLend, executeBorrow |-> executeBorrow,
   executeRepay |-> executeRepay, executeAddVesuCollateral |-> executeAddVesuCollateral,
   executeWithdrawVesuCollateral |-> executeWithdrawVesuCollateral,
   executeCloseVesuPosition |-> executeCloseVesuPosition, executeAgentFee |-> executeAgentFee,
   executeBridge |-> executeBridge]

\* The quick actions have no check of their own before they set `busy'.
Quick == {"shield", "unshield"}

ASSUME WalletProviderAssumption ==
  /\ None \notin Account
  /\ NetworkOf \in [Account -> Network]
  /\ Handler \subseteq DOMAIN Profile
  /\ MaxConnects \in Nat /\ MaxCalls \in Nat

-----------------------------------------------------------------------------
(* What the awaits and the finally blocks do *)

Of(c) == Profile[c.kind]
AccountOf(c) == owner[c.conn]
LocksOf(c) == {Of(c).lock} \ {None}

Set(i, c) == calls' = [calls EXCEPT ![i] = c]
To(i, pc) == Set(i, [calls[i] EXCEPT !.pc = pc])
End(i) == Set(i, [kind |-> None, pc |-> "done"])

\* assertSession: the wallet's account and network and the connection are the call's.
SessionUnchanged(c) == current = c.conn /\ selected = AccountOf(c)

\* Mutant: the finally block leaves the ref set.
Finally_KeepLock(i) == busy' = FALSE /\ UNCHANGED locks

\* The finally block, also when the call throws.
Finally(i) == busy' = FALSE /\ locks' = locks \ LocksOf(calls[i])

-----------------------------------------------------------------------------
Init ==
  /\ selected \in Account
  /\ owner = <<>> /\ current = 0 /\ connecting = "no"
  /\ busy = FALSE /\ locks = {}
  /\ public = None /\ private = None /\ revealed = FALSE
  /\ calls = <<>>

(* The connection *)

\* External: the user selects another account or network in the wallet.
Select(a) == /\ a # selected /\ selected' = a
             /\ UNCHANGED <<owner, current, connecting, busy, locks, shown, calls>>

Connect ==
  /\ current = 0 /\ connecting = "no" /\ Len(owner) < MaxConnects
  /\ connecting' = "asked"
  /\ UNCHANGED <<selected, owner, current, busy, locks, shown, calls>>

\* The wallet answers with the account selected; the public balances are read next.
Connected ==
  /\ connecting = "asked"
  /\ owner' = Append(owner, selected)
  /\ current' = Len(owner')
  /\ public' = None /\ private' = None /\ revealed' = FALSE
  /\ connecting' = "reading"
  /\ UNCHANGED <<selected, busy, locks, calls>>

ConnectEnds ==
  /\ \/ connecting = "asked" /\ UNCHANGED public
     \/ connecting = "reading" /\ public' \in {None, owner[Len(owner)]}
  /\ connecting' = "no"
  /\ UNCHANGED <<selected, owner, current, busy, locks, private, revealed, calls>>

Disconnect ==
  /\ current # 0
  /\ current' = 0
  /\ public' = None /\ private' = None /\ revealed' = FALSE
  /\ UNCHANGED <<selected, owner, connecting, busy, locks, calls>>

-----------------------------------------------------------------------------
(* Reading balances *)

\* refreshPublicBalance and refreshAssetBalances.
RefreshPublic ==
  /\ current # 0 /\ Len(calls) < MaxCalls
  /\ calls' = Append(calls, [kind |-> "refresh", pc |-> "refresh", conn |-> current])
  /\ UNCHANGED <<connection, busy, locks, shown>>

\* revealPrivateBalance: the buttons are disabled while busy.
Reveal ==
  /\ current # 0 /\ ~busy /\ Len(calls) < MaxCalls
  /\ busy' = TRUE
  /\ calls' = Append(calls, [kind |-> "reveal", pc |-> "reveal", conn |-> current])
  /\ UNCHANGED <<connection, locks, shown>>

RefreshReturns(i) ==
  LET c == calls[i] IN
  /\ c.pc = "refresh" /\ c.kind = "refresh"
  /\ public' \in {public, AccountOf(c)}
  /\ End(i)
  /\ UNCHANGED <<connection, busy, locks, private, revealed>>

RevealReturns(i) ==
  LET c == calls[i] IN
  /\ c.pc = "reveal"
  /\ \/ private' = AccountOf(c) /\ revealed' = TRUE
     \/ UNCHANGED <<private, revealed>>
  /\ busy' = FALSE
  /\ End(i)
  /\ UNCHANGED <<connection, locks, public>>

-----------------------------------------------------------------------------
(* Executing *)

\* A page takes a handler from the render it is in.
Captured(k) == [kind |-> k, pc |-> "held", conn |-> current, busy |-> busy, revealed |-> revealed,
                fresh |-> TRUE, at |-> 0, from |-> None]

Capture(k) ==
  /\ Len(calls) < MaxCalls
  /\ calls' = Append(calls, Captured(k))
  /\ UNCHANGED <<connection, busy, locks, shown>>

\* A preparation or a fee quote expires.
Expire(i) ==
  LET c == calls[i] IN
  /\ c.pc \in {"held", "checking", "first", "last"} /\ Of(c).prepared /\ c.fresh
  /\ Set(i, [c EXCEPT !.fresh = FALSE])
  /\ UNCHANGED <<connection, busy, locks, shown>>

\* Mutant: the render's busy flag is trusted and the ref is not read.
Free_BusyOnly(c) == ~c.busy

Free(c) == ~c.busy /\ LocksOf(c) \cap locks = {}

\* What the handler tests before its first await.
Accepts(c) ==
  /\ c.conn # 0
  /\ NetworkOf[AccountOf(c)] \in Of(c).on
  /\ c.kind \in Quick \/ Free(c)
  /\ Of(c).prepared => c.fresh
  /\ Of(c).needs => c.revealed

Asserting(c) == IF Of(c).builds THEN "first" ELSE "last"

\* The handler is called and takes its ref and busy at once, or reads the chain first.
Request(i) ==
  LET c == calls[i] IN
  /\ c.pc = "held" /\ Accepts(c)
  /\ IF Of(c).early
     THEN busy' = TRUE /\ locks' = locks \cup LocksOf(c) /\ To(i, Asserting(c))
     ELSE UNCHANGED <<busy, locks>> /\ To(i, "checking")
  /\ UNCHANGED <<connection, shown>>

\* Refused: a quick action has set busy by then and clears it again.
Refused(i) ==
  LET c == calls[i] IN
  /\ \/ c.pc = "held" /\ ~Accepts(c)
     \/ c.pc = "checking"
  /\ busy' = IF c.kind \in Quick THEN FALSE ELSE busy
  /\ End(i)
  /\ UNCHANGED <<connection, locks, shown>>

\* The reads before the ref is taken have returned.
Lock(i) ==
  LET c == calls[i] IN
  /\ c.pc = "checking"
  /\ busy' = TRUE /\ locks' = locks \cup LocksOf(c)
  /\ To(i, "last")
  /\ UNCHANGED <<connection, shown>>

FirstCheck(i) ==
  LET c == calls[i] IN
  /\ c.pc = "first" /\ SessionUnchanged(c)
  /\ To(i, "last")
  /\ UNCHANGED <<connection, busy, locks, shown>>

\* Mutant: a handler that checked the session before it built its calls goes on.
LastCheck_Once(i) ==
  LET c == calls[i] IN
  /\ c.pc = "last" /\ (Of(c).builds \/ SessionUnchanged(c)) /\ (Of(c).signsFresh => c.fresh)
  /\ Set(i, [c EXCEPT !.pc = "sign", !.at = current, !.from = selected])
  /\ UNCHANGED <<connection, busy, locks, shown>>

\* The session is checked and the wallet is asked to sign in one step.
LastCheck(i) ==
  LET c == calls[i] IN
  /\ c.pc = "last" /\ SessionUnchanged(c) /\ (Of(c).signsFresh => c.fresh)
  /\ Set(i, [c EXCEPT !.pc = "sign", !.at = current, !.from = selected])
  /\ UNCHANGED <<connection, busy, locks, shown>>

\* A check fails, the calls cannot be built, the user rejects, or a wait that is not
\* caught gives up: the handler throws.
Throws(i) ==
  LET c == calls[i] IN
  /\ \/ c.pc \in {"first", "last", "sign"}
     \/ c.pc = "wait" /\ Of(c).wait = "thrown"
  /\ Finally(i)
  /\ End(i)
  /\ UNCHANGED <<connection, shown>>

\* The user approves and the wallet sends the transaction.
Signed(i) ==
  LET c == calls[i] IN
  /\ c.pc = "sign"
  /\ IF Of(c).wait = "none" THEN Finally(i) /\ End(i)
                            ELSE UNCHANGED <<busy, locks>> /\ To(i, "wait")
  /\ UNCHANGED <<connection, shown>>

\* waitForSubmittedTransaction ends; the balances are read; the disclosure is dropped.
Waited(i) ==
  LET c == calls[i] IN
  /\ c.pc = "wait" /\ Of(c).refreshes
  /\ To(i, "refresh")
  /\ UNCHANGED <<connection, busy, locks, shown>>

Returns(i) ==
  LET c == calls[i] IN
  /\ \/ c.pc = "wait" /\ ~Of(c).refreshes /\ UNCHANGED public
     \/ c.pc = "refresh" /\ c.kind # "refresh" /\ public' \in {public, AccountOf(c)}
  /\ \/ Of(c).clears /\ private' = None /\ revealed' = FALSE
     \/ ~Of(c).clears /\ UNCHANGED <<private, revealed>>
     \/ Of(c).rereads /\ c.revealed /\ private' = AccountOf(c) /\ UNCHANGED revealed
  /\ Finally(i)
  /\ End(i)
  /\ UNCHANGED connection

-----------------------------------------------------------------------------
Connecting == (\E a \in Account : Select(a)) \/ Connect \/ Connected \/ ConnectEnds \/ Disconnect

Reading == RefreshPublic \/ Reveal \/ \E i \in 1..Len(calls) : RefreshReturns(i) \/ RevealReturns(i)

Executing ==
  \/ \E k \in Handler : Capture(k)
  \/ \E i \in 1..Len(calls) :
       Expire(i) \/ Request(i) \/ Refused(i) \/ Lock(i) \/ FirstCheck(i) \/ LastCheck(i)
         \/ Throws(i) \/ Signed(i) \/ Waited(i) \/ Returns(i)

Next == Connecting \/ Reading \/ Executing

Spec == Init /\ [][Next]_vars

-----------------------------------------------------------------------------
(* Properties *)

Ids == 1..Len(calls)
Holding == {"first", "last", "sign", "wait", "refresh"}
Executed(c) == c.kind \in Handler

\* The wallet is only ever asked to sign for the account and the connection that the
\* call was made in, whatever was selected, disconnected or connected during its reads
\* ("Wallet account or network changed. Reconnect Ready before continuing.",
\* Strk20Testnet.tsx:1132).
AsksConnectedAccount ==
  \A i \in Ids : LET c == calls[i] IN
    Executed(c) /\ c.at # 0 => c.at = c.conn /\ c.from = owner[c.conn]

\* Two calls never hold one ref, of those that take it before their first await: the
\* captured busy flag alone would let them.
RefHeldOnce ==
  \A i, j \in Ids :
    LET c == calls[i]  d == calls[j] IN
    /\ Executed(c) /\ Executed(d) /\ c.pc \in Holding /\ d.pc \in Holding
    /\ Of(c).early /\ Of(d).early /\ LocksOf(c) \cap LocksOf(d) # {}
    => i = j

\* Once every call has ended nothing is left set that would refuse the next one, however
\* they overlapped and wherever they failed.
NothingLeftSet ==
  (\A i \in Ids : calls[i].pc \in {"held", "checking", "done"}) => locks = {} /\ ~busy
=============================================================================
