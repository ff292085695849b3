---------------------------- MODULE VesuPosition ----------------------------
(***************************************************************************)
(* One account's borrow position and lending deposit in one Vesu pool.  A   *)
(* dialog asks a route to prepare a payload; the route reads the pool,      *)
(* predicts what the pool would say and builds the calls; the wallet        *)
(* provider checks the payload again and asks the user to sign; the calls   *)
(* are executed later and in one transaction, on a pool that has moved on:  *)
(* interest accrues, the prices of both assets move, the pool is paused or  *)
(* an oracle fails, other users take liquidity, and another dialog's        *)
(* transaction goes first.                                                  *)
(*                                                                         *)
(* Addresses, calldata words and the checks that they are the reviewed ones *)
(* are left out, being what makes the calls signed the calls prepared.      *)
(***************************************************************************)
EXTENDS VesuMath, Sequences, FiniteSets

CONSTANTS
  Rate,              \* the rate accumulator, a sequence over time
  Price,             \* the oracle prices of the collateral and of the debt asset
  MaxLtv, MaxUtilization, Floor, DebtCap,  \* of the pair and its assets
  VaultCap,          \* the shares the vault can have
  Amount, AmountD,   \* the amounts typed, of collateral and of the debt asset
  Chains,            \* the pool, position and wallet at first
  MaxOpen, MaxMoves, MaxTxs   \* bounds

\* The pool, the position and the wallet: collateral shares and nominal debt of the
\* account, then those of the pool and what it holds of both assets, the vault's shares
\* and the account's, its balances and its allowances.
Chain ==
  [shares : Nat, nominal : Nat, sharesC : Nat, reserveC : Nat, borrowedC : Nat,
   reserveD : Nat, borrowedD : Nat, sharesD : Nat, vault : Nat,
   coll : Nat, debt : Nat, allowC : Nat, allowD : Nat, allowV : Nat]

ASSUME PoolAssumption ==
  /\ Rate \in Seq(Nat \ {0}) /\ Len(Rate) > 0
  /\ \A i, j \in DOMAIN Rate : i <= j => Rate[i] <= Rate[j]
  /\ Price \subseteq [coll : Nat \ {0}, debt : Nat \ {0}]
  /\ Amount \subseteq Nat \ {0} /\ AmountD \subseteq Nat \ {0}
  /\ {MaxLtv, MaxUtilization, Floor, DebtCap, VaultCap} \subseteq Nat

\* At first others have a share in the pool and in the vault, and nothing is approved.
ASSUME ChainsAssumption ==
  \A c \in Chains :
    /\ c \in Chain
    /\ c.shares < c.sharesC /\ c.nominal <= c.borrowedD /\ c.vault < c.sharesD
    /\ c.reserveC + CalculateDebt(c.borrowedC, Rate[1]) > 0
    /\ c.reserveD + CalculateDebt(c.borrowedD, Rate[1]) > 0
    /\ c.allowC = 0 /\ c.allowD = 0 /\ c.allowV = 0

VARIABLES
  now, price,        \* of the pool: an index of Rate, the oracle prices
  live,              \* the pool is not paused and both of its oracle prices are valid
  chain,             \* the pool, the position and the wallet
  moves, txs,        \* what others did to the pool, what this account executed
  known,             \* the balances the page shows, Unknown when unread
  dialog             \* one per kind: the payload it reviews or has signed

vars == <<now, price, live, chain, moves, txs, known, dialog>>

Kind == {"borrow", "repay", "add", "withdraw", "close", "lend", "redeem"}
Unknown == [read |-> FALSE, coll |-> 0, debt |-> 0]
Idle == [status |-> "idle"]

-----------------------------------------------------------------------------
(* The pool *)

DebtOf(n) == CalculateDebt(n, Rate[now])
Up(a, b) == IF a % b = 0 THEN a \div b ELSE a \div b + 1
DebtUp(n) == Up(n * Rate[now], Scale)
TotalCollateral(c) == c.reserveC + DebtOf(c.borrowedC)
CollateralOf(c, shares) == AssetsOf(shares, c.sharesC, TotalCollateral(c))
CollateralValue(c, shares) == Value(CollateralOf(c, shares), price.coll)
DebtValue(c) == ValueRoundedUp(DebtUp(c.nominal), price.debt)
VaultAssets(c) == c.reserveD + DebtOf(c.borrowedD)

Approve(token, amount) == [op |-> "approve", token |-> token, amount |-> amount]
Modify(coll, debt) == [op |-> "modify", coll |-> coll, debt |-> debt]
Deposit(amount) == [op |-> "deposit", amount |-> amount]
Redeem(shares) == [op |-> "redeem", amount |-> shares]

\* A denomination is Assets or, for a close, Native: shares and nominal debt.
Assets(value) == [native |-> FALSE, value |-> value]
Native(value) == [native |-> TRUE, value |-> value]

SharesMoved(c, x) ==
  CASE x.native -> x.value
    [] ~x.native /\ x.value >= 0 -> SharesToMint(x.value, c.sharesC, TotalCollateral(c))
    [] OTHER -> -Up(-x.value * c.sharesC, TotalCollateral(c))
CollateralMoved(c, x) == IF x.native THEN -CollateralOf(c, -x.value) ELSE x.value

NominalMoved(x) ==
  CASE x.native -> x.value
    [] ~x.native /\ x.value >= 0 -> Up(x.value * Scale, Rate[now])
    [] OTHER -> -((-x.value * Scale) \div Rate[now])
DebtMoved(x) == IF x.native THEN -DebtUp(-x.value) ELSE x.value

Modified(c, m) ==
  LET ds == SharesMoved(c, m.coll)  dc == CollateralMoved(c, m.coll)
      dn == NominalMoved(m.debt)    dd == DebtMoved(m.debt) IN
  [c EXCEPT !.shares = @ + ds, !.sharesC = @ + ds, !.reserveC = @ + dc, !.coll = @ - dc,
            !.nominal = @ + dn, !.borrowedD = @ + dn, !.reserveD = @ - dd, !.debt = @ + dd,
            !.allowC = IF dc > 0 THEN @ - dc ELSE @, !.allowD = IF dd < 0 THEN @ + dd ELSE @]

Solvent(c) == DebtValue(c) * Scale <= CollateralValue(c, c.shares) * MaxLtv
AboveFloor(c) == c.nominal > 0 => DebtValue(c) > Floor /\ CollateralValue(c, c.shares) > Floor
NothingNegative(c) == \A f \in DOMAIN c : c[f] >= 0

\* What the pool asserts when it has modified a position.
PoolAccepts(c, m) ==
  /\ live /\ NothingNegative(c) /\ c.sharesC > 0 /\ AboveFloor(c)
  /\ m.coll.value < 0 \/ m.debt.value > 0 => Solvent(c)
  /\ m.coll.value < 0 => Utilization(c.reserveC, DebtOf(c.borrowedC)) <= MaxUtilization
  /\ m.debt.value > 0 => /\ Utilization(c.reserveD, DebtOf(c.borrowedD)) <= MaxUtilization
                   /\ DebtOf(c.nominal) <= DebtCap

VaultShares(c, amount) == SharesToMint(amount, c.sharesD, VaultAssets(c))
VaultValue(c, shares) == AssetsOf(shares, c.sharesD, VaultAssets(c))

\* A deposit within the vault's max_deposit.
VaultRoom(c, amount) == c.sharesD + VaultShares(c, amount) <= VaultCap

Deposited(c, a) ==
  [c EXCEPT !.debt = @ - a, !.allowV = @ - a, !.reserveD = @ + a,
            !.vault = @ + VaultShares(c, a), !.sharesD = @ + VaultShares(c, a)]
Redeemed(c, s) ==
  [c EXCEPT !.debt = @ + VaultValue(c, s), !.reserveD = @ - VaultValue(c, s),
            !.vault = @ - s, !.sharesD = @ - s]

\* One call of a transaction: the state after it, or Reverted.
Reverted == [reverted |-> 0]
Run(c, call) ==
  CASE call.op = "approve" -> [c EXCEPT ![call.token] = call.amount]
    [] call.op = "modify" ->
         IF PoolAccepts(Modified(c, call), call) THEN Modified(c, call) ELSE Reverted
    [] call.op = "deposit" ->
         IF live /\ VaultRoom(c, call.amount) /\ NothingNegative(Deposited(c, call.amount))
         THEN Deposited(c, call.amount) ELSE Reverted
    [] call.op = "redeem" ->
         IF live /\ NothingNegative(Redeemed(c, call.amount)) THEN Redeemed(c, call.amount) ELSE Reverted

\* A transaction has at most three calls, and ends at one that reverts.
Then(c, calls, i) == IF c = Reverted \/ i > Len(calls) THEN c ELSE Run(c, calls[i])
Executed(calls) == Then(Then(Then(chain, calls, 1), calls, 2), calls, 3)

-----------------------------------------------------------------------------
(* The calls *)

BorrowCalls(c, d) == <<Approve("allowC", c), Modify(Assets(c), Assets(d))>>
RepayCalls(d) == <<Approve("allowD", d), Modify(Assets(0), Assets(-d))>>
AddCalls(c) == <<Approve("allowC", c), Modify(Assets(c), Assets(0))>>
WithdrawCalls(c) == <<Modify(Assets(-c), Assets(0))>>

\* Mutant: the allowance is not reset.
CloseCalls_KeepAllowance(s, n, cap) == <<Approve("allowD", cap), Modify(Native(-s), Native(-n))>>

\* Mutant: the collateral is taken out in asset units.
CloseCalls_Assets(s, n, cap) ==
  <<Approve("allowD", cap), Modify(Assets(-CollateralOf(chain, s)), Native(-n)), Approve("allowD", 0)>>

CloseCalls(s, n, cap) == <<Approve("allowD", cap), Modify(Native(-s), Native(-n)), Approve("allowD", 0)>>
LendCalls(d) == <<Approve("allowV", d), Deposit(d)>>
RedeemCalls(s) == <<Redeem(s)>>

-----------------------------------------------------------------------------
(* What the routes check before they build the calls.  All but the redeeming one read the
   pool's risk, which fails while the pool is paused or a price is not valid. *)

\* evaluateVesuBorrow looks at the new collateral and the new debt alone.
BorrowEligible(c, d) ==
  /\ live
  /\ Value(c, price.coll) > 0
  /\ (Value(d, price.debt) * Scale) \div Value(c, price.coll) < MaxLtv
  /\ d <= chain.reserveD
  /\ DebtOf(chain.nominal) + d <= DebtCap
  /\ ((DebtOf(chain.borrowedD) + d) * Scale) \div VaultAssets(chain) <= MaxUtilization

RepayAllowed(d) ==
  /\ live /\ d < DebtOf(chain.nominal)
  /\ ValueRoundedUp(DebtOf(chain.nominal) - d, price.debt) > Floor

AddAllowed == live /\ DebtOf(chain.nominal) > 0

\* The position after the withdrawal, rounded as the pool rounds it, is strictly within
\* the limits; the floor of its debt is not looked at.
WithdrawAllowed(c) ==
  LET burnt == SharesToBurn(c, chain.sharesC, TotalCollateral(chain))
      after == [chain EXCEPT !.shares = @ - burnt, !.sharesC = @ - burnt, !.reserveC = @ - c]
      value == CollateralValue(after, after.shares)
      debt  == ValueRoundedUp(DebtRoundedUp(chain.nominal, Rate[now]), price.debt) IN
  /\ AddAllowed /\ chain.shares > 0
  /\ c < CollateralOf(chain, chain.shares) /\ c <= chain.reserveC
  /\ burnt > 0 /\ burnt < chain.shares
  /\ TotalCollateral(after) > 0
  /\ value > Floor /\ DivCeil(debt * Scale, value) < MaxLtv
  /\ Utilization(after.reserveC, DebtOf(chain.borrowedC)) <= MaxUtilization

\* The reserve and the utilization of the collateral asset are not looked at.
CloseAllowed == live /\ DebtOf(chain.nominal) > 0 /\ chain.shares > 0

LendAllowed(d) == live /\ VaultRoom(chain, d) /\ VaultShares(chain, d) > 0
MaxRedeem == {s \in 0..chain.vault : live /\ VaultValue(chain, s) <= chain.reserveD}
RedeemAllowed(s) == s \in MaxRedeem /\ VaultValue(chain, s) > 0

-----------------------------------------------------------------------------
(* The dialogs *)

Init ==
  /\ now = 1 /\ price \in Price /\ live \in BOOLEAN /\ chain \in Chains
  /\ moves = 0 /\ txs = 0
  /\ known = Unknown
  /\ dialog = [k \in Kind |-> Idle]

\* A payload, the state of the world it was prepared in, what it spends and needs.
Payload(calls, coll, debt) ==
  [status |-> "reviewed", calls |-> calls, spends |-> [coll |-> coll, debt |-> debt],
   saw |-> [now |-> now, moves |-> moves, txs |-> txs, price |-> price.debt]]

Review(k, payload) ==
  /\ dialog[k] = Idle /\ Cardinality({j \in Kind : dialog[j] # Idle}) < MaxOpen
  /\ dialog' = [dialog EXCEPT ![k] = payload]
  /\ UNCHANGED <<now, price, live, chain, moves, txs, known>>

PrepareBorrow(c, d) == BorrowEligible(c, d) /\ Review("borrow", Payload(BorrowCalls(c, d), c, 0))
PrepareRepay(d) == RepayAllowed(d) /\ Review("repay", Payload(RepayCalls(d), 0, d))
PrepareAdd(c) == AddAllowed /\ Review("add", Payload(AddCalls(c), c, 0))
PrepareWithdraw(c) == WithdrawAllowed(c) /\ Review("withdraw", Payload(WithdrawCalls(c), 0, 0))
PrepareClose ==
  LET debt == DebtOf(chain.nominal) IN
  /\ CloseAllowed
  /\ Review("close", Payload(CloseCalls(chain.shares, chain.nominal, ApprovalCap(debt)), 0, debt))
PrepareLend(d) == LendAllowed(d) /\ Review("lend", Payload(LendCalls(d), 0, d))
PrepareRedeem(s) == RedeemAllowed(s) /\ Review("redeem", Payload(RedeemCalls(s), 0, 0))

\* The payload's window of 45 seconds ends, or the user closes the review.
Expire(k) ==
  /\ dialog[k].status = "reviewed"
  /\ dialog' = [dialog EXCEPT ![k] = Idle]
  /\ UNCHANGED <<now, price, live, chain, moves, txs, known>>

\* The wallet provider accepts the payload and the user signs it.
Sign(k) ==
  /\ dialog[k].status = "reviewed"
  /\ dialog' = [dialog EXCEPT ![k].status = "signed"]
  /\ UNCHANGED <<now, price, live, chain, moves, txs, known>>

\* A balance that is not known is not compared.
Affordable(k, asset) == known.read => known[asset] >= dialog[k].spends[asset]

SignBorrow == Sign("borrow") /\ Affordable("borrow", "coll")
SignRepay == Sign("repay") /\ Affordable("repay", "debt")
SignAdd == Sign("add") /\ Affordable("add", "coll")
SignWithdraw == Sign("withdraw")
SignClose == Sign("close") /\ Affordable("close", "debt")
SignLend == Sign("lend") /\ Affordable("lend", "debt")

\* The vault is read again.
SignRedeem == Sign("redeem") /\ dialog["redeem"].calls[1].amount \in MaxRedeem

Signing == \/ SignBorrow \/ SignRepay \/ SignAdd \/ SignWithdraw \/ SignClose
           \/ SignLend \/ SignRedeem

Shown(c) == [read |-> TRUE, coll |-> c.coll, debt |-> c.debt]

\* The transaction is executed and the balances are read again, if they can be.
Execute(k) ==
  LET result == Executed(dialog[k].calls) IN
  /\ dialog[k].status = "signed" /\ txs < MaxTxs
  /\ txs' = txs + 1
  /\ chain' = IF result = Reverted THEN chain ELSE result
  /\ dialog' = [dialog EXCEPT ![k] = Idle]
  /\ known' \in {known, Shown(chain')}
  /\ UNCHANGED <<now, price, live, moves>>

-----------------------------------------------------------------------------
(* The world *)

Accrue == /\ now < Len(Rate) /\ now' = now + 1
          /\ UNCHANGED <<price, live, chain, moves, txs, known, dialog>>

PriceMoves(p) == /\ moves < MaxMoves /\ p # price
                 /\ price' = p /\ moves' = moves + 1
                 /\ UNCHANGED <<now, live, chain, txs, known, dialog>>

\* The pool is paused or an oracle fails, or both are well again.
PoolTurns == /\ moves < MaxMoves
             /\ live' = ~live /\ moves' = moves + 1
             /\ UNCHANGED <<now, price, chain, txs, known, dialog>>

\* Others borrow some of the collateral asset or of the debt asset.
LiquidityTaken(c, d) ==
  /\ moves < MaxMoves /\ c <= chain.reserveC /\ d <= chain.reserveD /\ c + d > 0
  /\ moves' = moves + 1
  /\ chain' = [chain EXCEPT !.reserveC = @ - c, !.reserveD = @ - d,
                            !.borrowedC = @ + Up(c * Scale, Rate[now]),
                            !.borrowedD = @ + Up(d * Scale, Rate[now])]
  /\ UNCHANGED <<now, price, live, txs, known, dialog>>

Preparing ==
  \/ \E c \in Amount : PrepareAdd(c) \/ PrepareWithdraw(c) \/ \E d \in AmountD : PrepareBorrow(c, d)
  \/ \E d \in AmountD : PrepareRepay(d) \/ PrepareLend(d) \/ PrepareRedeem(d)
  \/ PrepareClose

World == \/ Accrue \/ (\E p \in Price : PriceMoves(p)) \/ PoolTurns
         \/ LiquidityTaken(1, 0) \/ LiquidityTaken(0, 1)

Next == Preparing \/ Signing \/ World \/ \E k \in Kind : Expire(k) \/ Execute(k)

Spec == Init /\ [][Next]_vars

-----------------------------------------------------------------------------
(* Properties *)

Ends(k) == dialog[k].status = "signed" /\ dialog'[k] = Idle
Reverts(k) == Ends(k) /\ Executed(dialog[k].calls) = Reverted
Seen(k) == dialog[k].saw

WalletShort(k) ==
  \/ chain.coll < dialog[k].spends.coll \/ chain.debt < dialog[k].spends.debt
  \/ k = "close" /\ chain.debt < DebtUp(chain.nominal)

\* The debt of the pair, or the utilization, is within the rounding of a borrow of its limit.
AtLimit(d) ==
  LET more == d + Up(Rate[now], Scale) IN
  \/ DebtOf(chain.nominal) + more > DebtCap
  \/ ((DebtOf(chain.borrowedD) + more) * Scale) \div VaultAssets(chain) > MaxUtilization

\* The interest since a review is more than the buffer of its approval.
Outgrown(debt) == DebtOf(chain.nominal) - debt > DivCeil(debt * BufferBps, Bps)

\* A borrow is evaluated without the position it adds to, the floor and the rounding of its
\* shares, a top-up without the floor, a repayment without that of the collateral, a close
\* without the reserve and the utilization of what it takes out.
NotLookedAt(k, after) ==
  \/ k \in {"borrow", "add"} /\ ~AboveFloor(after)
  \/ k = "borrow" /\ ~Solvent(after)
  \/ k = "borrow" /\ AtLimit(dialog[k].calls[2].debt.value)
  \/ k = "repay" /\ CollateralValue(after, after.shares) <= Floor
  \/ k = "close" /\ after.reserveC < 0
  \/ k = "close" /\ Utilization(after.reserveC, DebtOf(after.borrowedC)) > MaxUtilization

\* What the routes cannot know or do not look at.
Excused(k) ==
  \/ WalletShort(k) \/ txs # Seen(k).txs \/ ~live
  \/ k \in {"borrow", "withdraw", "redeem"} /\ moves # Seen(k).moves
  \/ k \in {"withdraw", "redeem"} /\ now # Seen(k).now
  \/ k = "repay" /\ price.debt < Seen(k).price
  \/ k = "close" /\ Outgrown(dialog[k].spends.debt)
  \/ k = "withdraw" /\ DebtValue(chain) <= Floor
  \/ k \in {"borrow", "repay", "add", "close"} /\ NotLookedAt(k, Modified(chain, dialog[k].calls[2]))

\* A payload that passed its route is executed, whatever the rounding: interest alone does
\* not make a borrow, a repayment, a top-up, a close or a deposit fail, nor does what others
\* do to the pool make one of the last four fail, but that the pool stops, the debt asset
\* falls in price after a repayment was reviewed, or the pool judges what the route does not.
PreparedHolds == [][\A k \in Kind : Reverts(k) => Excused(k)]_vars

\* No transaction leaves an allowance to the pool or the vault behind, also a close, which
\* approves more than it spends.
NoAllowanceLeft == chain.allowC = 0 /\ chain.allowD = 0 /\ chain.allowV = 0

\* A close leaves neither debt nor collateral, however much interest accrued after its
\* review ("Full repayment ... will use a separate Native-denomination close-position flow
\* so per-block interest cannot leave dusty debt", repay/prepare/route.ts:96).
CloseEmpties ==
  [][Ends("close") /\ ~Reverts("close") /\ txs = Seen("close").txs => chain'.shares = 0 /\ chain'.nominal = 0]_vars
=============================================================================
