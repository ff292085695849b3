------------------------------ MODULE VesuMath ------------------------------
(***************************************************************************)
(* The fixed point arithmetic by which CAREL predicts what a Vesu pool will *)
(* do: amounts, shares, nominal debt and values are naturals, rates, prices,*)
(* loan to value and utilization are in units of Scale.                     *)
(***************************************************************************)
EXTENDS Integers

CONSTANTS
  Scale,         \* SCALE, 10^18 in the code
  BufferBps, Bps \* APPROVAL_BUFFER_BPS and BPS: 10 and 10000

ASSUME VesuMathAssumption ==
  Scale \in Nat \ {0} /\ BufferBps \in Nat /\ Bps \in Nat \ {0}

DivCeil(a, b) == (a + b - 1) \div b

\* calculateVesuDebt: the debt in asset units of nominal debt n at a rate.
CalculateDebt(n, rate) == (n * rate) \div Scale

\* The same as Vesu values it for solvency.
DebtRoundedUp(n, rate) == DivCeil(n * rate, Scale)

Value(amount, price) == (amount * price) \div Scale
ValueRoundedUp(amount, price) == DivCeil(amount * price, Scale)

Utilization(reserve, debt) ==
  IF reserve + debt = 0 THEN 0 ELSE (debt * Scale) \div (reserve + debt)

\* Mutant: the buffer is missing.
ApprovalCap_NoBuffer(debt) == debt + 1

\* closeApprovalCap: what a close may spend of the debt asset.
ApprovalCap(debt) == debt + DivCeil(debt * BufferBps, Bps) + 1

\* Shares are minted rounded down and burnt rounded up.
SharesToMint(amount, shares, assets) == (amount * shares) \div assets
SharesToBurn(amount, shares, assets) == DivCeil(amount * shares, assets)
AssetsOf(owned, shares, assets) == (owned * assets) \div shares
=============================================================================
