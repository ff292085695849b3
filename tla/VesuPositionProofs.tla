------------------------ MODULE VesuPositionProofs -------------------------
(***************************************************************************)
(* Proofs about VesuPosition for every pool, position, price, amount and   *)
(* rate that does not fall.                                                *)
(*                                                                         *)
(* Three facts carry them.  The pool stays sound: others keep a share of   *)
(* it and of the vault, because what a call moves is rounded against the   *)
(* caller, so no total falls to zero under a remaining share.  Nothing is  *)
(* approved between transactions: a call spends what was approved to the   *)
(* unit, or the approval is reset.  And a payload still knows what its     *)
(* route saw, as long as nothing it depends on has changed since.          *)
(*                                                                         *)
(* That a payload is executed then compares, for each of the seven kinds,  *)
(* the divisions of its route with those of the pool.                      *)
(***************************************************************************)
EXTENDS VesuPosition, TLAPS

-----------------------------------------------------------------------------
(* Division *)

LEMMA DivFacts ==
  ASSUME NEW a \in Int, NEW b \in Nat \ {0}
  PROVE  /\ a \div b \in Int
         /\ b * (a \div b) <= a
         /\ a < b * (a \div b) + b
OBVIOUS

LEMMA MulMono ==
  ASSUME NEW a \in Int, NEW b \in Int, NEW c \in Nat, a <= b
  PROVE  a * c <= b * c
OBVIOUS

LEMMA MulStrict ==
  ASSUME NEW a \in Int, NEW b \in Int, NEW c \in Nat \ {0}, a < b
  PROVE  a * c < b * c
OBVIOUS

\* The quotient is the greatest number that b can be multiplied with.
LEMMA DivGreatest ==
  ASSUME NEW a \in Int, NEW b \in Nat \ {0}, NEW q \in Int, b * q <= a
  PROVE  q <= a \div b
<1>1. a < b * (a \div b) + b /\ (a \div b) \in Int
  BY DivFacts
<1>2. SUFFICES ASSUME (a \div b) + 1 <= q PROVE FALSE
  BY <1>1
<1>3. ((a \div b) + 1) * b <= q * b
  BY <1>1, <1>2, MulMono
<1>4. QED
  BY <1>1, <1>3

LEMMA DivLess ==
  ASSUME NEW a \in Int, NEW b \in Nat \ {0}, NEW q \in Int, a < b * q
  PROVE  a \div b < q
<1>1. b * (a \div b) <= a /\ (a \div b) \in Int
  BY DivFacts
<1>2. SUFFICES ASSUME q <= a \div b PROVE FALSE
  BY <1>1
<1>3. q * b <= (a \div b) * b
  BY <1>1, <1>2, MulMono
<1>4. QED
  BY <1>1, <1>3

LEMMA DivMono ==
  ASSUME NEW a \in Int, NEW c \in Int, NEW b \in Nat \ {0}, a <= c
  PROVE  a \div b <= c \div b
<1>1. b * (a \div b) <= a /\ (a \div b) \in Int
  BY DivFacts
<1>2. QED
  BY <1>1, DivGreatest

LEMMA DivNat ==
  ASSUME NEW a \in Nat, NEW b \in Nat \ {0}
  PROVE  a \div b \in Nat
OBVIOUS

\* A greater divisor does not give more.
LEMMA DivAnti ==
  ASSUME NEW a \in Nat, NEW b \in Nat \ {0}, NEW c \in Nat \ {0}, b <= c
  PROVE  a \div c <= a \div b
<1>1. c * (a \div c) <= a /\ (a \div c) \in Nat
  BY DivFacts, DivNat
<1>2. b * (a \div c) <= c * (a \div c)
  BY <1>1, MulMono
<1>3. b * (a \div c) \in Int /\ c * (a \div c) \in Int
  BY <1>1
<1>4. QED
  BY <1>1, <1>2, <1>3, DivGreatest

LEMMA UpFacts ==
  ASSUME NEW a \in Int, NEW b \in Nat \ {0}
  PROVE  /\ Up(a, b) \in Int
         /\ a <= b * Up(a, b)
         /\ b * Up(a, b) < a + b
<1>1. (a % b) \in 0..(b - 1) /\ a = b * (a \div b) + (a % b) /\ (a \div b) \in Int
  OBVIOUS
<1>2. CASE (a % b) = 0
  BY <1>1, <1>2 DEF Up
<1>3. CASE (a % b) # 0
  <2>1. Up(a, b) = (a \div b) + 1
    BY <1>3 DEF Up
  <2>2. b * ((a \div b) + 1) = b * (a \div b) + b
    BY <1>1
  <2>3. QED
    BY <1>1, <1>3, <2>1, <2>2
<1>4. QED
  BY <1>2, <1>3

\* Rounded up is the least number that is enough.
LEMMA UpLeast ==
  ASSUME NEW a \in Int, NEW b \in Nat \ {0}, NEW q \in Int, a <= b * q
  PROVE  Up(a, b) <= q
<1>1. b * Up(a, b) < a + b /\ Up(a, b) \in Int
  BY UpFacts
<1>2. SUFFICES ASSUME q <= Up(a, b) - 1 PROVE FALSE
  BY <1>1
<1>3. q * b <= (Up(a, b) - 1) * b
  BY <1>1, <1>2, MulMono
<1>4. QED
  BY <1>1, <1>3

LEMMA UpMono ==
  ASSUME NEW a \in Int, NEW c \in Int, NEW b \in Nat \ {0}, a <= c
  PROVE  Up(a, b) <= Up(c, b)
<1>1. c <= b * Up(c, b) /\ Up(c, b) \in Int
  BY UpFacts
<1>2. QED
  BY <1>1, UpLeast

LEMMA UpNat ==
  ASSUME NEW a \in Nat, NEW b \in Nat \ {0}
  PROVE  Up(a, b) \in Nat /\ (a > 0 => Up(a, b) > 0)
<1>1. Up(a, b) \in Int /\ a <= b * Up(a, b)
  BY UpFacts
<1>2. ASSUME Up(a, b) <= 0 PROVE a <= 0
  <2>1. Up(a, b) * b <= 0 * b
    BY <1>1, <1>2, MulMono
  <2>2. QED
    BY <1>1, <2>1
<1>3. ASSUME Up(a, b) <= -1 PROVE FALSE
  <2>1. Up(a, b) * b <= (-1) * b
    BY <1>1, <1>3, MulMono
  <2>2. QED
    BY <1>1, <2>1
<1>4. QED
  BY <1>1, <1>2, <1>3

LEMMA UpEnough ==
  ASSUME NEW a \in Nat, NEW b \in Nat \ {0}
  PROVE  Up(a, b) \in Nat /\ a <= b * Up(a, b)
<1>1. a \in Int
  OBVIOUS
<1>2. a <= b * Up(a, b)
  BY <1>1, UpFacts
<1>3. QED
  BY <1>2, UpNat

\* The two ways to round up, of the code and of the pool, agree.
LEMMA CeilIsUp ==
  ASSUME NEW a \in Nat, NEW b \in Nat \ {0}
  PROVE  DivCeil(a, b) = Up(a, b)
<1> DEFINE q == Up(a, b)
<1>1. q \in Int /\ a <= b * q /\ b * q < a + b
  BY UpFacts
<1> HIDE DEF q
<1>2. q <= (a + b - 1) \div b
  <2>1. b * q <= a + b - 1 /\ (a + b - 1) \in Int
    BY <1>1
  <2>2. QED
    BY <1>1, <2>1, DivGreatest
<1>3. (a + b - 1) \div b < q + 1
  <2>1. a + b - 1 < b * (q + 1) /\ (a + b - 1) \in Int
    BY <1>1
  <2>2. QED
    BY <1>1, <2>1, DivLess
<1>4. ((a + b - 1) \div b) \in Int
  BY DivFacts
<1>5. QED
  BY <1>1, <1>2, <1>3, <1>4 DEF DivCeil, q

-----------------------------------------------------------------------------
(* Debt at a rate *)

LEMMA ScalePos == Scale \in Nat \ {0}
BY VesuMathAssumption

LEMMA ProductNat ==
  ASSUME NEW a \in Nat, NEW b \in Nat
  PROVE  a * b \in Nat
OBVIOUS

LEMMA DebtFacts ==
  ASSUME NEW n \in Nat, NEW r \in Nat
  PROVE  /\ CalculateDebt(n, r) \in Nat
         /\ Scale * CalculateDebt(n, r) <= n * r
         /\ n * r < Scale * CalculateDebt(n, r) + Scale
<1>1. n * r \in Nat
  BY ProductNat
<1>2. QED
  BY <1>1, ScalePos, DivFacts, DivNat DEF CalculateDebt

LEMMA DebtNat ==
  ASSUME NEW n \in Nat, NEW r \in Nat
  PROVE  CalculateDebt(n, r) \in Nat
BY DebtFacts

\* It does not fall when the rate rises.
LEMMA DebtGrows ==
  ASSUME NEW n \in Nat, NEW q \in Nat, NEW r \in Nat, q <= r
  PROVE  CalculateDebt(n, q) <= CalculateDebt(n, r)
<1>1. n * q <= n * r /\ n * q \in Nat /\ n * r \in Nat
  BY MulMono, ProductNat
<1>2. QED
  BY <1>1, ScalePos, DivMono DEF CalculateDebt

\* Rounded up it is at most one more.
LEMMA RoundedNear ==
  ASSUME NEW n \in Nat, NEW r \in Nat
  PROVE  /\ Up(n * r, Scale) \in Nat
         /\ CalculateDebt(n, r) <= Up(n * r, Scale)
         /\ Up(n * r, Scale) <= CalculateDebt(n, r) + 1
<1> DEFINE q == CalculateDebt(n, r)
<1>1. q \in Nat /\ Scale * q <= n * r /\ n * r < Scale * q + Scale /\ n * r \in Nat
  BY DebtFacts, ProductNat
<1> HIDE DEF q
<1>2. Up(n * r, Scale) \in Nat /\ n * r <= Scale * Up(n * r, Scale)
  BY <1>1, ScalePos, UpFacts, UpNat
<1>3. Up(n * r, Scale) <= q + 1
  <2>1. n * r <= Scale * (q + 1)
    BY <1>1, ScalePos
  <2>2. QED
    BY <1>1, <2>1, ScalePos, UpLeast
<1>4. q <= Up(n * r, Scale)
  <2>1. Scale * q <= Scale * Up(n * r, Scale)
    BY <1>1, <1>2, ScalePos
  <2>2. SUFFICES ASSUME Up(n * r, Scale) < q PROVE FALSE
    BY <1>1, <1>2
  <2>3. Up(n * r, Scale) * Scale < q * Scale
    BY <1>1, <1>2, <2>2, ScalePos, MulStrict
  <2>4. QED
    BY <1>1, <1>2, <2>1, <2>3, ScalePos
<1>5. QED
  BY <1>2, <1>3, <1>4 DEF q

\* Borrowing d, in nominal debt rounded up, adds at least d and at most a unit of
\* nominal debt more.
LEMMA DebtAdded ==
  ASSUME NEW n \in Nat, NEW d \in Nat, NEW r \in Nat \ {0}
  PROVE  LET u == Up(d * Scale, r) IN
         /\ u \in Nat
         /\ CalculateDebt(n, r) + d <= CalculateDebt(n + u, r)
         /\ CalculateDebt(n + u, r) <= CalculateDebt(n, r) + d + Up(r, Scale)
<1> DEFINE u == Up(d * Scale, r)
           q == CalculateDebt(n, r)
           e == Up(r, Scale)
<1>1. d * Scale \in Nat
  BY ScalePos, ProductNat
<1>2. u \in Nat /\ d * Scale <= r * u /\ r * u < d * Scale + r
  BY <1>1, UpFacts, UpNat
<1>3. q \in Nat /\ Scale * q <= n * r /\ n * r < Scale * q + Scale /\ n * r \in Nat
  BY DebtFacts, ProductNat
<1>4. e \in Nat /\ r <= Scale * e
  BY ScalePos, UpFacts, UpNat
<1> HIDE DEF u, q, e
<1>5. (n + u) * r = n * r + r * u /\ (n + u) * r \in Nat /\ n + u \in Nat
  BY <1>2, <1>3
<1>6. q + d <= ((n + u) * r) \div Scale
  <2>1. Scale * (q + d) <= (n + u) * r
    BY <1>2, <1>3, <1>5, ScalePos
  <2>2. q + d \in Int /\ (n + u) * r \in Int
    BY <1>3, <1>5
  <2>3. QED
    BY <2>1, <2>2, ScalePos, DivGreatest
<1>7. ((n + u) * r) \div Scale < q + d + e + 1
  <2>1. (n + u) * r < Scale * (q + d + e + 1)
    <3>1. Scale * (q + d + e + 1) = Scale * q + d * Scale + Scale * e + Scale
      BY <1>3, <1>4, ScalePos
    <3>2. QED
      BY <1>2, <1>3, <1>4, <1>5, <3>1, ScalePos
  <2>2. q + d + e + 1 \in Int /\ (n + u) * r \in Int
    BY <1>3, <1>4, <1>5
  <2>3. QED
    BY <2>1, <2>2, ScalePos, DivLess
<1>8. CalculateDebt(n + u, r) = ((n + u) * r) \div Scale /\ ((n + u) * r) \div Scale \in Int
  BY <1>5, ScalePos, DivFacts DEF CalculateDebt
<1>9. QED
  BY <1>2, <1>3, <1>4, <1>6, <1>7, <1>8 DEF u, q, e

\* Repaying d, in nominal debt rounded down, takes at most d away, rounded either way.
LEMMA DebtTaken ==
  ASSUME NEW n \in Nat, NEW d \in Nat, NEW r \in Nat \ {0},
         (d * Scale) \div r <= n
  PROVE  LET u == (d * Scale) \div r IN
         /\ u \in Nat
         /\ CalculateDebt(n, r) - d <= CalculateDebt(n - u, r)
         /\ CalculateDebt(n, r) - d <= Up((n - u) * r, Scale)
<1> DEFINE u == (d * Scale) \div r
           q == CalculateDebt(n, r)
<1>1. d * Scale \in Nat
  BY ScalePos, ProductNat
<1>2. u \in Nat /\ r * u <= d * Scale /\ u <= n
  BY <1>1, DivFacts, DivNat
<1>3. q \in Nat /\ Scale * q <= n * r /\ n * r \in Nat
  BY DebtFacts, ProductNat
<1> HIDE DEF u, q
<1>4. (n - u) * r = n * r - r * u /\ n - u \in Nat
  BY <1>2
<1>5. Scale * (q - d) <= (n - u) * r /\ (n - u) * r \in Int /\ q - d \in Int
  BY <1>2, <1>3, <1>4, ScalePos
<1>6. q - d <= ((n - u) * r) \div Scale
  BY <1>5, ScalePos, DivGreatest
<1>7. CalculateDebt(n - u, r) <= Up((n - u) * r, Scale)
  BY <1>4, RoundedNear
<1>8. CalculateDebt(n - u, r) \in Nat /\ Up((n - u) * r, Scale) \in Nat
  BY <1>4, DebtFacts, RoundedNear
<1>9. QED
  BY <1>2, <1>3, <1>6, <1>7, <1>8 DEF u, q, CalculateDebt

\* Nominal debt paid off, rounded up in assets, leaves the pool no poorer.
LEMMA DebtPaid ==
  ASSUME NEW b \in Nat, NEW n \in 0..b, NEW r \in Nat
  PROVE  CalculateDebt(b, r) <= CalculateDebt(b - n, r) + Up(n * r, Scale)
<1> DEFINE q == CalculateDebt(b, r)
           p == Up(n * r, Scale)
<1>1. n \in Nat /\ b * r \in Nat /\ n * r \in Nat
  BY ProductNat
<1>2. q \in Nat /\ Scale * q <= b * r
  BY DebtFacts
<1>3. p \in Nat /\ n * r <= Scale * p
  BY <1>1, ScalePos, UpFacts, UpNat
<1> HIDE DEF q, p
<1>4. Scale * (q - p) <= (b - n) * r /\ (b - n) * r \in Int /\ q - p \in Int
  BY <1>1, <1>2, <1>3, ScalePos
<1>5. q - p <= ((b - n) * r) \div Scale
  BY <1>4, ScalePos, DivGreatest
<1>6. ((b - n) * r) \div Scale \in Int
  BY <1>4, ScalePos, DivFacts
<1>7. QED
  BY <1>1, <1>2, <1>3, <1>5, <1>6 DEF q, p, CalculateDebt

\* A repayment below a debt that has only grown since is below the nominal debt.
LEMMA RepayBelow ==
  ASSUME NEW n \in Nat, NEW d \in Nat, NEW q \in Nat, NEW r \in Nat \ {0}, q <= r,
         d < CalculateDebt(n, q)
  PROVE  (d * Scale) \div r < n
<1>1. CalculateDebt(n, q) <= CalculateDebt(n, r) /\ CalculateDebt(n, q) \in Nat
  BY DebtGrows, DebtFacts
<1>2. CalculateDebt(n, r) \in Nat /\ Scale * CalculateDebt(n, r) <= n * r
  BY DebtFacts
<1>3. d * Scale < CalculateDebt(n, r) * Scale
  <2>1. d < CalculateDebt(n, r)
    BY <1>1, <1>2
  <2>2. QED
    BY <1>2, <2>1, ScalePos, MulStrict
<1>4. d * Scale < r * n /\ d * Scale \in Int
  BY <1>2, <1>3, ScalePos
<1>5. QED
  BY <1>4, DivLess

-----------------------------------------------------------------------------
(* The pool *)

\* What holds of the pool, the position and the wallet between transactions, the
\* allowances apart.
Sound(c) ==
  /\ c \in Chain
  /\ c.shares < c.sharesC /\ c.nominal <= c.borrowedD /\ c.vault < c.sharesD
  /\ TotalCollateral(c) > 0 /\ VaultAssets(c) > 0

Today == now \in DOMAIN Rate

LEMMA RateFacts ==
  ASSUME NEW i \in DOMAIN Rate
  PROVE  /\ i \in Nat \ {0} /\ Rate[i] \in Nat \ {0}
         /\ \A j \in DOMAIN Rate : i <= j => Rate[i] <= Rate[j]
BY PoolAssumption

Fields == {"shares", "nominal", "sharesC", "reserveC", "borrowedC", "reserveD", "borrowedD",
           "sharesD", "vault", "coll", "debt", "allowC", "allowD", "allowV"}

\* A record of naturals of these fields is a chain, and a chain is one.
LEMMA InChain ==
  ASSUME NEW c, c = [f \in Fields |-> c[f]], \A f \in Fields : c[f] \in Nat
  PROVE  c \in Chain
<1>1. c = [shares |-> c["shares"], nominal |-> c["nominal"], sharesC |-> c["sharesC"],
           reserveC |-> c["reserveC"], borrowedC |-> c["borrowedC"],
           reserveD |-> c["reserveD"], borrowedD |-> c["borrowedD"],
           sharesD |-> c["sharesD"], vault |-> c["vault"], coll |-> c["coll"],
           debt |-> c["debt"], allowC |-> c["allowC"], allowD |-> c["allowD"],
           allowV |-> c["allowV"]]
  BY DEF Fields
<1>2. QED
  BY <1>1 DEF Chain, Fields

\* The fields of a modified position, and that the pool's check of the signs types it.
LEMMA ModifiedFields ==
  ASSUME NEW c \in Chain, NEW m,
         SharesMoved(c, m.coll) \in Int, CollateralMoved(c, m.coll) \in Int,
         NominalMoved(m.debt) \in Int, DebtMoved(m.debt) \in Int
  PROVE  LET a  == Modified(c, m)
             ds == SharesMoved(c, m.coll)  dc == CollateralMoved(c, m.coll)
             dn == NominalMoved(m.debt)    dd == DebtMoved(m.debt) IN
         /\ a.shares = c.shares + ds /\ a.sharesC = c.sharesC + ds
         /\ a.reserveC = c.reserveC + dc /\ a.coll = c.coll - dc
         /\ a.nominal = c.nominal + dn /\ a.borrowedD = c.borrowedD + dn
         /\ a.reserveD = c.reserveD - dd /\ a.debt = c.debt + dd
         /\ a.allowC = (IF dc > 0 THEN c.allowC - dc ELSE c.allowC)
         /\ a.allowD = (IF dd < 0 THEN c.allowD + dd ELSE c.allowD)
         /\ a.borrowedC = c.borrowedC /\ a.sharesD = c.sharesD
         /\ a.vault = c.vault /\ a.allowV = c.allowV
         /\ NothingNegative(a) => a \in Chain
         /\ (/\ a.shares >= 0 /\ a.sharesC >= 0 /\ a.reserveC >= 0 /\ a.coll >= 0
             /\ a.nominal >= 0 /\ a.borrowedD >= 0 /\ a.reserveD >= 0 /\ a.debt >= 0
             /\ a.allowC >= 0 /\ a.allowD >= 0) => NothingNegative(a)
<1> DEFINE ds == SharesMoved(c, m.coll)  dc == CollateralMoved(c, m.coll)
           dn == NominalMoved(m.debt)    dd == DebtMoved(m.debt)
<1> DEFINE a == Modified(c, m)
<1>1. /\ a.shares = c.shares + ds /\ a.sharesC = c.sharesC + ds
      /\ a.reserveC = c.reserveC + dc /\ a.coll = c.coll - dc
      /\ a.nominal = c.nominal + dn /\ a.borrowedD = c.borrowedD + dn
      /\ a.reserveD = c.reserveD - dd /\ a.debt = c.debt + dd
      /\ a.allowC = (IF dc > 0 THEN c.allowC - dc ELSE c.allowC)
      /\ a.allowD = (IF dd < 0 THEN c.allowD + dd ELSE c.allowD)
      /\ a.borrowedC = c.borrowedC /\ a.sharesD = c.sharesD
      /\ a.vault = c.vault /\ a.allowV = c.allowV
  BY DEF Modified, Chain
<1>2. a = [f \in Fields |-> a[f]] /\ DOMAIN a = Fields
  BY DEF Modified, Chain, Fields
<1>3. NothingNegative(a) <=> \A f \in Fields : a[f] >= 0
  BY <1>2 DEF NothingNegative
<1> HIDE DEF a
<1>4. (\A f \in Fields : a[f] \in Nat) => a \in Chain
  BY <1>2, InChain
<1>5. \A f \in Fields : a[f] \in Int
  BY <1>1 DEF Fields, Chain
<1>6. QED
  BY <1>1, <1>3, <1>4, <1>5 DEF a, Fields, Chain
LEMMA TotalFacts ==
  ASSUME NEW c \in Chain, Today
  PROVE  TotalCollateral(c) \in Nat /\ VaultAssets(c) \in Nat
<1>1. /\ c.borrowedC \in Nat /\ c.borrowedD \in Nat /\ c.reserveC \in Nat /\ c.reserveD \in Nat
      /\ Rate[now] \in Nat
  BY RateFacts DEF Chain, Today
<1>2. DebtOf(c.borrowedC) \in Nat /\ DebtOf(c.borrowedD) \in Nat
  BY <1>1, DebtNat DEF DebtOf
<1>3. QED
  BY <1>1, <1>2 DEF TotalCollateral, VaultAssets

\* What a movement of collateral and one of debt do to the pool: a pool with a share left
\* has collateral left, and the vault is no poorer.
CollateralFair(c, x) ==
  /\ SharesMoved(c, x) \in Int /\ CollateralMoved(c, x) \in Int
  /\ c.sharesC + SharesMoved(c, x) > 0 => TotalCollateral(c) + CollateralMoved(c, x) > 0

DebtFair(c, x) ==
  /\ NominalMoved(x) \in Int /\ DebtMoved(x) \in Int
  /\ c.borrowedD + NominalMoved(x) >= 0
       => DebtOf(c.borrowedD) <= DebtOf(c.borrowedD + NominalMoved(x)) - DebtMoved(x)

LEMMA MovesIn ==
  ASSUME NEW c \in Chain, Today, TotalCollateral(c) > 0, NEW v \in Nat
  PROVE  /\ SharesMoved(c, Assets(v)) \in Nat /\ CollateralMoved(c, Assets(v)) = v
         /\ v = 0 => SharesMoved(c, Assets(v)) = 0
         /\ CollateralFair(c, Assets(v))
<1>1. c.sharesC \in Nat /\ TotalCollateral(c) \in Nat \ {0} /\ v * c.sharesC \in Nat
  BY TotalFacts, ProductNat DEF Chain
<1>2. SharesMoved(c, Assets(v)) = (v * c.sharesC) \div TotalCollateral(c)
  BY DEF SharesMoved, Assets, SharesToMint
<1>3. CollateralMoved(c, Assets(v)) = v
  BY DEF CollateralMoved, Assets
<1>4. SharesMoved(c, Assets(v)) \in Nat
  BY <1>1, <1>2, DivNat
<1>5. v = 0 => SharesMoved(c, Assets(v)) = 0
  <2>1. SUFFICES ASSUME v = 0 PROVE 0 \div TotalCollateral(c) = 0
    BY <1>1, <1>2
  <2>2. QED
    BY <1>1
<1>6. QED
  BY <1>1, <1>3, <1>4, <1>5 DEF CollateralFair

LEMMA MovesOut ==
  ASSUME NEW c \in Chain, Today, TotalCollateral(c) > 0, NEW v \in Nat \ {0}
  PROVE  /\ SharesMoved(c, Assets(-v)) = -Up(v * c.sharesC, TotalCollateral(c))
         /\ CollateralMoved(c, Assets(-v)) = -v
         /\ CollateralFair(c, Assets(-v))
<1> DEFINE t == TotalCollateral(c)
           u == Up(v * c.sharesC, t)
<1>1. c.sharesC \in Nat /\ t \in Nat \ {0} /\ v * c.sharesC \in Nat
  BY TotalFacts, ProductNat DEF Chain
<1>2. u \in Nat /\ v * c.sharesC <= t * u
  BY <1>1, UpEnough
<1>3. SharesMoved(c, Assets(-v)) = -u
  <2>1. -Assets(-v).value * c.sharesC = v * c.sharesC
    BY <1>1 DEF Assets
  <2>2. SharesMoved(c, Assets(-v)) = -Up(-Assets(-v).value * c.sharesC, t)
    BY DEF SharesMoved, Assets
  <2>3. QED
    BY <2>1, <2>2
<1>4. CollateralMoved(c, Assets(-v)) = -v
  BY DEF CollateralMoved, Assets
<1> HIDE DEF t, u
<1>5. ASSUME c.sharesC - u > 0, t - v <= 0 PROVE FALSE
  <2>1. t * c.sharesC <= v * c.sharesC
    BY <1>1, <1>5, MulMono
  <2>2. u * t < c.sharesC * t
    BY <1>1, <1>2, <1>5, MulStrict
  <2>3. QED
    BY <1>1, <1>2, <2>1, <2>2
<1>6. QED
  BY <1>1, <1>2, <1>3, <1>4, <1>5 DEF CollateralFair, t, u

LEMMA MovesNative ==
  ASSUME NEW c \in Chain, Today, TotalCollateral(c) > 0, c.sharesC > 0, NEW s \in Nat
  PROVE  /\ SharesMoved(c, Native(-s)) = -s
         /\ CollateralOf(c, s) \in Nat
         /\ CollateralMoved(c, Native(-s)) = -CollateralOf(c, s)
         /\ CollateralFair(c, Native(-s))
<1> DEFINE t == TotalCollateral(c)
           q == CollateralOf(c, s)
<1>1. c.sharesC \in Nat \ {0} /\ t \in Nat \ {0} /\ s * t \in Nat
  BY TotalFacts, ProductNat DEF Chain
<1>2. q = (s * t) \div c.sharesC /\ q \in Nat
  BY <1>1, DivNat DEF CollateralOf, AssetsOf
<1>3. SharesMoved(c, Native(-s)) = -s
  BY DEF SharesMoved, Native
<1>4. CollateralMoved(c, Native(-s)) = -q
  BY DEF CollateralMoved, Native
<1> HIDE DEF t, q
<1>5. ASSUME s < c.sharesC PROVE q < t
  <2>1. s * t < c.sharesC * t
    BY <1>1, <1>5, MulStrict
  <2>2. QED
    BY <1>1, <1>2, <2>1, DivLess
<1>6. QED
  BY <1>1, <1>2, <1>3, <1>4, <1>5 DEF CollateralFair, t, q

LEMMA Borrows ==
  ASSUME NEW c \in Chain, Today, NEW d \in Nat
  PROVE  /\ NominalMoved(Assets(d)) = Up(d * Scale, Rate[now]) /\ NominalMoved(Assets(d)) \in Nat
         /\ DebtMoved(Assets(d)) = d
         /\ d = 0 => NominalMoved(Assets(d)) = 0
         /\ DebtFair(c, Assets(d))
<1> DEFINE u == Up(d * Scale, Rate[now])
<1>1. c.borrowedD \in Nat /\ Rate[now] \in Nat \ {0} /\ d * Scale \in Nat
  BY RateFacts, ScalePos, ProductNat DEF Chain, Today
<1>2. NominalMoved(Assets(d)) = u
  BY DEF NominalMoved, Assets
<1>3. DebtMoved(Assets(d)) = d
  BY DEF DebtMoved, Assets
<1>4. u \in Nat /\ CalculateDebt(c.borrowedD, Rate[now]) + d <= CalculateDebt(c.borrowedD + u, Rate[now])
  BY <1>1, DebtAdded
<1>5. d = 0 => u = 0
  <2>1. SUFFICES ASSUME d = 0 PROVE Up(0, Rate[now]) = 0
    BY <1>1, ScalePos
  <2>2. Up(0, Rate[now]) <= 0 /\ Up(0, Rate[now]) \in Nat
    BY <1>1, UpLeast, UpNat
  <2>3. QED
    BY <2>2
<1> HIDE DEF u
<1>6. CalculateDebt(c.borrowedD, Rate[now]) \in Nat /\ CalculateDebt(c.borrowedD + u, Rate[now]) \in Nat
  <2>1. c.borrowedD + u \in Nat
    BY <1>1, <1>4
  <2>2. QED
    BY <1>1, <2>1, DebtNat
<1>7. QED
  BY <1>1, <1>2, <1>3, <1>4, <1>5, <1>6 DEF DebtFair, DebtOf, u

LEMMA Repays ==
  ASSUME NEW c \in Chain, Today, NEW d \in Nat \ {0}
  PROVE  /\ NominalMoved(Assets(-d)) = -((d * Scale) \div Rate[now])
         /\ (d * Scale) \div Rate[now] \in Nat
         /\ DebtMoved(Assets(-d)) = -d
         /\ DebtFair(c, Assets(-d))
<1> DEFINE u == (d * Scale) \div Rate[now]
<1>1. c.borrowedD \in Nat /\ Rate[now] \in Nat \ {0} /\ d * Scale \in Nat
  BY RateFacts, ScalePos, ProductNat DEF Chain, Today
<1>2. NominalMoved(Assets(-d)) = -u
  <2>1. -Assets(-d).value * Scale = d * Scale
    BY <1>1, ScalePos DEF Assets
  <2>2. NominalMoved(Assets(-d)) = -((-Assets(-d).value * Scale) \div Rate[now])
    BY DEF NominalMoved, Assets
  <2>3. QED
    BY <2>1, <2>2
<1>3. DebtMoved(Assets(-d)) = -d
  BY DEF DebtMoved, Assets
<1>4. u \in Nat
  BY <1>1, DivNat
<1>5. ASSUME u <= c.borrowedD
      PROVE  CalculateDebt(c.borrowedD, Rate[now]) - d <= CalculateDebt(c.borrowedD - u, Rate[now])
  BY <1>1, <1>5, DebtTaken
<1> HIDE DEF u
<1>6. CalculateDebt(c.borrowedD, Rate[now]) \in Nat
      /\ (u <= c.borrowedD => CalculateDebt(c.borrowedD - u, Rate[now]) \in Nat)
  <2>1. u <= c.borrowedD => c.borrowedD - u \in Nat
    BY <1>1, <1>4
  <2>2. QED
    BY <1>1, <2>1, DebtNat
<1>7. ASSUME c.borrowedD + (-u) >= 0 PROVE u <= c.borrowedD /\ c.borrowedD + (-u) = c.borrowedD - u
  BY <1>1, <1>4, <1>7
<1>8. QED
  BY <1>1, <1>2, <1>3, <1>4, <1>5, <1>6, <1>7 DEF DebtFair, DebtOf, u

LEMMA PaysOff ==
  ASSUME NEW c \in Chain, Today, NEW n \in Nat
  PROVE  /\ NominalMoved(Native(-n)) = -n
         /\ DebtUp(n) \in Nat
         /\ DebtMoved(Native(-n)) = -DebtUp(n)
         /\ DebtFair(c, Native(-n))
<1> DEFINE p == DebtUp(n)
<1>1. c.borrowedD \in Nat /\ Rate[now] \in Nat \ {0}
  BY RateFacts DEF Chain, Today
<1>2. NominalMoved(Native(-n)) = -n
  BY DEF NominalMoved, Native
<1>3. DebtMoved(Native(-n)) = -p
  BY DEF DebtMoved, Native
<1>4. p \in Nat
  BY <1>1, RoundedNear DEF DebtUp
<1>5. ASSUME n <= c.borrowedD
      PROVE  CalculateDebt(c.borrowedD, Rate[now]) <= CalculateDebt(c.borrowedD - n, Rate[now]) + p
  <2>1. n \in 0..c.borrowedD
    BY <1>1, <1>5
  <2>2. QED
    BY <1>1, <2>1, DebtPaid DEF DebtUp
<1> HIDE DEF p
<1>6. CalculateDebt(c.borrowedD, Rate[now]) \in Nat
      /\ (n <= c.borrowedD => CalculateDebt(c.borrowedD - n, Rate[now]) \in Nat)
  <2>1. n <= c.borrowedD => c.borrowedD - n \in Nat
    BY <1>1
  <2>2. QED
    BY <1>1, <2>1, DebtNat
<1>7. ASSUME c.borrowedD + (-n) >= 0 PROVE n <= c.borrowedD /\ c.borrowedD + (-n) = c.borrowedD - n
  BY <1>1, <1>7
<1>8. QED
  BY <1>1, <1>2, <1>3, <1>4, <1>5, <1>6, <1>7 DEF DebtFair, DebtOf, p

\* A movement the pool accepts leaves it sound.
LEMMA ModifiedSound ==
  ASSUME NEW c, Sound(c), Today, NEW m, CollateralFair(c, m.coll), DebtFair(c, m.debt),
         PoolAccepts(Modified(c, m), m)
  PROVE  Sound(Modified(c, m))
<1> DEFINE a == Modified(c, m)
           ds == SharesMoved(c, m.coll)  dc == CollateralMoved(c, m.coll)
           dn == NominalMoved(m.debt)    dd == DebtMoved(m.debt)
<1>1. c \in Chain /\ ds \in Int /\ dc \in Int /\ dn \in Int /\ dd \in Int
  BY DEF Sound, CollateralFair, DebtFair
<1>2. /\ a.shares = c.shares + ds /\ a.sharesC = c.sharesC + ds
      /\ a.reserveC = c.reserveC + dc
      /\ a.nominal = c.nominal + dn /\ a.borrowedD = c.borrowedD + dn
      /\ a.reserveD = c.reserveD - dd
      /\ a.borrowedC = c.borrowedC /\ a.sharesD = c.sharesD /\ a.vault = c.vault
      /\ NothingNegative(a) => a \in Chain
  BY <1>1, ModifiedFields
<1>3. a \in Chain /\ a.sharesC > 0
  BY <1>2 DEF PoolAccepts
<1> HIDE DEF a, ds, dc, dn, dd
<1>4. TotalCollateral(a) > 0
  <2>1. c.sharesC + ds > 0 => TotalCollateral(c) + dc > 0
    BY DEF CollateralFair, ds, dc
  <2>2. TotalCollateral(a) = TotalCollateral(c) + dc
    <3>1. DebtOf(c.borrowedC) \in Nat /\ c.reserveC \in Nat
      BY <1>1, RateFacts, DebtNat DEF DebtOf, Chain, Today
    <3>2. QED
      BY <1>1, <1>2, <3>1 DEF TotalCollateral
  <2>3. QED
    BY <1>2, <1>3, <2>1, <2>2
<1>5. VaultAssets(a) > 0
  <2>1. c.borrowedD + dn >= 0 => DebtOf(c.borrowedD) <= DebtOf(c.borrowedD + dn) - dd
    BY DEF DebtFair, dn, dd
  <2>2. c.borrowedD + dn \in Nat
    BY <1>2, <1>3 DEF Chain
  <2>3. DebtOf(c.borrowedD) \in Nat /\ DebtOf(c.borrowedD + dn) \in Nat /\ c.reserveD \in Nat
    BY <1>1, <2>2, RateFacts, DebtNat DEF DebtOf, Chain, Today
  <2>4. VaultAssets(c) > 0
    BY DEF Sound
  <2>5. QED
    BY <1>1, <1>2, <2>1, <2>2, <2>3, <2>4 DEF VaultAssets
<1>6. a.shares < a.sharesC /\ a.nominal <= a.borrowedD /\ a.vault < a.sharesD
  BY <1>1, <1>2 DEF Sound, Chain
<1>7. Sound(a)
  BY <1>3, <1>4, <1>5, <1>6 DEF Sound
<1>8. QED
  BY <1>7 DEF a
-----------------------------------------------------------------------------
(* Transactions *)

\* Alike but for the allowances.
Alike(a, c) ==
  /\ a.shares = c.shares /\ a.nominal = c.nominal /\ a.sharesC = c.sharesC
  /\ a.reserveC = c.reserveC /\ a.borrowedC = c.borrowedC /\ a.reserveD = c.reserveD
  /\ a.borrowedD = c.borrowedD /\ a.sharesD = c.sharesD /\ a.vault = c.vault
  /\ a.coll = c.coll /\ a.debt = c.debt

LEMMA AlikeFacts ==
  ASSUME NEW a, NEW c, Alike(a, c)
  PROVE  /\ TotalCollateral(a) = TotalCollateral(c) /\ VaultAssets(a) = VaultAssets(c)
         /\ \A s : CollateralOf(a, s) = CollateralOf(c, s)
         /\ CollateralValue(a, a.shares) = CollateralValue(c, c.shares)
         /\ Solvent(a) <=> Solvent(c)
         /\ AboveFloor(a) <=> AboveFloor(c)
         /\ \A x : /\ SharesMoved(a, x) = SharesMoved(c, x)
                   /\ CollateralMoved(a, x) = CollateralMoved(c, x)
         /\ a \in Chain => (Sound(c) => Sound(a))
<1>1. TotalCollateral(a) = TotalCollateral(c) /\ VaultAssets(a) = VaultAssets(c)
  BY DEF Alike, TotalCollateral, VaultAssets
<1>2. \A s : CollateralOf(a, s) = CollateralOf(c, s)
  BY <1>1 DEF Alike, CollateralOf
<1>3. CollateralValue(a, a.shares) = CollateralValue(c, c.shares)
  BY <1>2 DEF Alike, CollateralValue
<1>4. (Solvent(a) <=> Solvent(c)) /\ (AboveFloor(a) <=> AboveFloor(c))
  BY <1>3 DEF Alike, Solvent, AboveFloor, DebtValue
<1>5. \A x : /\ SharesMoved(a, x) = SharesMoved(c, x)
             /\ CollateralMoved(a, x) = CollateralMoved(c, x)
  BY <1>1, <1>2 DEF Alike, SharesMoved, CollateralMoved
<1>6. a \in Chain => (Sound(c) => Sound(a))
  BY <1>1 DEF Alike, Sound
<1>7. QED
  BY <1>1, <1>2, <1>3, <1>4, <1>5, <1>6

\* An approval changes one allowance.
LEMMA Approved ==
  ASSUME NEW c \in Chain, NEW v \in Nat, NEW t \in {"allowC", "allowD", "allowV"}
  PROVE  LET a == [c EXCEPT ![t] = v] IN
         /\ a \in Chain /\ Alike(a, c)
         /\ a.allowC = (IF t = "allowC" THEN v ELSE c.allowC)
         /\ a.allowD = (IF t = "allowD" THEN v ELSE c.allowD)
         /\ a.allowV = (IF t = "allowV" THEN v ELSE c.allowV)
BY DEF Chain, Alike

LEMMA NotReverted ==
  ASSUME NEW c \in Chain
  PROVE  c # Reverted
<1>1. "shares" \in DOMAIN c
  BY DEF Chain
<1>2. "shares" \notin DOMAIN Reverted
  BY DEF Reverted
<1>3. QED
  BY <1>1, <1>2

LEMMA Runs ==
  ASSUME NEW c \in Chain
  PROVE  /\ \A t, v : Run(c, Approve(t, v)) = [c EXCEPT ![t] = v]
         /\ \A x, y : Run(c, Modify(x, y)) =
                        IF PoolAccepts(Modified(c, Modify(x, y)), Modify(x, y))
                        THEN Modified(c, Modify(x, y)) ELSE Reverted
         /\ \A v : Run(c, Deposit(v)) =
                     IF live /\ VaultRoom(c, v) /\ NothingNegative(Deposited(c, v))
                     THEN Deposited(c, v) ELSE Reverted
         /\ \A v : Run(c, Redeem(v)) =
                     IF live /\ NothingNegative(Redeemed(c, v)) THEN Redeemed(c, v) ELSE Reverted
<1>1. ASSUME NEW t, NEW v PROVE Run(c, Approve(t, v)) = [c EXCEPT ![t] = v]
  BY DEF Run, Approve
<1>2. ASSUME NEW x, NEW y
      PROVE  Run(c, Modify(x, y)) = IF PoolAccepts(Modified(c, Modify(x, y)), Modify(x, y))
                                    THEN Modified(c, Modify(x, y)) ELSE Reverted
  <2>1. Modify(x, y).op = "modify"
    BY DEF Modify
  <2>2. QED
    BY <2>1 DEF Run
<1>3. ASSUME NEW v
      PROVE  Run(c, Deposit(v)) = IF live /\ VaultRoom(c, v) /\ NothingNegative(Deposited(c, v))
                                  THEN Deposited(c, v) ELSE Reverted
  BY DEF Run, Deposit
<1>4. ASSUME NEW v
      PROVE  Run(c, Redeem(v)) = IF live /\ NothingNegative(Redeemed(c, v))
                                 THEN Redeemed(c, v) ELSE Reverted
  BY DEF Run, Redeem
<1>5. QED
  BY <1>1, <1>2, <1>3, <1>4

LEMMA Calls ==
  ASSUME chain \in Chain
  PROVE  /\ \A x : Executed(<<x>>) = Run(chain, x)
         /\ \A x, y : Executed(<<x, y>>) =
              IF Run(chain, x) = Reverted THEN Reverted ELSE Run(Run(chain, x), y)
         /\ \A x, y, z : Executed(<<x, y, z>>) =
              IF Run(chain, x) = Reverted THEN Reverted
              ELSE IF Run(Run(chain, x), y) = Reverted THEN Reverted
              ELSE Run(Run(Run(chain, x), y), z)
BY NotReverted DEF Executed, Then

\* A list whose first call ends well goes on from there.
LEMMA GoesOn ==
  ASSUME chain \in Chain, NEW x, NEW b \in Chain, Run(chain, x) = b
  PROVE  /\ \A y : Executed(<<x, y>>) = Run(b, y)
         /\ \A y, z : Executed(<<x, y, z>>) =
                        IF Run(b, y) = Reverted THEN Reverted ELSE Run(Run(b, y), z)
<1>1. b # Reverted
  BY NotReverted
<1>2. ASSUME NEW y PROVE Executed(<<x, y>>) = Run(b, y)
  <2>1. Executed(<<x, y>>) = IF Run(chain, x) = Reverted THEN Reverted ELSE Run(Run(chain, x), y)
    BY Calls
  <2>2. QED
    BY <1>1, <2>1
<1>3. ASSUME NEW y, NEW z
      PROVE  Executed(<<x, y, z>>) = IF Run(b, y) = Reverted THEN Reverted ELSE Run(Run(b, y), z)
  <2>1. Executed(<<x, y, z>>) =
          IF Run(chain, x) = Reverted THEN Reverted
          ELSE IF Run(Run(chain, x), y) = Reverted THEN Reverted
          ELSE Run(Run(Run(chain, x), y), z)
    BY Calls
  <2>2. QED
    BY <1>1, <2>1
<1>4. QED
  BY <1>2, <1>3, Zenon

\* The parts of a call, which the pool's checks look at.
LEMMA Parts ==
  ASSUME NEW x, NEW y
  PROVE  /\ Modify(x, y).coll = x /\ Modify(x, y).debt = y
         /\ \A v : Assets(v).value = v /\ Native(v).value = v
BY DEF Modify, Assets, Native

-----------------------------------------------------------------------------
(* What a transaction leaves *)

Unapproved(c) == c.allowC = 0 /\ c.allowD = 0 /\ c.allowV = 0

Settled(c) == Sound(c) /\ Unapproved(c)

\* An approval and a movement: the movement is judged as without the approval.
LEMMA ApprovedMove ==
  ASSUME Settled(chain), Today, NEW t \in {"allowC", "allowD"}, NEW v \in Nat, NEW x, NEW y,
         CollateralFair(chain, x), DebtFair(chain, y)
  PROVE  LET m == Modify(x, y)
             b == [chain EXCEPT ![t] = v]
             a == Modified(b, m)
             w == Modified(chain, m) IN
         /\ b \in Chain /\ Run(chain, Approve(t, v)) = b
         /\ b.allowC = (IF t = "allowC" THEN v ELSE 0)
         /\ b.allowD = (IF t = "allowD" THEN v ELSE 0)
         /\ b.allowV = 0
         /\ Run(b, m) = IF PoolAccepts(a, m) THEN a ELSE Reverted
         /\ PoolAccepts(a, m) => Sound(a)
         /\ Alike(a, w)
         /\ a.allowC = (IF CollateralMoved(chain, x) > 0 THEN b.allowC - CollateralMoved(chain, x)
                        ELSE b.allowC)
         /\ a.allowD = (IF DebtMoved(y) < 0 THEN b.allowD + DebtMoved(y) ELSE b.allowD)
         /\ a.allowV = 0
         /\ (/\ w.shares >= 0 /\ w.sharesC >= 0 /\ w.reserveC >= 0 /\ w.coll >= 0
             /\ w.nominal >= 0 /\ w.borrowedD >= 0 /\ w.reserveD >= 0 /\ w.debt >= 0
             /\ a.allowC >= 0 /\ a.allowD >= 0) => NothingNegative(a)
<1> DEFINE m == Modify(x, y)
           b == [chain EXCEPT ![t] = v]
           a == Modified(b, m)
           w == Modified(chain, m)
<1>1. chain \in Chain /\ Sound(chain) /\ chain.allowC = 0 /\ chain.allowD = 0 /\ chain.allowV = 0
  BY DEF Settled, Sound, Unapproved
<1>2. /\ b \in Chain /\ Alike(b, chain)
      /\ b.allowC = (IF t = "allowC" THEN v ELSE 0)
      /\ b.allowD = (IF t = "allowD" THEN v ELSE 0)
      /\ b.allowV = 0
  <2>1. t \in {"allowC", "allowD", "allowV"} /\ t # "allowV"
    OBVIOUS
  <2>2. /\ b \in Chain /\ Alike(b, chain)
        /\ b.allowC = (IF t = "allowC" THEN v ELSE chain.allowC)
        /\ b.allowD = (IF t = "allowD" THEN v ELSE chain.allowD)
        /\ b.allowV = (IF t = "allowV" THEN v ELSE chain.allowV)
    BY <1>1, <2>1, Approved, Zenon
  <2> HIDE DEF b
  <2>3. QED
    BY <1>1, <2>1, <2>2
<1>3. m.coll = x /\ m.debt = y
  BY Parts
<1>4. Run(chain, Approve(t, v)) = b /\ Run(b, m) = IF PoolAccepts(a, m) THEN a ELSE Reverted
  BY <1>1, <1>2, Runs
<1> HIDE DEF b, m
<1>5. /\ SharesMoved(b, x) = SharesMoved(chain, x) /\ CollateralMoved(b, x) = CollateralMoved(chain, x)
      /\ TotalCollateral(b) = TotalCollateral(chain) /\ Sound(b)
      /\ b.sharesC = chain.sharesC /\ b.borrowedD = chain.borrowedD
  BY <1>1, <1>2, AlikeFacts DEF Alike
<1>6. CollateralFair(b, x) /\ DebtFair(b, y)
  BY <1>5 DEF CollateralFair, DebtFair
<1>7. /\ SharesMoved(chain, x) \in Int /\ CollateralMoved(chain, x) \in Int
      /\ NominalMoved(y) \in Int /\ DebtMoved(y) \in Int
  BY DEF CollateralFair, DebtFair
<1>8. PoolAccepts(a, m) => Sound(a)
  BY <1>3, <1>5, <1>6, ModifiedSound
<1>9. Alike(a, w) /\ a.allowV = 0
      /\ a.allowC = (IF CollateralMoved(chain, x) > 0 THEN b.allowC - CollateralMoved(chain, x)
                     ELSE b.allowC)
      /\ a.allowD = (IF DebtMoved(y) < 0 THEN b.allowD + DebtMoved(y) ELSE b.allowD)
  <2>1. /\ a.shares = b.shares + SharesMoved(b, x) /\ a.sharesC = b.sharesC + SharesMoved(b, x)
        /\ a.reserveC = b.reserveC + CollateralMoved(b, x) /\ a.coll = b.coll - CollateralMoved(b, x)
        /\ a.nominal = b.nominal + NominalMoved(y) /\ a.borrowedD = b.borrowedD + NominalMoved(y)
        /\ a.reserveD = b.reserveD - DebtMoved(y) /\ a.debt = b.debt + DebtMoved(y)
        /\ a.allowC = (IF CollateralMoved(b, x) > 0 THEN b.allowC - CollateralMoved(b, x) ELSE b.allowC)
        /\ a.allowD = (IF DebtMoved(y) < 0 THEN b.allowD + DebtMoved(y) ELSE b.allowD)
        /\ a.borrowedC = b.borrowedC /\ a.sharesD = b.sharesD
        /\ a.vault = b.vault /\ a.allowV = b.allowV
    BY <1>2, <1>3, <1>5, <1>7, ModifiedFields
  <2>2. /\ w.shares = chain.shares + SharesMoved(chain, x)
        /\ w.sharesC = chain.sharesC + SharesMoved(chain, x)
        /\ w.reserveC = chain.reserveC + CollateralMoved(chain, x)
        /\ w.coll = chain.coll - CollateralMoved(chain, x)
        /\ w.nominal = chain.nominal + NominalMoved(y) /\ w.borrowedD = chain.borrowedD + NominalMoved(y)
        /\ w.reserveD = chain.reserveD - DebtMoved(y) /\ w.debt = chain.debt + DebtMoved(y)
        /\ w.borrowedC = chain.borrowedC /\ w.sharesD = chain.sharesD
        /\ w.vault = chain.vault
    BY <1>1, <1>3, <1>7, ModifiedFields
  <2> HIDE DEF a, w
  <2>3. QED
    BY <1>2, <1>5, <2>1, <2>2 DEF Alike
<1>10. (/\ a.shares >= 0 /\ a.sharesC >= 0 /\ a.reserveC >= 0 /\ a.coll >= 0
        /\ a.nominal >= 0 /\ a.borrowedD >= 0 /\ a.reserveD >= 0 /\ a.debt >= 0
        /\ a.allowC >= 0 /\ a.allowD >= 0) => NothingNegative(a)
  BY <1>2, <1>3, <1>5, <1>7, ModifiedFields
<1> HIDE DEF a, w
<1>11. (/\ w.shares >= 0 /\ w.sharesC >= 0 /\ w.reserveC >= 0 /\ w.coll >= 0
        /\ w.nominal >= 0 /\ w.borrowedD >= 0 /\ w.reserveD >= 0 /\ w.debt >= 0
        /\ a.allowC >= 0 /\ a.allowD >= 0) => NothingNegative(a)
  BY <1>9, <1>10 DEF Alike
<1>12. QED
  BY <1>2, <1>4, <1>8, <1>9, <1>11 DEF a, b, m, w

\* The fields of a movement on the chain.
LEMMA BareMove ==
  ASSUME Settled(chain), Today, NEW x, NEW y, CollateralFair(chain, x), DebtFair(chain, y)
  PROVE  LET m == Modify(x, y)
             w == Modified(chain, m)
             ds == SharesMoved(chain, x)  dc == CollateralMoved(chain, x)
             dn == NominalMoved(y)        dd == DebtMoved(y) IN
         /\ Run(chain, m) = IF PoolAccepts(w, m) THEN w ELSE Reverted
         /\ PoolAccepts(w, m) => Sound(w)
         /\ w.shares = chain.shares + ds /\ w.sharesC = chain.sharesC + ds
         /\ w.reserveC = chain.reserveC + dc /\ w.coll = chain.coll - dc
         /\ w.nominal = chain.nominal + dn /\ w.borrowedD = chain.borrowedD + dn
         /\ w.reserveD = chain.reserveD - dd /\ w.debt = chain.debt + dd
         /\ w.borrowedC = chain.borrowedC /\ w.sharesD = chain.sharesD /\ w.vault = chain.vault
         /\ dc <= 0 => w.allowC = 0
         /\ dd >= 0 => w.allowD = 0
         /\ w.allowV = 0
         /\ (/\ w.shares >= 0 /\ w.sharesC >= 0 /\ w.reserveC >= 0 /\ w.coll >= 0
             /\ w.nominal >= 0 /\ w.borrowedD >= 0 /\ w.reserveD >= 0 /\ w.debt >= 0
             /\ dc <= 0 /\ dd >= 0) => NothingNegative(w)
<1> DEFINE m == Modify(x, y)
           w == Modified(chain, m)
<1>1. chain \in Chain /\ Sound(chain) /\ chain.allowC = 0 /\ chain.allowD = 0 /\ chain.allowV = 0
  BY DEF Settled, Sound, Unapproved
<1>2. m.coll = x /\ m.debt = y
  BY Parts
<1>3. Run(chain, m) = IF PoolAccepts(w, m) THEN w ELSE Reverted
  BY <1>1, Runs
<1> HIDE DEF m
<1>4. PoolAccepts(w, m) => Sound(w)
  BY <1>1, <1>2, ModifiedSound
<1>5. /\ SharesMoved(chain, x) \in Int /\ CollateralMoved(chain, x) \in Int
      /\ NominalMoved(y) \in Int /\ DebtMoved(y) \in Int
  BY DEF CollateralFair, DebtFair
<1>6. LET ds == SharesMoved(chain, x)  dc == CollateralMoved(chain, x)
          dn == NominalMoved(y)        dd == DebtMoved(y) IN
         /\ w.shares = chain.shares + ds /\ w.sharesC = chain.sharesC + ds
         /\ w.reserveC = chain.reserveC + dc /\ w.coll = chain.coll - dc
         /\ w.nominal = chain.nominal + dn /\ w.borrowedD = chain.borrowedD + dn
         /\ w.reserveD = chain.reserveD - dd /\ w.debt = chain.debt + dd
         /\ w.allowC = (IF dc > 0 THEN chain.allowC - dc ELSE chain.allowC)
         /\ w.allowD = (IF dd < 0 THEN chain.allowD + dd ELSE chain.allowD)
         /\ w.borrowedC = chain.borrowedC /\ w.sharesD = chain.sharesD
         /\ w.vault = chain.vault /\ w.allowV = chain.allowV
         /\ (/\ w.shares >= 0 /\ w.sharesC >= 0 /\ w.reserveC >= 0 /\ w.coll >= 0
             /\ w.nominal >= 0 /\ w.borrowedD >= 0 /\ w.reserveD >= 0 /\ w.debt >= 0
             /\ w.allowC >= 0 /\ w.allowD >= 0) => NothingNegative(w)
  BY <1>1, <1>2, <1>5, ModifiedFields
<1> HIDE DEF w
<1>7. QED
  BY <1>1, <1>3, <1>4, <1>5, <1>6 DEF m, w

\* A call list of an approval and a movement that spends what is approved.
LEMMA SpendsApproval ==
  ASSUME Settled(chain), Today, NEW x, NEW y, CollateralFair(chain, x), DebtFair(chain, y),
         NEW t \in {"allowC", "allowD"}, NEW v \in Nat \ {0},
         t = "allowC" => CollateralMoved(chain, x) = v /\ DebtMoved(y) >= 0,
         t = "allowD" => CollateralMoved(chain, x) <= 0 /\ DebtMoved(y) = -v
  PROVE  LET m == Modify(x, y)
             b == [chain EXCEPT ![t] = v]
             a == Modified(b, m)
             w == Modified(chain, m)
             e == Executed(<<Approve(t, v), m>>) IN
         /\ e = IF PoolAccepts(a, m) THEN a ELSE Reverted
         /\ PoolAccepts(a, m) => Settled(a)
         /\ Alike(a, w)
         /\ (/\ w.shares >= 0 /\ w.sharesC >= 0 /\ w.reserveC >= 0 /\ w.coll >= 0
             /\ w.nominal >= 0 /\ w.borrowedD >= 0 /\ w.reserveD >= 0 /\ w.debt >= 0)
              => NothingNegative(a)
<1> DEFINE m == Modify(x, y)
           b == [chain EXCEPT ![t] = v]
           a == Modified(b, m)
           w == Modified(chain, m)
           e == Executed(<<Approve(t, v), m>>)
<1>1. /\ b \in Chain /\ Run(chain, Approve(t, v)) = b
      /\ b.allowC = (IF t = "allowC" THEN v ELSE 0)
      /\ b.allowD = (IF t = "allowD" THEN v ELSE 0)
      /\ b.allowV = 0
      /\ Run(b, m) = IF PoolAccepts(a, m) THEN a ELSE Reverted
      /\ PoolAccepts(a, m) => Sound(a)
      /\ Alike(a, w)
      /\ a.allowC = (IF CollateralMoved(chain, x) > 0 THEN b.allowC - CollateralMoved(chain, x)
                     ELSE b.allowC)
      /\ a.allowD = (IF DebtMoved(y) < 0 THEN b.allowD + DebtMoved(y) ELSE b.allowD)
      /\ a.allowV = 0
      /\ (/\ w.shares >= 0 /\ w.sharesC >= 0 /\ w.reserveC >= 0 /\ w.coll >= 0
          /\ w.nominal >= 0 /\ w.borrowedD >= 0 /\ w.reserveD >= 0 /\ w.debt >= 0
          /\ a.allowC >= 0 /\ a.allowD >= 0) => NothingNegative(a)
  BY ApprovedMove
<1>2. CollateralMoved(chain, x) \in Int /\ DebtMoved(y) \in Int
  BY DEF CollateralFair, DebtFair
<1>3. chain \in Chain
  BY DEF Settled, Sound
<1>4. e = IF PoolAccepts(a, m) THEN a ELSE Reverted
  <2>1. b \in Chain /\ Run(chain, Approve(t, v)) = b
    BY <1>1
  <2> HIDE DEF m, b, a
  <2>2. e = Run(b, m)
    BY <1>3, <2>1, GoesOn
  <2>3. QED
    BY <1>1, <2>2 DEF m, b, a
<1> HIDE DEF m, b, a, w, e
<1>5. a.allowC = 0 /\ a.allowD = 0
  <2>1. CASE t = "allowC"
    BY <1>1, <1>2, <2>1
  <2>2. CASE t = "allowD"
    BY <1>1, <1>2, <2>2
  <2>3. QED
    BY <2>1, <2>2
<1>6. QED
  BY <1>1, <1>4, <1>5 DEF m, b, a, w, e, Settled, Unapproved

\* The limits hold after a borrow that is not within its rounding of them.
LEMMA WithinLimit ==
  ASSUME NEW R \in Nat, NEW d \in 0..R, NEW B \in Nat, NEW more \in Nat,
         NEW B2 \in Nat, B + d <= B2, B2 <= B + more, R + B > 0
  PROVE  Utilization(R - d, B2) <= ((B + more) * Scale) \div (R + B)
<1>1. /\ d \in Nat /\ R - d \in Nat /\ R + B \in Nat \ {0}
      /\ R - d + B2 \in Nat \ {0} /\ R + B <= R - d + B2
      /\ B2 * Scale \in Nat /\ (B + more) * Scale \in Nat /\ B + more \in Nat
  BY ScalePos, ProductNat
<1>2. Utilization(R - d, B2) = (B2 * Scale) \div (R - d + B2)
  BY <1>1 DEF Utilization
<1>3. (B2 * Scale) \div (R - d + B2) <= (B2 * Scale) \div (R + B)
  BY <1>1, DivAnti
<1>4. (B2 * Scale) \div (R + B) <= ((B + more) * Scale) \div (R + B)
  <2>1. B2 * Scale <= (B + more) * Scale
    BY <1>1, ScalePos, MulMono
  <2>2. QED
    BY <1>1, <2>1, DivMono
<1>5. /\ (B2 * Scale) \div (R - d + B2) \in Int /\ (B2 * Scale) \div (R + B) \in Int
      /\ ((B + more) * Scale) \div (R + B) \in Int
  BY <1>1, DivFacts
<1>6. QED
  BY <1>2, <1>3, <1>4, <1>5

-----------------------------------------------------------------------------
(* The transactions of each dialog *)

Fine(e) == e = Reverted \/ Settled(e)

LEMMA BorrowLeaves ==
  ASSUME Settled(chain), Today, NEW c \in Nat \ {0}, NEW d \in Nat
  PROVE  Fine(Executed(<<Approve("allowC", c), Modify(Assets(c), Assets(d))>>))
<1>1. chain \in Chain /\ TotalCollateral(chain) > 0
  BY DEF Settled, Sound
<1>2. CollateralFair(chain, Assets(c)) /\ CollateralMoved(chain, Assets(c)) = c
  BY <1>1, MovesIn
<1>3. DebtFair(chain, Assets(d)) /\ DebtMoved(Assets(d)) = d
  BY <1>1, Borrows
<1> DEFINE m == Modify(Assets(c), Assets(d))
           a == Modified([chain EXCEPT !["allowC"] = c], m)
<1>4. /\ Executed(<<Approve("allowC", c), m>>) = IF PoolAccepts(a, m) THEN a ELSE Reverted
      /\ PoolAccepts(a, m) => Settled(a)
  <2>1. DebtMoved(Assets(d)) >= 0 /\ "allowC" \in {"allowC", "allowD"} /\ "allowC" # "allowD"
    BY <1>3
  <2> HIDE DEF Settled
  <2>2. QED
    BY <1>2, <1>3, <2>1, SpendsApproval
<1> HIDE DEF m, a
<1>5. QED
  BY <1>4 DEF Fine, m

LEMMA RepayLeaves ==
  ASSUME Settled(chain), Today, NEW d \in Nat \ {0}
  PROVE  Fine(Executed(RepayCalls(d)))
<1>1. chain \in Chain /\ TotalCollateral(chain) > 0
  BY DEF Settled, Sound
<1>2. CollateralFair(chain, Assets(0)) /\ CollateralMoved(chain, Assets(0)) = 0
  BY <1>1, MovesIn
<1>3. DebtFair(chain, Assets(-d)) /\ DebtMoved(Assets(-d)) = -d
  BY <1>1, Repays
<1> DEFINE m == Modify(Assets(0), Assets(-d))
           a == Modified([chain EXCEPT !["allowD"] = d], m)
<1>4. /\ Executed(<<Approve("allowD", d), m>>) = IF PoolAccepts(a, m) THEN a ELSE Reverted
      /\ PoolAccepts(a, m) => Settled(a)
  <2>1. CollateralMoved(chain, Assets(0)) <= 0 /\ "allowD" \in {"allowC", "allowD"}
        /\ "allowC" # "allowD"
    BY <1>2
  <2>2. QED
    BY <1>2, <1>3, <2>1, SpendsApproval
<1> HIDE DEF m, a
<1>5. QED
  BY <1>4 DEF Fine, RepayCalls, m

LEMMA WithdrawLeaves ==
  ASSUME Settled(chain), Today, NEW c \in Nat \ {0}
  PROVE  Fine(Executed(WithdrawCalls(c)))
<1>1. chain \in Chain /\ TotalCollateral(chain) > 0
  BY DEF Settled, Sound
<1>2. CollateralFair(chain, Assets(-c)) /\ CollateralMoved(chain, Assets(-c)) = -c
  BY <1>1, MovesOut
<1>3. DebtFair(chain, Assets(0)) /\ DebtMoved(Assets(0)) = 0
  BY <1>1, Borrows
<1> DEFINE m == Modify(Assets(-c), Assets(0))
           w == Modified(chain, m)
<1>4. /\ Run(chain, m) = IF PoolAccepts(w, m) THEN w ELSE Reverted
      /\ PoolAccepts(w, m) => Sound(w)
      /\ w.allowC = 0 /\ w.allowD = 0 /\ w.allowV = 0
  BY <1>2, <1>3, BareMove
<1>5. Executed(<<m>>) = Run(chain, m)
  BY <1>1, Calls
<1>6. QED
  BY <1>4, <1>5 DEF Fine, Settled, Unapproved, WithdrawCalls

\* A close ends with no allowance, whatever it spent.
LEMMA CloseLeaves ==
  ASSUME Settled(chain), Today, NEW s \in Nat, NEW n \in Nat, NEW cap \in Nat
  PROVE  LET e == Executed(CloseCalls(s, n, cap))
             m == Modify(Native(-s), Native(-n))
             w == Modified(chain, m)
             a == Modified([chain EXCEPT !["allowD"] = cap], m) IN
         /\ Fine(e)
         /\ e # Reverted => e.shares = w.shares /\ e.nominal = w.nominal
         /\ PoolAccepts(a, m) => e # Reverted
<1> DEFINE e == Executed(CloseCalls(s, n, cap))
           m == Modify(Native(-s), Native(-n))
           w == Modified(chain, m)
           b == [chain EXCEPT !["allowD"] = cap]
           a == Modified(b, m)
           z == [a EXCEPT !["allowD"] = 0]
<1>1. chain \in Chain /\ TotalCollateral(chain) > 0 /\ chain.sharesC > 0
  BY DEF Settled, Sound, Chain
<1>2. CollateralFair(chain, Native(-s)) /\ CollateralMoved(chain, Native(-s)) <= 0
  BY <1>1, MovesNative
<1>3. DebtFair(chain, Native(-n))
  BY <1>1, PaysOff
<1>4. /\ b \in Chain /\ Run(chain, Approve("allowD", cap)) = b
      /\ b.allowC = 0 /\ b.allowV = 0
      /\ Run(b, m) = IF PoolAccepts(a, m) THEN a ELSE Reverted
      /\ PoolAccepts(a, m) => Sound(a)
      /\ Alike(a, w)
      /\ a.allowC = (IF CollateralMoved(chain, Native(-s)) > 0
                     THEN b.allowC - CollateralMoved(chain, Native(-s)) ELSE b.allowC)
      /\ a.allowV = 0
  BY <1>2, <1>3, ApprovedMove
<1>6. e = IF Run(b, m) = Reverted THEN Reverted ELSE Run(Run(b, m), Approve("allowD", 0))
  <2>1. b \in Chain /\ Run(chain, Approve("allowD", cap)) = b
    BY <1>4
  <2> HIDE DEF b
  <2>2. Executed(<<Approve("allowD", cap), m, Approve("allowD", 0)>>) =
          IF Run(b, m) = Reverted THEN Reverted ELSE Run(Run(b, m), Approve("allowD", 0))
    <3>1. \A c2, c3 : Executed(<<Approve("allowD", cap), c2, c3>>) =
                        IF Run(b, c2) = Reverted THEN Reverted ELSE Run(Run(b, c2), c3)
      BY <1>1, <2>1, GoesOn
    <3> HIDE DEF m
    <3>2. QED
      BY <3>1, Zenon
  <2>3. QED
    BY <2>2, Zenon DEF CloseCalls, e, m
<1>7. a.allowC = 0
  <2>1. CollateralMoved(chain, Native(-s)) \in Int
    BY <1>2 DEF CollateralFair
  <2> HIDE DEF a, b
  <2>2. QED
    BY <1>2, <1>4, <2>1
<1>8. CASE ~PoolAccepts(a, m)
  <2>1. e = Reverted
    BY <1>4, <1>6, <1>8
  <2>2. QED
    BY <1>8, <2>1 DEF Fine
<1>9. CASE PoolAccepts(a, m)
  <2>1. Sound(a) /\ a \in Chain
    BY <1>4, <1>9 DEF Sound
  <2>2. e = z
    <3>1. a # Reverted /\ Run(a, Approve("allowD", 0)) = z
      BY <2>1, NotReverted, Runs
    <3>2. QED
      BY <1>4, <1>6, <1>9, <3>1
  <2> HIDE DEF a, b, w, e
  <2>3. z \in Chain /\ Alike(z, a)
        /\ z.allowC = (IF "allowD" = "allowC" THEN 0 ELSE a.allowC)
        /\ z.allowD = (IF "allowD" = "allowD" THEN 0 ELSE a.allowD)
        /\ z.allowV = (IF "allowD" = "allowV" THEN 0 ELSE a.allowV)
    <3>1. 0 \in Nat /\ "allowD" \in {"allowC", "allowD", "allowV"}
      OBVIOUS
    <3>2. QED
      BY <2>1, <3>1, Approved, Zenon
  <2> HIDE DEF z
  <2>4. Settled(z)
    BY <1>4, <1>7, <2>1, <2>3, AlikeFacts DEF Settled, Unapproved
  <2>5. z.shares = w.shares /\ z.nominal = w.nominal
    BY <1>4, <2>3 DEF Alike
  <2>6. z # Reverted
    BY <2>3, NotReverted
  <2>7. QED
    BY <2>2, <2>4, <2>5, <2>6 DEF Fine, e, w
<1>10. QED
  BY <1>8, <1>9

LEMMA DepositedFields ==
  ASSUME NEW c \in Chain, NEW v \in Nat, VaultShares(c, v) \in Nat
  PROVE  LET a == Deposited(c, v) IN
         /\ a.debt = c.debt - v /\ a.allowV = c.allowV - v /\ a.reserveD = c.reserveD + v
         /\ a.vault = c.vault + VaultShares(c, v) /\ a.sharesD = c.sharesD + VaultShares(c, v)
         /\ a.shares = c.shares /\ a.nominal = c.nominal /\ a.sharesC = c.sharesC
         /\ a.reserveC = c.reserveC /\ a.borrowedC = c.borrowedC /\ a.borrowedD = c.borrowedD
         /\ a.allowC = c.allowC /\ a.allowD = c.allowD
         /\ NothingNegative(a) => a \in Chain
         /\ a.debt >= 0 /\ a.allowV >= 0 => NothingNegative(a)
<1> DEFINE a == Deposited(c, v)
<1>1. /\ a.debt = c.debt - v /\ a.allowV = c.allowV - v /\ a.reserveD = c.reserveD + v
      /\ a.vault = c.vault + VaultShares(c, v) /\ a.sharesD = c.sharesD + VaultShares(c, v)
      /\ a.shares = c.shares /\ a.nominal = c.nominal /\ a.sharesC = c.sharesC
      /\ a.reserveC = c.reserveC /\ a.borrowedC = c.borrowedC /\ a.borrowedD = c.borrowedD
      /\ a.coll = c.coll /\ a.allowC = c.allowC /\ a.allowD = c.allowD
  BY DEF Deposited, Chain
<1>2. a = [f \in Fields |-> a[f]] /\ DOMAIN a = Fields
  BY DEF Deposited, Chain, Fields
<1>3. NothingNegative(a) <=> \A f \in Fields : a[f] >= 0
  BY <1>2 DEF NothingNegative
<1> HIDE DEF a
<1>4. (\A f \in Fields : a[f] \in Nat) => a \in Chain
  BY <1>2, InChain
<1>5. \A f \in Fields : a[f] \in Int
  BY <1>1 DEF Fields, Chain
<1>6. QED
  BY <1>1, <1>3, <1>4, <1>5 DEF a, Fields, Chain

LEMMA RedeemedFields ==
  ASSUME NEW c \in Chain, NEW s \in Nat, VaultValue(c, s) \in Nat
  PROVE  LET a == Redeemed(c, s) IN
         /\ a.reserveD = c.reserveD - VaultValue(c, s)
         /\ a.vault = c.vault - s /\ a.sharesD = c.sharesD - s
         /\ a.shares = c.shares /\ a.nominal = c.nominal /\ a.sharesC = c.sharesC
         /\ a.reserveC = c.reserveC /\ a.borrowedC = c.borrowedC /\ a.borrowedD = c.borrowedD
         /\ a.allowC = c.allowC /\ a.allowD = c.allowD /\ a.allowV = c.allowV
         /\ NothingNegative(a) => a \in Chain
         /\ a.reserveD >= 0 /\ a.vault >= 0 /\ a.sharesD >= 0 => NothingNegative(a)
<1> DEFINE a == Redeemed(c, s)
<1>1. /\ a.debt = c.debt + VaultValue(c, s) /\ a.reserveD = c.reserveD - VaultValue(c, s)
      /\ a.vault = c.vault - s /\ a.sharesD = c.sharesD - s
      /\ a.shares = c.shares /\ a.nominal = c.nominal /\ a.sharesC = c.sharesC
      /\ a.reserveC = c.reserveC /\ a.borrowedC = c.borrowedC /\ a.borrowedD = c.borrowedD
      /\ a.coll = c.coll /\ a.allowC = c.allowC /\ a.allowD = c.allowD /\ a.allowV = c.allowV
  BY DEF Redeemed, Chain
<1>2. a = [f \in Fields |-> a[f]] /\ DOMAIN a = Fields
  BY DEF Redeemed, Chain, Fields
<1>3. NothingNegative(a) <=> \A f \in Fields : a[f] >= 0
  BY <1>2 DEF NothingNegative
<1> HIDE DEF a
<1>4. (\A f \in Fields : a[f] \in Nat) => a \in Chain
  BY <1>2, InChain
<1>5. \A f \in Fields : a[f] \in Int
  BY <1>1 DEF Fields, Chain
<1>6. QED
  BY <1>1, <1>3, <1>4, <1>5 DEF a, Fields, Chain

\* A deposit spends what it approves, and fails only for want of the asset, or of room.
LEMMA LendLeaves ==
  ASSUME Settled(chain), Today, NEW d \in Nat \ {0}
  PROVE  /\ Fine(Executed(LendCalls(d)))
         /\ Executed(LendCalls(d)) = Reverted => chain.debt < d \/ ~live \/ ~VaultRoom(chain, d)
<1> DEFINE b == [chain EXCEPT !["allowV"] = d]
           a == Deposited(b, d)
           e == Executed(LendCalls(d))
<1>1. chain \in Chain /\ Sound(chain) /\ chain.allowC = 0 /\ chain.allowD = 0
  BY DEF Settled, Sound, Unapproved
<1>2. /\ b \in Chain /\ Alike(b, chain)
      /\ b.allowC = (IF "allowV" = "allowC" THEN d ELSE chain.allowC)
      /\ b.allowD = (IF "allowV" = "allowD" THEN d ELSE chain.allowD)
      /\ b.allowV = (IF "allowV" = "allowV" THEN d ELSE chain.allowV)
  BY <1>1, Approved
<1>3. Run(chain, Approve("allowV", d)) = b
  BY <1>1, Runs
<1>4. Run(b, Deposit(d)) = IF live /\ VaultRoom(b, d) /\ NothingNegative(a) THEN a ELSE Reverted
  BY <1>2, Runs
<1> HIDE DEF b, a
<1>5. e = IF live /\ VaultRoom(b, d) /\ NothingNegative(a) THEN a ELSE Reverted
  <2>1. \A y : Executed(<<Approve("allowV", d), y>>) = Run(b, y)
    BY <1>1, <1>2, <1>3, GoesOn
  <2>2. QED
    BY <1>4, <2>1, Zenon DEF LendCalls
<1>6. Sound(b) /\ VaultAssets(b) \in Nat \ {0} /\ b.sharesD \in Nat
  BY <1>1, <1>2, AlikeFacts, TotalFacts DEF Sound, Chain
<1>7. VaultShares(b, d) \in Nat
  <2>1. d * b.sharesD \in Nat
    BY <1>6, ProductNat
  <2>2. QED
    BY <1>6, <2>1, DivNat DEF VaultShares, SharesToMint
<1>8. /\ a.debt = b.debt - d /\ a.allowV = b.allowV - d /\ a.reserveD = b.reserveD + d
      /\ a.vault = b.vault + VaultShares(b, d) /\ a.sharesD = b.sharesD + VaultShares(b, d)
      /\ a.shares = b.shares /\ a.nominal = b.nominal /\ a.sharesC = b.sharesC
      /\ a.reserveC = b.reserveC /\ a.borrowedC = b.borrowedC /\ a.borrowedD = b.borrowedD
      /\ a.allowC = b.allowC /\ a.allowD = b.allowD
      /\ NothingNegative(a) => a \in Chain
      /\ a.debt >= 0 /\ a.allowV >= 0 => NothingNegative(a)
  BY <1>2, <1>7, DepositedFields DEF a
<1>9. DebtOf(b.borrowedD) \in Nat
  BY <1>2, RateFacts, DebtNat DEF DebtOf, Chain, Today
<1>10. NothingNegative(a) => Settled(a)
  <2>1. TotalCollateral(a) = TotalCollateral(b)
    BY <1>8 DEF TotalCollateral
  <2>2. VaultAssets(a) > 0
    BY <1>2, <1>6, <1>8, <1>9 DEF VaultAssets, Chain
  <2>3. a.vault < a.sharesD
    BY <1>2, <1>6, <1>7, <1>8 DEF Sound, Chain
  <2>4. a.allowC = 0 /\ a.allowD = 0 /\ a.allowV = 0
    BY <1>1, <1>2, <1>8
  <2>5. QED
    BY <1>6, <1>8, <2>1, <2>2, <2>3, <2>4 DEF Settled, Sound, Unapproved
<1>11. b.debt >= d => NothingNegative(a)
  BY <1>2, <1>8 DEF Chain
<1>12. a \in Chain => a # Reverted
  BY NotReverted
<1>13. VaultRoom(b, d) <=> VaultRoom(chain, d)
  BY <1>2, AlikeFacts DEF VaultRoom, VaultShares, Alike
<1>14. Fine(e)
  BY <1>5, <1>10 DEF Fine
<1>15. e = Reverted => chain.debt < d \/ ~live \/ ~VaultRoom(chain, d)
  BY <1>1, <1>2, <1>5, <1>8, <1>11, <1>12, <1>13 DEF Alike, Chain
<1>16. QED
  BY <1>14, <1>15

\* Shares of the vault that are covered by its reserve can be redeemed.
LEMMA RedeemLeaves ==
  ASSUME Settled(chain), Today, NEW s \in Nat
  PROVE  /\ Fine(Executed(RedeemCalls(s)))
         /\ RedeemAllowed(s) => Executed(RedeemCalls(s)) # Reverted
<1> DEFINE a == Redeemed(chain, s)
           v == VaultValue(chain, s)
           t == VaultAssets(chain)
<1>1. chain \in Chain /\ Sound(chain) /\ chain.allowC = 0 /\ chain.allowD = 0 /\ chain.allowV = 0
  BY DEF Settled, Sound, Unapproved
<1>2. Executed(RedeemCalls(s)) = IF live /\ NothingNegative(a) THEN a ELSE Reverted
  <2>1. Run(chain, Redeem(s)) = IF live /\ NothingNegative(a) THEN a ELSE Reverted
    BY <1>1, Runs
  <2>2. Executed(<<Redeem(s)>>) = Run(chain, Redeem(s))
    BY <1>1, Calls
  <2>3. QED
    BY <2>1, <2>2 DEF RedeemCalls
<1>3. t \in Nat \ {0} /\ chain.sharesD \in Nat \ {0} /\ s * t \in Nat
      /\ chain.vault \in Nat /\ chain.vault < chain.sharesD /\ chain.reserveD \in Nat
  BY <1>1, TotalFacts, ProductNat DEF Sound, Chain
<1>4. v = (s * t) \div chain.sharesD /\ v \in Nat
  BY <1>3, DivNat DEF VaultValue, AssetsOf
<1>5. s <= chain.vault => v < t
  <2>1. SUFFICES ASSUME s <= chain.vault PROVE v < t
    OBVIOUS
  <2> HIDE DEF t, v
  <2>2. s * t < chain.sharesD * t
    BY <1>3, <2>1, MulStrict
  <2>3. QED
    BY <1>3, <1>4, <2>2, DivLess
<1>6. /\ a.reserveD = chain.reserveD - v
      /\ a.vault = chain.vault - s /\ a.sharesD = chain.sharesD - s
      /\ a.shares = chain.shares /\ a.nominal = chain.nominal /\ a.sharesC = chain.sharesC
      /\ a.reserveC = chain.reserveC /\ a.borrowedC = chain.borrowedC
      /\ a.borrowedD = chain.borrowedD
      /\ a.allowC = chain.allowC /\ a.allowD = chain.allowD /\ a.allowV = chain.allowV
      /\ NothingNegative(a) => a \in Chain
      /\ a.reserveD >= 0 /\ a.vault >= 0 /\ a.sharesD >= 0 => NothingNegative(a)
  BY <1>1, <1>4, RedeemedFields
<1>7. DebtOf(chain.borrowedD) \in Nat /\ t = chain.reserveD + DebtOf(chain.borrowedD)
  BY <1>1, RateFacts, DebtNat DEF DebtOf, Chain, Today, VaultAssets
<1>8. RedeemAllowed(s) => live /\ s <= chain.vault /\ v <= chain.reserveD
  BY <1>3 DEF RedeemAllowed, MaxRedeem
<1> HIDE DEF a, v, t
<1>9. NothingNegative(a) => Settled(a)
  <2>1. SUFFICES ASSUME a \in Chain PROVE Settled(a)
    BY <1>6
  <2>2. s <= chain.vault
    BY <1>3, <1>6, <2>1 DEF Chain
  <2>3. TotalCollateral(a) = TotalCollateral(chain)
    BY <1>6 DEF TotalCollateral
  <2>4. VaultAssets(a) > 0
    BY <1>3, <1>4, <1>5, <1>6, <1>7, <2>2 DEF VaultAssets
  <2>5. a.vault < a.sharesD
    BY <1>3, <1>6
  <2>6. QED
    BY <1>1, <1>6, <2>1, <2>3, <2>4, <2>5 DEF Settled, Sound, Unapproved
<1>10. RedeemAllowed(s) => NothingNegative(a)
  BY <1>3, <1>4, <1>6, <1>8
<1>11. a \in Chain => a # Reverted
  BY NotReverted
<1>12. QED
  BY <1>2, <1>6, <1>8, <1>9, <1>10, <1>11 DEF Fine

-----------------------------------------------------------------------------
(* What a route found holds when its calls are executed *)

LEMMA LimitFacts ==
  /\ MaxLtv \in Nat /\ MaxUtilization \in Nat /\ Floor \in Nat /\ DebtCap \in Nat
  /\ VaultCap \in Nat
BY PoolAssumption

LEMMA SoundFacts ==
  ASSUME Settled(chain)
  PROVE  /\ chain \in Chain /\ TotalCollateral(chain) > 0 /\ VaultAssets(chain) > 0
         /\ chain.shares \in Nat /\ chain.sharesC \in Nat \ {0} /\ chain.reserveC \in Nat
         /\ chain.coll \in Nat /\ chain.nominal \in Nat /\ chain.borrowedD \in Nat
         /\ chain.borrowedC \in Nat /\ chain.reserveD \in Nat /\ chain.debt \in Nat
         /\ chain.shares < chain.sharesC /\ chain.nominal <= chain.borrowedD
BY DEF Settled, Sound, Chain

\* A borrow that is not within its rounding of a limit, and leaves a position the pool
\* accepts, is executed.
LEMMA BorrowHolds ==
  ASSUME Settled(chain), Today, NEW c \in Nat \ {0}, NEW d \in Nat \ {0},
         live, d <= chain.reserveD, chain.coll >= c, ~AtLimit(d),
         AboveFloor(Modified(chain, Modify(Assets(c), Assets(d)))),
         Solvent(Modified(chain, Modify(Assets(c), Assets(d))))
  PROVE  Executed(BorrowCalls(c, d)) # Reverted
<1> DEFINE m == Modify(Assets(c), Assets(d))
           w == Modified(chain, m)
           a == Modified([chain EXCEPT !["allowC"] = c], m)
           ds == SharesMoved(chain, Assets(c))
           u == NominalMoved(Assets(d))
           e == Up(Rate[now], Scale)
<1>1. /\ chain \in Chain /\ TotalCollateral(chain) > 0 /\ VaultAssets(chain) > 0
      /\ chain.shares \in Nat /\ chain.sharesC \in Nat \ {0} /\ chain.reserveC \in Nat
      /\ chain.coll \in Nat /\ chain.nominal \in Nat /\ chain.borrowedD \in Nat
      /\ chain.reserveD \in Nat /\ chain.debt \in Nat
  BY SoundFacts
<1>2. Rate[now] \in Nat \ {0}
  BY RateFacts DEF Today
<1>3. CollateralFair(chain, Assets(c)) /\ CollateralMoved(chain, Assets(c)) = c /\ ds \in Nat
  BY <1>1, MovesIn
<1>4. DebtFair(chain, Assets(d)) /\ DebtMoved(Assets(d)) = d
      /\ u \in Nat /\ u = Up(d * Scale, Rate[now])
  BY <1>1, Borrows
<1>5. /\ w.shares = chain.shares + ds /\ w.sharesC = chain.sharesC + ds
      /\ w.reserveC = chain.reserveC + c /\ w.coll = chain.coll - c
      /\ w.nominal = chain.nominal + u /\ w.borrowedD = chain.borrowedD + u
      /\ w.reserveD = chain.reserveD - d /\ w.debt = chain.debt + d
  BY <1>3, <1>4, BareMove
<1>6. /\ Executed(<<Approve("allowC", c), m>>) = IF PoolAccepts(a, m) THEN a ELSE Reverted
      /\ PoolAccepts(a, m) => Settled(a)
      /\ Alike(a, w)
      /\ (/\ w.shares >= 0 /\ w.sharesC >= 0 /\ w.reserveC >= 0 /\ w.coll >= 0
          /\ w.nominal >= 0 /\ w.borrowedD >= 0 /\ w.reserveD >= 0 /\ w.debt >= 0)
           => NothingNegative(a)
  <2>1. DebtMoved(Assets(d)) >= 0 /\ "allowC" \in {"allowC", "allowD"} /\ "allowC" # "allowD"
    BY <1>4
  <2> HIDE DEF Settled
  <2>2. QED
    BY <1>3, <1>4, <2>1, SpendsApproval
<1>7. d <= chain.reserveD
  OBVIOUS
<1>8. m.coll.value = c /\ m.debt.value = d
  BY Parts
<1>9. AboveFloor(w) /\ Solvent(w)
  OBVIOUS
<1>10. /\ DebtOf(chain.nominal) + (d + e) <= DebtCap
       /\ ((DebtOf(chain.borrowedD) + (d + e)) * Scale) \div VaultAssets(chain) <= MaxUtilization
  <2>1. e \in Nat
    BY <1>2, ScalePos, UpNat
  <2>2. DebtOf(chain.nominal) \in Nat /\ DebtOf(chain.borrowedD) \in Nat
    BY <1>1, <1>2, DebtNat DEF DebtOf
  <2>3. VaultAssets(chain) \in Nat \ {0}
    BY <1>1, TotalFacts
  <2>4. ((DebtOf(chain.borrowedD) + (d + e)) * Scale) \div VaultAssets(chain) \in Int
    <3>1. (DebtOf(chain.borrowedD) + (d + e)) * Scale \in Int
      BY <2>1, <2>2, ScalePos
    <3>2. QED
      BY <2>3, <3>1, DivFacts
  <2> HIDE DEF e
  <2>5. QED
    BY <2>1, <2>2, <2>4, LimitFacts DEF AtLimit, e
<1>11. ASSUME NEW n \in Nat
       PROVE  /\ DebtOf(n) \in Nat /\ DebtOf(n + u) \in Nat /\ e \in Nat
              /\ DebtOf(n) + d <= DebtOf(n + u)
              /\ DebtOf(n + u) <= DebtOf(n) + d + e
  <2>1. n + u \in Nat /\ e \in Nat
    BY <1>2, <1>4, ScalePos, UpNat, SMTT(30)
  <2>2. CalculateDebt(n, Rate[now]) \in Nat /\ CalculateDebt(n + u, Rate[now]) \in Nat
    BY <1>2, <2>1, DebtNat
  <2>3. CalculateDebt(n, Rate[now]) + d <= CalculateDebt(n + Up(d * Scale, Rate[now]), Rate[now])
        /\ CalculateDebt(n + Up(d * Scale, Rate[now]), Rate[now])
             <= CalculateDebt(n, Rate[now]) + d + Up(Rate[now], Scale)
    BY <1>2, DebtAdded
  <2>4. QED
    BY <1>4, <2>1, <2>2, <2>3 DEF DebtOf
<1> HIDE DEF m, w, a, ds, u, e
<1>12. NothingNegative(a)
  <2>1. w.coll >= 0 /\ w.reserveD >= 0
    BY <1>1, <1>5, <1>7
  <2>2. QED
    BY <1>1, <1>3, <1>4, <1>5, <1>6, <2>1
<1>13. AboveFloor(a) /\ Solvent(a)
  BY <1>6, <1>9, AlikeFacts
<1>14. /\ a.sharesC = chain.sharesC + ds /\ a.reserveD = chain.reserveD - d
       /\ a.borrowedD = chain.borrowedD + u /\ a.nominal = chain.nominal + u
  BY <1>5, <1>6 DEF Alike
<1>15. DebtOf(a.nominal) <= DebtCap
  <2>1. DebtOf(chain.nominal + u) <= DebtOf(chain.nominal) + d + e
        /\ DebtOf(chain.nominal + u) \in Nat /\ DebtOf(chain.nominal) \in Nat /\ e \in Nat
    BY <1>1, <1>11
  <2>2. QED
    BY <1>10, <1>14, <2>1, LimitFacts
<1>16. Utilization(a.reserveD, DebtOf(a.borrowedD)) <= MaxUtilization
  <2> DEFINE R == chain.reserveD
             B == DebtOf(chain.borrowedD)
             B2 == DebtOf(chain.borrowedD + u)
             more == d + e
  <2>1. R \in Nat /\ B \in Nat /\ B2 \in Nat /\ more \in Nat /\ d \in 0..R
        /\ B + d <= B2 /\ B2 <= B + more
    <3>1. B \in Nat /\ B2 \in Nat /\ e \in Nat /\ B + d <= B2 /\ B2 <= B + d + e
      BY <1>1, <1>11
    <3>2. QED
      BY <1>1, <1>7, <3>1
  <2>2. R + B = VaultAssets(chain) /\ R + B > 0
    BY <1>1 DEF VaultAssets
  <2>3. ((B + more) * Scale) \div (R + B) <= MaxUtilization
    BY <1>10, <2>2
  <2>4. Utilization(a.reserveD, DebtOf(a.borrowedD)) = Utilization(R - d, B2)
    BY <1>14
  <2> HIDE DEF R, B, B2, more
  <2>5. Utilization(R - d, B2) <= ((B + more) * Scale) \div (R + B)
    BY <2>1, <2>2, WithinLimit
  <2>6. Utilization(R - d, B2) \in Int /\ ((B + more) * Scale) \div (R + B) \in Int
    <3>1. /\ R + B \in Nat \ {0} /\ (B + more) * Scale \in Int
          /\ B2 * Scale \in Int /\ (R - d) + B2 \in Nat
      BY <2>1, <2>2, ScalePos
    <3>2. (R - d) + B2 = 0 \/ (R - d) + B2 \in Nat \ {0}
      BY <3>1
    <3>3. QED
      BY <3>1, <3>2, DivFacts DEF Utilization
  <2>7. QED
    BY <2>3, <2>4, <2>5, <2>6, LimitFacts
<1>17. PoolAccepts(a, m)
  BY <1>1, <1>3, <1>8, <1>12, <1>13, <1>14, <1>15, <1>16 DEF PoolAccepts
<1>18. a # Reverted
  BY <1>6, <1>17, NotReverted DEF Settled, Sound
<1>19. QED
  BY <1>6, <1>17, <1>18 DEF BorrowCalls, m

\* A top-up fails only for want of the asset or below a floor.
LEMMA AddHolds ==
  ASSUME Settled(chain), Today, live, NEW c \in Nat \ {0}, chain.coll >= c,
         NEW w, w = Modified(chain, Modify(Assets(c), Assets(0))), AboveFloor(w)
  PROVE  Executed(AddCalls(c)) # Reverted
<1> DEFINE m == Modify(Assets(c), Assets(0))
           a == Modified([chain EXCEPT !["allowC"] = c], m)
           ds == SharesMoved(chain, Assets(c))
<1>1. /\ chain \in Chain /\ TotalCollateral(chain) > 0
      /\ chain.shares \in Nat /\ chain.sharesC \in Nat \ {0} /\ chain.reserveC \in Nat
      /\ chain.coll \in Nat /\ chain.nominal \in Nat /\ chain.borrowedD \in Nat
      /\ chain.reserveD \in Nat /\ chain.debt \in Nat
  BY SoundFacts
<1>2. CollateralFair(chain, Assets(c)) /\ CollateralMoved(chain, Assets(c)) = c /\ ds \in Nat
  BY <1>1, MovesIn
<1>3. DebtFair(chain, Assets(0)) /\ DebtMoved(Assets(0)) = 0 /\ NominalMoved(Assets(0)) = 0
  BY <1>1, Borrows
<1>4. /\ w.shares = chain.shares + ds /\ w.sharesC = chain.sharesC + ds
      /\ w.reserveC = chain.reserveC + c /\ w.coll = chain.coll - c
      /\ w.nominal = chain.nominal + 0 /\ w.borrowedD = chain.borrowedD + 0
      /\ w.reserveD = chain.reserveD - 0 /\ w.debt = chain.debt + 0
  BY <1>2, <1>3, BareMove
<1>5. /\ Executed(<<Approve("allowC", c), m>>) = IF PoolAccepts(a, m) THEN a ELSE Reverted
      /\ PoolAccepts(a, m) => Settled(a)
      /\ Alike(a, w)
      /\ (/\ w.shares >= 0 /\ w.sharesC >= 0 /\ w.reserveC >= 0 /\ w.coll >= 0
          /\ w.nominal >= 0 /\ w.borrowedD >= 0 /\ w.reserveD >= 0 /\ w.debt >= 0)
           => NothingNegative(a)
  <2>1. DebtMoved(Assets(0)) >= 0 /\ "allowC" \in {"allowC", "allowD"} /\ "allowC" # "allowD"
    BY <1>3
  <2> HIDE DEF Settled
  <2>2. QED
    BY <1>2, <1>3, <2>1, SpendsApproval
<1>6. m.coll.value = c /\ m.debt.value = 0
  BY Parts
<1> HIDE DEF m, a, ds
<1>7. NothingNegative(a)
  BY <1>1, <1>2, <1>4, <1>5
<1>8. AboveFloor(a)
  BY <1>5, AlikeFacts
<1>9. a.sharesC > 0
  BY <1>1, <1>2, <1>4, <1>5 DEF Alike
<1>10. PoolAccepts(a, m)
  BY <1>6, <1>7, <1>8, <1>9 DEF PoolAccepts
<1>11. a # Reverted
  BY <1>5, <1>10, NotReverted DEF Settled, Sound
<1>12. QED
  BY <1>5, <1>10, <1>11 DEF AddCalls, m

\* More of it is not worth less at a price that is not lower.
LEMMA ValueGrows ==
  ASSUME NEW x \in Nat, NEW y \in Nat, x <= y, NEW p \in Nat, NEW r \in Nat, p <= r
  PROVE  /\ ValueRoundedUp(x, p) \in Nat /\ ValueRoundedUp(y, r) \in Nat
         /\ ValueRoundedUp(x, p) <= ValueRoundedUp(y, r)
<1>1. x * p \in Nat /\ y * r \in Nat /\ y * p \in Nat
  BY ProductNat
<1>2. x * p <= y * p /\ p * y <= r * y
  BY MulMono
<1>3. x * p <= y * r
  BY <1>1, <1>2
<1>4. ValueRoundedUp(x, p) = Up(x * p, Scale) /\ ValueRoundedUp(y, r) = Up(y * r, Scale)
  BY <1>1, ScalePos, CeilIsUp DEF ValueRoundedUp
<1>5. QED
  BY <1>1, <1>3, <1>4, ScalePos, UpMono, UpNat

LEMMA DebtValueNat ==
  ASSUME Today, price.debt \in Nat, NEW c, c.nominal \in Nat
  PROVE  DebtValue(c) \in Nat /\ DebtUp(c.nominal) \in Nat
<1>1. Rate[now] \in Nat
  BY RateFacts DEF Today
<1>2. DebtUp(c.nominal) \in Nat
  <2>1. PICK n : n = c.nominal
    OBVIOUS
  <2>2. Up(n * Rate[now], Scale) \in Nat
    BY <1>1, <2>1, RoundedNear
  <2>3. QED
    BY <2>1, <2>2 DEF DebtUp
<1>3. ASSUME NEW x \in Nat, NEW v \in Nat
      PROVE  ValueRoundedUp(x, v) \in Nat
  <2>1. x <= x /\ v <= v
    OBVIOUS
  <2>2. QED
    BY <2>1, ValueGrows
<1>4. QED
  BY <1>2, <1>3 DEF DebtValue

\* A repayment that left the debt above the floor at an earlier rate q, and at a price v of
\* the debt asset that is not above today's, is executed.
LEMMA RepayHolds ==
  ASSUME Settled(chain), Today, live, NEW d \in Nat \ {0}, NEW q \in Nat, q <= Rate[now],
         NEW v \in Nat, v <= price.debt, price.debt \in Nat,
         d < CalculateDebt(chain.nominal, q),
         ValueRoundedUp(CalculateDebt(chain.nominal, q) - d, v) > Floor,
         chain.debt >= d,
         NEW w, w = Modified(chain, Modify(Assets(0), Assets(-d))),
         CollateralValue(w, w.shares) > Floor
  PROVE  Executed(RepayCalls(d)) # Reverted
<1> DEFINE m == Modify(Assets(0), Assets(-d))
           a == Modified([chain EXCEPT !["allowD"] = d], m)
           u == (d * Scale) \div Rate[now]
<1>1. /\ chain \in Chain /\ TotalCollateral(chain) > 0
      /\ chain.shares \in Nat /\ chain.sharesC \in Nat \ {0} /\ chain.reserveC \in Nat
      /\ chain.coll \in Nat /\ chain.nominal \in Nat /\ chain.borrowedD \in Nat
      /\ chain.reserveD \in Nat /\ chain.debt \in Nat /\ chain.nominal <= chain.borrowedD
  BY SoundFacts
<1>2. Rate[now] \in Nat \ {0}
  BY RateFacts DEF Today
<1>3. CollateralFair(chain, Assets(0)) /\ CollateralMoved(chain, Assets(0)) = 0
      /\ SharesMoved(chain, Assets(0)) = 0
  BY <1>1, MovesIn
<1>4. DebtFair(chain, Assets(-d)) /\ DebtMoved(Assets(-d)) = -d
      /\ NominalMoved(Assets(-d)) = -u /\ u \in Nat
  BY <1>1, Repays
<1>5. /\ w.shares = chain.shares + 0 /\ w.sharesC = chain.sharesC + 0
      /\ w.reserveC = chain.reserveC + 0 /\ w.coll = chain.coll - 0
      /\ w.nominal = chain.nominal + (-u) /\ w.borrowedD = chain.borrowedD + (-u)
      /\ w.reserveD = chain.reserveD - (-d) /\ w.debt = chain.debt + (-d)
  BY <1>3, <1>4, BareMove
<1>6. /\ Executed(<<Approve("allowD", d), m>>) = IF PoolAccepts(a, m) THEN a ELSE Reverted
      /\ PoolAccepts(a, m) => Settled(a)
      /\ Alike(a, w)
      /\ (/\ w.shares >= 0 /\ w.sharesC >= 0 /\ w.reserveC >= 0 /\ w.coll >= 0
          /\ w.nominal >= 0 /\ w.borrowedD >= 0 /\ w.reserveD >= 0 /\ w.debt >= 0)
           => NothingNegative(a)
  <2>1. CollateralMoved(chain, Assets(0)) <= 0 /\ "allowD" \in {"allowC", "allowD"}
        /\ "allowC" # "allowD"
    BY <1>3
  <2>2. QED
    BY <1>3, <1>4, <2>1, SpendsApproval
<1>7. m.coll.value = 0 /\ m.debt.value = -d
  BY Parts
<1>8. u < chain.nominal
  BY <1>1, <1>2, RepayBelow
<1>9. ValueRoundedUp(DebtUp(chain.nominal - u), price.debt) > Floor
  <2>1. CalculateDebt(chain.nominal, Rate[now]) - d <= Up((chain.nominal - u) * Rate[now], Scale)
    <3>1. (d * Scale) \div Rate[now] <= chain.nominal
      BY <1>1, <1>4, <1>8
    <3>2. CalculateDebt(chain.nominal, Rate[now]) - d
            <= Up((chain.nominal - ((d * Scale) \div Rate[now])) * Rate[now], Scale)
      BY <1>1, <1>2, <3>1, DebtTaken
    <3>3. QED
      BY <3>2
  <2>2. CalculateDebt(chain.nominal, q) <= CalculateDebt(chain.nominal, Rate[now])
        /\ CalculateDebt(chain.nominal, q) \in Nat /\ CalculateDebt(chain.nominal, Rate[now]) \in Nat
    BY <1>1, <1>2, DebtGrows, DebtNat
  <2>3. Up((chain.nominal - u) * Rate[now], Scale) \in Nat
    <3>1. chain.nominal - u \in Nat
      BY <1>1, <1>4, <1>8
    <3>2. QED
      BY <1>2, <3>1, RoundedNear
  <2> DEFINE x == CalculateDebt(chain.nominal, q) - d
             y == DebtUp(chain.nominal - u)
  <2>4. x \in Nat /\ y \in Nat /\ x <= y
    BY <2>1, <2>2, <2>3 DEF DebtUp
  <2>5. ValueRoundedUp(x, v) > Floor
    OBVIOUS
  <2> HIDE DEF x, y
  <2>6. /\ ValueRoundedUp(x, v) \in Nat /\ ValueRoundedUp(y, price.debt) \in Nat
        /\ ValueRoundedUp(x, v) <= ValueRoundedUp(y, price.debt)
    BY <2>4, ValueGrows
  <2>7. QED
    BY <2>5, <2>6, LimitFacts DEF y
<1> HIDE DEF m, a, u
<1>10. NothingNegative(a)
  BY <1>1, <1>4, <1>5, <1>6, <1>8
<1>11. AboveFloor(a)
  <2>1. w.nominal = chain.nominal - u
    BY <1>1, <1>4, <1>5
  <2>2. AboveFloor(w)
    BY <1>9, <2>1 DEF AboveFloor, DebtValue
  <2>3. QED
    BY <1>6, <2>2, AlikeFacts
<1>12. a.sharesC > 0
  BY <1>1, <1>5, <1>6 DEF Alike
<1>13. PoolAccepts(a, m)
  BY <1>7, <1>10, <1>11, <1>12 DEF PoolAccepts
<1>14. a # Reverted
  BY <1>6, <1>13, NotReverted DEF Settled, Sound
<1>15. QED
  BY <1>6, <1>13, <1>14 DEF RepayCalls, m

LEMMA WorthNat ==
  ASSUME NEW c, TotalCollateral(c) \in Nat, c.sharesC \in Nat \ {0}, NEW s \in Nat, price.coll \in Nat
  PROVE  CollateralValue(c, s) \in Nat
<1>1. s * TotalCollateral(c) \in Nat
  BY ProductNat
<1>2. CollateralOf(c, s) \in Nat
  BY <1>1, DivNat DEF CollateralOf, AssetsOf
<1>3. CollateralOf(c, s) * price.coll \in Nat
  BY <1>2, ProductNat
<1>4. QED
  BY <1>3, ScalePos, DivNat DEF CollateralValue, Value

\* A withdrawal moves what its route predicted, to the unit.
LEMMA WithdrawHolds ==
  ASSUME Settled(chain), Today, price.coll \in Nat, price.debt \in Nat, NEW c \in Nat \ {0},
         WithdrawAllowed(c), DebtValue(chain) > Floor
  PROVE  Executed(WithdrawCalls(c)) # Reverted
<1> DEFINE m == Modify(Assets(-c), Assets(0))
           w == Modified(chain, m)
           burnt == SharesToBurn(c, chain.sharesC, TotalCollateral(chain))
           after == [chain EXCEPT !.shares = @ - burnt, !.sharesC = @ - burnt, !.reserveC = @ - c]
           value == CollateralValue(after, after.shares)
           debt == ValueRoundedUp(DebtRoundedUp(chain.nominal, Rate[now]), price.debt)
<1>1. /\ chain \in Chain /\ TotalCollateral(chain) > 0
      /\ chain.shares \in Nat /\ chain.sharesC \in Nat \ {0} /\ chain.reserveC \in Nat
      /\ chain.coll \in Nat /\ chain.nominal \in Nat /\ chain.borrowedD \in Nat
      /\ chain.borrowedC \in Nat
      /\ chain.reserveD \in Nat /\ chain.debt \in Nat /\ chain.shares < chain.sharesC
  BY SoundFacts
<1>2. Rate[now] \in Nat \ {0}
  BY RateFacts DEF Today
<1>3. /\ live /\ c <= chain.reserveC /\ burnt > 0 /\ burnt < chain.shares
      /\ TotalCollateral(after) > 0
      /\ value > Floor /\ DivCeil(debt * Scale, value) < MaxLtv
      /\ Utilization(after.reserveC, DebtOf(chain.borrowedC)) <= MaxUtilization
  BY DEF WithdrawAllowed, AddAllowed
<1>4. burnt = Up(c * chain.sharesC, TotalCollateral(chain)) /\ burnt \in Nat
  <2>1. c * chain.sharesC \in Nat /\ TotalCollateral(chain) \in Nat \ {0}
    BY <1>1, TotalFacts, ProductNat
  <2>2. QED
    BY <2>1, CeilIsUp, UpNat DEF SharesToBurn
<1>5. CollateralFair(chain, Assets(-c)) /\ CollateralMoved(chain, Assets(-c)) = -c
      /\ SharesMoved(chain, Assets(-c)) = -burnt
  BY <1>1, <1>4, MovesOut
<1>6. DebtFair(chain, Assets(0)) /\ DebtMoved(Assets(0)) = 0 /\ NominalMoved(Assets(0)) = 0
  BY <1>1, Borrows
<1> HIDE DEF burnt
<1>7. /\ after.shares = chain.shares - burnt /\ after.sharesC = chain.sharesC - burnt
      /\ after.reserveC = chain.reserveC - c /\ after.borrowedC = chain.borrowedC
  BY <1>1 DEF Chain
<1>8. /\ Run(chain, m) = IF PoolAccepts(w, m) THEN w ELSE Reverted
      /\ PoolAccepts(w, m) => Sound(w)
      /\ w.shares = chain.shares + (-burnt) /\ w.sharesC = chain.sharesC + (-burnt)
      /\ w.reserveC = chain.reserveC + (-c) /\ w.coll = chain.coll - (-c)
      /\ w.nominal = chain.nominal + 0 /\ w.borrowedD = chain.borrowedD + 0
      /\ w.reserveD = chain.reserveD - 0 /\ w.debt = chain.debt + 0
      /\ w.borrowedC = chain.borrowedC
      /\ (/\ w.shares >= 0 /\ w.sharesC >= 0 /\ w.reserveC >= 0 /\ w.coll >= 0
          /\ w.nominal >= 0 /\ w.borrowedD >= 0 /\ w.reserveD >= 0 /\ w.debt >= 0
          /\ -c <= 0 /\ 0 >= 0) => NothingNegative(w)
  BY <1>5, <1>6, BareMove
<1>9. m.coll.value = -c /\ m.debt.value = 0
  BY Parts
<1>10. Executed(<<m>>) = Run(chain, m)
  BY <1>1, Calls
<1> HIDE DEF m, w, after
<1>11. w.shares = after.shares /\ w.sharesC = after.sharesC /\ w.reserveC = after.reserveC
       /\ w.nominal = chain.nominal
  BY <1>1, <1>4, <1>7, <1>8
<1>12. TotalCollateral(w) = TotalCollateral(after)
  BY <1>7, <1>8, <1>11 DEF TotalCollateral
<1>13. CollateralValue(w, w.shares) = value
  BY <1>11, <1>12 DEF CollateralValue, CollateralOf
<1>14. value \in Nat \ {0}
  <2>1. DebtOf(chain.borrowedC) \in Nat
    BY <1>1, <1>2, DebtNat DEF DebtOf
  <2>2. TotalCollateral(after) \in Nat /\ after.sharesC \in Nat \ {0} /\ after.shares \in Nat
    BY <1>1, <1>3, <1>4, <1>7, <2>1 DEF TotalCollateral
  <2>3. value \in Nat
    BY <2>2, WorthNat
  <2>4. QED
    BY <1>3, <2>3, LimitFacts
<1>15. debt = DebtValue(chain) /\ debt \in Nat
  <2>1. chain.nominal * Rate[now] \in Nat
    BY <1>1, <1>2, ProductNat
  <2>2. DebtRoundedUp(chain.nominal, Rate[now]) = DebtUp(chain.nominal)
    BY <2>1, ScalePos, CeilIsUp DEF DebtRoundedUp, DebtUp
  <2>3. DebtValue(chain) \in Nat
    BY <1>1, DebtValueNat
  <2>4. QED
    BY <2>2, <2>3 DEF DebtValue
<1>16. DebtValue(w) = DebtValue(chain)
  BY <1>11 DEF DebtValue
<1> HIDE DEF value, debt
<1>17. Solvent(w)
  <2>1. debt * Scale \in Nat
    BY <1>15, ScalePos, ProductNat
  <2>2. Up(debt * Scale, value) < MaxLtv
    BY <1>3, <1>14, <2>1, CeilIsUp
  <2>3. Up(debt * Scale, value) \in Nat /\ debt * Scale <= value * Up(debt * Scale, value)
    BY <1>14, <2>1, UpEnough
  <2> DEFINE q == Up(debt * Scale, value)
             x == debt * Scale
  <2> HIDE DEF q, x
  <2>4. q * value <= MaxLtv * value
    BY <1>14, <2>2, <2>3, LimitFacts, MulMono DEF q
  <2>5. x <= value * q /\ x \in Nat /\ q \in Nat
    BY <2>1, <2>3 DEF q, x
  <2>6. x <= value * MaxLtv
    BY <1>14, <2>4, <2>5, LimitFacts
  <2>7. QED
    BY <1>13, <1>15, <1>16, <2>6 DEF Solvent, x
<1>18. AboveFloor(w)
  BY <1>3, <1>13, <1>16 DEF AboveFloor
<1>19. Utilization(w.reserveC, DebtOf(w.borrowedC)) <= MaxUtilization
  BY <1>3, <1>8, <1>11
<1>20. NothingNegative(w) /\ w.sharesC > 0
  BY <1>1, <1>3, <1>4, <1>8
<1>21. PoolAccepts(w, m)
  BY <1>3, <1>9, <1>17, <1>18, <1>19, <1>20 DEF PoolAccepts
<1>22. w # Reverted
  BY <1>8, <1>21, NotReverted DEF Sound
<1>23. QED
  BY <1>8, <1>10, <1>21, <1>22 DEF WithdrawCalls, m

\* The cap of a close's approval covers the debt rounded up until interest outgrows its buffer.
LEMMA CapCovers ==
  ASSUME Today, NEW n \in Nat, NEW debt \in Nat,
         ~(DebtOf(n) - debt > DivCeil(debt * BufferBps, Bps))
  PROVE  ApprovalCap(debt) \in Nat /\ DebtUp(n) <= ApprovalCap(debt)
<1>1. Rate[now] \in Nat
  BY RateFacts DEF Today
<1>2. DebtUp(n) \in Nat /\ DebtOf(n) \in Nat /\ DebtUp(n) <= DebtOf(n) + 1
  BY <1>1, RoundedNear, DebtNat DEF DebtUp, DebtOf
<1>3. DivCeil(debt * BufferBps, Bps) \in Nat
  <2>1. debt * BufferBps \in Nat /\ Bps \in Nat \ {0}
    BY VesuMathAssumption, ProductNat
  <2>2. QED
    BY <2>1, CeilIsUp, UpNat
<1>4. QED
  BY <1>2, <1>3 DEF ApprovalCap

\* A close is executed whenever the pool has what it takes out, and within the limit.
LEMMA CloseHolds ==
  ASSUME Settled(chain), Today, live, price.coll \in Nat, price.debt \in Nat,
         NEW debt \in Nat, ~Outgrown(debt),
         chain.debt >= DebtUp(chain.nominal),
         NEW w, w = Modified(chain, Modify(Native(-chain.shares), Native(-chain.nominal))),
         w.reserveC >= 0, Utilization(w.reserveC, DebtOf(w.borrowedC)) <= MaxUtilization
  PROVE  Executed(CloseCalls(chain.shares, chain.nominal, ApprovalCap(debt))) # Reverted
<1> DEFINE s == chain.shares
           n == chain.nominal
           cap == ApprovalCap(debt)
           x == Native(-s)
           y == Native(-n)
           m == Modify(x, y)
           b == [chain EXCEPT !["allowD"] = cap]
           a == Modified(b, m)
<1>1. /\ chain \in Chain /\ TotalCollateral(chain) > 0
      /\ chain.shares \in Nat /\ chain.sharesC \in Nat \ {0} /\ chain.reserveC \in Nat
      /\ chain.coll \in Nat /\ chain.nominal \in Nat /\ chain.borrowedD \in Nat
      /\ chain.reserveD \in Nat /\ chain.debt \in Nat /\ chain.shares < chain.sharesC
      /\ chain.nominal <= chain.borrowedD
  BY SoundFacts
<1>2. cap \in Nat /\ DebtUp(n) <= cap
  BY <1>1, CapCovers DEF Outgrown
<1>3. /\ CollateralFair(chain, x) /\ SharesMoved(chain, x) = -s
      /\ CollateralMoved(chain, x) = -CollateralOf(chain, s) /\ CollateralOf(chain, s) \in Nat
  BY <1>1, MovesNative
<1>4. /\ DebtFair(chain, y) /\ NominalMoved(y) = -n
      /\ DebtMoved(y) = -DebtUp(n) /\ DebtUp(n) \in Nat
  BY <1>1, PaysOff
<1>5. m.coll = x /\ m.debt = y /\ x.value = -s /\ y.value = -n
  BY Parts
<1>6. PoolAccepts(a, m) => Executed(CloseCalls(s, n, cap)) # Reverted
  BY <1>1, <1>2, CloseLeaves
<1> HIDE DEF x, y
<1>7. /\ b.allowC = 0 /\ b.allowD = cap
      /\ Alike(a, w)
      /\ a.allowC = (IF CollateralMoved(chain, x) > 0 THEN b.allowC - CollateralMoved(chain, x)
                     ELSE b.allowC)
      /\ a.allowD = (IF DebtMoved(y) < 0 THEN b.allowD + DebtMoved(y) ELSE b.allowD)
      /\ (/\ w.shares >= 0 /\ w.sharesC >= 0 /\ w.reserveC >= 0 /\ w.coll >= 0
          /\ w.nominal >= 0 /\ w.borrowedD >= 0 /\ w.reserveD >= 0 /\ w.debt >= 0
          /\ a.allowC >= 0 /\ a.allowD >= 0) => NothingNegative(a)
  <2>1. "allowD" \in {"allowC", "allowD"} /\ "allowD" # "allowC"
    OBVIOUS
  <2>2. w = Modified(chain, m)
    BY DEF x, y
  <2> HIDE DEF cap, Settled
  <2>3. QED
    BY <1>2, <1>3, <1>4, <2>1, <2>2, ApprovedMove
<1>8. /\ w.shares = chain.shares + SharesMoved(chain, x)
      /\ w.sharesC = chain.sharesC + SharesMoved(chain, x)
      /\ w.coll = chain.coll - CollateralMoved(chain, x)
      /\ w.nominal = chain.nominal + NominalMoved(y) /\ w.borrowedD = chain.borrowedD + NominalMoved(y)
      /\ w.reserveD = chain.reserveD - DebtMoved(y) /\ w.debt = chain.debt + DebtMoved(y)
      /\ w.reserveC = chain.reserveC + CollateralMoved(chain, x)
      /\ w.borrowedC = chain.borrowedC
  <2>1. w = Modified(chain, m)
    BY DEF x, y
  <2>2. QED
    BY <1>3, <1>4, <2>1, BareMove
<1> HIDE DEF m, a, b, cap
<1>9. w.shares = 0 /\ w.sharesC > 0 /\ w.nominal = 0
  BY <1>1, <1>3, <1>4, <1>8
<1>10. NothingNegative(a)
  <2>1. a.allowC = 0 /\ a.allowD >= 0
    BY <1>2, <1>3, <1>4, <1>7
  <2>2. w.coll >= 0 /\ w.borrowedD >= 0 /\ w.reserveD >= 0 /\ w.debt >= 0
    BY <1>1, <1>3, <1>4, <1>8
  <2>3. w.shares >= 0 /\ w.sharesC >= 0 /\ w.nominal >= 0 /\ a.allowC >= 0
    BY <1>1, <1>3, <1>8, <1>9, <2>1
  <2>4. QED
    BY <1>7, <2>1, <2>2, <2>3, Zenon
<1>11. a.shares = 0 /\ a.sharesC > 0 /\ a.nominal = 0
       /\ a.reserveC = w.reserveC /\ a.borrowedC = w.borrowedC
  BY <1>7, <1>9 DEF Alike
<1>12. Solvent(a)
  <2>1. DebtUp(0) = 0
    <3>1. Rate[now] \in Nat
      BY RateFacts DEF Today
    <3>2. 0 * Rate[now] = 0
      BY <3>1
    <3>3. Up(0, Scale) = 0
      <4>1. 0 % Scale = 0 /\ 0 \div Scale = 0
        BY ScalePos
      <4>2. QED
        BY <4>1 DEF Up
    <3>4. QED
      BY <3>2, <3>3 DEF DebtUp
  <2>2. CollateralValue(w, 0) \in Nat
    <3>1. DebtOf(chain.borrowedC) \in Nat
      BY <1>1, RateFacts, DebtNat DEF DebtOf, Today, Chain
    <3>2. TotalCollateral(w) \in Nat /\ w.sharesC \in Nat \ {0}
      BY <1>1, <1>3, <1>8, <1>9, <3>1 DEF TotalCollateral
    <3>3. QED
      BY <3>2, WorthNat
  <2>3. CollateralValue(w, 0) * MaxLtv \in Nat /\ 0 * Scale = 0
    BY <2>2, ScalePos, LimitFacts, ProductNat
  <2>6. DebtValue(w) = 0
    <3>1. 0 * price.debt = 0 /\ Up(0, Scale) = 0
      <4>1. 0 % Scale = 0 /\ 0 \div Scale = 0
        BY ScalePos
      <4>2. QED
        BY <4>1 DEF Up
    <3>2. ValueRoundedUp(0, price.debt) = 0
      BY <3>1, ScalePos, CeilIsUp DEF ValueRoundedUp
    <3>3. QED
      BY <1>9, <2>1, <3>2 DEF DebtValue
  <2>4. Solvent(w)
    BY <1>9, <2>3, <2>6 DEF Solvent
  <2>5. QED
    BY <1>7, <2>4, AlikeFacts
<1>13. PoolAccepts(a, m)
  <2>1. AboveFloor(a)
    BY <1>11 DEF AboveFloor
  <2>2. ~(m.debt.value > 0)
    BY <1>1, <1>5
  <2>3. QED
    BY <1>10, <1>11, <1>12, <2>1, <2>2 DEF PoolAccepts
<1>14. QED
  BY <1>6, <1>13 DEF cap

-----------------------------------------------------------------------------
(* The inductive invariant: between transactions the pool, the position and the wallet are
   sound and nothing is approved, and a payload still is what its route made of the world it
   saw, of which it knows what has not changed since. *)

Made(p) ==
  /\ p = [status |-> p.status, calls |-> p.calls, spends |-> p.spends, saw |-> p.saw]
  /\ p.status \in {"reviewed", "signed"}
  /\ p.saw.now \in 1..now /\ p.saw.moves \in 0..moves /\ p.saw.txs \in 0..txs
  /\ p.saw.price \in Nat

Current(p) == p.saw.now = now /\ p.saw.moves = moves /\ p.saw.txs = txs

Positive == Nat \ {0}

MadeToBorrow(p) == \E c, d \in Positive :
  /\ p.calls = BorrowCalls(c, d) /\ p.spends.coll = c
  /\ p.saw.moves = moves /\ p.saw.txs = txs => d <= chain.reserveD

MadeToRepay(p) == \E d \in Positive :
  /\ p.calls = RepayCalls(d) /\ p.spends.debt = d
  /\ p.saw.txs = txs => LET owed == CalculateDebt(chain.nominal, Rate[p.saw.now]) IN
                        d < owed /\ ValueRoundedUp(owed - d, p.saw.price) > Floor

MadeToAdd(p) == \E c \in Positive : p.calls = AddCalls(c) /\ p.spends.coll = c

MadeToWithdraw(p) == \E c \in Positive :
  p.calls = WithdrawCalls(c) /\ (Current(p) => WithdrawAllowed(c))

MadeToClose(p) == \E s, n, debt \in Nat :
  /\ p.calls = CloseCalls(s, n, ApprovalCap(debt)) /\ p.spends.debt = debt
  /\ p.saw.txs = txs => s = chain.shares /\ n = chain.nominal

MadeToLend(p) == \E d \in Positive :
  /\ p.calls = LendCalls(d) /\ p.spends.debt = d
  /\ p.saw.txs = txs => VaultRoom(chain, d)

MadeToRedeem(p) == \E s \in Positive :
  p.calls = RedeemCalls(s) /\ (Current(p) => RedeemAllowed(s))

MadeFor(k, p) ==
  /\ k = "borrow" => MadeToBorrow(p)
  /\ k = "repay" => MadeToRepay(p)
  /\ k = "add" => MadeToAdd(p)
  /\ k = "withdraw" => MadeToWithdraw(p)
  /\ k = "close" => MadeToClose(p)
  /\ k = "lend" => MadeToLend(p)
  /\ k = "redeem" => MadeToRedeem(p)

Types == Today /\ price.coll \in Nat /\ price.debt \in Nat /\ moves \in Nat /\ txs \in Nat

Payloads ==
  /\ dialog = [k \in Kind |-> dialog[k]]
  /\ \A k \in Kind : dialog[k] # Idle => Made(dialog[k]) /\ MadeFor(k, dialog[k])

IInv == Types /\ Settled(chain) /\ Payloads

LEMMA CapNat ==
  ASSUME NEW debt \in Nat
  PROVE  ApprovalCap(debt) \in Nat
<1>1. debt * BufferBps \in Nat /\ Bps \in Nat \ {0}
  BY VesuMathAssumption, ProductNat
<1>2. DivCeil(debt * BufferBps, Bps) \in Nat
  BY <1>1, CeilIsUp, UpNat
<1>3. QED
  BY <1>2 DEF ApprovalCap

\* Whatever is executed leaves a sound position and no allowance.
LEMMA ExecutedFine ==
  ASSUME IInv, NEW k \in Kind, dialog[k] # Idle
  PROVE  Fine(Executed(dialog[k].calls))
<1>1. Settled(chain) /\ Today /\ MadeFor(k, dialog[k])
  BY DEF IInv, Types, Payloads
<1> HIDE DEF Settled
<1>2. CASE k = "borrow"
  <2>1. PICK c, d \in Positive : dialog[k].calls = BorrowCalls(c, d)
    BY <1>1, <1>2 DEF MadeFor, MadeToBorrow
  <2>2. c \in Nat \ {0} /\ d \in Nat
    BY DEF Positive
  <2>3. QED
    BY <1>1, <2>1, <2>2, BorrowLeaves DEF BorrowCalls
<1>3. CASE k = "repay"
  <2>1. PICK d \in Positive : dialog[k].calls = RepayCalls(d)
    BY <1>1, <1>3 DEF MadeFor, MadeToRepay
  <2>2. QED
    BY <1>1, <2>1, RepayLeaves DEF Positive
<1>4. CASE k = "add"
  <2>1. PICK c \in Positive : dialog[k].calls = AddCalls(c)
    BY <1>1, <1>4 DEF MadeFor, MadeToAdd
  <2>2. c \in Nat \ {0} /\ 0 \in Nat
    BY DEF Positive
  <2>3. QED
    BY <1>1, <2>1, <2>2, BorrowLeaves DEF AddCalls
<1>5. CASE k = "withdraw"
  <2>1. PICK c \in Positive : dialog[k].calls = WithdrawCalls(c)
    BY <1>1, <1>5 DEF MadeFor, MadeToWithdraw
  <2>2. QED
    BY <1>1, <2>1, WithdrawLeaves DEF Positive
<1>6. CASE k = "close"
  <2>1. PICK s, n, debt \in Nat : dialog[k].calls = CloseCalls(s, n, ApprovalCap(debt))
    BY <1>1, <1>6 DEF MadeFor, MadeToClose
  <2>2. ApprovalCap(debt) \in Nat
    BY CapNat
  <2>3. QED
    BY <1>1, <2>1, <2>2, CloseLeaves
<1>7. CASE k = "lend"
  <2>1. PICK d \in Positive : dialog[k].calls = LendCalls(d)
    BY <1>1, <1>7 DEF MadeFor, MadeToLend
  <2>2. QED
    BY <1>1, <2>1, LendLeaves DEF Positive
<1>8. CASE k = "redeem"
  <2>1. PICK s \in Positive : dialog[k].calls = RedeemCalls(s)
    BY <1>1, <1>8 DEF MadeFor, MadeToRedeem
  <2>2. QED
    BY <1>1, <2>1, RedeemLeaves DEF Positive
<1>9. QED
  BY <1>2, <1>3, <1>4, <1>5, <1>6, <1>7, <1>8 DEF Kind

\* Others move the pool, or interest accrues: the position is as it was, and what had room
\* in the vault still has.
PoolMoved ==
  /\ now' \in Nat /\ moves' \in Nat /\ now' >= now /\ moves' >= moves
  /\ moves' # moves \/ (now' # now /\ chain' = chain)
  /\ txs' = txs /\ chain'.shares = chain.shares /\ chain'.nominal = chain.nominal
  /\ \A d \in Nat : VaultRoom(chain, d) => VaultRoom(chain, d)'

\* The shares of a deposit do not grow with what the vault holds.
LEMMA RoomKept ==
  ASSUME Settled(chain), chain'.sharesD = chain.sharesD,
         VaultAssets(chain) \in Nat, VaultAssets(chain)' \in Nat,
         VaultAssets(chain) <= VaultAssets(chain)'
  PROVE  \A d \in Nat : VaultRoom(chain, d) => VaultRoom(chain, d)'
<1>1. chain.sharesD \in Nat /\ VaultAssets(chain) > 0
  BY DEF Settled, Sound, Chain
<1>2. PICK s : s = chain.sharesD
  OBVIOUS
<1>3. PICK t : t = VaultAssets(chain)
  OBVIOUS
<1>4. PICK u : u = VaultAssets(chain)'
  OBVIOUS
<1>5. s \in Nat /\ t \in Nat \ {0} /\ u \in Nat \ {0} /\ t <= u
  BY <1>1, <1>2, <1>3, <1>4
<1>6. ASSUME NEW d \in Nat, VaultRoom(chain, d)
      PROVE  VaultRoom(chain, d)'
  <2>1. d * s \in Nat
    BY <1>5, ProductNat
  <2>2. /\ (d * s) \div u <= (d * s) \div t
        /\ (d * s) \div u \in Nat /\ (d * s) \div t \in Nat
    BY <1>5, <2>1, DivAnti, DivNat
  <2>3. s + ((d * s) \div t) <= VaultCap
    BY <1>2, <1>3, <1>6 DEF VaultRoom, VaultShares, SharesToMint
  <2>4. s + ((d * s) \div u) <= VaultCap
    BY <1>5, <2>2, <2>3, LimitFacts
  <2>5. QED
    BY <1>2, <1>4, <2>4 DEF VaultRoom, VaultShares, SharesToMint
<1>7. QED
  BY <1>6

\* What a payload knows survives a step that only changes a dialog, one that changes the
\* pool but not the position, and another transaction.
LEMMA StillMadeFor ==
  ASSUME Types, NEW k \in Kind, NEW p, Made(p), MadeFor(k, p),
         \/ UNCHANGED <<now, price, live, chain, moves, txs>>
         \/ PoolMoved
         \/ now' = now /\ moves' = moves /\ txs' = txs + 1
  PROVE  Made(p)' /\ MadeFor(k, p)'
<1>1. now \in Nat /\ moves \in Nat /\ txs \in Nat
  BY RateFacts DEF Types, Today
<1>2. p.saw.now \in 1..now /\ p.saw.moves \in 0..moves /\ p.saw.txs \in 0..txs
  BY DEF Made
<1>3. Made(p)'
  <2>1. /\ now' \in Nat /\ moves' \in Nat /\ txs' \in Nat
        /\ now' >= now /\ moves' >= moves /\ txs' >= txs
    BY <1>1 DEF PoolMoved
  <2>2. p.saw.now \in 1..now' /\ p.saw.moves \in 0..moves' /\ p.saw.txs \in 0..txs'
    BY <1>1, <1>2, <2>1
  <2>3. QED
    BY <2>2, Zenon DEF Made
<1>4. CASE UNCHANGED <<now, price, live, chain, moves, txs>>
  <2>1. \A d : VaultRoom(chain, d)' <=> VaultRoom(chain, d)
    BY <1>4 DEF VaultRoom, VaultShares, VaultAssets, DebtOf
  <2>2. \A c : WithdrawAllowed(c)' <=> WithdrawAllowed(c)
    BY <1>4 DEF WithdrawAllowed, AddAllowed, TotalCollateral, CollateralValue, CollateralOf, DebtOf
  <2>3. \A s : RedeemAllowed(s)' <=> RedeemAllowed(s)
    BY <1>4 DEF RedeemAllowed, MaxRedeem, VaultValue, VaultAssets, DebtOf
  <2>4. MadeFor(k, p)'
    BY <1>4, <2>1, <2>2, <2>3
       DEF MadeFor, MadeToBorrow, MadeToRepay, MadeToAdd, MadeToWithdraw, MadeToClose, MadeToLend,
           MadeToRedeem, Current
  <2>5. QED
    BY <1>3, <2>4
<1>5. CASE PoolMoved
  <2>1. /\ now' \in Nat /\ moves' \in Nat /\ now' >= now /\ moves' >= moves
        /\ moves' # moves \/ (now' # now /\ chain' = chain)
        /\ txs' = txs /\ chain'.shares = chain.shares /\ chain'.nominal = chain.nominal
        /\ \A d \in Nat : VaultRoom(chain, d) => VaultRoom(chain, d)'
    BY <1>5 DEF PoolMoved
  <2>2. ~Current(p)'
    BY <1>1, <1>2, <2>1 DEF Current
  <2>3. MadeToBorrow(p) => MadeToBorrow(p)'
    <3>1. CASE moves' # moves
      <4>1. p.saw.moves # moves'
        BY <1>1, <1>2, <2>1, <3>1
      <4>2. QED
        BY <4>1 DEF MadeToBorrow
    <3>2. CASE moves' = moves
      BY <2>1, <3>2 DEF MadeToBorrow
    <3>3. QED
      BY <3>1, <3>2
  <2>4. MadeToLend(p) => MadeToLend(p)'
    BY <2>1 DEF MadeToLend, Positive
  <2>5. MadeFor(k, p)'
    BY <2>1, <2>2, <2>3, <2>4
       DEF MadeFor, MadeToRepay, MadeToAdd, MadeToWithdraw, MadeToClose, MadeToRedeem
  <2>6. QED
    BY <1>3, <2>5
<1>6. CASE now' = now /\ moves' = moves /\ txs' = txs + 1
  <2>1. p.saw.txs # txs'
    BY <1>1, <1>2, <1>6
  <2>2. ~Current(p)'
    BY <2>1 DEF Current
  <2>3. MadeFor(k, p)'
    BY <2>1, <2>2
       DEF MadeFor, MadeToBorrow, MadeToRepay, MadeToAdd, MadeToWithdraw, MadeToClose, MadeToLend,
           MadeToRedeem
  <2>4. QED
    BY <1>3, <2>3
<1>7. QED
  BY <1>4, <1>5, <1>6

\* A transaction that reverts does so for a reason its route cannot know or does not look at.
LEMMA RevertExcused ==
  ASSUME IInv, NEW k \in Kind, dialog[k].status = "signed",
         Executed(dialog[k].calls) = Reverted
  PROVE  Excused(k)
<1> DEFINE p == dialog[k]
           after == Modified(chain, p.calls[2])
<1>1. dialog[k] # Idle
  BY DEF Idle
<1>2. /\ Settled(chain) /\ Today /\ price.coll \in Nat /\ price.debt \in Nat
      /\ Made(p) /\ MadeFor(k, p)
      /\ now \in Nat /\ p.saw.now \in DOMAIN Rate /\ p.saw.now <= now
  <2>1. Settled(chain) /\ Types /\ Made(p) /\ MadeFor(k, p)
    BY <1>1 DEF IInv, Payloads
  <2>2. DOMAIN Rate = 1..Len(Rate) /\ Len(Rate) \in Nat
    BY PoolAssumption
  <2>3. now \in 1..Len(Rate) /\ p.saw.now \in 1..now
    BY <2>1, <2>2 DEF Types, Today, Made
  <2>4. QED
    BY <2>1, <2>2, <2>3 DEF Types
<1>3. chain \in Chain /\ chain.coll \in Nat /\ chain.debt \in Nat /\ chain.nominal \in Nat
      /\ chain.shares \in Nat
  BY <1>2, SoundFacts
<1>4. SUFFICES ASSUME ~Excused(k) PROVE FALSE
  OBVIOUS
<1>5. /\ ~WalletShort(k) /\ p.saw.txs = txs /\ live
      /\ k \in {"borrow", "withdraw", "redeem"} => p.saw.moves = moves
      /\ k \in {"withdraw", "redeem"} => p.saw.now = now
      /\ k = "repay" => ~(price.debt < p.saw.price)
      /\ k = "close" => ~Outgrown(p.spends.debt)
      /\ k = "withdraw" => ~(DebtValue(chain) <= Floor)
      /\ k \in {"borrow", "repay", "add", "close"} => ~NotLookedAt(k, after)
  BY <1>4 DEF Excused, Seen
<1>6. k \in {"withdraw", "redeem"} => Current(p)
  BY <1>5 DEF Current
<1>7. Executed(p.calls) = Reverted
  OBVIOUS
<1>8. /\ p.spends.coll \in Nat => p.spends.coll <= chain.coll
      /\ p.spends.debt \in Nat => p.spends.debt <= chain.debt
  BY <1>3, <1>5 DEF WalletShort
<1> HIDE DEF p, Settled
<1>9. CASE k = "borrow"
  <2>1. PICK c, d \in Positive :
          p.calls = BorrowCalls(c, d) /\ p.spends.coll = c /\ d <= chain.reserveD
    BY <1>2, <1>5, <1>9 DEF MadeFor, MadeToBorrow
  <2>2. c \in Nat \ {0} /\ d \in Nat \ {0} /\ chain.coll >= c
    BY <1>3, <1>8, <2>1 DEF Positive
  <2>3. p.calls[2] = Modify(Assets(c), Assets(d)) /\ p.calls[2].debt.value = d
    BY <2>1, Parts DEF BorrowCalls
  <2>4. AboveFloor(after) /\ Solvent(after) /\ ~AtLimit(d)
    BY <1>5, <1>9, <2>3 DEF NotLookedAt, p
  <2>5. QED
    BY <1>2, <1>5, <1>7, <2>1, <2>2, <2>3, <2>4, BorrowHolds
<1>10. CASE k = "repay"
  <2>1. PICK d \in Positive :
          /\ p.calls = RepayCalls(d) /\ p.spends.debt = d
          /\ d < CalculateDebt(chain.nominal, Rate[p.saw.now])
          /\ ValueRoundedUp(CalculateDebt(chain.nominal, Rate[p.saw.now]) - d, p.saw.price) > Floor
    BY <1>2, <1>5, <1>10 DEF MadeFor, MadeToRepay
  <2>2. d \in Nat \ {0} /\ chain.debt >= d
    BY <1>3, <1>8, <2>1 DEF Positive
  <2>3. after = Modified(chain, Modify(Assets(0), Assets(-d)))
    BY <2>1 DEF RepayCalls
  <2>4. Rate[p.saw.now] \in Nat /\ Rate[p.saw.now] <= Rate[now]
    BY <1>2, RateFacts DEF Today
  <2>5. CollateralValue(after, after.shares) > Floor
    <3>1. ~(CollateralValue(after, after.shares) <= Floor)
      BY <1>5, <1>10 DEF NotLookedAt
    <3>2. SharesMoved(chain, Assets(0)) = 0 /\ CollateralMoved(chain, Assets(0)) = 0
          /\ CollateralFair(chain, Assets(0)) /\ DebtFair(chain, Assets(-d))
      BY <1>2, <2>2, SoundFacts, MovesIn, Repays
    <3>3. CollateralValue(after, after.shares) \in Int
      <4>1. /\ after.shares = chain.shares + 0 /\ after.sharesC = chain.sharesC + 0
            /\ after.reserveC = chain.reserveC + 0 /\ after.borrowedC = chain.borrowedC
        BY <1>2, <2>3, <3>2, BareMove
      <4>2. TotalCollateral(after) = TotalCollateral(chain)
        BY <1>3, <4>1 DEF TotalCollateral, Chain
      <4>3. TotalCollateral(after) \in Nat /\ after.sharesC \in Nat \ {0} /\ after.shares \in Nat
        BY <1>2, <1>3, <4>1, <4>2, SoundFacts, TotalFacts
      <4>4. QED
        BY <1>2, <4>3, WorthNat
    <3>4. QED
      BY <3>1, <3>3, LimitFacts
  <2>6. QED
    <3>1. p.saw.price \in Nat /\ p.saw.price <= price.debt
      BY <1>2, <1>5, <1>10 DEF Made
    <3>2. QED
      BY <1>2, <1>5, <1>7, <2>1, <2>2, <2>3, <2>4, <2>5, <3>1, RepayHolds
<1>11. CASE k = "add"
  <2>1. PICK c \in Positive : p.calls = AddCalls(c) /\ p.spends.coll = c
    BY <1>2, <1>11 DEF MadeFor, MadeToAdd
  <2>2. c \in Nat \ {0} /\ chain.coll >= c
    BY <1>3, <1>8, <2>1 DEF Positive
  <2>3. after = Modified(chain, Modify(Assets(c), Assets(0)))
    BY <2>1 DEF AddCalls
  <2>4. AboveFloor(after)
    BY <1>5, <1>11 DEF NotLookedAt
  <2>5. QED
    BY <1>2, <1>5, <1>7, <2>1, <2>2, <2>3, <2>4, AddHolds
<1>12. CASE k = "withdraw"
  <2>1. PICK c \in Positive : p.calls = WithdrawCalls(c) /\ WithdrawAllowed(c)
    BY <1>2, <1>6, <1>12 DEF MadeFor, MadeToWithdraw
  <2>2. DebtValue(chain) > Floor
    BY <1>2, <1>3, <1>5, <1>12, DebtValueNat, LimitFacts
  <2>3. QED
    BY <1>2, <1>7, <2>1, <2>2, WithdrawHolds DEF Positive
<1>13. CASE k = "close"
  <2>1. PICK s, n, debt \in Nat :
          /\ p.calls = CloseCalls(s, n, ApprovalCap(debt)) /\ p.spends.debt = debt
          /\ s = chain.shares /\ n = chain.nominal
    BY <1>2, <1>5, <1>13 DEF MadeFor, MadeToClose
  <2>2. after = Modified(chain, Modify(Native(-chain.shares), Native(-chain.nominal)))
    BY <2>1 DEF CloseCalls
  <2>3. ~(chain.debt < DebtUp(chain.nominal)) /\ ~Outgrown(debt)
    BY <1>5, <1>13, <2>1 DEF WalletShort
  <2>4. ~(after.reserveC < 0)
        /\ ~(Utilization(after.reserveC, DebtOf(after.borrowedC)) > MaxUtilization)
    BY <1>5, <1>13 DEF NotLookedAt
  <2>5. DebtUp(chain.nominal) \in Nat
    BY <1>2, <1>3, PaysOff
  <2>6. after.reserveC \in Int /\ after.borrowedC = chain.borrowedC
    <3>1. /\ CollateralMoved(chain, Native(-chain.shares)) \in Int
          /\ CollateralFair(chain, Native(-chain.shares)) /\ DebtFair(chain, Native(-chain.nominal))
      BY <1>2, <1>3, SoundFacts, MovesNative, PaysOff DEF CollateralFair
    <3>2. /\ after.reserveC = chain.reserveC + CollateralMoved(chain, Native(-chain.shares))
          /\ after.borrowedC = chain.borrowedC
      BY <1>2, <2>2, <3>1, BareMove
    <3>3. QED
      BY <1>2, <3>1, <3>2, SoundFacts
  <2>7. Utilization(after.reserveC, DebtOf(after.borrowedC)) \in Int
    <3>1. DebtOf(after.borrowedC) \in Nat
      BY <1>2, <1>3, <2>6, RateFacts, DebtNat DEF DebtOf, Chain, Today
    <3>2. after.reserveC \in Nat
      BY <2>4, <2>6
    <3>3. after.reserveC + DebtOf(after.borrowedC) \in Nat /\ DebtOf(after.borrowedC) * Scale \in Int
      BY <3>1, <3>2, ScalePos
    <3>4. QED
      BY <3>3, DivFacts DEF Utilization
  <2>8. /\ chain.debt >= DebtUp(chain.nominal) /\ after.reserveC >= 0
        /\ Utilization(after.reserveC, DebtOf(after.borrowedC)) <= MaxUtilization
    BY <1>3, <2>3, <2>4, <2>5, <2>6, <2>7, LimitFacts
  <2>9. QED
    BY <1>2, <1>5, <1>7, <2>1, <2>2, <2>3, <2>8, CloseHolds
<1>14. CASE k = "lend"
  <2>1. PICK d \in Positive :
          p.calls = LendCalls(d) /\ p.spends.debt = d /\ VaultRoom(chain, d)
    BY <1>2, <1>5, <1>14 DEF MadeFor, MadeToLend
  <2>2. d \in Nat \ {0} /\ ~(chain.debt < d)
    BY <1>3, <1>8, <2>1 DEF Positive
  <2>3. QED
    BY <1>2, <1>5, <1>7, <2>1, <2>2, LendLeaves
<1>15. CASE k = "redeem"
  <2>1. PICK s \in Positive : p.calls = RedeemCalls(s) /\ RedeemAllowed(s)
    BY <1>2, <1>6, <1>15 DEF MadeFor, MadeToRedeem
  <2>2. QED
    BY <1>2, <1>7, <2>1, RedeemLeaves DEF Positive
<1>16. QED
  BY <1>9, <1>10, <1>11, <1>12, <1>13, <1>14, <1>15 DEF Kind

-----------------------------------------------------------------------------
(* The invariant is inductive *)

\* What a step does to the world that payloads were prepared in.
Goes ==
  \/ UNCHANGED <<now, price, live, chain, moves, txs>>
  \/ PoolMoved
  \/ now' = now /\ moves' = moves /\ txs' = txs + 1

LEMMA NextPayloads ==
  ASSUME Types, Goes, dialog' = [k \in Kind |-> dialog'[k]],
         \A k \in Kind : dialog'[k] # Idle => \E p : p = dialog'[k] /\ Made(p) /\ MadeFor(k, p)
  PROVE  Payloads'
<1>1. ASSUME NEW k \in Kind, dialog'[k] # Idle
      PROVE  Made(dialog[k])' /\ MadeFor(k, dialog[k])'
  <2>1. PICK p : p = dialog'[k] /\ Made(p) /\ MadeFor(k, p)
    BY <1>1
  <2>2. Made(p)' /\ MadeFor(k, p)'
    BY <2>1, StillMadeFor DEF Goes
  <2>3. QED
    BY <2>1, <2>2
       DEF Made, MadeFor, MadeToBorrow, MadeToRepay, MadeToAdd, MadeToWithdraw, MadeToClose,
           MadeToLend, MadeToRedeem, Current
<1>2. QED
  BY <1>1 DEF Payloads, Idle

\* Soundness depends on the pool and the rate alone.
LEMMA SettledKept ==
  ASSUME Settled(chain), UNCHANGED <<now, chain>>
  PROVE  Settled(chain)'
BY DEF Settled, Sound, Unapproved, TotalCollateral, VaultAssets, DebtOf

\* A route that prepares a payload makes it for its kind.
LEMMA ReviewKeeps ==
  ASSUME IInv, NEW k \in Kind, NEW calls, NEW coll, NEW debt,
         Review(k, Payload(calls, coll, debt)), MadeFor(k, Payload(calls, coll, debt))
  PROVE  IInv'
<1>1. PICK p : p = Payload(calls, coll, debt)
  OBVIOUS
<1>2. /\ dialog' = [dialog EXCEPT ![k] = p]
      /\ UNCHANGED <<now, price, live, chain, moves, txs>>
  BY <1>1 DEF Review
<1>3. Types /\ Settled(chain) /\ Payloads
  BY DEF IInv
<1>4. now \in Nat \ {0} /\ moves \in Nat /\ txs \in Nat /\ price.debt \in Nat
  BY <1>3, RateFacts DEF Types, Today
<1>5. Made(p)
  BY <1>1, <1>4 DEF Payload, Made
<1>6. MadeFor(k, p)
  BY <1>1
<1>7. dialog' = [j \in Kind |-> dialog'[j]]
  BY <1>2, <1>3 DEF Payloads
<1>8. ASSUME NEW j \in Kind, dialog'[j] # Idle
      PROVE  \E q : q = dialog'[j] /\ Made(q) /\ MadeFor(j, q)
  <2>1. CASE j = k
    <3>1. dialog'[j] = p
      BY <1>2, <1>3, <2>1 DEF Payloads
    <3>2. QED
      BY <1>5, <1>6, <2>1, <3>1
  <2>2. CASE j # k
    <3>1. dialog'[j] = dialog[j]
      BY <1>2, <1>3, <2>2 DEF Payloads
    <3>2. Made(dialog[j]) /\ MadeFor(j, dialog[j])
      BY <1>3, <1>8, <3>1 DEF Payloads
    <3>3. QED
      BY <3>1, <3>2
  <2>3. QED
    BY <2>1, <2>2
<1>9. Payloads'
  BY <1>2, <1>3, <1>7, <1>8, NextPayloads DEF Goes
<1>10. Settled(chain)' /\ Types'
  BY <1>2, <1>3, SettledKept DEF Types, Today
<1>11. QED
  BY <1>9, <1>10 DEF IInv

LEMMA PreparingKeeps ==
  ASSUME IInv, Preparing
  PROVE  IInv'
<1>1. Types /\ Settled(chain)
  BY DEF IInv
<1>2. Amount \subseteq Positive /\ AmountD \subseteq Positive
  BY PoolAssumption DEF Positive
<1>3. chain.nominal \in Nat /\ chain.shares \in Nat /\ Rate[now] \in Nat
  BY <1>1, SoundFacts, RateFacts DEF Types, Today
<1>4. ASSUME NEW c \in Amount, NEW d \in AmountD, PrepareBorrow(c, d) PROVE IInv'
  <2> DEFINE p == Payload(BorrowCalls(c, d), c, 0)
  <2>1. p.calls = BorrowCalls(c, d) /\ p.spends.coll = c
    BY DEF Payload
  <2>2. BorrowEligible(c, d) /\ Review("borrow", p)
    BY <1>4 DEF PrepareBorrow
  <2> HIDE DEF p
  <2>3. MadeToBorrow(p)
    BY <1>2, <2>1, <2>2 DEF MadeToBorrow, BorrowEligible
  <2>4. MadeFor("borrow", p) /\ "borrow" \in Kind
    BY <2>3 DEF MadeFor, Kind
  <2>5. QED
    BY <2>2, <2>4, ReviewKeeps DEF p
<1>5. ASSUME NEW d \in AmountD, PrepareRepay(d) PROVE IInv'
  <2> DEFINE p == Payload(RepayCalls(d), 0, d)
             owed == CalculateDebt(chain.nominal, Rate[now])
  <2>1. p.calls = RepayCalls(d) /\ p.spends.debt = d /\ p.saw.now = now /\ p.saw.price = price.debt
    BY DEF Payload
  <2>2. d < owed /\ ValueRoundedUp(owed - d, price.debt) > Floor /\ Review("repay", p)
    BY <1>5 DEF PrepareRepay, RepayAllowed, DebtOf
  <2> HIDE DEF p
  <2>3. MadeToRepay(p)
    BY <1>2, <2>1, <2>2 DEF MadeToRepay
  <2>4. MadeFor("repay", p) /\ "repay" \in Kind
    BY <2>3 DEF MadeFor, Kind
  <2>5. QED
    BY <2>2, <2>4, ReviewKeeps DEF p
<1>6. ASSUME NEW c \in Amount, PrepareAdd(c) PROVE IInv'
  <2> DEFINE p == Payload(AddCalls(c), c, 0)
  <2>1. p.calls = AddCalls(c) /\ p.spends.coll = c
    BY DEF Payload
  <2>2. Review("add", p)
    BY <1>6 DEF PrepareAdd
  <2> HIDE DEF p
  <2>3. MadeToAdd(p)
    BY <1>2, <2>1 DEF MadeToAdd
  <2>4. MadeFor("add", p) /\ "add" \in Kind
    BY <2>3 DEF MadeFor, Kind
  <2>5. QED
    BY <2>2, <2>4, ReviewKeeps DEF p
<1>7. ASSUME NEW c \in Amount, PrepareWithdraw(c) PROVE IInv'
  <2> DEFINE p == Payload(WithdrawCalls(c), 0, 0)
  <2>1. p.calls = WithdrawCalls(c)
    BY DEF Payload
  <2>2. WithdrawAllowed(c) /\ Review("withdraw", p)
    BY <1>7 DEF PrepareWithdraw
  <2> HIDE DEF p
  <2>3. MadeToWithdraw(p)
    BY <1>2, <2>1, <2>2 DEF MadeToWithdraw
  <2>4. MadeFor("withdraw", p) /\ "withdraw" \in Kind
    BY <2>3 DEF MadeFor, Kind
  <2>5. QED
    BY <2>2, <2>4, ReviewKeeps DEF p
<1>8. ASSUME PrepareClose PROVE IInv'
  <2> DEFINE debt == DebtOf(chain.nominal)
             calls == CloseCalls(chain.shares, chain.nominal, ApprovalCap(debt))
             p == Payload(calls, 0, debt)
  <2>1. p.calls = calls /\ p.spends.debt = debt
    BY DEF Payload
  <2>2. Review("close", p)
    BY <1>8 DEF PrepareClose
  <2>3. debt \in Nat
    BY <1>3, DebtNat DEF DebtOf
  <2> HIDE DEF p, debt
  <2>4. MadeToClose(p)
    BY <1>3, <2>1, <2>3 DEF MadeToClose
  <2>5. MadeFor("close", p) /\ "close" \in Kind
    BY <2>4 DEF MadeFor, Kind
  <2>6. QED
    BY <2>2, <2>5, ReviewKeeps DEF p
<1>9. ASSUME NEW d \in AmountD, PrepareLend(d) PROVE IInv'
  <2> DEFINE p == Payload(LendCalls(d), 0, d)
  <2>1. p.calls = LendCalls(d) /\ p.spends.debt = d
    BY DEF Payload
  <2>2. Review("lend", p) /\ VaultRoom(chain, d)
    BY <1>9 DEF PrepareLend, LendAllowed
  <2> HIDE DEF p
  <2>3. MadeToLend(p)
    BY <1>2, <2>1, <2>2 DEF MadeToLend
  <2>4. MadeFor("lend", p) /\ "lend" \in Kind
    BY <2>3 DEF MadeFor, Kind
  <2>5. QED
    BY <2>2, <2>4, ReviewKeeps DEF p
<1>10. ASSUME NEW s \in AmountD, PrepareRedeem(s) PROVE IInv'
  <2> DEFINE p == Payload(RedeemCalls(s), 0, 0)
  <2>1. p.calls = RedeemCalls(s)
    BY DEF Payload
  <2>2. RedeemAllowed(s) /\ Review("redeem", p)
    BY <1>10 DEF PrepareRedeem
  <2> HIDE DEF p
  <2>3. MadeToRedeem(p)
    BY <1>2, <2>1, <2>2 DEF MadeToRedeem
  <2>4. MadeFor("redeem", p) /\ "redeem" \in Kind
    BY <2>3 DEF MadeFor, Kind
  <2>5. QED
    BY <2>2, <2>4, ReviewKeeps DEF p
<1>11. QED
  BY <1>4, <1>5, <1>6, <1>7, <1>8, <1>9, <1>10 DEF Preparing

LEMMA ExpireKeeps ==
  ASSUME IInv, NEW k \in Kind, Expire(k)
  PROVE  IInv'
<1>1. /\ dialog' = [dialog EXCEPT ![k] = Idle]
      /\ UNCHANGED <<now, price, live, chain, moves, txs>>
  BY DEF Expire
<1>2. Types /\ Settled(chain) /\ Payloads
  BY DEF IInv
<1>3. dialog' = [j \in Kind |-> dialog'[j]]
  BY <1>1, <1>2 DEF Payloads
<1>4. ASSUME NEW j \in Kind, dialog'[j] # Idle
      PROVE  \E q : q = dialog'[j] /\ Made(q) /\ MadeFor(j, q)
  <2>1. dialog'[j] = dialog[j]
    BY <1>1, <1>2, <1>4 DEF Payloads
  <2>2. Made(dialog[j]) /\ MadeFor(j, dialog[j])
    BY <1>2, <1>4, <2>1 DEF Payloads
  <2>3. QED
    BY <2>1, <2>2
<1>5. Payloads'
  BY <1>1, <1>2, <1>3, <1>4, NextPayloads DEF Goes
<1>6. Settled(chain)' /\ Types'
  BY <1>1, <1>2, SettledKept DEF Types, Today
<1>7. QED
  BY <1>5, <1>6 DEF IInv

\* A signed payload is the one that was reviewed.
LEMMA SignKeeps ==
  ASSUME IInv, NEW k \in Kind, Sign(k)
  PROVE  IInv'
<1>1. /\ dialog[k].status = "reviewed"
      /\ dialog' = [dialog EXCEPT ![k].status = "signed"]
      /\ UNCHANGED <<now, price, live, chain, moves, txs>>
  BY DEF Sign
<1>2. Types /\ Settled(chain) /\ Payloads
  BY DEF IInv
<1>3. dialog' = [j \in Kind |-> dialog'[j]]
  BY <1>1, <1>2 DEF Payloads
<1>4. ASSUME NEW j \in Kind, dialog'[j] # Idle
      PROVE  \E q : q = dialog'[j] /\ Made(q) /\ MadeFor(j, q)
  <2>1. CASE j = k
    <3>1. dialog[k] # Idle
      BY <1>1 DEF Idle
    <3>2. Made(dialog[k]) /\ MadeFor(k, dialog[k])
      BY <1>2, <3>1 DEF Payloads
    <3>3. PICK q : q = dialog'[k]
      OBVIOUS
    <3>4. q = [dialog[k] EXCEPT !.status = "signed"]
      BY <1>1, <1>2, <3>3 DEF Payloads
    <3>5. /\ q.status = "signed" /\ q.calls = dialog[k].calls /\ q.spends = dialog[k].spends
          /\ q.saw = dialog[k].saw
          /\ q = [status |-> q.status, calls |-> q.calls, spends |-> q.spends, saw |-> q.saw]
      BY <3>2, <3>4 DEF Made
    <3>6. Made(q)
      BY <3>2, <3>5 DEF Made
    <3>7. MadeFor(k, q)
      BY <3>2, <3>5
         DEF MadeFor, MadeToBorrow, MadeToRepay, MadeToAdd, MadeToWithdraw, MadeToClose,
             MadeToLend, MadeToRedeem, Current
    <3>8. QED
      BY <2>1, <3>3, <3>6, <3>7
  <2>2. CASE j # k
    <3>1. dialog'[j] = dialog[j]
      BY <1>1, <1>2, <2>2 DEF Payloads
    <3>2. Made(dialog[j]) /\ MadeFor(j, dialog[j])
      BY <1>2, <1>4, <3>1 DEF Payloads
    <3>3. QED
      BY <3>1, <3>2
  <2>3. QED
    BY <2>1, <2>2
<1>5. Payloads'
  BY <1>1, <1>2, <1>3, <1>4, NextPayloads DEF Goes
<1>6. Settled(chain)' /\ Types'
  BY <1>1, <1>2, SettledKept DEF Types, Today
<1>7. QED
  BY <1>5, <1>6 DEF IInv

LEMMA ExecuteKeeps ==
  ASSUME IInv, NEW k \in Kind, Execute(k)
  PROVE  IInv'
<1> DEFINE result == Executed(dialog[k].calls)
<1>1. /\ dialog[k].status = "signed" /\ txs' = txs + 1
      /\ chain' = (IF result = Reverted THEN chain ELSE result)
      /\ dialog' = [dialog EXCEPT ![k] = Idle]
      /\ UNCHANGED <<now, price, live, moves>>
  BY DEF Execute
<1>2. Types /\ Settled(chain) /\ Payloads
  BY DEF IInv
<1>3. dialog[k] # Idle
  BY <1>1 DEF Idle
<1>4. Fine(result)
  BY <1>3, ExecutedFine
<1> HIDE DEF result
<1>5. Settled(chain)'
  <2>1. PICK c : c = chain' /\ Settled(c)
    BY <1>1, <1>2, <1>4 DEF Fine
  <2>2. now' = now
    BY <1>1
  <2>3. QED
    BY <2>1, <2>2 DEF Settled, Sound, Unapproved, TotalCollateral, VaultAssets, DebtOf
<1>6. dialog' = [j \in Kind |-> dialog'[j]]
  BY <1>1, <1>2 DEF Payloads
<1>7. ASSUME NEW j \in Kind, dialog'[j] # Idle
      PROVE  \E q : q = dialog'[j] /\ Made(q) /\ MadeFor(j, q)
  <2>1. dialog'[j] = dialog[j]
    BY <1>1, <1>2, <1>7 DEF Payloads
  <2>2. Made(dialog[j]) /\ MadeFor(j, dialog[j])
    BY <1>2, <1>7, <2>1 DEF Payloads
  <2>3. QED
    BY <2>1, <2>2
<1>8. Payloads'
  BY <1>1, <1>2, <1>6, <1>7, NextPayloads DEF Goes
<1>9. Types'
  BY <1>1, <1>2 DEF Types, Today
<1>10. QED
  BY <1>5, <1>8, <1>9 DEF IInv

\* The dialogs are as they were while the world goes on.
LEMMA DialogsKept ==
  ASSUME IInv, Goes, dialog' = dialog
  PROVE  Payloads'
<1>1. Types /\ Payloads
  BY DEF IInv
<1>2. dialog' = [j \in Kind |-> dialog'[j]]
  BY <1>1 DEF Payloads
<1>3. ASSUME NEW j \in Kind, dialog'[j] # Idle
      PROVE  \E q : q = dialog'[j] /\ Made(q) /\ MadeFor(j, q)
  BY <1>1, <1>3 DEF Payloads
<1>4. QED
  BY <1>1, <1>2, <1>3, NextPayloads

\* Interest only makes the debts grow.
LEMMA AccrueKeeps ==
  ASSUME IInv, Accrue
  PROVE  IInv'
<1>1. now' = now + 1 /\ now < Len(Rate) /\ UNCHANGED <<price, live, chain, moves, txs, dialog>>
  BY DEF Accrue
<1>2. Types /\ Settled(chain)
  BY DEF IInv
<1>3. now \in DOMAIN Rate /\ now' \in DOMAIN Rate /\ now <= now' /\ now \in Nat /\ moves \in Nat
  BY <1>1, <1>2, PoolAssumption DEF Types, Today
<1>4. PICK c : c = chain
  OBVIOUS
<1>5. PICK r : r = Rate[now]
  OBVIOUS
<1>6. PICK t : t = Rate[now']
  OBVIOUS
<1>7. r \in Nat /\ t \in Nat /\ r <= t
  BY <1>3, <1>5, <1>6, RateFacts
<1>8. /\ c \in Chain
      /\ c.shares < c.sharesC /\ c.nominal <= c.borrowedD /\ c.vault < c.sharesD
      /\ c.reserveC + CalculateDebt(c.borrowedC, r) > 0
      /\ c.reserveD + CalculateDebt(c.borrowedD, r) > 0
      /\ Unapproved(c)
  BY <1>2, <1>4, <1>5 DEF Settled, Sound, TotalCollateral, VaultAssets, DebtOf
<1>9. /\ c.borrowedC \in Nat /\ c.borrowedD \in Nat /\ c.nominal \in Nat
      /\ c.reserveC \in Nat /\ c.reserveD \in Nat
  BY <1>8 DEF Chain
<1>10. /\ CalculateDebt(c.borrowedC, r) <= CalculateDebt(c.borrowedC, t)
       /\ CalculateDebt(c.borrowedD, r) <= CalculateDebt(c.borrowedD, t)
       /\ CalculateDebt(c.borrowedC, r) \in Nat /\ CalculateDebt(c.borrowedC, t) \in Nat
       /\ CalculateDebt(c.borrowedD, r) \in Nat /\ CalculateDebt(c.borrowedD, t) \in Nat
  BY <1>7, <1>9, DebtGrows, DebtNat
<1>11. /\ c.reserveC + CalculateDebt(c.borrowedC, t) > 0
       /\ c.reserveD + CalculateDebt(c.borrowedD, t) > 0
  BY <1>8, <1>9, <1>10
<1>12. Settled(chain)'
  BY <1>1, <1>4, <1>6, <1>8, <1>11
     DEF Settled, Sound, Unapproved, TotalCollateral, VaultAssets, DebtOf
<1>13. Payloads'
  <2>1. VaultAssets(chain) \in Nat /\ VaultAssets(chain)' \in Nat
        /\ VaultAssets(chain) <= VaultAssets(chain)'
    BY <1>1, <1>4, <1>5, <1>6, <1>9, <1>10 DEF VaultAssets, DebtOf
  <2>2. \A d \in Nat : VaultRoom(chain, d) => VaultRoom(chain, d)'
    BY <1>1, <1>2, <2>1, RoomKept
  <2>3. Goes
    BY <1>1, <1>3, <2>2 DEF Goes, PoolMoved
  <2>4. QED
    BY <1>1, <2>3, DialogsKept
<1>14. Types'
  BY <1>1, <1>2, <1>3 DEF Types, Today
<1>15. QED
  BY <1>12, <1>13, <1>14 DEF IInv

LEMMA PriceKeeps ==
  ASSUME IInv, NEW p \in Price, PriceMoves(p)
  PROVE  IInv'
<1>1. /\ price' = p /\ moves' = moves + 1 /\ UNCHANGED <<now, live, chain, txs, dialog>>
  BY DEF PriceMoves
<1>2. Types /\ Settled(chain)
  BY DEF IInv
<1>3. now \in Nat /\ moves \in Nat /\ p.coll \in Nat /\ p.debt \in Nat
  BY <1>2, RateFacts, PoolAssumption DEF Types, Today
<1>4. Goes
  <2>1. \A d : VaultRoom(chain, d)' <=> VaultRoom(chain, d)
    BY <1>1 DEF VaultRoom, VaultShares, VaultAssets, DebtOf
  <2>2. QED
    BY <1>1, <1>3, <2>1 DEF Goes, PoolMoved
<1>5. Payloads'
  BY <1>1, <1>4, DialogsKept
<1>6. Settled(chain)' /\ Types'
  BY <1>1, <1>2, <1>3, SettledKept DEF Types, Today
<1>7. QED
  BY <1>5, <1>6 DEF IInv

LEMMA PoolTurnsKeeps ==
  ASSUME IInv, PoolTurns
  PROVE  IInv'
<1>1. moves' = moves + 1 /\ UNCHANGED <<now, price, chain, txs, dialog>>
  BY DEF PoolTurns
<1>2. Types /\ Settled(chain)
  BY DEF IInv
<1>3. now \in Nat /\ moves \in Nat
  BY <1>2, RateFacts DEF Types, Today
<1>4. Goes
  <2>1. \A d : VaultRoom(chain, d)' <=> VaultRoom(chain, d)
    BY <1>1 DEF VaultRoom, VaultShares, VaultAssets, DebtOf
  <2>2. QED
    BY <1>1, <1>3, <2>1 DEF Goes, PoolMoved
<1>5. Payloads'
  BY <1>1, <1>4, DialogsKept
<1>6. Settled(chain)' /\ Types'
  BY <1>1, <1>2, <1>3, SettledKept DEF Types, Today
<1>7. QED
  BY <1>5, <1>6 DEF IInv

\* What others take they owe: the pool is no poorer.
LEMMA TakenKeeps ==
  ASSUME IInv, NEW x \in Nat, NEW y \in Nat, LiquidityTaken(x, y)
  PROVE  IInv'
<1> DEFINE u == Up(x * Scale, Rate[now])
           v == Up(y * Scale, Rate[now])
           c == [chain EXCEPT !.reserveC = @ - x, !.reserveD = @ - y,
                              !.borrowedC = @ + u, !.borrowedD = @ + v]
<1>1. /\ x <= chain.reserveC /\ y <= chain.reserveD
      /\ moves' = moves + 1 /\ chain' = c /\ UNCHANGED <<now, price, live, txs, dialog>>
  BY DEF LiquidityTaken
<1>2. Types /\ Settled(chain)
  BY DEF IInv
<1>3. /\ chain \in Chain /\ chain.reserveC \in Nat /\ chain.reserveD \in Nat
      /\ chain.borrowedC \in Nat /\ chain.borrowedD \in Nat
      /\ chain.nominal \in Nat /\ chain.nominal <= chain.borrowedD
      /\ TotalCollateral(chain) > 0 /\ VaultAssets(chain) > 0
  BY <1>2, SoundFacts
<1>4. Rate[now] \in Nat \ {0} /\ now \in Nat /\ moves \in Nat
  BY <1>2, RateFacts DEF Types, Today
<1>5. /\ u \in Nat
      /\ CalculateDebt(chain.borrowedC, Rate[now]) + x <= CalculateDebt(chain.borrowedC + u, Rate[now])
  BY <1>3, <1>4, DebtAdded
<1>6. /\ v \in Nat
      /\ CalculateDebt(chain.borrowedD, Rate[now]) + y <= CalculateDebt(chain.borrowedD + v, Rate[now])
  BY <1>3, <1>4, DebtAdded
<1> HIDE DEF u, v
<1>7. /\ c.shares = chain.shares /\ c.nominal = chain.nominal /\ c.sharesC = chain.sharesC
      /\ c.reserveC = chain.reserveC - x /\ c.borrowedC = chain.borrowedC + u
      /\ c.reserveD = chain.reserveD - y /\ c.borrowedD = chain.borrowedD + v
      /\ c.sharesD = chain.sharesD /\ c.vault = chain.vault
      /\ c.allowC = chain.allowC /\ c.allowD = chain.allowD /\ c.allowV = chain.allowV
  BY <1>3 DEF Chain
<1>8. c \in Chain
  <2>1. chain.reserveC - x \in Nat /\ chain.reserveD - y \in Nat
        /\ chain.borrowedC + u \in Nat /\ chain.borrowedD + v \in Nat
    BY <1>1, <1>3, <1>5, <1>6
  <2>2. QED
    BY <1>3, <2>1 DEF Chain
<1>9. PICK d : d = c
  OBVIOUS
<1>10. /\ TotalCollateral(d) > 0 /\ VaultAssets(d) > 0
       /\ VaultAssets(d) \in Nat /\ VaultAssets(chain) \in Nat /\ VaultAssets(chain) <= VaultAssets(d)
  <2>1. CalculateDebt(chain.borrowedC, Rate[now]) \in Nat
        /\ CalculateDebt(chain.borrowedC + u, Rate[now]) \in Nat
    <3>1. chain.borrowedC + u \in Nat
      BY <1>3, <1>5
    <3>2. QED
      BY <1>3, <1>4, <3>1, DebtNat
  <2>2. CalculateDebt(chain.borrowedD, Rate[now]) \in Nat
        /\ CalculateDebt(chain.borrowedD + v, Rate[now]) \in Nat
    <3>1. chain.borrowedD + v \in Nat
      BY <1>3, <1>6
    <3>2. QED
      BY <1>3, <1>4, <3>1, DebtNat
  <2> HIDE DEF c
  <2>3. QED
    BY <1>1, <1>3, <1>5, <1>6, <1>7, <1>9, <2>1, <2>2 DEF TotalCollateral, VaultAssets, DebtOf
<1> HIDE DEF c
<1>11. Settled(d)
  <2>1. d.nominal <= d.borrowedD
    BY <1>3, <1>6, <1>7, <1>9
  <2>2. QED
    BY <1>2, <1>7, <1>8, <1>9, <1>10, <2>1 DEF Settled, Sound, Unapproved
<1>12. Settled(chain)'
  BY <1>1, <1>9, <1>11
     DEF Settled, Sound, Unapproved, TotalCollateral, VaultAssets, DebtOf
<1>13. Payloads'
  <2>1. VaultAssets(chain)' = VaultAssets(d)
    BY <1>1, <1>9 DEF VaultAssets, DebtOf
  <2>2. chain'.sharesD = chain.sharesD /\ chain'.shares = chain.shares
        /\ chain'.nominal = chain.nominal
    BY <1>1, <1>7
  <2>3. \A q \in Nat : VaultRoom(chain, q) => VaultRoom(chain, q)'
    BY <1>2, <1>10, <2>1, <2>2, RoomKept
  <2>4. Goes
    BY <1>1, <1>4, <2>2, <2>3 DEF Goes, PoolMoved
  <2>5. QED
    BY <1>1, <2>4, DialogsKept
<1>14. Types'
  BY <1>1, <1>2 DEF Types, Today
<1>15. QED
  BY <1>12, <1>13, <1>14 DEF IInv

LEMMA StutterKeeps ==
  ASSUME IInv, UNCHANGED vars
  PROVE  IInv'
<1>1. UNCHANGED <<now, price, live, chain, moves, txs, dialog>>
  BY DEF vars
<1>2. Types /\ Settled(chain)
  BY DEF IInv
<1>3. Payloads'
  BY <1>1, DialogsKept DEF Goes
<1>4. Settled(chain)' /\ Types'
  BY <1>1, <1>2, SettledKept DEF Types, Today
<1>5. QED
  BY <1>3, <1>4 DEF IInv

LEMMA InitIInv ==
  ASSUME Init
  PROVE  IInv
<1>1. /\ now = 1 /\ price \in Price /\ chain \in Chains /\ moves = 0 /\ txs = 0
      /\ dialog = [k \in Kind |-> Idle]
  BY DEF Init
<1>2. Types
  BY <1>1, PoolAssumption DEF Types, Today
<1>3. /\ chain \in Chain
      /\ chain.shares < chain.sharesC /\ chain.nominal <= chain.borrowedD
      /\ chain.vault < chain.sharesD
      /\ chain.reserveC + CalculateDebt(chain.borrowedC, Rate[1]) > 0
      /\ chain.reserveD + CalculateDebt(chain.borrowedD, Rate[1]) > 0
      /\ chain.allowC = 0 /\ chain.allowD = 0 /\ chain.allowV = 0
  BY <1>1, ChainsAssumption
<1>4. Settled(chain)
  BY <1>1, <1>3 DEF Settled, Sound, Unapproved, TotalCollateral, VaultAssets, DebtOf
<1>5. Payloads
  BY <1>1 DEF Payloads
<1>6. QED
  BY <1>2, <1>4, <1>5 DEF IInv

LEMMA NextKeeps ==
  ASSUME IInv, [Next]_vars
  PROVE  IInv'
<1>1. CASE Preparing
  BY <1>1, PreparingKeeps
<1>2. CASE Signing
  <2>1. PICK k \in Kind : Sign(k)
    BY <1>2
       DEF Signing, SignBorrow, SignRepay, SignAdd, SignWithdraw, SignClose, SignLend, SignRedeem,
           Kind
  <2>2. QED
    BY <2>1, SignKeeps
<1>3. CASE World
  <2>1. 0 \in Nat /\ 1 \in Nat
    OBVIOUS
  <2>2. QED
    BY <1>3, <2>1, AccrueKeeps, PriceKeeps, PoolTurnsKeeps, TakenKeeps DEF World
<1>4. CASE \E k \in Kind : Expire(k) \/ Execute(k)
  BY <1>4, ExpireKeeps, ExecuteKeeps
<1>5. CASE UNCHANGED vars
  BY <1>5, StutterKeeps
<1>6. QED
  BY <1>1, <1>2, <1>3, <1>4, <1>5 DEF Next

\* The invariant holds of every behaviour.
THEOREM AlwaysIInv == Spec => []IInv
<1>1. Init => IInv
  BY InitIInv
<1>2. IInv /\ [Next]_vars => IInv'
  BY NextKeeps
<1>3. QED
  BY <1>1, <1>2, PTL DEF Spec

-----------------------------------------------------------------------------
(* The properties *)

\* No transaction, of whatever dialogs in whatever order, leaves an allowance to the pool or
\* the vault: each spends what it approves to the unit, a close takes the rest back, and one
\* that reverts approves nothing.
THEOREM NothingLeftApproved == Spec => []NoAllowanceLeft
<1>1. IInv => NoAllowanceLeft
  BY DEF IInv, Settled, Unapproved, NoAllowanceLeft
<1>2. QED
  BY <1>1, AlwaysIInv, PTL

\* A payload is executed unless the wallet is short, the pool stopped, another transaction of
\* the account went first, the world changed in a way its route could not know, the price of
\* the debt asset among them, or the pool judges a matter that the route does not look at.
THEOREM PayloadsExecute == Spec => PreparedHolds
<1>1. IInv /\ [Next]_vars => [\A k \in Kind : Reverts(k) => Excused(k)]_vars
  BY RevertExcused DEF Reverts, Ends
<1>2. QED
  BY <1>1, AlwaysIInv, PTL DEF Spec, PreparedHolds

\* A close of the position its route saw takes all of its shares and pays all of its
\* nominal debt, at whatever rate.
THEOREM CloseLeavesNothing == Spec => CloseEmpties
<1>1. ASSUME IInv, Next, Ends("close"), ~Reverts("close"), txs = Seen("close").txs
      PROVE  chain'.shares = 0 /\ chain'.nominal = 0
  <2> DEFINE p == dialog["close"]
             result == Executed(p.calls)
  <2>1. p.status = "signed" /\ dialog'["close"] = Idle /\ result # Reverted /\ p.saw.txs = txs
    BY <1>1 DEF Ends, Reverts, Seen
  <2>2. Settled(chain) /\ Types /\ Payloads /\ "close" \in Kind
    BY <1>1 DEF IInv, Kind
  <2>3. p # Idle
    BY <2>1 DEF Idle
  <2>4. Execute("close")
    <3>1. ASSUME dialog'["close"] = p PROVE FALSE
      BY <2>1, <2>3, <3>1
    <3>2. \A k, q : k # "close" /\ dialog' = [dialog EXCEPT ![k] = q] => dialog'["close"] = p
      BY <2>2 DEF Payloads
    <3>3. ASSUME NEW k, NEW q, Review(k, q) PROVE FALSE
      BY <2>3, <3>1, <3>2, <3>3 DEF Review
    <3>4. ~Preparing
      BY <3>3
         DEF Preparing, PrepareBorrow, PrepareRepay, PrepareAdd, PrepareWithdraw, PrepareClose,
             PrepareLend, PrepareRedeem
    <3>5. ~Signing
      <4>1. ASSUME NEW k \in Kind, Sign(k) PROVE FALSE
        BY <2>1, <3>1, <3>2, <4>1 DEF Sign
      <4>2. QED
        BY <4>1
           DEF Signing, SignBorrow, SignRepay, SignAdd, SignWithdraw, SignClose, SignLend,
               SignRedeem, Kind
    <3>6. ~World
      BY <3>1 DEF World, Accrue, PriceMoves, PoolTurns, LiquidityTaken
    <3>7. PICK k \in Kind : Expire(k) \/ Execute(k)
      BY <1>1, <3>4, <3>5, <3>6 DEF Next
    <3>8. ~Expire(k)
      BY <2>1, <3>1, <3>2 DEF Expire
    <3>9. QED
      BY <3>1, <3>2, <3>7, <3>8 DEF Execute
  <2>5. chain' = result
    BY <2>1, <2>4 DEF Execute
  <2>6. PICK debt \in Nat : p.calls = CloseCalls(chain.shares, chain.nominal, ApprovalCap(debt))
    BY <2>1, <2>2, <2>3 DEF Payloads, MadeFor, MadeToClose
  <2> DEFINE w == Modified(chain, Modify(Native(-chain.shares), Native(-chain.nominal)))
  <2>7. /\ Today /\ chain.shares \in Nat /\ chain.nominal \in Nat /\ ApprovalCap(debt) \in Nat
        /\ chain \in Chain /\ TotalCollateral(chain) > 0 /\ chain.sharesC \in Nat \ {0}
    BY <2>2, SoundFacts, CapNat DEF Types
  <2>8. result.shares = w.shares /\ result.nominal = w.nominal
    <3>1. LET e == Executed(CloseCalls(chain.shares, chain.nominal, ApprovalCap(debt))) IN
          e # Reverted => e.shares = w.shares /\ e.nominal = w.nominal
      BY <2>2, <2>7, CloseLeaves, ZenonT(40)
    <3> HIDE DEF w
    <3>2. QED
      BY <2>1, <2>6, <3>1
  <2>9. /\ w.shares = chain.shares + (-chain.shares)
        /\ w.nominal = chain.nominal + (-chain.nominal)
    <3>1. /\ CollateralFair(chain, Native(-chain.shares)) /\ DebtFair(chain, Native(-chain.nominal))
          /\ SharesMoved(chain, Native(-chain.shares)) = -chain.shares
          /\ NominalMoved(Native(-chain.nominal)) = -chain.nominal
      BY <2>7, MovesNative, PaysOff
    <3>2. QED
      BY <2>2, <2>7, <3>1, BareMove
  <2>10. QED
    BY <2>5, <2>7, <2>8, <2>9
<1>2. IInv /\ [Next]_vars =>
        [Ends("close") /\ ~Reverts("close") /\ txs = Seen("close").txs
           => chain'.shares = 0 /\ chain'.nominal = 0]_vars
  BY <1>1
<1>3. QED
  BY <1>2, AlwaysIInv, PTL DEF Spec, CloseEmpties
=============================================================================
