--------------------------- MODULE MCVesuPosition ---------------------------
(* VesuPosition in units that make every division round, with a position and *)
(* a pool near enough to each limit that what PreparedHolds excuses happens. *)
EXTENDS VesuPosition

Rates == <<9, 11>>

\* The debt asset is worth seven or four eighths of a unit, the collateral eight or one.
Prices == {[coll |-> 8, debt |-> 7], [coll |-> 1, debt |-> 7], [coll |-> 8, debt |-> 4]}

\* A position of 20 shares and 5 nominal debt in a pool others use too.
Position ==
  [shares |-> 20, nominal |-> 5, sharesC |-> 54, reserveC |-> 27, borrowedC |-> 24,
   reserveD |-> 4, borrowedD |-> 13, sharesD |-> 16, vault |-> 4,
   coll |-> 8, debt |-> 9, allowC |-> 0, allowD |-> 0, allowV |-> 0]

\* The account before it has one.
Nothing ==
  [Position EXCEPT !.shares = 0, !.nominal = 0, !.vault = 0, !.borrowedD = 15, !.reserveD = 7]

WithAndWithout == {Position, Nothing}
=============================================================================
