------------------------------ MODULE MCDividend ----------------------------
(***************************************************************************)
(* Instances of DividendFlow for TLC: the issuer of an estate, and two who *)
(* hold its shares, of whom one sells.                                     *)
(***************************************************************************)
EXTENDS DividendFlow

CONSTANTS issuer, holder, buyer

AllUsers == <<issuer, holder, buyer>>
HeldAtFirst == [a \in Addr |-> IF a = issuer THEN 0 ELSE 1]
CoinsAtFirst == [a \in Addr |-> IF a = issuer THEN 2 ELSE 0]

\* Moves of shares to oneself, and second moves, are looked at with one dividend
\* and one distribution.
FewAgain ==
    again # {} \/ (sale # NoSale /\ sale.from = sale.to) => Last = 1 /\ req[2] = NoRequest

\* The buyer has no coins before any are paid out.
FewCoins == coins[buyer] = 0 \/ finished["coin"] # {}
=============================================================================
