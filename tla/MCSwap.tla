-------------------------------- MODULE MCSwap --------------------------------
(***************************************************************************)
(* Instances of CrossSwap for TLC: an estate of two shares, two coins, and *)
(* fewer places for holders than users.                                    *)
(***************************************************************************)
EXTENDS CrossSwap, TLC

CONSTANTS owner, b1, b2

Trades == {[seller |-> owner, amount |-> 1, unitPrice |-> 1]}

CoinsAtFirst == [u \in User |-> IF u = owner THEN 0 ELSE 1]
SharesAtFirst == [u \in User |-> IF u = owner THEN 2 ELSE 0]

TxSymmetry == Permutations(Tx)
=============================================================================
