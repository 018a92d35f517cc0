-------------------------------- MODULE MCDcc --------------------------------
(***************************************************************************)
(* Instances of DccToken for TLC.  The contract treats addresses alike.    *)
(***************************************************************************)
EXTENDS DccToken, TLC

AddrSymmetry == Permutations(Addr)
=============================================================================
