---------------------------- MODULE MCChainPool ----------------------------
(***************************************************************************)
(* Small instances of ChainPool.                                           *)
(***************************************************************************)
EXTENDS ChainPool, TLC

MCSymmetry == Permutations(Issue)
=============================================================================
