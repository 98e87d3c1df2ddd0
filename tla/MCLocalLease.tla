---------------------------- MODULE MCLocalLease ----------------------------
(***************************************************************************)
(* Small instances of LocalLease.  Nothing is claimed of what follows once *)
(* one of the protocol's windows was hit, so TLC stops there.              *)
(***************************************************************************)
EXTENDS LocalLease, TLC

MCSymmetry == Permutations(Chain)
MCUncrossed == ~crossed
=============================================================================
