--------------------------- MODULE MCLeaseArbiter ---------------------------
(***************************************************************************)
(* Small instances of LeaseArbiter.                                        *)
(***************************************************************************)
EXTENDS LeaseArbiter, TLC

MCParallel == [t \in Tenant |-> 1]
MCSymmetry == Permutations(Machine) \cup Permutations(Tenant)
MCKeySymmetry == Permutations(Machine) \cup Permutations(Key)
=============================================================================
