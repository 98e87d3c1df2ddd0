---------------------------- MODULE MCIssueLife ----------------------------
(***************************************************************************)
(* Small instances of IssueLife.                                           *)
(***************************************************************************)
EXTENDS IssueLife, TLC

MCSymmetry == Permutations(Slot) \cup Permutations(Machine)
=============================================================================
