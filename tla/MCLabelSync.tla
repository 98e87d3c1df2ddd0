---------------------------- MODULE MCLabelSync ----------------------------
(***************************************************************************)
(* Instances of LabelSync.                                                 *)
(***************************************************************************)
EXTENDS LabelSync
=============================================================================
