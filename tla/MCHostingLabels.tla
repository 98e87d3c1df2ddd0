--------------------------- MODULE MCHostingLabels ---------------------------
(* The last call of the second slot is at another site than the others.       *)
EXTENDS HostingLabels

CONSTANTS c1, c2, m1, m2

MCSiteOf == [p \in {c1, c2} \X (1 .. 2) |-> IF p = <<c2, 2>> THEN m2 ELSE m1]
=============================================================================
