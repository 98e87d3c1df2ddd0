----------------------------- MODULE LabelStore -----------------------------
(***************************************************************************)
(* What the factory relies on when it keeps its state in the labels of a   *)
(* pull request, whichever platform carries them: a label is there or not, *)
(* and the history of a label counts how often it was put on, whatever was *)
(* taken off since.  state.py derives the round counter from that history. *)
(***************************************************************************)
EXTENDS Naturals

CONSTANT Label

VARIABLES on,       \* the labels that are there
          rounds    \* rounds[l]: how often l was put on

vars == <<on, rounds>>

Init == on = {} /\ rounds = [l \in Label |-> 0]

Add(l) == /\ l \notin on
          /\ on' = on \cup {l}
          /\ rounds' = [rounds EXCEPT ![l] = @ + 1]

Remove(l) == on' = on \ {l} /\ UNCHANGED rounds

Next == \E l \in Label : Add(l) \/ Remove(l)

Spec == Init /\ [][Next]_vars
=============================================================================
