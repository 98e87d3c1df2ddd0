----------------------------- MODULE LabelPlan -----------------------------
(***************************************************************************)
(* The label function of the factory: plan_phase of .factory/state.py.     *)
(* From the facts of an issue and of the pull request that closes it, it   *)
(* computes the label changes that factory-state.sh sync then applies.     *)
(*                                                                         *)
(*   i = [labels, open, marker]   marker: a comment holds [factory:rejected]*)
(*   p = [state, labels, review]  state "none": no pull request            *)
(*   adds                         needs-fix "add" events of the PR so far  *)
(*                                                                         *)
(* Labels are written without their "factory:" prefix; "foreign" stands    *)
(* for every label that is not the factory's (priority:high, bug, ...).    *)
(***************************************************************************)
EXTENDS Naturals, FiniteSets

CONSTANT MaxFixRounds   \* MAX_FIX_ROUNDS

ASSUME PlanAssumption == MaxFixRounds \in Nat

Locks == {"triaging", "in-progress"}
IssueLabel == Locks \cup {"accepted", "rejected", "in-review", "needs-human", "foreign"}
PrSide == {"needs-review", "needs-fix", "needs-human", "approved"}
PrLabel == PrSide \cup {"foreign"}

Issue == [labels : SUBSET IssueLabel, open : BOOLEAN, marker : BOOLEAN]
Pr == [state : {"none", "open", "closed"}, labels : SUBSET PrLabel,
       review : {"pending", "approved", "changes_requested"}]
Op == [target : {"issue", "pr"}, op : {"add", "remove"}, label : IssueLabel \cup PrLabel]

NoPr == [state |-> "none", labels |-> {}, review |-> "pending"]

-----------------------------------------------------------------------------

Removes(target, L) == {[target |-> target, op |-> "remove", label |-> l] : l \in L}

(* Mutant: the label is added again whether or not it is there.            *)
AddsAlways(target, l, have) == {[target |-> target, op |-> "add", label |-> l]}

Adds(target, l, have) ==
  IF l \in have THEN {} ELSE {[target |-> target, op |-> "add", label |-> l]}

(* Mutant: one more round than MAX_FIX_ROUNDS.                             *)
PrPhaseOneMore(p, adds) ==
  CASE p.review = "approved" -> "approved"
    [] p.review = "changes_requested" ->
         IF adds > MaxFixRounds THEN "needs-human" ELSE "needs-fix"
    [] OTHER -> "needs-review"

(* The label the pull request should carry.                                *)
PrPhase(p, adds) ==
  CASE p.review = "approved" -> "approved"
    [] p.review = "changes_requested" ->
         IF adds >= MaxFixRounds THEN "needs-human" ELSE "needs-fix"
    [] OTHER -> "needs-review"

(* What goes is what is NOT on the PR side; a PR-side label of an earlier  *)
(* phase stays.                                                            *)
PrPlan(p, adds) ==
  Removes("pr", p.labels \ PrSide) \cup Adds("pr", PrPhase(p, adds), p.labels)

(* Mutant: with a pull request open the locks are cleared too.             *)
ReviewPlanTakesLocks(i) ==
  Removes("issue", i.labels \ {"in-review", "accepted", "rejected"})
  \cup Adds("issue", "in-review", i.labels)

ReviewPlan(i) ==
  Removes("issue", i.labels \ (Locks \cup {"in-review", "accepted", "rejected"}))
  \cup Adds("issue", "in-review", i.labels)

Plan(i, p, adds) ==
  CASE i.marker -> Removes("issue", i.labels \ {"rejected"})
                   \cup Adds("issue", "rejected", i.labels)
    [] ~i.marker /\ ~i.open -> Removes("issue", i.labels \ {"rejected"})
    [] ~i.marker /\ i.open /\ p.state # "open" -> {}
    [] OTHER -> ReviewPlan(i) \cup PrPlan(p, adds)

-----------------------------------------------------------------------------
(* factory-state.sh: applying operations.                                  *)

Applied(labels, ops, target) ==
  (labels \ {o.label : o \in {x \in ops : x.target = target /\ x.op = "remove"}})
  \cup {o.label : o \in {x \in ops : x.target = target /\ x.op = "add"}}

(* The platform records an event only for a label that was not there.      *)
AddEvents(p, ops) ==
  IF "needs-fix" \notin p.labels /\ "needs-fix" \in Applied(p.labels, ops, "pr") THEN 1 ELSE 0
=============================================================================
