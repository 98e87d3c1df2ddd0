----------------------------- MODULE LabelSync -----------------------------
(***************************************************************************)
(* factory-state.sh sync, run again and again on one issue and its pull    *)
(* request, from every combination of labels and facts an issue can have.  *)
(* Reviewers submit reviews; a dispatcher that takes needs-fix to send the *)
(* issue back to a chain is an action, the chain itself is not modelled    *)
(* here (IssueLife does).                                                  *)
(***************************************************************************)
EXTENDS LabelPlan

CONSTANT MaxReviews   \* bound on the reviews

ASSUME SyncAssumption == MaxReviews \in Nat

VARIABLES issue, pr,
          adds,      \* needs-fix "add" events of pr
          reviews    \* reviews submitted

vars == <<issue, pr, adds, reviews>>

(* No pull request, or the one a chain just opened.                        *)
Init ==
  /\ issue \in Issue
  /\ pr \in {NoPr} \cup {[state |-> "open", labels |-> L, review |-> "pending"] :
                           L \in {{"needs-review"}, {"needs-review", "foreign"}}}
  /\ adds = 0 /\ reviews = 0

Pending == Plan(issue, pr, adds)

(* sync_one with every call answered.                                      *)
Sync ==
  /\ issue' = [issue EXCEPT !.labels = Applied(@, Pending, "issue")]
  /\ pr' = [pr EXCEPT !.labels = Applied(@, Pending, "pr")]
  /\ adds' = adds + AddEvents(pr, Pending)
  /\ UNCHANGED reviews

(* A person: a review, a merge or a close of the pull request.             *)
Submit(r) ==
  /\ pr.state = "open" /\ reviews < MaxReviews
  /\ pr' = [pr EXCEPT !.review = r]
  /\ reviews' = reviews + 1
  /\ UNCHANGED <<issue, adds>>

ClosePr ==
  /\ pr.state = "open" /\ pr' = [pr EXCEPT !.state = "closed"]
  /\ UNCHANGED <<issue, adds, reviews>>

(* _redispatch_needs_fix takes the label.                                  *)
TakeNeedsFix ==
  /\ pr.state = "open" /\ "needs-fix" \in pr.labels
  /\ pr' = [pr EXCEPT !.labels = @ \ {"needs-fix"}]
  /\ UNCHANGED <<issue, adds, reviews>>

Next == \/ Sync
        \/ \E r \in {"approved", "changes_requested"} : Submit(r)
        \/ ClosePr
        \/ TakeNeedsFix

Spec == Init /\ [][Next]_vars /\ WF_vars(Sync)

-----------------------------------------------------------------------------

(* No PR ever gets more needs-fix events than MAX_FIX_ROUNDS.              *)
TypeOK == /\ issue \in Issue /\ pr \in Pr
          /\ adds \in 0 .. MaxFixRounds /\ reviews \in 0 .. MaxReviews

(* A lock is taken from an issue only when it is closed or a person marked *)
(* it rejected ("sync never touches a lock", the terminal phases aside).   *)
LocksSpared ==
  [][Locks \cap issue.labels \subseteq issue'.labels \/ issue.marker \/ ~issue.open]_vars

(* However reviews and redispatches fall, sync comes to rest in the end:   *)
(* it plans nothing more.                                                  *)
Settles == <>[](Pending = {})

-----------------------------------------------------------------------------
(* What documents promise and the code does not keep: each is violated.    *)

(* The labels of an open PR follow from the facts and not from earlier     *)
(* labels ("labels are a pure function of the facts"): once at rest it     *)
(* carries the label of its phase alone.                                   *)
LabelsFollowFacts ==
  issue.open /\ ~issue.marker /\ pr.state = "open" /\ Pending = {} =>
    pr.labels \cap PrSide = {PrPhase(pr, adds)}

(* The clean-up of a closed issue takes the factory's labels only.         *)
ForeignLabelsKept ==
  [][~issue.open /\ "foreign" \in issue.labels => "foreign" \in issue'.labels]_vars
=============================================================================
