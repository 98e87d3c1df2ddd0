----------------------------- MODULE IssueLife -----------------------------
(***************************************************************************)
(* The life of one issue and of the pull request that closes it: the       *)
(* labels, and everyone who reads and writes them.  Dispatchers            *)
(* (dispatch_round of .factory/factory_lib.py, one per machine), the       *)
(* chains they spawn (.factory/fix-issue.sh with the exits of              *)
(* factory-lib.sh), the triage batch (triage-batch.sh), the state sync     *)
(* (factory-state.sh with state.py, module LabelPlan) and people.          *)
(*                                                                         *)
(* Every call to the hosting platform is a step of its own, so whatever    *)
(* was read before it may be stale, and so may the fence's answer: a chain *)
(* asks it in one process and makes the guarded call in the next.  A call  *)
(* may fail, with or without having landed.  The lease is FencedLease seen *)
(* from the chains: the set of chains that share the current token, and    *)
(* whether it is live.                                                     *)
(*                                                                         *)
(* A dispatcher process does not die here (ChainPool), the daily           *)
(* regression that wakes an issue and the upstream sync are left out.      *)
(***************************************************************************)
EXTENDS LabelPlan, Sequences

CONSTANTS Machine,
          Slot,         \* a machine runs at most one chain per slot
          Renews,       \* TRUE: PostgreSQL, a machine's own claim renews;
                        \* FALSE: lock file, it is refused
          AutoMerge,    \* FACTORY_AUTO_MERGE and auto-merge-unlocked
          Human,        \* what people do
          MaxHuman,     \* bound on what people do
          Fault,        \* what goes wrong
          MaxFaults     \* bound on what goes wrong

Deed == {"approve", "reject", "merge", "close", "reopen", "mark", "unmark", "retry", "start"}

(* A call fails, a chain ends before its trap is installed, a chain is     *)
(* killed, a lease ends while its chain runs.                              *)
Mishap == {"call", "exit", "kill", "lapse"}

ASSUME LifeAssumption ==
  /\ {Renews, AutoMerge} \subseteq BOOLEAN
  /\ Human \subseteq Deed /\ Fault \subseteq Mishap
  /\ MaxHuman \in Nat /\ MaxFaults \in Nat

Chain == Machine \X Slot
On(c) == c[1]

VARIABLES issue, pr,
          adds,        \* needs-fix "add" events of pr
          rejections,  \* reviews of pr that requested changes
          fixes,       \* chains redispatched for pr
          remote,      \* origin has the branch of an earlier round
          disp,        \* where a machine's dispatcher stands
          ops,         \* ops[m]: operations its sync has yet to apply
          chain,       \* where a chain stands, "none" if it does not run
          left,        \* left[c]: labels its way out has yet to remove
          lease, live, \* who shares the token, and whether it is live
          armed,       \* chains the fence let through to their next call
          deeds, faults

facts == <<issue, pr, adds, rejections, fixes, remote>>
vars == <<facts, disp, ops, chain, left, lease, live, armed, deeds, faults>>

Init ==
  /\ issue = [labels |-> {}, open |-> TRUE, marker |-> FALSE]
  /\ pr = NoPr
  /\ adds = 0 /\ rejections = 0 /\ fixes = 0 /\ remote = FALSE
  /\ disp = [m \in Machine |-> "idle"] /\ ops = [m \in Machine |-> {}]
  /\ chain = [c \in Chain |-> "none"] /\ left = [c \in Chain |-> <<>>]
  /\ lease = {} /\ live = FALSE /\ armed = {}
  /\ deeds = 0 /\ faults = 0

-----------------------------------------------------------------------------

Labels == issue.labels
Unlabelled == Labels \subseteq {"foreign"}   \* no factory:* label
PrOpen == pr.state = "open"

(* What lease_guard asks.                                                  *)
Fence(c) == live /\ c \in lease

(* issue set-labels.                                                       *)
Relabel(remove, add) ==
  /\ issue' = [issue EXCEPT !.labels = (@ \ remove) \cup add]
  /\ UNCHANGED <<pr, adds, rejections, fixes, remote>>

Answered == UNCHANGED faults
Happens(mishap) == mishap \in Fault /\ faults < MaxFaults /\ faults' = faults + 1
Fails == Happens("call")

(* A set-labels that reports success, or fails with or without effect.     *)
Succeeds(remove, add) == Relabel(remove, add) /\ Answered
Breaks(remove, add) == (Relabel(remove, add) \/ UNCHANGED facts) /\ Fails

Apply(o) ==
  /\ issue' = [issue EXCEPT !.labels = Applied(@, {o}, "issue")]
  /\ pr' = [pr EXCEPT !.labels = Applied(@, {o}, "pr")]
  /\ adds' = adds + AddEvents(pr, {o})
  /\ UNCHANGED <<rejections, fixes, remote>>

Go(m, from, to) == disp[m] = from /\ disp' = [disp EXCEPT ![m] = to]
Step(c, from, to) == chain[c] = from /\ chain' = [chain EXCEPT ![c] = to]

mine == <<disp, ops>>                    \* what only dispatchers change
theirs == <<chain, left, lease, live, armed>>   \* what only chains change

-----------------------------------------------------------------------------
(* A dispatcher's round.                                                   *)

(* No dispatcher and no hand-started chain of this machine runs.           *)
LockFree(m) ==
  disp[m] = "idle" /\ \A c \in Chain : On(c) = m => chain[c] \in {"none", "tripped"}

Begin(m) ==
  /\ LockFree(m)
  /\ Go(m, "idle", "sync")
  /\ UNCHANGED <<facts, ops, theirs, deeds, faults>>

(* sync_one: the facts are read, the plan is made.                         *)
SyncRead(m) ==
  /\ Go(m, "sync", "syncing") \/ Go(m, "final", "finishing")
  /\ ops' = [ops EXCEPT ![m] = IF Unlabelled /\ ~PrOpen THEN {} ELSE Plan(issue, pr, adds)]
  /\ UNCHANGED <<facts, theirs, deeds, faults>>

(* The plan's order: the issue before the PR, what goes before what comes, *)
(* and what goes by name.                                                  *)
Rank == [l \in IssueLabel \cup PrLabel |->
           CASE l = "accepted" -> 1 [] l = "in-progress" -> 2 [] l = "in-review" -> 3
             [] l = "needs-human" -> 4 [] l = "rejected" -> 5 [] OTHER -> 6]
Before(o, q) == \/ o.target = "issue" /\ q.target = "pr"
                \/ /\ o.target = q.target
                   /\ o.op = "remove" /\ (q.op = "add" \/ Rank[o.label] < Rank[q.label])

(* One operation is applied, or fails and is not tried again.              *)
SyncWrite(m) ==
  /\ disp[m] \in {"syncing", "finishing"}
  /\ \E o \in ops[m] :
       /\ \A q \in ops[m] : ~Before(q, o)
       /\ ops' = [ops EXCEPT ![m] = @ \ {o}]
       /\ \/ Apply(o) /\ Answered
          \/ (Apply(o) \/ UNCHANGED facts) /\ Fails
  /\ UNCHANGED <<disp, theirs, deeds>>

SyncEnd(m) ==
  /\ ops[m] = {}
  /\ Go(m, "syncing", "triage") \/ Go(m, "finishing", "idle")
  /\ UNCHANGED <<facts, ops, theirs, deeds, faults>>

(* triage-batch.sh: its queue is read once, the verdicts come later.       *)
BatchList(m) ==
  /\ Go(m, "triage", IF Unlabelled /\ issue.open THEN "judge" ELSE "merge")
  /\ UNCHANGED <<facts, ops, theirs, deeds, faults>>

(* No lease, so no fence.                                                  *)
BatchJudge(m) ==
  /\ Go(m, "judge", "merge")
  /\ \/ UNCHANGED <<facts, faults>>   \* the node fails
     \/ \E v \in {"accepted", "rejected"} : Succeeds({}, {v}) \/ Breaks({}, {v})
  /\ UNCHANGED <<ops, theirs, deeds>>

MergeList(m) ==
  /\ Go(m, "merge",
        IF AutoMerge /\ PrOpen /\ "approved" \in pr.labels /\ pr.review = "approved"
        THEN "merging" ELSE "redispatch")
  /\ UNCHANGED <<facts, ops, theirs, deeds, faults>>

Merged ==
  /\ pr' = [pr EXCEPT !.state = "closed"]
  /\ issue' = [issue EXCEPT !.open = FALSE]
  /\ UNCHANGED <<adds, rejections, fixes, remote>>

MergePr(m) ==
  /\ Go(m, "merging", "redispatch")
  /\ \/ PrOpen /\ Merged /\ Answered
     \/ ~PrOpen /\ UNCHANGED <<facts, faults>>
     \/ UNCHANGED facts /\ Fails
  /\ UNCHANGED <<ops, theirs, deeds>>

(* _redispatch_needs_fix.                                                  *)
RefixList(m) ==
  /\ Go(m, "redispatch", IF PrOpen /\ "needs-fix" \in pr.labels THEN "refix" ELSE "drain")
  /\ UNCHANGED <<facts, ops, theirs, deeds, faults>>

(* _issue_in_progress: a label that cannot be read counts as absent.       *)
InProgress(m, from, yes, no) ==
  \/ Go(m, from, IF "in-progress" \in Labels THEN yes ELSE no) /\ Answered
  \/ Go(m, from, no) /\ Fails

RefixCheck(m) ==
  /\ InProgress(m, "refix", "drain", "unfix")
  /\ UNCHANGED <<facts, ops, theirs, deeds>>

TakeNeedsFix == /\ pr' = [pr EXCEPT !.labels = @ \ {"needs-fix"}]
                /\ UNCHANGED <<issue, adds, rejections, fixes, remote>>

(* Mutant: needs-fix stays on the PR.                                      *)
UnfixKeeps(m) ==
  /\ Go(m, "unfix", "reclaim")
  /\ UNCHANGED <<facts, faults, ops, theirs, deeds>>

Unfix(m) ==
  /\ \/ Go(m, "unfix", "reclaim") /\ TakeNeedsFix /\ Answered
     \/ Go(m, "unfix", "drain") /\ (TakeNeedsFix \/ UNCHANGED facts) /\ Fails
  /\ UNCHANGED <<ops, theirs, deeds>>

(* _drain_accepted_queue.                                                  *)
DrainList(m) ==
  /\ Go(m, "drain", IF "accepted" \in Labels /\ issue.open THEN "check" ELSE "wait")
  /\ UNCHANGED <<facts, ops, theirs, deeds, faults>>

DrainCheck(m) ==
  /\ InProgress(m, "check", "wait", "claim")
  /\ UNCHANGED <<facts, ops, theirs, deeds>>

(* Mutant: the claim of an accepted issue leaves it where it was.          *)
ClaimGivesUp(m) ==
  /\ Go(m, "reclaim", "drain") \/ Go(m, "claim", "wait")
  /\ UNCHANGED <<facts, faults, ops, theirs, deeds>>

(* _claim: two tries count as one that fails.                              *)
ClaimIssue(m) ==
  /\ \/ /\ Go(m, "reclaim", "respawn") \/ Go(m, "claim", "spawn")
        /\ Succeeds({"accepted"}, {"in-progress"})
     \/ /\ Go(m, "reclaim", "drain") \/ Go(m, "claim", "wait")
        /\ Breaks({"accepted"}, {"in-progress"})
  /\ UNCHANGED <<ops, theirs, deeds>>

Spawn(m) ==
  /\ \E s \in Slot : Step(<<m, s>>, "none", "start")
  /\ \/ Go(m, "respawn", "drain") /\ fixes' = fixes + 1
     \/ Go(m, "spawn", "wait") /\ UNCHANGED fixes
  /\ UNCHANGED <<issue, pr, adds, rejections, remote, ops, left, lease, live, armed, deeds, faults>>

(* wait_all.                                                               *)
Await(m) ==
  /\ \A c \in Chain : On(c) = m => chain[c] = "none"
  /\ Go(m, "wait", "final")
  /\ UNCHANGED <<facts, ops, theirs, deeds, faults>>

-----------------------------------------------------------------------------
(* A chain.                                                                *)

Does(deed) == deed \in Human /\ deeds < MaxHuman /\ deeds' = deeds + 1

(* Started by hand: it holds the dispatcher's lock.                        *)
StartByHand(c) ==
  /\ LockFree(On(c))
  /\ Step(c, "none", "start")
  /\ Does("start")
  /\ UNCHANGED <<facts, mine, left, lease, live, armed, faults>>

(* The breaker tripped: needs-human first, then the removals, no fence.    *)
(* By hand, it is asked before the lock is taken.                          *)
Trip(c) ==
  /\ Happens("exit")
  /\ \/ Step(c, "start", "tripped") /\ UNCHANGED deeds
     \/ Step(c, "none", "tripped") /\ Does("start")
  /\ left' = [left EXCEPT ![c] = <<"in-progress", "triaging", "accepted">>]
  /\ Relabel({}, {"needs-human"}) \/ UNCHANGED facts
  /\ UNCHANGED <<mine, lease, live, armed>>

(* Exit 2: no access, no issue, no title.                                  *)
PrepFails(c) ==
  /\ Happens("exit")
  /\ Step(c, "start", "none")
  /\ UNCHANGED <<facts, mine, left, lease, live, armed, deeds>>

(* The token of (machine, key) is granted anew, kept, or refused.          *)
SameMachine(c) == lease # {} /\ \A d \in lease : On(d) = On(c)
Token(c) == IF Renews /\ SameMachine(c) THEN lease \cup {c} ELSE {c}

ClaimLease(c) ==
  /\ \/ /\ live => Renews /\ SameMachine(c)
        /\ Step(c, "start", "claimed")
        /\ lease' = Token(c) /\ live' = TRUE
        /\ UNCHANGED faults
     \/ /\ live /\ ~(Renews /\ SameMachine(c))   \* exit 4
        /\ Step(c, "start", "none")
        /\ UNCHANGED <<lease, live, faults>>
     \/ /\ Happens("exit")                       \* no backend answers
        /\ Step(c, "start", "none")
        /\ UNCHANGED <<lease, live>>
  /\ UNCHANGED <<facts, mine, left, armed, deeds>>

(* lease_guard lets the chain through to the call it guards.               *)
AskFence(c) ==
  /\ c \notin armed /\ Fence(c)
  /\ \/ chain[c] \in {"claimed", "judging", "opened"}
     \/ chain[c] = "trap" /\ left[c] # <<>>
  /\ armed' = armed \cup {c}
  /\ UNCHANGED <<facts, mine, chain, left, lease, live, deeds, faults>>

(* The guarded call, whatever became of the lease since; or the fence      *)
(* refused it.                                                             *)
Guarded(c) == c \in armed /\ armed' = armed \ {c}
Refused(c) == c \notin armed /\ ~Fence(c) /\ UNCHANGED armed

(* issue_label add triaging: skipped by the fence, a failure is a warning. *)
MarkTriaging(c) ==
  /\ Step(c, "claimed", "marked")
  /\ \/ Guarded(c) /\ (Succeeds({}, {"triaging"}) \/ Breaks({}, {"triaging"}))
     \/ Refused(c) /\ UNCHANGED <<facts, faults>>
  /\ UNCHANGED <<mine, left, lease, live, deeds>>

InstallTrap(c) ==
  /\ Step(c, "marked", "judging")
  /\ UNCHANGED <<facts, mine, left, lease, live, armed, deeds, faults>>

(* Exit non-zero: into the EXIT trap.                                      *)
Abort(c, from) ==
  /\ Step(c, from, "trap")
  /\ left' = [left EXCEPT ![c] = <<"triaging", "accepted", "in-progress">>]

(* A node fails or runs out of time, a gate is red, TERM: what was         *)
(* committed is pushed by force on the way out.                            *)
NodeFails(c) ==
  /\ \/ Abort(c, "judging") /\ c \notin armed /\ UNCHANGED remote
     \/ Abort(c, "working") /\ remote' \in {remote, TRUE}
  /\ UNCHANGED <<issue, pr, adds, rejections, fixes, mine, lease, live, armed, deeds, faults>>

(* issue_label_swap, and exit 1 when it fails.                             *)
Swap(c, from, to, remove, add) ==
  \/ Guarded(c) /\ Step(c, from, to) /\ UNCHANGED left /\ Succeeds(remove, add)
  \/ Guarded(c) /\ Abort(c, from) /\ Breaks(remove, add)
  \/ Refused(c) /\ Abort(c, from) /\ UNCHANGED <<facts, faults>>

Accept(c) ==
  /\ Swap(c, "judging", "working", {"triaging", "rejected"}, {"accepted", "in-progress"})
  /\ UNCHANGED <<mine, lease, live, deeds>>

(* Mutant: turning down only takes triaging off.                           *)
RejectKeepsClaim(c) ==
  /\ Swap(c, "judging", "leave", {"triaging"}, {"rejected"})
  /\ UNCHANGED <<mine, lease, live, deeds>>

(* issue_reject: a swap that failed is settled all the same when a second  *)
(* look, which may fail too, shows the label.                              *)
Reject(c) ==
  /\ \/ Swap(c, "judging", "leave", {"triaging", "in-progress"}, {"rejected"})
     \/ /\ Step(c, "judging", "leave") /\ UNCHANGED left
        /\ \/ Guarded(c) /\ Breaks({"triaging", "in-progress"}, {"rejected"})
           \/ Refused(c) /\ UNCHANGED <<facts, faults>>
        /\ "rejected" \in issue'.labels
  /\ UNCHANGED <<mine, lease, live, deeds>>

(* Nothing changed and holdout passed: exit 0, the labels stay.            *)
ZeroDiff(c) ==
  /\ Step(c, "working", "leave")
  /\ UNCHANGED <<facts, mine, left, lease, live, armed, deeds, faults>>

Pass(c) ==
  /\ Step(c, "working", "passed")
  /\ UNCHANGED <<facts, mine, left, lease, live, armed, deeds, faults>>

(* git push without force: the branch was built anew from the base, it     *)
(* does not descend from what an earlier round left at origin.             *)
Push(c) ==
  /\ \/ ~remote /\ Step(c, "passed", "pushed") /\ remote' = TRUE /\ UNCHANGED left /\ Answered
     \/ remote /\ Abort(c, "passed") /\ UNCHANGED remote /\ Answered
     \/ Abort(c, "passed") /\ remote' \in {remote, TRUE} /\ Fails
  /\ UNCHANGED <<issue, pr, adds, rejections, fixes, mine, lease, live, armed, deeds>>

NewPr == /\ pr' = [state |-> "open", labels |-> {"needs-review"}, review |-> "pending"]
         /\ adds' = 0 /\ rejections' = 0 /\ fixes' = 0
         /\ UNCHANGED <<issue, remote>>

(* pr create: the platform allows one open PR per branch.                  *)
CreatePr(c) ==
  /\ \/ ~PrOpen /\ Step(c, "pushed", "opened") /\ UNCHANGED left /\ NewPr /\ Answered
     \/ PrOpen /\ Abort(c, "pushed") /\ UNCHANGED <<facts, faults>>
     \/ Abort(c, "pushed") /\ ((~PrOpen /\ NewPr) \/ UNCHANGED facts) /\ Fails
  /\ UNCHANGED <<mine, lease, live, armed, deeds>>

HandOver(c) ==
  /\ Swap(c, "opened", "leave", {"accepted", "in-progress"}, {"in-review"})
  /\ UNCHANGED <<mine, lease, live, deeds>>

(* Mutant: the trap removes labels whoever the issue belongs to by now.    *)
WayOutUnfenced(c) ==
  /\ left[c] # <<>>
  /\ left' = [left EXCEPT ![c] = Tail(@)]
  /\ Succeeds({Head(left[c])}, {}) \/ Breaks({Head(left[c])}, {})
  /\ armed' = armed \ {c}
  /\ UNCHANGED <<mine, chain, lease, live, deeds>>

(* The removals on the way out; the trap's are fenced.                     *)
WayOut(c) ==
  /\ left[c] # <<>>
  /\ left' = [left EXCEPT ![c] = Tail(@)]
  /\ \/ /\ \/ chain[c] = "trap" /\ Guarded(c)
           \/ chain[c] = "tripped" /\ UNCHANGED armed
        /\ Succeeds({Head(left[c])}, {}) \/ Breaks({Head(left[c])}, {})
     \/ chain[c] = "trap" /\ Refused(c) /\ UNCHANGED <<facts, faults>>
  /\ UNCHANGED <<mine, chain, lease, live, deeds>>

WayOutEnds(c) ==
  /\ left[c] = <<>>
  /\ Step(c, "tripped", "none") \/ Step(c, "trap", "leave")
  /\ UNCHANGED <<facts, mine, left, lease, live, armed, deeds, faults>>

(* lease_cleanup.                                                          *)
Leave(c) ==
  /\ Step(c, "leave", "none")
  /\ live' = (live /\ c \notin lease)
  /\ UNCHANGED <<facts, mine, left, lease, armed, deeds, faults>>

(* SIGKILL; TERM too while there is no EXIT trap.  A call under way has    *)
(* landed by now or never does.                                            *)
KillChain(c) ==
  /\ Happens("kill") /\ chain[c] # "none"
  /\ chain' = [chain EXCEPT ![c] = "none"] /\ left' = [left EXCEPT ![c] = <<>>]
  /\ armed' = armed \ {c}
  /\ UNCHANGED <<facts, mine, lease, live, deeds>>

(* The token dies: its chain is gone, or it was revoked or ran out.        *)
Lapse ==
  /\ live
  /\ IF \A c \in lease : chain[c] = "none" THEN UNCHANGED faults ELSE Happens("lapse")
  /\ live' = FALSE
  /\ UNCHANGED <<facts, mine, chain, left, lease, armed, deeds>>

-----------------------------------------------------------------------------
(* People.                                                                 *)

Review(r) ==
  /\ PrOpen
  /\ pr' = [pr EXCEPT !.review = r]
  /\ rejections' = rejections + IF r = "changes_requested" THEN 1 ELSE 0
  /\ UNCHANGED <<issue, adds, fixes, remote>>

SetIssue(field) == issue' = field /\ UNCHANGED <<pr, adds, rejections, fixes, remote>>

(* "retry": the rejected label is taken off, the gesture for a new triage. *)
Do(deed) ==
  /\ Does(deed)
  /\ \/ deed = "approve" /\ Review("approved")
     \/ deed = "reject" /\ Review("changes_requested")
     \/ deed = "merge" /\ PrOpen /\ Merged
     \/ deed = "close" /\ issue.open /\ SetIssue([issue EXCEPT !.open = FALSE])
     \/ deed = "reopen" /\ ~issue.open /\ SetIssue([issue EXCEPT !.open = TRUE])
     \/ deed = "mark" /\ ~issue.marker /\ SetIssue([issue EXCEPT !.marker = TRUE])
     \/ deed = "unmark" /\ issue.marker /\ SetIssue([issue EXCEPT !.marker = FALSE])
     \/ deed = "retry" /\ "rejected" \in Labels
        /\ SetIssue([issue EXCEPT !.labels = @ \ {"rejected"}])
  /\ UNCHANGED <<mine, theirs, faults>>

-----------------------------------------------------------------------------

Round(m) == \/ Begin(m)
            \/ SyncRead(m)
            \/ SyncWrite(m)
            \/ SyncEnd(m)
            \/ BatchList(m)
            \/ BatchJudge(m)
            \/ MergeList(m)
            \/ MergePr(m)
            \/ RefixList(m)
            \/ RefixCheck(m)
            \/ Unfix(m)
            \/ DrainList(m)
            \/ DrainCheck(m)
            \/ ClaimIssue(m)
            \/ Spawn(m)
            \/ Await(m)

Work(c) == \/ Trip(c)
           \/ PrepFails(c)
           \/ ClaimLease(c)
           \/ AskFence(c)
           \/ MarkTriaging(c)
           \/ InstallTrap(c)
           \/ NodeFails(c)
           \/ Accept(c)
           \/ Reject(c)
           \/ ZeroDiff(c)
           \/ Pass(c)
           \/ Push(c)
           \/ CreatePr(c)
           \/ HandOver(c)
           \/ WayOut(c)
           \/ WayOutEnds(c)
           \/ Leave(c)

Next == \/ \E m \in Machine : Round(m)
        \/ \E c \in Chain : Work(c) \/ StartByHand(c) \/ KillChain(c)
        \/ Lapse
        \/ \E d \in Deed : Do(d)

Spec == Init /\ [][Next]_vars

(* Rounds follow each other (--watch, or cron), their calls are answered,  *)
(* and a token nobody holds runs out.  Nothing makes a chain go on: the    *)
(* commands of its gates have no time-out.                                 *)
Fairness == /\ \A m \in Machine : WF_vars(Round(m))
            /\ WF_vars(Lapse)
FairSpec == Spec /\ Fairness

-----------------------------------------------------------------------------

TypeOK ==
  /\ issue \in Issue /\ pr \in Pr
  /\ adds \in Nat /\ rejections \in 0 .. MaxHuman /\ fixes \in Nat
  /\ remote \in BOOLEAN /\ live \in BOOLEAN /\ lease \subseteq Chain /\ armed \subseteq Chain
  /\ disp \in [Machine -> {"idle", "sync", "syncing", "triage", "judge", "merge", "merging",
                           "redispatch", "refix", "unfix", "reclaim", "respawn", "drain",
                           "check", "claim", "spawn", "wait", "final", "finishing"}]
  /\ ops \in [Machine -> SUBSET Op]
  /\ chain \in [Chain -> {"none", "start", "tripped", "claimed", "marked", "judging",
                          "working", "passed", "pushed", "opened", "trap", "leave"}]
  /\ left \in [Chain -> Seq(IssueLabel)]
  /\ deeds \in 0 .. MaxHuman /\ faults \in 0 .. MaxFaults

(* No PR is sent back to a chain more often than MAX_FIX_ROUNDS, whatever  *)
(* calls fail between taking needs-fix and the spawn.                      *)
RoundsBounded == fixes <= MaxFixRounds

(* While nothing went wrong, in-progress on an open issue is somebody's:   *)
(* of a dispatcher about to spawn, of a chain that runs, of a sync about   *)
(* to remove it.  With accepted beside it, it is what a zero-diff round    *)
(* left.                                                                   *)
ClaimNotAbandoned ==
  faults = 0 /\ issue.open /\ "in-progress" \in Labels =>
    \/ \E m \in Machine : disp[m] \in {"respawn", "spawn"}
    \/ \E m \in Machine : Removes("issue", {"in-progress"}) \subseteq ops[m]
    \/ \E c \in Chain : chain[c] # "none"
    \/ "accepted" \in Labels

(* While the holder of the lease works on an issue, nobody takes the lock  *)
(* label away, but for a call that was let through by the fence and whose  *)
(* chain lost the lease before it was made.                                *)
AtWork(c) == chain[c] \in {"working", "passed", "pushed"} /\ Fence(c)
Straying(c) == c \in armed /\ ~Fence(c)
WorkStaysMarked ==
  [][\A c \in Chain : AtWork(c) /\ AtWork(c)' /\ "in-progress" \in Labels =>
       "in-progress" \in Labels' \/ \E d \in Chain : Straying(d) /\ d \notin armed']_vars

(* An open issue that is accepted and not in progress does not stay so for *)
(* ever, provided every chain ends: the queue is read every round, and its *)
(* claim gets through.                                                     *)
ChainsEnd == \A c \in Chain : []<>(chain[c] = "none")
Queued == /\ "accepted" \in Labels /\ "in-progress" \notin Labels
          /\ issue.open /\ ~issue.marker
QueueServed == ChainsEnd => (Queued ~> ~Queued)

-----------------------------------------------------------------------------
(* What documents promise and the code does not keep: each is violated.    *)

(* The issue a lease holder works on carries in-progress: the fence and    *)
(* the call it guards are not one step.                                    *)
WorkIsMarked == \A c \in Chain : AtWork(c) => "in-progress" \in Labels

(* A change that passed every gate becomes a pull request.                 *)
PassOpensPr == [][\A c \in Chain : chain[c] = "passed" => chain'[c] # "trap"]_vars

(* A rejected issue is not worked on: "in-progress and rejected exclude    *)
(* each other".                                                            *)
RejectedNotWorked == ~({"in-progress", "rejected"} \subseteq Labels)

(* Only needs-fix PRs that are not needs-human are sent back.              *)
NeedsHumanStops ==
  \A m \in Machine : disp[m] \in {"reclaim", "respawn"} => "needs-human" \notin pr.labels

(* needs-human comes with the third request for changes, not earlier.      *)
HumanAfterThird ==
  PrOpen /\ "needs-human" \in pr.labels => rejections > MaxFixRounds

(* needs-human on an issue, the mark of a tripped breaker, stays until a   *)
(* person takes over ("nobody strips it").                                 *)
BreakerMarkStays ==
  [][issue.open /\ ~issue.marker /\ "needs-human" \in Labels =>
       "needs-human" \in issue'.labels]_vars
=============================================================================
