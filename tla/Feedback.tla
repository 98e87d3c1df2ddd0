------------------------------ MODULE Feedback ------------------------------
(* Feeding factory changes back upstream: feedback.py decides which commits   *)
(* are still owed (collect_pending), feedback-upstream.sh cherry-picks them   *)
(* onto a branch of the upstream repository, opens one PR and books it in the *)
(* ledger.  Nothing ties the two sides together but that ledger: a run may    *)
(* die anywhere, and the owner may rewrite the local history at any moment,   *)
(* which gives old content new commit ids.                                    *)
EXTENDS Integers, FiniteSets, Sequences

CONSTANTS
    Asset,        \* files under .factory
    MaxCommits,   \* bound: commits made after the port point
    MaxRewrites,  \* bound: rebases of the local history
    MaxDeaths     \* bound: runs killed

ASSUME FeedbackAssumption ==
    /\ IsFiniteSet(Asset)
    /\ MaxCommits \in Nat
    /\ MaxRewrites \in Nat
    /\ MaxDeaths \in Nat

VARIABLES
    history,   \* the commits since the port point, oldest first
    objects,   \* the commit ids git can still show
    ledger,    \* feedback-log.jsonl: [sha, pid], pid 0 for "patch_id": null
    upstream,  \* the assets on upstream's main
    prs,       \* the PRs opened, in order
    run,       \* the script under way: where it is, and the candidates left
    rewrites, deaths

vars == <<history, objects, ledger, upstream, prs, run, rewrites, deaths>>

NoRun == [at |-> "idle", list |-> {}]

Init ==
    /\ history = <<>>
    /\ objects = {}
    /\ ledger = {}
    /\ upstream = {}
    /\ prs = <<>>
    /\ run = NoRun
    /\ rewrites = 0
    /\ deaths = 0

-----------------------------------------------------------------------------
(* feedback.py: what is owed.                                                 *)

Commits == {history[i] : i \in DOMAIN history}

Live == {c.sha : c \in Commits}

\* The assets whose last commit asks to be fed back (trailer or bootstrap).
FeedableAssets ==
    {f \in Asset :
        \E i \in DOMAIN history :
            /\ f \in history[i].files
            /\ history[i].feedable
            /\ \A j \in i+1 .. Len(history) : f \notin history[j].files}

Touching(c) == c.files \cap FeedableAssets # {}

\* _patch_id: the content of a commit, or 0 when git no longer has the object.
PatchId(c) == IF c.sha \in objects THEN c.patch ELSE 0

LedgerShas == {e.sha : e \in ledger}

\* The second channel recognises content under a new id; "no id" matches none.
LedgerPatchIds == {e.pid : e \in ledger} \ {0}

OwedById(c, pids) ==
    /\ Touching(c)
    /\ c.sha \notin LedgerShas

Owed(c, pids) ==
    /\ Touching(c)
    /\ c.sha \notin LedgerShas
    /\ PatchId(c) \notin pids

Pending == {c \in Commits : Owed(c, LedgerPatchIds)}

\* A later commit that was fed back under its own id touches all of c's files.
\* The script leaves such a candidate to a human.
SupersededByAny(i) ==
    \E j \in DOMAIN history :
        /\ history[j].sha \in LedgerShas
        /\ history[i].files \subseteq history[j].files

Superseded(i) ==
    \E j \in i+1 .. Len(history) :
        /\ history[j].sha \in LedgerShas
        /\ history[i].files \subseteq history[j].files

\* The candidates of this moment that are superseded.
SupersededShas ==
    {history[i].sha : i \in {k \in DOMAIN history :
                                history[k] \in Pending /\ Superseded(k)}}

\* closure: every asset a candidate's script names is upstream or comes along.
Projected(list) == upstream \cup UNION {c.files : c \in list}

Closed(list) == \A c \in list : c.refs \subseteq Projected(list)

-----------------------------------------------------------------------------
(* The owner of the repository, git, and upstream's maintainers.              *)

\* Contents that were on main and were changed or taken out again since.
Gone(files) ==
    {history[i].patch : i \in {k \in DOMAIN history :
        /\ history[k].files = files
        /\ \E j \in k+1 .. Len(history) : history[j].files \cap files # {}}}

\* A commit on main: new content, or content that comes back.
Commit ==
    /\ Len(history) < MaxCommits
    /\ \E files \in SUBSET Asset \ {{}}, feedable \in BOOLEAN,
          refs \in {{}} \cup {{f} : f \in Asset} :
        LET id == Len(history) + 1 IN
        \E patch \in {id} \cup Gone(files) :
            LET c == [sha |-> <<id, rewrites>>, patch |-> patch, files |-> files,
                      feedable |-> feedable, refs |-> refs] IN
            /\ history' = Append(history, c)
            /\ objects' = objects \cup {c.sha}
    /\ UNCHANGED <<ledger, upstream, prs, run, rewrites, deaths>>

\* A rebase: the commits from k on keep their content and get new ids.
Rewrite ==
    /\ rewrites < MaxRewrites
    /\ \E k \in DOMAIN history :
        history' = [i \in DOMAIN history |->
            IF i < k THEN history[i]
            ELSE [history[i] EXCEPT !.sha = <<i, rewrites + 1>>]]
    /\ objects' = objects \cup {history'[i].sha : i \in DOMAIN history'}
    /\ rewrites' = rewrites + 1
    /\ UNCHANGED <<ledger, upstream, prs, run, deaths>>

\* git gc takes what no branch holds, long after any run is over.
Prune ==
    /\ run.at = "idle"
    /\ objects # Live
    /\ objects' = Live
    /\ UNCHANGED <<history, ledger, upstream, prs, run, rewrites, deaths>>

Merge ==
    /\ \E i \in DOMAIN prs :
        /\ ~prs[i].merged
        /\ prs' = [prs EXCEPT ![i].merged = TRUE]
        /\ upstream' = upstream \cup UNION {c.files : c \in prs[i].commits}
    /\ UNCHANGED <<history, objects, ledger, run, rewrites, deaths>>

\* record by hand: a human confirms that a candidate went up with a later one.
Confirm ==
    /\ \E c \in {d \in Commits : d.sha \in SupersededShas} :
        ledger' = ledger \cup {[sha |-> c.sha, pid |-> PatchId(c)]}
    /\ ledger' # ledger
    /\ UNCHANGED <<history, objects, upstream, prs, run, rewrites, deaths>>

\* One commit that stands on its own is replayed upstream and recorded by hand
\* while no run is under way.
HandFeed ==
    /\ run.at = "idle"
    /\ \E c \in Pending :
        /\ Closed({c})
        /\ prs' = Append(prs, [commits |-> {c}, merged |-> FALSE])
        /\ ledger' = ledger \cup {[sha |-> c.sha, pid |-> PatchId(c)]}
    /\ UNCHANGED <<history, objects, upstream, run, rewrites, deaths>>

-----------------------------------------------------------------------------
(* feedback-upstream.sh, one process after the other; each of them reads the  *)
(* history, the ledger and upstream afresh.                                   *)

Goto(at) == run' = [run EXCEPT !.at = at]

Collect ==
    /\ run.at = "idle"
    /\ Pending # {}
    /\ run' = [at |-> "collected", list |-> Pending]
    /\ UNCHANGED <<history, objects, ledger, upstream, prs, rewrites, deaths>>

\* The skipped candidates leave the list; with nothing left the script exits.
SkipSuperseded ==
    /\ run.at = "collected"
    /\ LET left == {c \in run.list : c.sha \notin SupersededShas}
       IN run' = IF left = {} THEN NoRun
                 ELSE [at |-> "listed", list |-> left]
    /\ UNCHANGED <<history, objects, ledger, upstream, prs, rewrites, deaths>>

\* closure works out the candidates again instead of taking the script's list.
CheckClosure ==
    /\ run.at = "listed"
    /\ IF Closed(Pending) THEN Goto("closed") ELSE run' = NoRun
    /\ UNCHANGED <<history, objects, ledger, upstream, prs, rewrites, deaths>>

\* Cherry-picks, the adapting agent, the checks on its work and upstream's gate:
\* either all candidates are on the branch, one commit each, or it is abandoned.
Adapt ==
    /\ run.at = "closed"
    /\ \/ Goto("green")
       \/ run' = NoRun
    /\ UNCHANGED <<history, objects, ledger, upstream, prs, rewrites, deaths>>

\* Push and hosting.py pr create; a failure of either ends the run unbooked.
\* (A PR that was created while its answer was lost is a Die after this step.)
OpenPr ==
    /\ run.at = "green"
    /\ \/ /\ prs' = Append(prs, [commits |-> run.list, merged |-> FALSE])
          /\ Goto("opened")
       \/ /\ run' = NoRun
          /\ UNCHANGED prs
    /\ UNCHANGED <<history, objects, ledger, upstream, rewrites, deaths>>

\* record: one line per candidate, each appended on its own, oldest first.
Book ==
    /\ run.at = "opened"
    /\ \E c \in run.list :
        /\ \A d \in run.list : c.sha[1] =< d.sha[1]
        /\ ledger' = ledger \cup {[sha |-> c.sha, pid |-> PatchId(c)]}
        /\ run' = IF run.list = {c} THEN NoRun
                  ELSE [run EXCEPT !.list = @ \ {c}]
    /\ UNCHANGED <<history, objects, upstream, prs, rewrites, deaths>>

Die ==
    /\ run.at # "idle"
    /\ deaths < MaxDeaths
    /\ deaths' = deaths + 1
    /\ run' = NoRun
    /\ UNCHANGED <<history, objects, ledger, upstream, prs, rewrites>>

Next ==
    \/ Commit \/ Rewrite \/ Prune \/ Merge \/ Confirm \/ HandFeed
    \/ Collect \/ SkipSuperseded \/ CheckClosure \/ Adapt \/ OpenPr \/ Book
    \/ Die

Spec == Init /\ [][Next]_vars

-----------------------------------------------------------------------------
Sha == (1 .. MaxCommits) \X (0 .. MaxRewrites)

CommitRecord ==
    [sha : Sha, patch : 1 .. MaxCommits, files : SUBSET Asset \ {{}},
     feedable : BOOLEAN, refs : SUBSET Asset]

\* The type of the state: commits, ledger lines, PRs and the script's place.
TypeOK ==
    /\ history \in Seq(CommitRecord)
    /\ Len(history) =< MaxCommits
    /\ Live \subseteq objects
    /\ objects \subseteq Sha
    /\ ledger \subseteq [sha : Sha, pid : 0 .. MaxCommits]
    /\ upstream \subseteq Asset
    /\ \A i \in DOMAIN prs :
        prs[i].merged \in BOOLEAN /\ prs[i].commits \subseteq CommitRecord
    /\ run.at \in {"idle", "collected", "listed", "closed", "green", "opened"}
    /\ run.list \subseteq CommitRecord
    /\ run.at = "idle" <=> run.list = {}
    /\ rewrites \in 0 .. MaxRewrites
    /\ deaths \in 0 .. MaxDeaths

Content(pr) == {c.patch : c \in pr.commits}

\* collect_pending's promise: content that is booked is not fed back a second
\* time, however often the local history is rewritten and garbage collected in
\* between.  What two PRs carry twice is content of a run that died between
\* opening its PR and writing its line, and at most one PR per such death.
FedOnce ==
    \A p \in 1 .. MaxCommits :
        Cardinality({i \in DOMAIN prs : p \in Content(prs[i])}) =< 1 + deaths

\* The ledger takes nothing off the list that no PR carries: when a commit that
\* touches a feedable asset is no longer a candidate, the content it brought is
\* in a PR, or it was left to a human and a PR carries a commit made after it
\* that touches all of its files.  A later change of a file that went up once
\* is therefore still a candidate.  (Content that is put back counts as the
\* commit that brought it first; whether PRs are merged is upstream's affair.)
Accounted ==
    \A i \in DOMAIN history :
        Touching(history[i]) /\ ~Owed(history[i], LedgerPatchIds) =>
            \E m \in DOMAIN history, k \in DOMAIN prs :
                /\ history[m].patch = history[i].patch
                /\ \E d \in prs[k].commits :
                    \/ d.patch = history[m].patch
                    \/ d.sha[1] > m /\ history[m].files \subseteq d.files

\* Unkept (feedback-upstream.sh:156): a PR brings along, or finds upstream,
\* every asset its scripts name.
SelfContained ==
    \A k \in DOMAIN prs : \A c \in prs[k].commits :
        c.refs \subseteq upstream \cup UNION {d.files : d \in prs[k].commits}

\* Unkept: content that was taken out and put back is fed back again.
BackAgain ==
    \A i \in DOMAIN history :
        Touching(history[i]) /\ history[i].sha \notin LedgerShas
            => Owed(history[i], LedgerPatchIds)
=============================================================================
