--------------------------- MODULE FeedbackProofs ---------------------------
(***************************************************************************)
(* What the feedback ledger accounts for, whatever the number of assets,   *)
(* commits, rewrites and deaths: a commit that is no longer owed went up.  *)
(* A commit id names a place in the history for good, and rewriting keeps  *)
(* what is there; so each id in a ledger line or a PR names content that   *)
(* the history still has.  And content goes up once, and once more for     *)
(* every run that died with its PR open.                                   *)
(***************************************************************************)
EXTENDS Feedback, FiniteSetTheorems, TLAPS

(* A commit somewhere outside the history is one of it, under its own or   *)
(* an earlier id.                                                          *)
Known(c) ==
    /\ c \in CommitRecord
    /\ c.sha[1] \in DOMAIN history
    /\ history[c.sha[1]].patch = c.patch /\ history[c.sha[1]].files = c.files

Uploaded == UNION {prs[k].commits : k \in DOMAIN prs}

(* What is at place i went up, or something later did that touches all of  *)
(* its files.                                                              *)
Covered(i) == \E d \in Uploaded : d.sha[1] >= i /\ history[i].files \subseteq d.files

Types ==
    /\ history \in Seq(CommitRecord)
    /\ prs \in Seq([commits : SUBSET CommitRecord, merged : BOOLEAN])
    /\ Live \subseteq objects /\ objects \subseteq Sha
    /\ ledger \subseteq [sha : Sha, pid : 0 .. MaxCommits]
    /\ Len(history) <= MaxCommits /\ rewrites \in 0 .. MaxRewrites
    /\ upstream \subseteq Asset /\ deaths \in 0 .. MaxDeaths
    /\ run \in [at : {"idle", "collected", "listed", "closed", "green", "opened"},
                list : SUBSET CommitRecord]
    /\ run.at = "idle" <=> run.list = {}

Places ==
    /\ \A i \in DOMAIN history : history[i].sha[1] = i /\ history[i].patch \in 1 .. Len(history)
    /\ \A i, j \in DOMAIN history :
        history[i].patch = history[j].patch => history[i].files = history[j].files

Traces ==
    /\ \A c \in run.list : Known(c)
    /\ \A c \in Uploaded : Known(c)
    /\ run.at = "opened" => run.list \subseteq Uploaded
    /\ \A e \in ledger : /\ e.sha[1] \in DOMAIN history
                         /\ e.pid \in {0, history[e.sha[1]].patch}
                         /\ Covered(e.sha[1])

IInv == Types /\ Places /\ Traces

-----------------------------------------------------------------------------
LEMMA ShaPlaces == \A s \in Sha : s[1] \in 1 .. MaxCommits /\ s[2] \in 0 .. MaxRewrites
BY DEF Sha

LEMMA HistoryTyped ==
    ASSUME Types
    PROVE  /\ Len(history) \in Nat /\ DOMAIN history = 1 .. Len(history)
           /\ \A i \in DOMAIN history : history[i] \in CommitRecord
BY DEF Types

LEMMA CommitsKnown ==
    ASSUME Types, Places, NEW c \in Commits
    PROVE  Known(c)
<1>1. PICK i \in DOMAIN history : c = history[i]
    BY DEF Commits
<1>. QED BY <1>1, HistoryTyped DEF Places, Known

LEMMA KnownPlace ==
    ASSUME Types, NEW c, Known(c)
    PROVE  c.sha[1] \in Nat /\ c.sha[1] >= c.sha[1]
BY HistoryTyped DEF Known

(* The id of the content of a commit on main is its own.                   *)
LEMMA PatchOfCommit ==
    ASSUME Types, Places, NEW c \in Commits
    PROVE  PatchId(c) = c.patch /\ c.patch # 0
<1>1. PICK i \in DOMAIN history : c = history[i]
    BY DEF Commits
<1>2. c.sha \in Live /\ c \in CommitRecord
    BY <1>1, HistoryTyped DEF Live, Commits
<1>3. c.sha \in objects
    BY <1>2 DEF Types
<1>. QED BY <1>2, <1>3 DEF PatchId, CommitRecord

(* A commit that the ledger has by its id is covered; one that it has by   *)
(* its content has that content in common with one that is.                *)
LEMMA BookedById ==
    ASSUME IInv, NEW i \in DOMAIN history, history[i].sha \in LedgerShas
    PROVE  Covered(i)
<1>1. PICK e \in ledger : e.sha = history[i].sha
    BY DEF LedgerShas
<1>2. e.sha[1] = i
    BY <1>1 DEF IInv, Places
<1>. QED BY <1>2 DEF IInv, Traces

LEMMA BookedCovered ==
    ASSUME IInv, NEW i \in DOMAIN history,
           history[i].sha \in LedgerShas \/ PatchId(history[i]) \in LedgerPatchIds
    PROVE  \E m \in DOMAIN history : history[m].patch = history[i].patch /\ Covered(m)
<1>1. history[i] \in Commits
    BY DEF Commits
<1>2. CASE history[i].sha \in LedgerShas
    BY <1>2, BookedById
<1>3. CASE PatchId(history[i]) \in LedgerPatchIds
    <2>1. PICK e \in ledger : e.pid = history[i].patch /\ e.pid # 0
        BY <1>1, <1>3, PatchOfCommit DEF IInv, LedgerPatchIds
    <2>2. e.sha[1] \in DOMAIN history /\ history[e.sha[1]].patch = history[i].patch /\ Covered(e.sha[1])
        BY <2>1 DEF IInv, Traces
    <2>. QED BY <2>2
<1>. QED BY <1>2, <1>3

-----------------------------------------------------------------------------
(* Types.                                                                  *)

LEMMA TypesInit == ASSUME Init PROVE Types
BY FeedbackAssumption DEF Init, Types, NoRun, Live, Commits

(* One more commit: what was there stays where it was.                     *)
LEMMA CommitMade ==
    ASSUME IInv, Commit
    PROVE  /\ \E c \in CommitRecord :
                /\ history' = Append(history, c) /\ c.sha = <<Len(history) + 1, rewrites>>
                /\ objects' = objects \cup {c.sha}
                /\ \/ c.patch = Len(history) + 1
                   \/ \E i \in DOMAIN history : c.patch = history[i].patch /\ c.files = history[i].files
           /\ Len(history) < MaxCommits
           /\ UNCHANGED <<ledger, upstream, prs, run, rewrites, deaths>>
<1>1. PICK files \in SUBSET Asset \ {{}}, feedable \in BOOLEAN,
           refs \in {{}} \cup {{f} : f \in Asset} :
        \E patch \in {Len(history) + 1} \cup Gone(files) :
        LET c == [sha |-> <<Len(history) + 1, rewrites>>, patch |-> patch, files |-> files,
                  feedable |-> feedable, refs |-> refs]
        IN  history' = Append(history, c) /\ objects' = objects \cup {c.sha}
    BY DEF Commit
<1>0. PICK patch \in {Len(history) + 1} \cup Gone(files) :
        LET c == [sha |-> <<Len(history) + 1, rewrites>>, patch |-> patch, files |-> files,
                  feedable |-> feedable, refs |-> refs]
        IN  history' = Append(history, c) /\ objects' = objects \cup {c.sha}
    BY <1>1
<1> DEFINE c == [sha |-> <<Len(history) + 1, rewrites>>, patch |-> patch, files |-> files,
                 feedable |-> feedable, refs |-> refs]
<1>2. \/ patch = Len(history) + 1
      \/ \E i \in DOMAIN history : patch = history[i].patch /\ files = history[i].files
    BY DEF Gone
<1>3. Len(history) < MaxCommits /\ UNCHANGED <<ledger, upstream, prs, run, rewrites, deaths>>
    BY DEF Commit
<1>4. Len(history) + 1 \in 1 .. MaxCommits /\ rewrites \in 0 .. MaxRewrites
    BY <1>3, FeedbackAssumption, HistoryTyped DEF IInv, Types
<1>5. patch \in 1 .. MaxCommits
    BY <1>2, <1>4, HistoryTyped DEF IInv, CommitRecord
<1>6. c \in CommitRecord
    <2>1. <<Len(history) + 1, rewrites>> \in Sha
        BY <1>4 DEF Sha
    <2>2. refs \in SUBSET Asset
        OBVIOUS
    <2>. QED BY <1>5, <2>1, <2>2 DEF CommitRecord
<1>. QED BY <1>0, <1>2, <1>3, <1>6

(* A rewritten commit differs in the second half of its id alone.          *)
LEMMA Rewritten ==
    ASSUME IInv, Rewrite
    PROVE  /\ history' \in Seq(CommitRecord) /\ Len(history') = Len(history)
           /\ DOMAIN history' = DOMAIN history
           /\ \A i \in DOMAIN history :
                /\ history'[i].sha[1] = history[i].sha[1]
                /\ history'[i].patch = history[i].patch /\ history'[i].files = history[i].files
           /\ objects' = objects \cup Live' /\ rewrites' \in 0 .. MaxRewrites
           /\ UNCHANGED <<ledger, upstream, prs, run, deaths>>
<1>1. PICK k \in DOMAIN history :
        history' = [i \in DOMAIN history |->
            IF i < k THEN history[i] ELSE [history[i] EXCEPT !.sha = <<i, rewrites + 1>>]]
    BY DEF Rewrite
<1>2. rewrites + 1 \in 0 .. MaxRewrites
    BY FeedbackAssumption DEF Rewrite, IInv, Types
<1>3. \A i \in DOMAIN history : <<i, rewrites + 1>> \in Sha
    BY <1>2, HistoryTyped, FeedbackAssumption DEF Sha, IInv, Types
<1>4. \A i \in DOMAIN history :
        /\ history'[i] \in CommitRecord /\ history'[i].sha[1] = history[i].sha[1]
        /\ history'[i].patch = history[i].patch /\ history'[i].files = history[i].files
    <2>1. SUFFICES ASSUME NEW i \in DOMAIN history
                   PROVE  /\ history'[i] \in CommitRecord /\ history'[i].sha[1] = history[i].sha[1]
                          /\ history'[i].patch = history[i].patch
                          /\ history'[i].files = history[i].files
        OBVIOUS
    <2>2. history[i] \in CommitRecord /\ history[i].sha[1] = i
        BY HistoryTyped DEF IInv, Places
    <2>3. CASE i < k
        BY <1>1, <2>2, <2>3
    <2>4. CASE ~(i < k)
        <3>1. history'[i] = [history[i] EXCEPT !.sha = <<i, rewrites + 1>>]
            BY <1>1, <2>4
        <3>. QED BY <1>3, <2>2, <3>1 DEF CommitRecord
    <2>. QED BY <2>3, <2>4
<1>5. DOMAIN history' = 1 .. Len(history) /\ Len(history) \in Nat
    BY <1>1, HistoryTyped DEF IInv
<1>6. history' \in [1 .. Len(history) -> CommitRecord]
    BY <1>1, <1>4, HistoryTyped DEF IInv
<1>7. history' \in Seq(CommitRecord) /\ Len(history') = Len(history)
    BY <1>5, <1>6
<1>8. objects' = objects \cup Live'
    <2>1. Live' = {history'[i].sha : i \in DOMAIN history'}
        BY DEF Live, Commits
    <2>. QED BY <2>1 DEF Rewrite
<1>. QED BY <1>1, <1>2, <1>4, <1>5, <1>7, <1>8, HistoryTyped DEF Rewrite, IInv

LEMMA PatchIds ==
    ASSUME NEW c \in CommitRecord
    PROVE  PatchId(c) \in {0, c.patch} /\ PatchId(c) \in 0 .. MaxCommits /\ c.sha \in Sha
BY FeedbackAssumption DEF CommitRecord, PatchId

(* One more PR.                                                            *)
LEMMA PrOpened ==
    ASSUME Types, NEW list \in SUBSET CommitRecord,
           prs' = Append(prs, [commits |-> list, merged |-> FALSE])
    PROVE  /\ prs' \in Seq([commits : SUBSET CommitRecord, merged : BOOLEAN])
           /\ Uploaded' = Uploaded \cup list
<1>1. prs' \in Seq([commits : SUBSET CommitRecord, merged : BOOLEAN])
    BY DEF Types
<1>2. Len(prs) \in Nat /\ DOMAIN prs = 1 .. Len(prs) /\ DOMAIN prs' = 1 .. Len(prs) + 1
    BY DEF Types
<1>3. /\ \A k \in DOMAIN prs : k \in DOMAIN prs' /\ prs'[k] = prs[k]
      /\ prs'[Len(prs) + 1].commits = list
    BY <1>2 DEF Types
<1>. QED BY <1>1, <1>2, <1>3 DEF Uploaded

LEMMA ActionTypes ==
    ASSUME IInv, Next
    PROVE  Types'
<1>. USE FeedbackAssumption
<1>1. Types /\ Commits \subseteq CommitRecord /\ Pending \subseteq CommitRecord
    BY HistoryTyped DEF IInv, Commits, Pending
<1>2. CASE Commit
    <2>1. PICK c \in CommitRecord : history' = Append(history, c) /\ objects' = objects \cup {c.sha}
        BY <1>2, CommitMade
    <2>2. history' \in Seq(CommitRecord) /\ Len(history') <= MaxCommits
        BY <1>1, <1>2, <2>1, CommitMade DEF Types
    <2>3. c.sha \in Sha /\ objects' \subseteq Sha
        BY <1>1, <2>1, PatchIds DEF Types
    <2>4. Live' \subseteq objects'
        <3>1. \A i \in DOMAIN history' : history'[i] = c \/ \E j \in DOMAIN history : history'[i] = history[j]
            BY <1>1, <2>1 DEF Types
        <3>2. Live' = {history'[i].sha : i \in DOMAIN history'} /\ Live = {history[i].sha : i \in DOMAIN history}
            BY DEF Live, Commits
        <3>. QED BY <1>1, <2>1, <3>1, <3>2 DEF Types
    <2>. QED BY <1>1, <1>2, <2>2, <2>3, <2>4, CommitMade DEF Types
<1>3. CASE Rewrite
    <2>1. Live' \subseteq Sha
        <3>1. Live' = {history'[i].sha : i \in DOMAIN history'}
            BY DEF Live, Commits
        <3>2. \A i \in DOMAIN history' : history'[i] \in CommitRecord
            BY <1>3, Rewritten
        <3>. QED BY <3>1, <3>2, PatchIds
    <2>. QED BY <1>1, <1>3, <2>1, Rewritten DEF Types
<1>4. CASE Prune
    BY <1>1, <1>4 DEF Prune, Types, Live, Commits
<1>5. CASE Merge
    <2>1. PICK i \in DOMAIN prs :
            /\ prs' = [prs EXCEPT ![i].merged = TRUE]
            /\ upstream' = upstream \cup UNION {c.files : c \in prs[i].commits}
        BY <1>5 DEF Merge
    <2> DEFINE Pr == [commits : SUBSET CommitRecord, merged : BOOLEAN]
    <2>2. prs[i] \in Pr /\ prs \in Seq(Pr)
        <3>1. prs \in Seq(Pr)
            BY <1>1 DEF Types
        <3>2. prs[i] \in Pr
            <4>. HIDE DEF Pr
            <4>. QED BY <2>1, <3>1
        <3>. QED BY <3>1, <3>2
    <2>3. [prs[i] EXCEPT !.merged = TRUE] \in Pr
        BY <2>2
    <2>4. prs' \in Seq(Pr)
        <3>. HIDE DEF Pr
        <3>. QED BY <2>1, <2>2, <2>3
    <2>5. \A c \in prs[i].commits : c.files \subseteq Asset
        <3>1. \A c \in CommitRecord : c.files \subseteq Asset
            BY DEF CommitRecord
        <3>. QED BY <2>2, <3>1
    <2>6. upstream' \subseteq Asset
        BY <1>1, <2>1, <2>5 DEF Types
    <2>7. UNCHANGED <<history, objects, ledger, run, rewrites, deaths>> /\ Live' = Live
        BY <1>5 DEF Merge, Live, Commits
    <2>. QED BY <1>1, <2>4, <2>6, <2>7 DEF Types
<1>6. CASE Confirm
    <2>1. PICK c \in Commits : ledger' = ledger \cup {[sha |-> c.sha, pid |-> PatchId(c)]}
        BY <1>6 DEF Confirm
    <2>2. ledger' \subseteq [sha : Sha, pid : 0 .. MaxCommits]
        BY <1>1, <2>1, PatchIds DEF Types
    <2>. QED BY <1>1, <1>6, <2>2 DEF Confirm, Types, Live, Commits
<1>7. CASE HandFeed
    <2>1. PICK c \in Pending :
            /\ prs' = Append(prs, [commits |-> {c}, merged |-> FALSE])
            /\ ledger' = ledger \cup {[sha |-> c.sha, pid |-> PatchId(c)]}
        BY <1>7 DEF HandFeed
    <2>2. ledger' \subseteq [sha : Sha, pid : 0 .. MaxCommits]
        BY <1>1, <2>1, PatchIds DEF Types
    <2>3. prs' \in Seq([commits : SUBSET CommitRecord, merged : BOOLEAN])
        BY <1>1, <2>1, PrOpened
    <2>. QED BY <1>1, <1>7, <2>2, <2>3 DEF HandFeed, Types, Live, Commits
<1>8. CASE OpenPr
    <2>1. prs' \in Seq([commits : SUBSET CommitRecord, merged : BOOLEAN])
        BY <1>1, <1>8, PrOpened DEF OpenPr, Types
    <2>2. /\ UNCHANGED <<history, objects, ledger, upstream, rewrites, deaths>>
          /\ Live' = Live
        BY <1>8 DEF OpenPr, Live, Commits
    <2>3. /\ run.list # {} /\ run.list \in SUBSET CommitRecord
          /\ run' = [run EXCEPT !.at = "opened"] \/ run' = [at |-> "idle", list |-> {}]
        BY <1>1, <1>8 DEF OpenPr, Goto, NoRun, Types
    <2>4. /\ run' \in [at : {"idle", "collected", "listed", "closed", "green", "opened"},
                      list : SUBSET CommitRecord]
          /\ run'.at = "idle" <=> run'.list = {}
        BY <1>1, <2>3 DEF Types
    <2>. QED BY <1>1, <2>1, <2>2, <2>4 DEF Types
<1>9. CASE Book
    <2>1. PICK c \in run.list :
            /\ ledger' = ledger \cup {[sha |-> c.sha, pid |-> PatchId(c)]}
            /\ run' = IF run.list = {c} THEN NoRun ELSE [run EXCEPT !.list = @ \ {c}]
        BY <1>9 DEF Book
    <2>2. ledger' \subseteq [sha : Sha, pid : 0 .. MaxCommits]
        BY <1>1, <2>1, PatchIds DEF Types
    <2>. QED BY <1>1, <1>9, <2>1, <2>2 DEF Book, NoRun, Types, Live, Commits
<1>10. CASE Collect \/ SkipSuperseded \/ CheckClosure \/ Adapt \/ Die
    BY <1>1, <1>10 DEF Collect, SkipSuperseded, CheckClosure, Adapt, Die, Goto, NoRun, Types, Live, Commits
<1>. QED BY <1>2, <1>3, <1>4, <1>5, <1>6, <1>7, <1>8, <1>9, <1>10 DEF Next

-----------------------------------------------------------------------------
(* Places and traces.                                                      *)

LEMMA CommitPlaces ==
    ASSUME IInv, Commit
    PROVE  Places' /\ Traces'
<1>1. PICK c \in CommitRecord :
        /\ history' = Append(history, c) /\ c.sha = <<Len(history) + 1, rewrites>>
        /\ \/ c.patch = Len(history) + 1
           \/ \E i \in DOMAIN history : c.patch = history[i].patch /\ c.files = history[i].files
    BY CommitMade
<1>2. /\ Len(history) \in Nat /\ DOMAIN history = 1 .. Len(history)
      /\ Len(history') = Len(history) + 1 /\ DOMAIN history' = 1 .. Len(history) + 1
      /\ \A i \in DOMAIN history : history'[i] = history[i]
      /\ history'[Len(history) + 1] = c
    BY <1>1, HistoryTyped DEF IInv, Types
<1>3. \A i \in DOMAIN history : history[i].sha[1] = i /\ history[i].patch \in 1 .. Len(history)
    BY DEF IInv, Places
<1>4. \A i \in DOMAIN history' : history'[i].sha[1] = i /\ history'[i].patch \in 1 .. Len(history')
    BY <1>1, <1>2, <1>3
<1>5. \A i, j \in DOMAIN history' :
        history'[i].patch = history'[j].patch => history'[i].files = history'[j].files
    <2>1. \A i \in DOMAIN history : history[i].patch = c.patch => history[i].files = c.files
        <3>1. CASE c.patch = Len(history) + 1
            BY <1>2, <1>3, <3>1
        <3>2. CASE \E i \in DOMAIN history : c.patch = history[i].patch /\ c.files = history[i].files
            BY <3>2 DEF IInv, Places
        <3>. QED BY <1>1, <3>1, <3>2
    <2>2. \A i \in DOMAIN history' : i \in DOMAIN history \/ history'[i] = c
        BY <1>2
    <2>. QED BY <1>2, <2>1, <2>2 DEF IInv, Places
<1>6. Places'
    BY <1>4, <1>5 DEF Places
<1>7. UNCHANGED <<ledger, prs, run>>
    BY CommitMade
<1>8. Traces'
    BY <1>2, <1>7 DEF IInv, Traces, Known, Uploaded, Covered
<1>. QED BY <1>6, <1>8

LEMMA RewritePlaces ==
    ASSUME IInv, Rewrite
    PROVE  Places' /\ Traces'
<1>1. Places'
    BY Rewritten DEF IInv, Places
<1>2. UNCHANGED <<ledger, prs, run>>
    BY Rewritten
<1>3. \A c : Known(c) => Known(c)'
    BY Rewritten DEF Known
<1>4. Uploaded' = Uploaded
    BY <1>2 DEF Uploaded
<1>5. \A i \in DOMAIN history : Covered(i) => Covered(i)'
    BY <1>4, Rewritten DEF Covered
<1>6. \A e \in ledger' : /\ e.sha[1] \in DOMAIN history'
                        /\ e.pid \in {0, history'[e.sha[1]].patch}
                        /\ Covered(e.sha[1])'
    BY <1>2, <1>5, Rewritten DEF IInv, Traces
<1>7. Traces'
    BY <1>2, <1>3, <1>4, <1>6 DEF IInv, Traces
<1>. QED BY <1>1, <1>7

(* A line for what went up.                                                *)
LEMMA LineCovered ==
    ASSUME IInv, NEW c, Known(c), Covered(c.sha[1]),
           UNCHANGED history, Uploaded \subseteq Uploaded',
           ledger' \subseteq ledger \cup {[sha |-> c.sha, pid |-> PatchId(c)]}
    PROVE  \A e \in ledger' : /\ e.sha[1] \in DOMAIN history'
                              /\ e.pid \in {0, history'[e.sha[1]].patch}
                              /\ Covered(e.sha[1])'
<1>1. \A i : Covered(i) => Covered(i)'
    BY DEF Covered
<1>2. PatchId(c) \in {0, c.patch}
    BY PatchIds DEF Known
<1>. QED BY <1>1, <1>2 DEF IInv, Traces, Known

LEMMA SameCommits ==
    ASSUME UNCHANGED history, NEW c
    PROVE  Known(c)' <=> Known(c)
BY DEF Known

LEMMA SamePrs ==
    ASSUME UNCHANGED prs
    PROVE  Uploaded' = Uploaded
BY DEF Uploaded

LEMMA TracesNext ==
    ASSUME IInv, Next, ~Commit, ~Rewrite
    PROVE  Places' /\ Traces'
<1>1. UNCHANGED history /\ Types /\ Places
    BY DEF Next, Prune, Merge, Confirm, HandFeed, Collect, SkipSuperseded, CheckClosure, Adapt, OpenPr,
           Book, Die, IInv
<1>2. Places'
    BY <1>1 DEF Places
<1>3. \A c : Known(c)' <=> Known(c)
    BY <1>1, SameCommits
<1>4. \A c \in Pending : Known(c)
    BY <1>1, CommitsKnown DEF Pending
<1>5. (\A c \in run.list : Known(c)) /\ (\A c \in Uploaded : Known(c))
    BY DEF IInv, Traces
<1>6. CASE Merge
    <2>1. Uploaded' = Uploaded
        BY <1>1, <1>6 DEF Merge, Types, Uploaded
    <2>. QED BY <1>1, <1>2, <1>3, <1>6, <2>1 DEF Merge, IInv, Traces, Covered
<1>7. CASE Confirm
    <2>1. PICK c \in Commits : /\ c.sha \in SupersededShas
                              /\ ledger' = ledger \cup {[sha |-> c.sha, pid |-> PatchId(c)]}
        BY <1>7 DEF Confirm
    <2>2. PICK i \in DOMAIN history : history[i].sha = c.sha /\ Superseded(i)
        BY <2>1 DEF SupersededShas
    <2>3. PICK j \in i + 1 .. Len(history) :
            history[j].sha \in LedgerShas /\ history[i].files \subseteq history[j].files
        BY <2>2 DEF Superseded
    <2>4. j \in DOMAIN history
        BY <1>1, <2>3, HistoryTyped
    <2>5. PICK d \in Uploaded : d.sha[1] >= j /\ history[j].files \subseteq d.files
        BY <2>3, <2>4, BookedById DEF Covered
    <2>6. c.sha[1] = i
        BY <1>1, <2>2 DEF Places
    <2>0. d.sha[1] \in Nat /\ i \in Nat /\ j \in Nat /\ i < j
        BY <1>1, <1>5, <2>2, <2>3, <2>4, KnownPlace, HistoryTyped
    <2>7. Covered(c.sha[1]) /\ Known(c)
        <3>1. d.sha[1] >= i /\ history[i].files \subseteq d.files
            BY <2>0, <2>3, <2>5
        <3>. QED BY <1>1, <2>6, <3>1, CommitsKnown DEF Covered
    <2>8. UNCHANGED <<prs, run>> /\ Uploaded' = Uploaded
        BY <1>7, SamePrs DEF Confirm
    <2>9. \A e \in ledger' : /\ e.sha[1] \in DOMAIN history'
                            /\ e.pid \in {0, history'[e.sha[1]].patch}
                            /\ Covered(e.sha[1])'
        BY <1>1, <2>1, <2>7, <2>8, LineCovered
    <2>. QED BY <1>2, <1>3, <2>8, <2>9 DEF IInv, Traces
<1>8. CASE HandFeed
    <2>1. PICK c \in Pending :
            /\ prs' = Append(prs, [commits |-> {c}, merged |-> FALSE])
            /\ ledger' = ledger \cup {[sha |-> c.sha, pid |-> PatchId(c)]}
        BY <1>8 DEF HandFeed
    <2>2. Known(c) /\ c \in CommitRecord
        BY <1>4 DEF Known
    <2>3. Uploaded' = Uploaded \cup {c}
        BY <1>1, <2>1, <2>2, PrOpened
    <2>4. \A e \in ledger' : /\ e.sha[1] \in DOMAIN history'
                            /\ e.pid \in {0, history'[e.sha[1]].patch}
                            /\ Covered(e.sha[1])'
        <3>1. PatchId(c) \in {0, c.patch}
            BY <2>2, PatchIds
        <3>2. \A i : Covered(i) => Covered(i)'
            BY <1>1, <2>3 DEF Covered
        <3>3. Covered(c.sha[1])'
            BY <1>1, <2>2, <2>3, KnownPlace DEF Covered, Known
        <3>. QED BY <1>1, <2>1, <2>2, <3>1, <3>2, <3>3 DEF IInv, Traces, Known
    <2>5. UNCHANGED run /\ run.at = "idle"
        BY <1>8 DEF HandFeed
    <2>. QED BY <1>2, <1>3, <1>5, <2>2, <2>3, <2>4, <2>5 DEF Traces
<1>9. CASE OpenPr
    <2>1. run.list \subseteq CommitRecord /\ UNCHANGED ledger
        BY <1>1, <1>9 DEF OpenPr, Types
    <2>2. CASE run' = NoRun /\ UNCHANGED prs
        <3>1. Uploaded' = Uploaded
            BY <2>2, SamePrs
        <3>. QED BY <1>1, <1>2, <1>3, <2>1, <2>2, <3>1 DEF IInv, Traces, NoRun, Covered
    <2>3. CASE Goto("opened") /\ prs' = Append(prs, [commits |-> run.list, merged |-> FALSE])
        <3>1. Uploaded' = Uploaded \cup run.list
            BY <1>1, <2>1, <2>3, PrOpened
        <3>2. run'.list = run.list
            BY <1>1, <2>3 DEF Goto, Types
        <3>3. \A i : Covered(i) => Covered(i)'
            BY <1>1, <3>1 DEF Covered
        <3>. QED BY <1>1, <1>2, <1>3, <1>5, <2>1, <3>1, <3>2, <3>3 DEF IInv, Traces
    <2>. QED BY <1>9, <2>2, <2>3 DEF OpenPr
<1>10. CASE Book
    <2>1. PICK c \in run.list :
            /\ ledger' = ledger \cup {[sha |-> c.sha, pid |-> PatchId(c)]}
            /\ run' = IF run.list = {c} THEN NoRun ELSE [run EXCEPT !.list = @ \ {c}]
        BY <1>10 DEF Book
    <2>2. run.at = "opened" /\ UNCHANGED prs /\ Uploaded' = Uploaded
        BY <1>10, SamePrs DEF Book
    <2>3. c \in Uploaded /\ Known(c)
        BY <1>5, <2>1, <2>2 DEF IInv, Traces
    <2>4. Covered(c.sha[1])
        <3>1. c.sha[1] >= c.sha[1] /\ history[c.sha[1]].files = c.files
            BY <1>1, <2>3, KnownPlace DEF Known
        <3>. QED BY <2>3, <3>1 DEF Covered
    <2>5. \A e \in ledger' : /\ e.sha[1] \in DOMAIN history'
                            /\ e.pid \in {0, history'[e.sha[1]].patch}
                            /\ Covered(e.sha[1])'
        BY <1>1, <2>1, <2>2, <2>3, <2>4, LineCovered
    <2>6. run'.list \subseteq run.list
        BY <1>1, <2>1 DEF NoRun, Types
    <2>7. run.list \subseteq Uploaded
        BY <2>2 DEF IInv, Traces
    <2>. QED BY <1>2, <1>3, <1>5, <2>2, <2>5, <2>6, <2>7 DEF Traces
<1>11. CASE Prune \/ Collect \/ SkipSuperseded \/ CheckClosure \/ Adapt \/ Die
    <2>1. UNCHANGED <<prs, ledger>> /\ Uploaded' = Uploaded
        BY <1>11, SamePrs DEF Prune, Collect, SkipSuperseded, CheckClosure, Adapt, Die
    <2>2. run'.list \subseteq run.list \cup Pending /\ (run'.at = "opened" => run' = run)
        BY <1>1, <1>11 DEF Prune, Collect, SkipSuperseded, CheckClosure, Adapt, Die, Goto, NoRun, Types
    <2>3. \A i : Covered(i)' <=> Covered(i)
        BY <1>1, <2>1 DEF Covered
    <2>. QED BY <1>1, <1>2, <1>3, <1>4, <1>5, <2>1, <2>2, <2>3 DEF IInv, Traces
<1>. QED BY <1>6, <1>7, <1>8, <1>9, <1>10, <1>11 DEF Next

-----------------------------------------------------------------------------
LEMMA IInvInit ==
    ASSUME Init
    PROVE  IInv
<1>1. DOMAIN history = {} /\ Uploaded = {}
    BY DEF Init, Uploaded
<1>. QED BY <1>1, TypesInit DEF Init, NoRun, IInv, Places, Traces

LEMMA IInvNext ==
    ASSUME IInv, [Next]_vars
    PROVE  IInv'
<1>1. CASE Next
    BY <1>1, ActionTypes, CommitPlaces, RewritePlaces, TracesNext DEF IInv
<1>2. CASE UNCHANGED vars
    <2>1. UNCHANGED <<history, objects, ledger, upstream, prs, run, rewrites, deaths>>
        BY <1>2 DEF vars
    <2>2. Live' = Live /\ Uploaded' = Uploaded
        BY <2>1 DEF Live, Commits, Uploaded
    <2>3. Types' /\ Places'
        BY <2>1, <2>2 DEF IInv, Types, Places
    <2>4. Traces'
        BY <2>1, <2>2 DEF IInv, Traces, Known, Covered
    <2>. QED BY <2>3, <2>4 DEF IInv
<1>. QED BY <1>1, <1>2

(* The invariant of the ledger: every id it and the PRs hold names content *)
(* the history still has, and that content is in a PR.                     *)
THEOREM LedgerInvariance == Spec => []IInv
BY IInvInit, IInvNext, PTL DEF Spec

(* The types of the state.                                                 *)
THEOREM FeedbackTypeCorrect == Spec => []TypeOK
<1>1. IInv => TypeOK
    <2>1. SUFFICES ASSUME Types PROVE TypeOK
        BY DEF IInv
    <2>2. \A i \in DOMAIN prs : prs[i].merged \in BOOLEAN /\ prs[i].commits \subseteq CommitRecord
        <3> DEFINE Pr == [commits : SUBSET CommitRecord, merged : BOOLEAN]
        <3>1. prs \in Seq(Pr)
            BY <2>1 DEF Types
        <3>2. \A i \in DOMAIN prs : prs[i] \in Pr
            <4>. HIDE DEF Pr
            <4>. QED BY <3>1
        <3>. QED BY <3>2
    <2>. QED BY <2>1, <2>2 DEF Types, TypeOK
<1>. QED BY <1>1, LedgerInvariance, PTL

(* collect_pending forgets nothing: what is no longer a candidate has its  *)
(* content in a PR, or a PR carries a later commit that touches all of its *)
(* files.                                                                  *)
THEOREM NothingForgotten == Spec => []Accounted
<1>1. IInv => Accounted
    <2>1. SUFFICES ASSUME IInv, NEW i \in DOMAIN history, Touching(history[i]),
                          ~Owed(history[i], LedgerPatchIds)
                   PROVE  \E m \in DOMAIN history, k \in DOMAIN prs :
                            /\ history[m].patch = history[i].patch
                            /\ \E d \in prs[k].commits :
                                \/ d.patch = history[m].patch
                                \/ d.sha[1] > m /\ history[m].files \subseteq d.files
        BY DEF Accounted
    <2>2. PICK m \in DOMAIN history : history[m].patch = history[i].patch /\ Covered(m)
        BY <2>1, BookedCovered DEF Owed
    <2>3. PICK d \in Uploaded : d.sha[1] >= m /\ history[m].files \subseteq d.files
        BY <2>2 DEF Covered
    <2>4. PICK k \in DOMAIN prs : d \in prs[k].commits
        BY <2>3 DEF Uploaded
    <2>5. Known(d) /\ d.sha[1] \in Nat /\ m \in Nat
        <3>1. Known(d)
            BY <2>1, <2>3 DEF IInv, Traces
        <3>2. d.sha[1] \in Nat
            BY <2>1, <3>1, HistoryTyped DEF Known, IInv
        <3>. QED BY <2>1, <2>2, <3>1, <3>2, HistoryTyped DEF IInv
    <2>6. d.sha[1] = m => d.patch = history[m].patch
        BY <2>5 DEF Known
    <2>7. d.sha[1] = m \/ d.sha[1] > m
        BY <2>3, <2>5
    <2>. QED BY <2>2, <2>3, <2>4, <2>6, <2>7
<1>. QED BY <1>1, LedgerInvariance, PTL

-----------------------------------------------------------------------------
(* How often content goes up.  Content is spent when the ledger has it, or *)
(* when the run has opened its PR and is about to book it; what a run has  *)
(* listed and not yet sent is not.  PRs that carry content are counted     *)
(* against the runs that died: each death may leave one PR unbooked.       *)

Carry(p) == {i \in DOMAIN prs : p \in Content(prs[i])}

Listed == {c.patch : c \in run.list}
Spent(p) == IF p \in Listed THEN run.at = "opened" ELSE p \in LedgerPatchIds
Allowed(p) == deaths + (IF Spent(p) THEN 1 ELSE 0)

ShownByGit == \A c \in run.list : c.sha \in objects

Once == /\ ShownByGit
        /\ \A p \in 1 .. MaxCommits : Cardinality(Carry(p)) <= Allowed(p)

LEMMA CarriersCounted ==
    ASSUME Types, NEW p
    PROVE  IsFiniteSet(Carry(p)) /\ Cardinality(Carry(p)) \in Nat
<1>1. Carry(p) \subseteq 1 .. Len(prs) /\ Len(prs) \in Nat
    BY DEF Types, Carry
<1>2. IsFiniteSet(1 .. Len(prs))
    BY <1>1, FS_Interval
<1>3. IsFiniteSet(Carry(p))
    BY <1>1, <1>2, FS_Subset
<1>. QED BY <1>3, FS_CardinalityType

LEMMA CarriersGrow ==
    ASSUME Types, NEW list \in SUBSET CommitRecord, NEW p,
           prs' = Append(prs, [commits |-> list, merged |-> FALSE])
    PROVE  /\ (\A c \in list : c.patch # p) => Carry(p)' = Carry(p)
           /\ Cardinality(Carry(p)') \in Nat
           /\ Cardinality(Carry(p)') <= Cardinality(Carry(p)) + 1
<1>1. Len(prs) \in Nat /\ DOMAIN prs = 1 .. Len(prs) /\ DOMAIN prs' = 1 .. Len(prs) + 1
    BY DEF Types
<1>2. /\ \A k \in DOMAIN prs : k \in DOMAIN prs' /\ prs'[k] = prs[k]
      /\ prs'[Len(prs) + 1].commits = list
    BY <1>1 DEF Types
<1>3. Carry(p)' = {i \in DOMAIN prs' : p \in {c.patch : c \in prs'[i].commits}}
    BY DEF Carry, Content
<1>4. Carry(p) = {i \in DOMAIN prs : p \in {c.patch : c \in prs[i].commits}}
    BY DEF Carry, Content
<1>5. Carry(p)' \in {Carry(p), Carry(p) \cup {Len(prs) + 1}}
    BY <1>1, <1>2, <1>3, <1>4
<1>6. (\A c \in list : c.patch # p) => Carry(p)' = Carry(p)
    BY <1>1, <1>2, <1>3, <1>4
<1>7. IsFiniteSet(Carry(p)) /\ Cardinality(Carry(p)) \in Nat
    BY CarriersCounted
<1>8. /\ Cardinality(Carry(p) \cup {Len(prs) + 1}) \in Nat
      /\ Cardinality(Carry(p) \cup {Len(prs) + 1}) <= Cardinality(Carry(p)) + 1
    <2>1. Cardinality(Carry(p) \cup {Len(prs) + 1})
            = IF Len(prs) + 1 \in Carry(p) THEN Cardinality(Carry(p)) ELSE Cardinality(Carry(p)) + 1
        BY <1>7, FS_AddElement
    <2>. QED BY <1>7, <2>1
<1>9. CASE Carry(p)' = Carry(p)
    BY <1>7, <1>9
<1>10. CASE Carry(p)' = Carry(p) \cup {Len(prs) + 1}
    BY <1>6, <1>8, <1>10
<1>. QED BY <1>5, <1>9, <1>10

(* A step that opens no PR and takes nothing back.                         *)
LEMMA OnceKept ==
    ASSUME Once, ShownByGit', deaths' = deaths, deaths \in Nat, Types,
           \A p : Carry(p)' = Carry(p),
           \A p \in 1 .. MaxCommits : Spent(p) => Spent(p)'
    PROVE  Once'
BY CarriersCounted DEF Once, Allowed

LEMMA OnceNext ==
    ASSUME IInv, Once, Next
    PROVE  Once'
<1>1. Types /\ deaths \in Nat /\ Pending \subseteq CommitRecord /\ run.list \subseteq CommitRecord
    BY HistoryTyped DEF IInv, Types, Pending, Commits
<1>2. \A c \in Pending : /\ c.sha \in objects /\ PatchId(c) = c.patch
                         /\ c.patch \notin LedgerPatchIds
    <2>1. SUFFICES ASSUME NEW c \in Pending
                   PROVE  /\ c.sha \in objects /\ PatchId(c) = c.patch
                          /\ c.patch \notin LedgerPatchIds
        OBVIOUS
    <2>2. c \in Commits /\ PatchId(c) \notin LedgerPatchIds
        BY DEF Pending, Owed
    <2>3. PatchId(c) = c.patch /\ c.patch # 0
        BY <2>2, PatchOfCommit DEF IInv
    <2>. QED BY <2>2, <2>3 DEF PatchId
<1>3. UNCHANGED prs => \A p : Carry(p)' = Carry(p)
    BY DEF Carry
<1>4. CASE Commit \/ Rewrite
    <2>1. UNCHANGED <<ledger, prs, run, deaths>> /\ objects \subseteq objects'
        BY <1>4, CommitMade, Rewritten
    <2>2. ShownByGit'
        BY <2>1 DEF Once, ShownByGit
    <2>3. \A p : Spent(p)' = Spent(p)
        BY <2>1 DEF Spent, Listed, LedgerPatchIds
    <2>. QED BY <1>1, <1>3, <2>1, <2>2, <2>3, OnceKept
<1>5. CASE Prune
    <2>1. UNCHANGED <<ledger, prs, run, deaths>> /\ run.list = {}
        BY <1>1, <1>5 DEF Prune, Types
    <2>2. ShownByGit'
        BY <2>1 DEF ShownByGit
    <2>3. \A p : Spent(p)' = Spent(p)
        BY <2>1 DEF Spent, Listed, LedgerPatchIds
    <2>. QED BY <1>1, <1>3, <2>1, <2>2, <2>3, OnceKept
<1>6. CASE Merge
    <2>1. PICK i \in DOMAIN prs : prs' = [prs EXCEPT ![i].merged = TRUE]
        BY <1>6 DEF Merge
    <2>2. DOMAIN prs' = DOMAIN prs /\ \A k \in DOMAIN prs : prs'[k].commits = prs[k].commits
        BY <1>1, <2>1 DEF Types
    <2>3. \A p : Carry(p)' = Carry(p)
        BY <2>2 DEF Carry, Content
    <2>4. UNCHANGED <<objects, ledger, run, deaths>>
        BY <1>6 DEF Merge
    <2>5. ShownByGit' /\ \A p : Spent(p)' = Spent(p)
        BY <2>4 DEF Once, ShownByGit, Spent, Listed, LedgerPatchIds
    <2>. QED BY <1>1, <2>3, <2>4, <2>5, OnceKept
<1>7. CASE Confirm
    <2>1. UNCHANGED <<objects, prs, run, deaths>> /\ ledger \subseteq ledger'
        BY <1>7 DEF Confirm
    <2>2. ShownByGit' /\ \A p : Spent(p) => Spent(p)'
        BY <2>1 DEF Once, ShownByGit, Spent, Listed, LedgerPatchIds
    <2>. QED BY <1>1, <1>3, <2>1, <2>2, OnceKept
<1>8. CASE HandFeed
    <2>1. PICK c \in Pending :
            /\ prs' = Append(prs, [commits |-> {c}, merged |-> FALSE])
            /\ ledger' = ledger \cup {[sha |-> c.sha, pid |-> PatchId(c)]}
        BY <1>8 DEF HandFeed
    <2>2. UNCHANGED <<objects, run, deaths>> /\ run.list = {}
        BY <1>1, <1>8 DEF HandFeed, Types
    <2>3. ShownByGit' /\ Listed = {} /\ Listed' = {}
        BY <2>2 DEF ShownByGit, Listed
    <2>4. c.patch \in 1 .. MaxCommits /\ c.patch \notin LedgerPatchIds /\ PatchId(c) = c.patch
        BY <1>1, <1>2 DEF CommitRecord
    <2>5. /\ c.patch \in LedgerPatchIds'
          /\ \A p : p \in LedgerPatchIds => p \in LedgerPatchIds'
        <3>1. [sha |-> c.sha, pid |-> PatchId(c)] \in ledger' /\ ledger \subseteq ledger'
            BY <2>1
        <3>2. LedgerPatchIds' = {e.pid : e \in ledger'} \ {0}
            BY DEF LedgerPatchIds
        <3>. QED BY <2>4, <3>1, <3>2, FeedbackAssumption DEF LedgerPatchIds
    <2>6. /\ Spent(c.patch)' /\ ~Spent(c.patch)
          /\ \A p : Spent(p) => Spent(p)'
        BY <2>3, <2>4, <2>5 DEF Spent
    <2>7. \A p \in 1 .. MaxCommits : Cardinality(Carry(p)') <= Allowed(p)'
        <3>1. SUFFICES ASSUME NEW p \in 1 .. MaxCommits PROVE Cardinality(Carry(p)') <= Allowed(p)'
            OBVIOUS
        <3>2. Cardinality(Carry(p)) \in Nat /\ Cardinality(Carry(p)) <= Allowed(p)
            BY <1>1, CarriersCounted DEF Once
        <3>3. {c} \in SUBSET CommitRecord
            BY <1>1
        <3>4. /\ c.patch # p => Carry(p)' = Carry(p)
              /\ Cardinality(Carry(p)') \in Nat
              /\ Cardinality(Carry(p)') <= Cardinality(Carry(p)) + 1
            BY <1>1, <2>1, <3>3, CarriersGrow
        <3>5. CASE c.patch = p
            BY <1>1, <2>2, <2>6, <3>2, <3>4, <3>5 DEF Allowed
        <3>6. CASE c.patch # p
            BY <1>1, <2>2, <2>6, <3>2, <3>4, <3>6 DEF Allowed
        <3>. QED BY <3>5, <3>6
    <2>. QED BY <2>3, <2>7 DEF Once
<1>9. CASE Collect
    <2>1. UNCHANGED <<objects, ledger, prs, deaths>> /\ run.list = {}
          /\ run' = [at |-> "collected", list |-> Pending]
        BY <1>1, <1>9 DEF Collect, Types
    <2>2. ShownByGit'
        BY <1>2, <2>1 DEF ShownByGit
    <2>3. Listed = {} /\ Listed' = {c.patch : c \in Pending} /\ LedgerPatchIds' = LedgerPatchIds
        BY <2>1 DEF Listed, LedgerPatchIds
    <2>4. \A p : Spent(p) => Spent(p)'
        BY <1>2, <2>3 DEF Spent
    <2>. QED BY <1>1, <1>3, <2>1, <2>2, <2>4, OnceKept
<1>10. CASE SkipSuperseded \/ CheckClosure \/ Adapt \/ (OpenPr /\ run' = NoRun /\ UNCHANGED prs)
    <2>1. UNCHANGED <<objects, ledger, prs, deaths>> /\ run.at # "opened"
          /\ run'.list \subseteq run.list /\ (run'.at # "opened")
        BY <1>1, <1>10 DEF SkipSuperseded, CheckClosure, Adapt, OpenPr, Goto, NoRun, Types
    <2>2. ShownByGit'
        BY <2>1 DEF Once, ShownByGit
    <2>3. Listed' \subseteq Listed /\ LedgerPatchIds' = LedgerPatchIds
        BY <2>1 DEF Listed, LedgerPatchIds
    <2>4. \A p : Spent(p) => Spent(p)'
        BY <2>1, <2>3 DEF Spent
    <2>. QED BY <1>1, <1>3, <2>1, <2>2, <2>4, OnceKept
<1>11. CASE OpenPr /\ prs' = Append(prs, [commits |-> run.list, merged |-> FALSE]) /\ Goto("opened")
    <2>1. UNCHANGED <<objects, ledger, deaths>> /\ run.at = "green"
          /\ run'.list = run.list /\ run'.at = "opened"
        BY <1>1, <1>11 DEF OpenPr, Goto, Types
    <2>2. ShownByGit'
        BY <2>1 DEF Once, ShownByGit
    <2>3. Listed' = Listed /\ LedgerPatchIds' = LedgerPatchIds
        BY <2>1 DEF Listed, LedgerPatchIds
    <2>4. \A p : /\ Spent(p) => Spent(p)'
                 /\ p \in Listed => ~Spent(p) /\ Spent(p)'
        BY <2>1, <2>3 DEF Spent
    <2>5. \A p \in 1 .. MaxCommits : Cardinality(Carry(p)') <= Allowed(p)'
        <3>1. SUFFICES ASSUME NEW p \in 1 .. MaxCommits PROVE Cardinality(Carry(p)') <= Allowed(p)'
            OBVIOUS
        <3>2. Cardinality(Carry(p)) \in Nat /\ Cardinality(Carry(p)) <= Allowed(p)
            BY <1>1, CarriersCounted DEF Once
        <3>4. /\ (\A c \in run.list : c.patch # p) => Carry(p)' = Carry(p)
              /\ Cardinality(Carry(p)') \in Nat
              /\ Cardinality(Carry(p)') <= Cardinality(Carry(p)) + 1
            BY <1>1, <1>11, CarriersGrow
        <3>5. CASE p \in Listed
            BY <1>1, <2>1, <2>4, <3>2, <3>4, <3>5 DEF Allowed
        <3>6. CASE p \notin Listed
            BY <1>1, <2>1, <2>4, <3>2, <3>4, <3>6 DEF Allowed, Listed
        <3>. QED BY <3>5, <3>6
    <2>. QED BY <2>2, <2>5 DEF Once
<1>12. CASE Book
    <2>1. PICK c \in run.list :
            /\ ledger' = ledger \cup {[sha |-> c.sha, pid |-> PatchId(c)]}
            /\ run' = IF run.list = {c} THEN NoRun ELSE [run EXCEPT !.list = @ \ {c}]
        BY <1>12 DEF Book
    <2>2. UNCHANGED <<objects, prs, deaths>> /\ run.at = "opened"
        BY <1>12 DEF Book
    <2>3. /\ run'.list = run.list \ {c}
          /\ run'.list # {} => run'.at = "opened"
        BY <1>1, <2>1, <2>2 DEF NoRun, Types
    <2>4. ShownByGit'
        BY <2>2, <2>3 DEF Once, ShownByGit
    <2>5. PatchId(c) = c.patch /\ c.patch # 0
        BY <1>1 DEF PatchId, CommitRecord, Once, ShownByGit
    <2>6. /\ c.patch \in LedgerPatchIds'
          /\ \A p : p \in LedgerPatchIds => p \in LedgerPatchIds'
        <3>1. [sha |-> c.sha, pid |-> PatchId(c)] \in ledger' /\ ledger \subseteq ledger'
            BY <2>1
        <3>2. LedgerPatchIds' = {e.pid : e \in ledger'} \ {0}
            BY DEF LedgerPatchIds
        <3>. QED BY <2>5, <3>1, <3>2 DEF LedgerPatchIds
    <2>7. /\ Listed' \subseteq Listed
          /\ \A p \in Listed \ Listed' : p = c.patch
          /\ \A p \in Listed' : run'.at = "opened"
        BY <2>3 DEF Listed
    <2>8. \A p : Spent(p) => Spent(p)'
        BY <2>2, <2>6, <2>7 DEF Spent
    <2>. QED BY <1>1, <1>3, <2>2, <2>4, <2>8, OnceKept
<1>13. CASE Die
    <2>1. UNCHANGED <<ledger, prs>> /\ deaths' = deaths + 1 /\ run' = NoRun
        BY <1>13 DEF Die
    <2>2. ShownByGit'
        BY <2>1 DEF ShownByGit, NoRun
    <2>3. \A p \in 1 .. MaxCommits : Cardinality(Carry(p)') <= Allowed(p)'
        <3>1. SUFFICES ASSUME NEW p \in 1 .. MaxCommits PROVE Cardinality(Carry(p)') <= Allowed(p)'
            OBVIOUS
        <3>2. Cardinality(Carry(p)) \in Nat /\ Cardinality(Carry(p)) <= Allowed(p)
            BY <1>1, CarriersCounted DEF Once
        <3>. QED BY <1>1, <1>3, <2>1, <3>2 DEF Allowed
    <2>. QED BY <2>2, <2>3 DEF Once
<1>. QED BY <1>4, <1>5, <1>6, <1>7, <1>8, <1>9, <1>10, <1>11, <1>12, <1>13 DEF Next, OpenPr

(* collect_pending keeps its promise: for any history, rewrites and        *)
(* garbage collections, content goes up once, and once more at most for    *)
(* every run that died.                                                    *)
THEOREM BookedContentStaysHome == Spec => []FedOnce
<1>1. Init => Once
    <2>1. SUFFICES ASSUME Init PROVE Once
        OBVIOUS
    <2>2. \A p : Carry(p) = {}
        BY <2>1 DEF Init, Carry
    <2>3. Listed = {} /\ LedgerPatchIds = {} /\ run.list = {}
        BY <2>1 DEF Init, Listed, NoRun, LedgerPatchIds
    <2>4. ASSUME NEW p \in 1 .. MaxCommits PROVE Cardinality(Carry(p)) <= Allowed(p)
        <3>1. deaths = 0 /\ ~Spent(p)
            BY <2>1, <2>3 DEF Init, Spent
        <3>2. Allowed(p) = 0
            BY <3>1 DEF Allowed
        <3>. QED BY <2>2, <3>2, FS_EmptySet
    <2>. QED BY <2>3, <2>4 DEF Once, ShownByGit
<1>2. IInv /\ Once /\ [Next]_vars => Once'
    <2>1. SUFFICES ASSUME IInv, Once, UNCHANGED vars PROVE Once'
        BY OnceNext
    <2>2. UNCHANGED <<objects, ledger, prs, run, deaths>>
        BY <2>1 DEF vars
    <2>3. (\A p : Carry(p)' = Carry(p) /\ Allowed(p)' = Allowed(p)) /\ ShownByGit'
        BY <2>1, <2>2 DEF Carry, Allowed, Spent, Listed, LedgerPatchIds, Once, ShownByGit
    <2>. QED BY <2>1, <2>3 DEF Once
<1>3. IInv /\ Once => FedOnce
    <2>1. SUFFICES ASSUME IInv, Once, NEW p \in 1 .. MaxCommits
                   PROVE  Cardinality(Carry(p)) <= 1 + deaths
        BY DEF FedOnce, Carry
    <2>. QED BY <2>1, CarriersCounted DEF Once, Allowed, IInv, Types
<1>. QED BY <1>1, <1>2, <1>3, LedgerInvariance, PTL DEF Spec

=============================================================================
