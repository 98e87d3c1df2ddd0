--------------------------- MODULE HostingLabels ---------------------------
(***************************************************************************)
(* hosting.py: the labels of one pull request behind the two adapters.     *)
(* GitHub keeps labels and their events itself; its client reads again     *)
(* when the command line tool reports a failure.  Codeup cannot take a     *)
(* label off, so a label is a comment with a marker: putting it on posts   *)
(* one, taking it off resolves it, and the comments are the history.       *)
(* Posting is guarded by a lock directory, which a later process takes     *)
(* over when its owner is dead.  The directory is in the temporary         *)
(* directory of the machine, under a hash of how the repository is         *)
(* spelled: processes of different sites do not see each other's locks.    *)
(*                                                                         *)
(* Each call is a process of its own, <<c, n>> the n-th of slot c, at the  *)
(* site SiteOf[<<c, n>>], and may be killed at any step.  A directory without a pid is stale when it is   *)
(* older than 2 s: the model has it so unless its maker is just about to   *)
(* write the pid ("microseconds", hosting.py:134).  A request is answered, *)
(* refused, or lost: carried out and answered by an error.                 *)
(***************************************************************************)
EXTENDS Naturals, Sequences, FiniteSets

CONSTANTS Client, Label,
          Site, SiteOf, \* SiteOf[p]: where the lock directories of process p are
          NoDir, NoPid,
          MaxCalls,     \* bound on the calls of a slot
          Faults,       \* what may go wrong: "kill", "refused", "lost"
          MaxFaults     \* bound on the faults

ASSUME HostingAssumption ==
  /\ MaxCalls \in Nat /\ MaxFaults \in Nat /\ Faults \subseteq {"kill", "refused", "lost"}
  /\ Label # {} /\ NoPid \notin Client \X (1 .. MaxCalls)
  /\ SiteOf \in [Client \X (1 .. MaxCalls) -> Site]
  /\ NoDir \notin [maker : Client \X (1 .. MaxCalls),
                   pid : (Client \X (1 .. MaxCalls)) \cup {NoPid}]

VARIABLES platform,     \* current_adapter
          labels, events,    \* GitHub: the labels, labeled events per label
          marks,        \* Codeup: the marker comments, in order
          linked,       \* Codeup: class labels; there is no unlink
          dir,          \* dir[<<s, l>>]: the lock directory of l at site s, or NoDir
          victim,       \* victim[c]: the directory c renamed away, or NoDir
          calls,        \* calls[c]: calls of slot c so far
          call,         \* call[c]: the call of slot c
          faults,       \* what went wrong so far
          was           \* was[c]: labels that were on, and off, since the call began

vars == <<platform, labels, events, marks, linked, dir, victim, calls, call, faults, was>>
github == <<labels, events>>
codeup == <<marks, linked>>
locks == <<dir, victim>>

Op == {"add", "remove", "view", "history", "list"}
Pid == Client \X (1 .. MaxCalls)
Dir == [maker : Pid, pid : Pid \cup {NoPid}]
Pc == {"idle", "edit", "reread", "lock", "take", "recheck", "pid", "check", "post",
       "unlock", "link", "list", "resolve", "open", "resolved", "links", "page", "done"}

Count(l) == IF platform = "github" THEN events[l]
            ELSE Cardinality({i \in DOMAIN marks : marks[i].label = l})
Open(l) == {i \in DOMAIN marks : marks[i].label = l /\ marks[i].open}
On == IF platform = "github" THEN labels ELSE {l \in Label : Open(l) # {}}

Idle == [pc |-> "idle", op |-> "view", label |-> CHOOSE l \in Label : TRUE, rdc |-> FALSE,
         hits |-> {}, pid |-> NoPid, ok |-> FALSE, told |-> 0, shown |-> {}, sure |-> TRUE]
Nothing == [on |-> {}, off |-> {}, open |-> {}, rounds |-> 0]

Init ==
  /\ platform \in {"github", "codeup"}
  /\ labels = {} /\ events = [l \in Label |-> 0]
  /\ marks = <<>> /\ linked = {}
  /\ dir = [k \in Site \X Label |-> NoDir] /\ victim = [c \in Client |-> NoDir]
  /\ calls = [c \in Client |-> 0] /\ call = [c \in Client |-> Idle]
  /\ faults = <<>>
  /\ was = [c \in Client |-> Nothing]

-----------------------------------------------------------------------------
(* Steps of a call.  To ends a step by moving c on with field f.           *)

Me(c) == <<c, calls[c]>>
LockOf(c) == <<SiteOf[Me(c)], call[c].label>>
To(c, pc) == call' = [call EXCEPT ![c].pc = pc]
EndCall(c, ok) == call' = [call EXCEPT ![c].pc = "done", ![c].ok = ok]
Alive(p) == calls[p[1]] = p[2] /\ call[p[1]].pc # "idle"

(* A request fails: on the default endpoint it is sent once more to the    *)
(* other one (pc stays), on that one it raises HostingError (pc raise).    *)
Failed(c, raise, ok) ==
  IF call[c].rdc THEN call' = [call EXCEPT ![c].pc = raise, ![c].ok = ok]
                 ELSE call' = [call EXCEPT ![c].rdc = TRUE]
Fault(f) == f \in Faults /\ Len(faults) < MaxFaults /\ faults' = Append(faults, f)
Refused(c, raise, ok) == Fault("refused") /\ Failed(c, raise, ok)
Lost(c, raise, ok) == Fault("lost") /\ Failed(c, raise, ok)

(* The command line picks the adapter's operation; YUNXIAO_ENDPOINT may    *)
(* name another endpoint, on which nothing is sent twice.                  *)
Start(c, op, l, rdc) ==
  /\ call[c].pc = "idle" /\ calls[c] < MaxCalls
  /\ platform = "github" => rdc
  /\ calls' = [calls EXCEPT ![c] = @ + 1]
  /\ call' = [call EXCEPT ![c] = [Idle EXCEPT !.op = op, !.label = l, !.rdc = rdc,
       !.pc = IF platform = "github" THEN "edit"
              ELSE CASE op = "add" -> "lock" [] op = "remove" -> "list"
                     [] op = "list" -> "page" [] OTHER -> "open"]]
  /\ UNCHANGED <<platform, github, codeup, locks, faults>>

Kill(c) ==
  /\ call[c].pc # "idle" /\ Fault("kill")
  /\ call' = [call EXCEPT ![c] = Idle]
  /\ victim' = [victim EXCEPT ![c] = NoDir]
  /\ UNCHANGED <<platform, github, codeup, dir, calls>>

-----------------------------------------------------------------------------
(* GitHub: gh pr edit, and the second look when it reports a failure.      *)

Put(l) == /\ labels' = labels \cup {l}
          /\ events' = [events EXCEPT ![l] = @ + (IF l \in labels THEN 0 ELSE 1)]
TakeOff(l) == labels' = labels \ {l} /\ UNCHANGED events
Apply(c) == IF call[c].op = "add" THEN Put(call[c].label) ELSE TakeOff(call[c].label)

Edit(c) ==
  /\ call[c].pc = "edit" /\ call[c].op \in {"add", "remove"}
  /\ \/ Apply(c) /\ EndCall(c, TRUE) /\ UNCHANGED faults
     \/ Apply(c) /\ Lost(c, "reread", FALSE)
     \/ Refused(c, "reread", FALSE) /\ UNCHANGED github
  /\ UNCHANGED <<platform, codeup, locks, calls>>

Reread(c) ==
  /\ call[c].pc = "reread"
  /\ \/ EndCall(c, (call[c].label \in labels) = (call[c].op = "add")) /\ UNCHANGED faults
     \/ Refused(c, "done", FALSE)
  /\ UNCHANGED <<platform, github, codeup, locks, calls>>

(* pr_view, pr_list and label_history of GitHub: one answer.               *)
Ask(c) ==
  /\ call[c].pc = "edit" /\ call[c].op \in {"view", "history", "list"}
  /\ \/ /\ call' = [call EXCEPT ![c].pc = "done", ![c].ok = TRUE, ![c].shown = labels,
                                ![c].told = events[call[c].label]]
        /\ UNCHANGED faults
     \/ Refused(c, "done", FALSE)
  /\ UNCHANGED <<platform, github, codeup, locks, calls>>

-----------------------------------------------------------------------------
(* Codeup, taking a label off: every open marker of it is resolved.        *)

List(c) ==
  /\ call[c].pc = "list"
  /\ \/ /\ LET hits == Open(call[c].label) IN
             call' = [call EXCEPT ![c].pc = IF hits = {} THEN "done" ELSE "resolve",
                                  ![c].hits = hits, ![c].ok = hits = {}]
        /\ UNCHANGED faults
     \/ Refused(c, "done", FALSE)
  /\ UNCHANGED <<platform, github, codeup, locks, calls>>

(* Mutant: the markers are never crossed off.                              *)
ResolveForever(c) ==
  /\ call[c].pc = "resolve"
  /\ \E i \in call[c].hits : marks' = [marks EXCEPT ![i].open = FALSE]
  /\ UNCHANGED <<platform, github, linked, locks, calls, call, faults>>

Resolve(c) ==
  /\ call[c].pc = "resolve"
  /\ \E i \in call[c].hits :
       LET rest == call[c].hits \ {i}
           resolved == marks' = [marks EXCEPT ![i].open = FALSE]
       IN \/ /\ resolved /\ UNCHANGED faults
             /\ call' = [call EXCEPT ![c].hits = rest, ![c].ok = rest = {},
                                     ![c].pc = IF rest = {} THEN "done" ELSE "resolve"]
          \/ resolved /\ Lost(c, "done", FALSE)
          \/ Refused(c, "done", FALSE) /\ UNCHANGED marks
  /\ UNCHANGED <<platform, github, linked, locks, calls>>

-----------------------------------------------------------------------------
(* Codeup, putting a label on: its lock directory at this site.            *)

(* Mutant: a directory that is there is as good as one just made.          *)
MkdirExistOk(c) ==
  LET k == LockOf(c) IN
  /\ call[c].pc = "lock" /\ To(c, "pid")
  /\ dir' = [dir EXCEPT ![k] = [maker |-> Me(c), pid |-> NoPid]]
  /\ UNCHANGED <<platform, github, codeup, victim, calls, faults>>

Mkdir(c) ==
  LET k == LockOf(c) IN
  /\ call[c].pc = "lock" /\ dir[k] = NoDir
  /\ dir' = [dir EXCEPT ![k] = [maker |-> Me(c), pid |-> NoPid]]
  /\ To(c, "pid")
  /\ UNCHANGED <<platform, github, codeup, victim, calls, faults>>

Stale(d) == IF d.pid # NoPid THEN ~Alive(d.pid)
            ELSE ~(Alive(d.maker) /\ call[d.maker[1]].pc = "pid")

(* The directory is there: it is judged, and if stale renamed away next.   *)
Judge(c) ==
  LET d == dir[LockOf(c)] IN
  /\ call[c].pc = "lock" /\ d # NoDir /\ Stale(d)
  /\ call' = [call EXCEPT ![c].pc = "take", ![c].pid = d.pid]
  /\ UNCHANGED <<platform, github, codeup, locks, calls, faults>>

(* 5 s are over and the directory is not, or not yet, stale.               *)
GiveUp(c) ==
  LET d == dir[LockOf(c)] IN
  /\ call[c].pc = "lock" /\ d # NoDir /\ (d.pid # NoPid => ~Stale(d))
  /\ EndCall(c, FALSE)
  /\ UNCHANGED <<platform, github, codeup, locks, calls, faults>>

(* Mutant: what is found is renamed without having been there.             *)
TakeAnything(c) ==
  LET k == LockOf(c) IN
  /\ call[c].pc = "take"
  /\ victim' = [victim EXCEPT ![c] = dir[k]] /\ dir' = [dir EXCEPT ![k] = NoDir]
  /\ To(c, "recheck")
  /\ UNCHANGED <<platform, github, codeup, calls, faults>>

Take(c) ==
  LET k == LockOf(c) IN
  /\ call[c].pc = "take"
  /\ IF dir[k] = NoDir
     THEN To(c, "lock") /\ UNCHANGED locks
     ELSE /\ victim' = [victim EXCEPT ![c] = dir[k]] /\ dir' = [dir EXCEPT ![k] = NoDir]
          /\ To(c, "recheck")
  /\ UNCHANGED <<platform, github, codeup, calls, faults>>

(* The directory of another owner goes back, which fails if a directory    *)
(* with a pid has its place (rename replaces an empty one); the dead       *)
(* owner's is removed.                                                     *)
Recheck(c) ==
  LET k == LockOf(c)
      room == dir[k] = NoDir \/ dir[k].pid = NoPid
  IN /\ call[c].pc = "recheck" /\ To(c, "lock")
     /\ dir' = IF victim[c].pid # call[c].pid /\ room THEN [dir EXCEPT ![k] = victim[c]] ELSE dir
     /\ victim' = [victim EXCEPT ![c] = NoDir]
     /\ UNCHANGED <<platform, github, codeup, calls, faults>>

(* The pid goes into whatever directory has the name now; none: no matter. *)
WritePid(c) ==
  LET k == LockOf(c) IN
  /\ call[c].pc = "pid" /\ To(c, "check")
  /\ dir' = IF dir[k] = NoDir THEN dir ELSE [dir EXCEPT ![k].pid = Me(c)]
  /\ UNCHANGED <<platform, github, codeup, victim, calls, faults>>

-----------------------------------------------------------------------------
(* With the lock: look, post, and let go of whatever has the lock's name.  *)

(* Mutant: a marker that was resolved counts as well.                      *)
CheckAny(c) ==
  /\ call[c].pc = "check" /\ UNCHANGED faults
  /\ IF Count(call[c].label) > 0
     THEN call' = [call EXCEPT ![c].pc = "unlock", ![c].ok = TRUE] ELSE To(c, "post")
  /\ UNCHANGED <<platform, github, codeup, locks, calls>>

Check(c) ==
  /\ call[c].pc = "check"
  /\ \/ /\ IF Open(call[c].label) # {}
           THEN call' = [call EXCEPT ![c].pc = "unlock", ![c].ok = TRUE] ELSE To(c, "post")
        /\ UNCHANGED faults
     \/ Refused(c, "unlock", FALSE)
  /\ UNCHANGED <<platform, github, codeup, locks, calls>>

Post(c) ==
  /\ call[c].pc = "post"
  /\ LET posted == marks' = Append(marks, [label |-> call[c].label, open |-> TRUE]) IN
     \/ /\ posted /\ UNCHANGED faults
        /\ call' = [call EXCEPT ![c].pc = "unlock", ![c].ok = TRUE]
     \/ posted /\ Lost(c, "unlock", FALSE)
     \/ Refused(c, "unlock", FALSE) /\ UNCHANGED marks
  /\ UNCHANGED <<platform, github, linked, locks, calls>>

Unlock(c) ==
  /\ call[c].pc = "unlock"
  /\ dir' = [dir EXCEPT ![LockOf(c)] = NoDir]
  /\ To(c, IF call[c].ok THEN "link" ELSE "done")
  /\ UNCHANGED <<platform, github, codeup, victim, calls, faults>>

(* The class label is linked if it exists and both requests succeed.       *)
Link(c) ==
  /\ call[c].pc = "link" /\ To(c, "done")
  /\ linked' \in {linked, linked \cup {call[c].label}}
  /\ UNCHANGED <<platform, github, marks, locks, calls, faults>>

-----------------------------------------------------------------------------
(* Codeup, reading: the open comments, then the resolved ones.  The        *)
(* history counts both; the view hides linked labels that have no open     *)
(* marker, or shows the links alone when the comments cannot be read.      *)

Visible(active) == active \cup (linked \cap active)

(* Mutant: the resolved comments are read before the open ones.            *)
HalfSwapped(pc) == pc = "open"
(* Which comments the request asks for: resolved=False, then True.         *)
Half(pc) == pc = "resolved"

Unread(c) == \/ call[c].op = "history" /\ Refused(c, "done", FALSE)
             \/ /\ call[c].op = "view" /\ Fault("refused")
                /\ call' = IF call[c].rdc THEN [call EXCEPT ![c].pc = "links", ![c].sure = FALSE]
                                          ELSE [call EXCEPT ![c].rdc = TRUE]

ReadComments(c) ==
  LET now == call[c].pc
      read == {i \in DOMAIN marks : marks[i].label = call[c].label /\ marks[i].open # Half(now)}
  IN
  /\ now \in {"open", "resolved"}
  /\ \/ /\ call' = [call EXCEPT
             ![c].told = @ + Cardinality(read),
             ![c].shown = IF Half(now) THEN @ ELSE On,
             ![c].ok = now = "resolved",
             ![c].pc = IF now = "open" THEN "resolved"
                       ELSE IF call[c].op = "view" THEN "links" ELSE "done"]
        /\ UNCHANGED faults
     \/ Unread(c)
  /\ UNCHANGED <<platform, github, codeup, locks, calls>>

ReadLinks(c) ==
  /\ call[c].pc = "links"
  /\ \E links \in {linked, {}} :
       call' = [call EXCEPT ![c].pc = "done", ![c].ok = TRUE,
                  ![c].shown = IF call[c].sure THEN Visible(@) ELSE links]
  /\ UNCHANGED <<platform, github, codeup, locks, calls, faults>>

(* The list of requests: what the platform itself has as their labels,     *)
(* which are the linked ones, if the answer has any.                       *)
ReadPage(c) ==
  /\ call[c].pc = "page"
  /\ \/ /\ \E names \in {linked, {}} :
             call' = [call EXCEPT ![c].pc = "done", ![c].ok = TRUE, ![c].shown = names]
        /\ UNCHANGED faults
     \/ Refused(c, "done", FALSE)
  /\ UNCHANGED <<platform, github, codeup, locks, calls>>

-----------------------------------------------------------------------------
Step(c) ==
  \/ Edit(c) \/ Reread(c) \/ Ask(c)
  \/ List(c) \/ Resolve(c)
  \/ Mkdir(c) \/ Judge(c) \/ GiveUp(c) \/ Take(c) \/ Recheck(c) \/ WritePid(c)
  \/ Check(c) \/ Post(c) \/ Unlock(c) \/ Link(c)
  \/ ReadComments(c) \/ ReadLinks(c) \/ ReadPage(c)

(* was[c] remembers what held at some moment of c's call.                  *)
Watch ==
  was' = [c \in Client |->
    LET past == IF calls'[c] # calls[c]
                THEN [on |-> On, off |-> Label \ On,
                      open |-> Open(call'[c].label), rounds |-> Count(call'[c].label)]
                ELSE was[c]
    IN IF call'[c].pc = "idle" THEN Nothing
       ELSE [past EXCEPT !.on = @ \cup On', !.off = @ \cup (Label \ On')]]

StartAny(c) == \E op \in Op, l \in Label, rdc \in BOOLEAN : Start(c, op, l, rdc)

(* The process ends.  It does so at once: nobody sees it wait.             *)
Over == {c \in Client : call[c].pc = "done"}
Leave(c) ==
  /\ c \in Over /\ call' = [call EXCEPT ![c] = Idle]
  /\ UNCHANGED <<platform, github, codeup, locks, calls, faults>>

Work(c) == Over = {} /\ Step(c)
Next == \E c \in Client :
          /\ Leave(c) \/ Work(c) \/ (Over = {} /\ (StartAny(c) \/ Kill(c)))
          /\ Watch

(* The requests to Codeup have a time-out, the command line tool of GitHub *)
(* is waited for without one.                                              *)
Fairness == \A c \in Client : WF_vars(platform = "codeup" /\ (Leave(c) \/ Work(c)) /\ Watch)
Spec == Init /\ [][Next]_vars /\ Fairness

-----------------------------------------------------------------------------

(* A process that renamed a directory away has it until it is put back or  *)
(* removed; only those that found one stale ever have one.                 *)
TypeOK ==
  /\ platform \in {"github", "codeup"}
  /\ labels \in SUBSET Label /\ events \in [Label -> Nat]
  /\ marks \in Seq([label : Label, open : BOOLEAN]) /\ linked \in SUBSET Label
  /\ dir \in [Site \X Label -> Dir \cup {NoDir}] /\ victim \in [Client -> Dir \cup {NoDir}]
  /\ calls \in [Client -> 0 .. MaxCalls]
  /\ call \in [Client -> [pc : Pc, op : Op, label : Label, rdc : BOOLEAN, hits : SUBSET Nat,
                          pid : Pid \cup {NoPid}, ok : BOOLEAN, told : Nat,
                          shown : SUBSET Label, sure : BOOLEAN]]
  /\ faults \in Seq(Faults) /\ Len(faults) <= MaxFaults
  /\ \A c \in Client : victim[c] # NoDir <=> call[c].pc = "recheck"

(* hosting.py's promise for both adapters: as long as the calls so far are *)
(* of one site, none was killed and no request lost, they put labels on    *)
(* and off as state.py takes them to, however they interleave and fail.    *)
Store == INSTANCE LabelStore WITH on <- On, rounds <- [l \in Label |-> Count(l)]
Unharmed == \A i \in DOMAIN faults : faults[i] = "refused"
OneSite == \E s \in Site : \A c \in Client : \A n \in 1 .. calls[c] : SiteOf[<<c, n>>] = s
Calm == Unharmed /\ OneSite
ImplementsLabelStore == Store!Init /\ [][Calm' => [Store!Next]_(Store!vars)]_vars

(* A call that reports success tells the truth about some moment of its    *)
(* run: what it put on was on, what it took off was off (or, where a       *)
(* repeated POST adds markers meanwhile, all of it that was there is off), *)
(* what it shows was there and what it does not show was not; but for the  *)
(* list of Codeup, which does not look at markers.                         *)
Truthful(c) ==
  LET k == call[c] w == was[c] IN
  CASE k.op = "add" -> k.label \in w.on
    [] k.op = "remove" -> k.label \in w.off \/ (w.open # {} /\ \A i \in w.open : ~marks[i].open)
    [] k.op = "view" -> k.sure => k.shown \subseteq w.on /\ Label \ k.shown \subseteq w.off
    [] k.op = "list" -> platform = "codeup" \/ (k.shown \subseteq w.on /\ Label \ k.shown \subseteq w.off)
    [] k.op = "history" -> TRUE
AnswersAreTrue == \A c \in Client : call[c].pc = "done" /\ call[c].ok => Truthful(c)

(* The history never comes out shorter than it was when it was asked for:  *)
(* the bound on repair rounds is not passed because of a race.             *)
HistoryNeverShort ==
  \A c \in Client : call[c].pc = "done" /\ call[c].ok /\ call[c].op = "history"
                      => call[c].told >= was[c].rounds

(* Every call on Codeup ends, however locks were left behind.              *)
CallsEnd ==
  \A c \in Client : platform = "codeup" /\ call[c].pc # "idle" ~> call[c].pc = "idle"

-----------------------------------------------------------------------------
(* What documents promise and the code does not keep: each is violated.    *)

(* A label has at most one open marker: "exactly one POST"                 *)
(* (hosting.py:1033), but a POST that was carried out and answered by an   *)
(* error is sent again, a directory on its way back is not there for a     *)
(* third process, and two sites do not share a lock.                       *)
OneOpenMarker == \A l \in Label : Cardinality(Open(l)) <= 1

(* One label store for all machines that work on the pull request          *)
(* (hosting.py:95): two sites pass the check and post both, nothing being  *)
(* killed or lost, and one round counts as two.                            *)
OneStoreForAllSites == [][Unharmed' => [Store!Next]_(Store!vars)]_vars

(* A view without the comments shows too much rather than hide a label     *)
(* (hosting.py:910): a label that was never linked is hidden.              *)
DegradedViewHidesNothing ==
  \A c \in Client : call[c].pc = "done" /\ call[c].ok /\ call[c].op = "view" /\ ~call[c].sure
                      => Label \ call[c].shown \subseteq was[c].off

(* The list of pull requests shows what a view of them shows: on Codeup a  *)
(* label that is a marker only is not in it, and one that was taken off    *)
(* is, so the queue of repairs is not the one state.py leaves.             *)
ListShowsLabels ==
  \A c \in Client : call[c].pc = "done" /\ call[c].ok /\ call[c].op = "list"
                      => call[c].shown \subseteq was[c].on /\ Label \ call[c].shown \subseteq was[c].off
=============================================================================
