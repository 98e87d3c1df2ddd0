--------------------------- MODULE CronDispatch ---------------------------
(***************************************************************************)
(* One machine around the clock.  The wrapper cron-dispatch.sh asks the    *)
(* breaker and starts the dispatcher, which wants the lock directory,      *)
(* asks the breaker once more and spawns chains; each chain asks again     *)
(* and writes its line of the ledger when it ends.  A person may run a     *)
(* chain by hand, which wants the same lock.  The wrapper counts failing   *)
(* rounds, and the daily check (dispatch_liveness.py) looks at what the    *)
(* rounds and the chains left behind.                                      *)
(*                                                                         *)
(* The clock counts local days.  A pid is a slot and a number: a process   *)
(* gets a number nobody remembers.  A dispatcher counts its own children   *)
(* only: chains that outlive it are nobody's.                              *)
(***************************************************************************)
EXTENDS Integers, Sequences, FiniteSets

CONSTANTS Cron, Hand,         \* the wrapper; chains by hand
          Issue, MaxParallel, \* the accepted queue; MAX_PARALLEL of the pool
          NoDir, NoPid, NoFile, Nobody,
          MaxRuns, MaxFails,  \* floor.json
          Zone,               \* whether the local day begins with the UTC day
          PgMode,             \* SUPABASE_DB is set where the daily check runs
          LastDay,            \* bound on the clock
          MaxMishaps          \* bound on kills and broken environments

ASSUME CronDispatchAssumption ==
  /\ MaxRuns \in Nat \ {0} /\ MaxFails \in Nat \ {0} /\ LastDay \in Nat /\ MaxMishaps \in Nat
  /\ Zone \in {"utc", "ahead", "behind"} /\ PgMode \in BOOLEAN /\ MaxParallel \in Nat \ {0}
  /\ Cron \cap Hand = {} /\ IsFiniteSet(Cron \cup Hand) /\ IsFiniteSet(Issue)
  /\ Nobody \notin Cron \cup Hand
  /\ NoDir # NoPid /\ \A no \in {NoDir, NoPid} : no \notin (Cron \cup Hand) \X Nat

VARIABLES day,
          ledger,      \* locks/ledger.jsonl: date, exit 0 or not; the day it was
          lock,        \* locks/dispatcher: NoDir or the pid in it
          strayed,     \* somebody removed a lock other than the one he meant
          proc,        \* proc[p]: wrapper with its dispatcher, or chain by hand
          chain,       \* chain[i]: the in-progress mark of issue i and its chain
          orphaned,    \* chains whose dispatcher was killed, so far
          broken,      \* the environment fails: no repository, no slug, no auth
          streak,      \* locks/dispatch-fail-streak: NoFile or count and day
          stalled,     \* metrics/dispatch-stalled
          mishaps      \* kills and broken environments so far

vars == <<day, ledger, lock, strayed, proc, chain, orphaned, broken, streak, stalled, mishaps>>
watch == <<streak, stalled>>

Proc == Cron \cup Hand
Number == 0 .. Cardinality(Proc)
Pid == Proc \X Number
Days == 0 .. LastDay
StalledAfter == 3      \* DISPATCH_STALLED_N
Free == [pc |-> "free", parent |-> Nobody]
Gone == [pc |-> "idle", number |-> 0, old |-> NoPid, again |-> FALSE, rc |-> 0]

Init ==
  /\ day = 0 /\ ledger = <<>> /\ lock = NoDir /\ strayed = FALSE
  /\ proc = [p \in Proc |-> Gone]
  /\ chain = [i \in Issue |-> Free] /\ orphaned = 0
  /\ broken = FALSE /\ streak = NoFile /\ stalled = FALSE /\ mishaps = 0

-----------------------------------------------------------------------------
(* The breaker: lines dated today, and failures at the end of the ledger.  *)

Runs == Cardinality({i \in DOMAIN ledger : ledger[i].date = day})
FailedFrom(i) == \A j \in i .. Len(ledger) : ~ledger[j].ok
Fails == Cardinality({i \in DOMAIN ledger : FailedFrom(i)})
(* Mutant: only a limit that is exceeded trips.                            *)
TrippedLate == Runs > MaxRuns \/ Fails >= MaxFails

Tripped == Runs >= MaxRuns \/ Fails >= MaxFails

(* date -u against date.today(): ahead of UTC the day is a few hours old   *)
(* when its lines still carry the date of the day before; behind it, lines *)
(* of the evening carry the date of the next.                              *)
Dates == {day} \cup CASE Zone = "ahead" -> {day - 1} [] Zone = "behind" -> {day + 1} [] OTHER -> {}
Record(ok) == \E d \in Dates : ledger' = Append(ledger, [date |-> d, ok |-> ok, on |-> day])

-----------------------------------------------------------------------------
(* The lock directory, in dispatcher and chain by hand alike.              *)

Me(p) == <<p, proc[p].number>>
Alive(pid) == proc[pid[1]].pc # "idle" /\ proc[pid[1]].number = pid[2]
Remembered == {lock} \cup {proc[p].old : p \in Proc}
At(p, pc) == proc[p].pc = pc
To(p, pc) == proc' = [proc EXCEPT ![p].pc = pc]
Exit(p, rc) == proc' = [proc EXCEPT ![p].pc = IF p \in Cron THEN "report" ELSE "exit",
                                    ![p].old = NoPid, ![p].again = FALSE, ![p].rc = rc]
Quiet == UNCHANGED <<day, ledger, chain, orphaned, broken, watch, mishaps>>

(* Mutant: mkdir that does not mind a directory.                           *)
MkdirExistOk(p) ==
  /\ At(p, "mkdir") /\ lock' = NoPid
  /\ proc' = [proc EXCEPT ![p].pc = "write"]
  /\ UNCHANGED strayed /\ Quiet

Mkdir(p) ==
  /\ At(p, "mkdir")
  /\ IF lock = NoDir
     THEN lock' = NoPid /\ proc' = [proc EXCEPT ![p].pc = "write"]
     ELSE To(p, "read") /\ UNCHANGED lock
  /\ UNCHANGED strayed /\ Quiet

(* Busy: the dispatcher exits 0, "cron overlap is normal".                 *)
ReadPid(p) ==
  /\ At(p, "read")
  /\ IF lock \in Pid THEN proc' = [proc EXCEPT ![p].pc = "judge", ![p].old = lock] ELSE Exit(p, 0)
  /\ UNCHANGED <<lock, strayed>> /\ Quiet

(* Mutant: a pid that is in the file is taken for alive.                   *)
JudgeAlive(p) ==
  /\ At(p, "judge") /\ Exit(p, 0)
  /\ UNCHANGED <<lock, strayed>> /\ Quiet

Judge(p) ==
  /\ At(p, "judge")
  /\ IF Alive(proc[p].old) THEN Exit(p, 0) ELSE To(p, "clear")
  /\ UNCHANGED <<lock, strayed>> /\ Quiet

Clear(p) ==
  /\ At(p, "clear") /\ To(p, "remake")
  /\ lock' = NoDir
  /\ strayed' = (strayed \/ lock \notin {NoDir, proc[p].old} \/ (lock \in Pid /\ Alive(lock)))
  /\ Quiet

Remake(p) ==
  /\ At(p, "remake")
  /\ IF lock = NoDir
     THEN lock' = NoPid /\ proc' = [proc EXCEPT ![p].pc = "write", ![p].old = NoPid, ![p].again = TRUE]
     ELSE Exit(p, 0) /\ UNCHANGED lock
  /\ UNCHANGED strayed /\ Quiet

(* Into a directory that is gone: the dispatcher dies of it, the shell     *)
(* does not, unless it was taking over.                                    *)
WritePid(p) ==
  /\ At(p, "write")
  /\ lock' = IF lock = NoDir THEN lock ELSE Me(p)
  /\ IF lock = NoDir /\ (p \in Cron \/ proc[p].again)
     THEN Exit(p, 1)
     ELSE proc' = [proc EXCEPT ![p].pc = IF p \in Cron THEN "round" ELSE "work", ![p].again = FALSE]
  /\ UNCHANGED strayed /\ Quiet

(* rmtree of whatever has the name.                                        *)
Unlock(p) ==
  /\ At(p, "unlock") /\ Exit(p, proc[p].rc)
  /\ lock' = NoDir /\ strayed' = (strayed \/ lock \notin {NoDir, Me(p)})
  /\ Quiet

-----------------------------------------------------------------------------
(* The wrapper and its dispatcher.                                         *)

Same == UNCHANGED <<lock, strayed>>

Start(p) ==
  /\ At(p, "idle")
  /\ LET new == CHOOSE n \in Number : <<p, n>> \notin Remembered IN
     proc' = [proc EXCEPT ![p].pc = "gate", ![p].number = new]
  /\ Same /\ Quiet

(* breaker.sh before the lock: tripped, the wrapper exits then and there,  *)
(* and the chain by hand too; a dispatcher in a broken environment exits 2.*)
Gate(p) ==
  /\ At(p, "gate")
  /\ IF Tripped THEN To(p, "exit")
     ELSE IF p \in Cron /\ broken THEN Exit(p, 2) ELSE To(p, "mkdir")
  /\ Same /\ Quiet

(* dispatch_round: the breaker again, then the accepted queue, as long as  *)
(* it lasts, and the chains are waited for.                                *)
Round(p) ==
  /\ At(p, "round")
  /\ proc' = IF Tripped THEN [proc EXCEPT ![p].pc = "unlock", ![p].rc = 3]
                        ELSE [proc EXCEPT ![p].pc = "drain"]
  /\ Same /\ Quiet

Children(p) == {i \in Issue : chain[i].parent = p}

Spawn(p, i) ==
  /\ At(p, "drain") /\ Cardinality(Children(p)) < MaxParallel /\ chain[i].pc = "free"
  /\ chain' = [chain EXCEPT ![i] = [pc |-> "claimed", parent |-> p]]
  /\ Same /\ UNCHANGED <<day, ledger, proc, orphaned, broken, watch, mishaps>>

(* Mutant: the round is over when the queue is.                            *)
FinalSyncNow(p) == At(p, "drain") /\ To(p, "unlock") /\ Same /\ Quiet

FinalSync(p) ==
  /\ At(p, "drain") /\ Children(p) = {}
  /\ To(p, "unlock") /\ Same /\ Quiet

(* The wrapper's account of the round: exit 2 counts, 0 starts afresh.     *)
Failure == [n |-> IF streak = NoFile THEN 1
                  ELSE IF streak.n = StalledAfter THEN StalledAfter ELSE streak.n + 1,
            at |-> day]

Report(p) ==
  /\ At(p, "report") /\ To(p, "exit")
  /\ CASE proc[p].rc = 2 -> streak' = Failure /\ stalled' = (stalled \/ Failure.n >= StalledAfter)
       [] proc[p].rc = 0 -> streak' = NoFile /\ stalled' = FALSE
       [] OTHER -> UNCHANGED <<streak, stalled>>
  /\ Same /\ UNCHANGED <<day, ledger, chain, orphaned, broken, mishaps>>

Leave(p) == At(p, "exit") /\ proc' = [proc EXCEPT ![p] = Gone] /\ Same /\ Quiet

-----------------------------------------------------------------------------
(* Chains: of the pool, and by hand.                                       *)

Still == UNCHANGED <<day, lock, strayed, proc, orphaned, broken, watch, mishaps>>

(* Mutant: the chain trusts the round that it may run.                     *)
ChainGateBlind(i) ==
  /\ chain[i].pc = "claimed" /\ chain' = [chain EXCEPT ![i].pc = "leased"]
  /\ UNCHANGED ledger /\ Still

(* fix-issue.sh's own gate: tripped, it exits 5 and writes no line.        *)
ChainGate(i) ==
  /\ chain[i].pc = "claimed"
  /\ chain' = [chain EXCEPT ![i] = IF Tripped THEN Free ELSE [@ EXCEPT !.pc = "leased"]]
  /\ UNCHANGED ledger /\ Still

ChainEnds(i) ==
  /\ chain[i].pc = "leased" /\ \E ok \in BOOLEAN : Record(ok)
  /\ chain' = [chain EXCEPT ![i] = Free]
  /\ Still

(* A killed chain leaves its mark, and its lease runs out a while later.   *)
LeaseEnds(i) ==
  /\ chain[i].pc = "killed" /\ chain' = [chain EXCEPT ![i].pc = "lost"]
  /\ UNCHANGED ledger /\ Still

HandWorks(p) ==
  /\ At(p, "work") /\ \E ok \in BOOLEAN : Record(ok)
  /\ To(p, "unlock")
  /\ UNCHANGED <<day, lock, strayed, chain, orphaned, broken, watch, mishaps>>

-----------------------------------------------------------------------------
(* The daily check: what it reports, and a person who acts on it.          *)

(* A stalled mark, or a streak file that was not touched for 26 h: today's *)
(* certainly was, yesterday's perhaps not.                                 *)
DeadDispatcher == stalled \/ (streak # NoFile /\ streak.at < day)

(* in-progress with no live lease file is read as a chain that is gone;    *)
(* with leases in PostgreSQL there are no files and nothing is read.       *)
LeaseLockAlive(i) == chain[i].pc \in {"leased", "killed"}
StalledLabel(i) == ~PgMode /\ chain[i].pc # "free" /\ ~LeaseLockAlive(i)

(* Labels are not looked at when the platform cannot be asked.             *)
HostingIssues == ~broken

Recover(i) ==
  /\ chain[i].pc = "lost" /\ HostingIssues /\ StalledLabel(i) /\ chain' = [chain EXCEPT ![i] = Free]
  /\ UNCHANGED ledger /\ Still

-----------------------------------------------------------------------------
(* What happens from outside.                                              *)

NextDay ==
  /\ day < LastDay /\ day' = day + 1
  /\ UNCHANGED <<ledger, lock, strayed, proc, chain, orphaned, broken, watch, mishaps>>

Mishap == mishaps < MaxMishaps /\ mishaps' = mishaps + 1
Kill(p) ==
  /\ ~At(p, "idle") /\ Mishap /\ proc' = [proc EXCEPT ![p] = Gone]
  /\ chain' = [i \in Issue |-> IF chain[i].parent = p THEN [chain[i] EXCEPT !.parent = Nobody]
                               ELSE chain[i]]
  /\ orphaned' = orphaned + Cardinality(Children(p))
  /\ UNCHANGED <<day, ledger, lock, strayed, broken, watch>>
(* A chain is killed, or ends with 2 or 4 before it has a lease and a trap.*)
KillChain(i) ==
  /\ chain[i].pc \in {"claimed", "leased"} /\ Mishap
  /\ chain' = [chain EXCEPT ![i] = [pc |-> IF @.pc = "leased" THEN "killed" ELSE "lost",
                                    parent |-> Nobody]]
  /\ UNCHANGED <<day, ledger, lock, strayed, proc, orphaned, broken, watch>>
Environment ==
  /\ broken' = ~broken /\ (broken' => mishaps < MaxMishaps)
  /\ mishaps' = IF broken' THEN mishaps + 1 ELSE mishaps
  /\ UNCHANGED <<day, ledger, lock, strayed, proc, chain, orphaned, watch>>

Work(p) == \/ Gate(p) \/ Mkdir(p) \/ ReadPid(p) \/ Judge(p) \/ Clear(p) \/ Remake(p) \/ WritePid(p)
           \/ Unlock(p) \/ Round(p) \/ FinalSync(p) \/ Report(p) \/ Leave(p)
ChainWork(i) == ChainGate(i) \/ LeaseEnds(i) \/ Recover(i)

Next == \/ \E p \in Proc : Start(p) \/ Work(p) \/ HandWorks(p) \/ Kill(p)
        \/ \E p \in Cron, i \in Issue : Spawn(p, i)
        \/ \E i \in Issue : ChainWork(i) \/ ChainEnds(i) \/ KillChain(i)
        \/ NextDay \/ Environment

(* cron starts the wrapper again and again, daily-regression.sh the check, *)
(* and the dispatcher polls.  That a chain ends is not promised: its gates *)
(* and its platform calls have no time-out, and it is waited for.          *)
Fairness == /\ \A p \in Cron : WF_vars(Start(p))
            /\ \A p \in Proc : WF_vars(Work(p))
            /\ \A i \in Issue : WF_vars(ChainWork(i))

Spec == Init /\ [][Next]_vars /\ Fairness

-----------------------------------------------------------------------------
(* The ledger is dated by the machine's clock, and only a chain that is at *)
(* work has a parent that is.                                              *)
TypeOK ==
  /\ day \in Days /\ broken \in BOOLEAN /\ stalled \in BOOLEAN /\ strayed \in BOOLEAN
  /\ ledger \in Seq([date : -1 .. LastDay + 1, ok : BOOLEAN, on : Days])
  /\ lock \in Pid \cup {NoDir, NoPid} /\ mishaps \in 0 .. MaxMishaps /\ orphaned \in Nat
  /\ proc \in [Proc -> [pc : {"idle", "gate", "mkdir", "read", "judge", "clear", "remake", "write",
                              "round", "drain", "work", "unlock", "report", "exit"},
                        number : Number, old : Pid \cup {NoPid}, again : BOOLEAN, rc : 0 .. 3]]
  /\ chain \in [Issue -> [pc : {"free", "claimed", "leased", "killed", "lost"},
                         parent : Cron \cup {Nobody}]]
  /\ streak \in [n : 1 .. StalledAfter, at : Days] \cup {NoFile}
  /\ \A i \in Issue : chain[i].parent # Nobody => At(chain[i].parent, "drain")

(* The breaker is asked before a chain starts and told when it ends, so    *)
(* parallel chains pass it together: a day and a streak of failures are    *)
(* exceeded by less than the number of chains that can run at a time, and  *)
(* every chain that outlived its dispatcher is one more of them.           *)
Chains == Cardinality(Cron \X (1 .. MaxParallel)) + Cardinality(Hand) + orphaned
RunsOn(d) == Cardinality({i \in DOMAIN ledger : ledger[i].on = d})
BreakerHolds == /\ \A d \in Days : RunsOn(d) < MaxRuns + Chains
                /\ Fails < MaxFails + Chains

(* A streak of failures stops the factory for good: once those that were   *)
(* let in before it tripped have ended, nobody works any more, whoever     *)
(* starts, is on its way or was orphaned.  Only a person resets the ledger.*)
Leased == {i \in Issue : chain[i].pc = "leased"}
Cleared == {p \in Hand : proc[p].pc \in {"mkdir", "read", "judge", "clear", "remake", "write", "work"}}
Stopped == Fails >= MaxFails /\ Leased = {} /\ Cleared = {}
TripIsFinal == [][Stopped => Stopped']_vars

(* Two work under the lock at once only after somebody removed a lock      *)
(* other than the one he had judged, or his own.                           *)
AtWork == {p \in Proc : proc[p].pc \in {"round", "drain", "work"}}
OneDispatcher == strayed \/ Cardinality(AtWork) <= 1

(* The factory goes on as long as every chain ends: for ever new rounds    *)
(* begin, or the breaker stays tripped, or the stall is marked and         *)
(* reported; but for a lock left without a pid, which nobody takes over.   *)
RoundBegins == \E p \in Cron : At(p, "round") /\ At(p, "drain")'
ChainsEnd == /\ \A i \in Issue : []<>(chain[i].pc # "leased")
             /\ \A p \in Hand : []<>(~At(p, "work"))
RoundsGoOn ==
  ChainsEnd => \/ []<><<RoundBegins>>_vars
               \/ <>[]Tripped
               \/ <>[]DeadDispatcher
               \/ <>[](lock = NoPid)

-----------------------------------------------------------------------------
(* What documents promise and the code does not keep.                      *)

(* A lost issue is reported and freed (dispatch_liveness.py:14): not with  *)
(* leases in PostgreSQL, where nothing is looked at.                       *)
LossReported == \A i \in Issue : chain[i].pc = "lost" ~> chain[i].pc = "free" \/ broken

(* "One dispatcher at a time" (factory_lib.py:771): a pid judged dead and  *)
(* the directory removed are two steps.                                    *)
AlwaysOne == Cardinality(AtWork) <= 1

(* The label goes on before the lease is taken, so a chain on its way is   *)
(* reported as gone (dispatch_liveness.py:25 has it the other way round).  *)
StalledMeansGone == \A i \in Issue : StalledLabel(i) => chain[i].pc = "lost"

(* Both ways to die are caught (dispatch_liveness.py:11): a lock without a *)
(* pid keeps every round away with exit 0, which counts as health.         *)
DeathCaught == ChainsEnd => []<><<RoundBegins>>_vars \/ <>[]Tripped \/ <>[]DeadDispatcher
=============================================================================
