----------------------------- MODULE ChainPool -----------------------------
(***************************************************************************)
(* Processes and signals of the dispatcher: ChainPool, dispatch_main and   *)
(* its lock in .factory/factory_lib.py, the chains it spawns (the part of  *)
(* .factory/fix-issue.sh that decides how a chain ends) and their          *)
(* heartbeats (lease_heartbeat_loop in .factory/factory-lease.sh).         *)
(*                                                                         *)
(* A heartbeat is a background subshell of its chain.  In it $PPID is what *)
(* it is in the chain itself: the process that started the CHAIN.  So both *)
(* its "is my parent alive" and its TERM address the dispatcher.           *)
(*                                                                         *)
(* Taking the dispatcher lock is one step here.  What a chain does between *)
(* its claim and its end is one step too, and so is its EXIT trap but for  *)
(* being cut short; a chain has no time limit.  A heartbeat may fail at    *)
(* any moment: lease lost, revoked or expired, or arbiter out of reach.    *)
(***************************************************************************)
EXTENDS Naturals, FiniteSets

CONSTANTS Dispatcher,   \* dispatcher processes, started by cron or by hand
          Issue,
          Free,         \* nobody holds the dispatcher lock
          MaxParallel,  \* MAX_PARALLEL
          MaxLost,      \* bound on the heartbeats that fail
          Crashes       \* TRUE: processes may be stopped from outside

ASSUME PoolAssumption ==
  /\ MaxParallel \in Nat \ {0} /\ MaxLost \in Nat
  /\ Crashes \in BOOLEAN
  /\ Free \notin Dispatcher

(* A dispatcher runs at most one chain of an issue here.                   *)
Chain == Dispatcher \X Issue
Parent(c) == c[1]

VARIABLES disp,    \* where a dispatcher stands
          lock,    \* whose pid is in locks/dispatcher
          pool,    \* pool[d]: _active, as issues
          fresh,   \* fresh[d]: issues spawned and not yet appended to _active
          chain,   \* where a chain stands
          term,    \* term[c]: the chain was sent TERM
          hb       \* where its heartbeat stands

vars == <<disp, lock, pool, fresh, chain, term, hb>>

Init == /\ disp = [d \in Dispatcher |-> "off"]
        /\ lock = Free
        /\ pool = [d \in Dispatcher |-> {}] /\ fresh = [d \in Dispatcher |-> {}]
        /\ chain = [c \in Chain |-> "none"]
        /\ term = [c \in Chain |-> FALSE] /\ hb = [c \in Chain |-> "off"]

Alive(d) == disp[d] \notin {"off", "dead"}
Running(c) == chain[c] \in {"early", "claimed", "working", "cleaning"}
Move(d, from, to) == disp[d] = from /\ disp' = [disp EXCEPT ![d] = to]
Set(c, to) == chain' = [chain EXCEPT ![c] = to]

-----------------------------------------------------------------------------
(* The dispatcher.                                                         *)

(* acquire_dispatch_lock: a free lock, or one whose pid is dead.           *)
Acquire(d) ==
  /\ Move(d, "off", "locked")
  /\ lock # Free => ~Alive(lock)
  /\ lock' = d
  /\ UNCHANGED <<pool, fresh, chain, term, hb>>

InstallHandlers(d) ==
  /\ Move(d, "locked", "up")
  /\ UNCHANGED <<lock, pool, fresh, chain, term, hb>>

AfterSpawn(P) == IF Cardinality(P) >= MaxParallel THEN "full" ELSE "up"

(* Popen.  The handler of a signal may run before the append that follows. *)
Popen(d, i) ==
  /\ chain[<<d, i>>] = "none"
  /\ Set(<<d, i>>, "early")
  /\ fresh' = [fresh EXCEPT ![d] = {i}]
  /\ Move(d, "up", "spawn")
  /\ UNCHANGED <<lock, pool, term, hb>>

(* Mutant: the list of one is appended as an element.                      *)
AppendNested(d) ==
  /\ pool' = [pool EXCEPT ![d] = @ \cup {fresh[d]}]
  /\ fresh' = [fresh EXCEPT ![d] = {}]
  /\ Move(d, "spawn", AfterSpawn(pool'[d]))
  /\ UNCHANGED <<lock, chain, term, hb>>

Append(d) ==
  /\ pool' = [pool EXCEPT ![d] = @ \cup fresh[d]]
  /\ fresh' = [fresh EXCEPT ![d] = {}]
  /\ Move(d, "spawn", AfterSpawn(pool'[d]))
  /\ UNCHANGED <<lock, chain, term, hb>>

Reaped(d) == {i \in pool[d] : Running(<<d, i>>)}

(* Mutant: the spawn gives way only above the bound.                       *)
ReapOneShort(d) ==
  /\ pool' = [pool EXCEPT ![d] = Reaped(d)]
  /\ \/ Cardinality(Reaped(d)) <= MaxParallel /\ Move(d, "full", "up")
     \/ disp[d] = "drain" /\ UNCHANGED disp
  /\ UNCHANGED <<lock, fresh, chain, term, hb>>

(* _reap, while spawn waits for a slot and while wait_all waits for all.   *)
Reap(d) ==
  /\ pool' = [pool EXCEPT ![d] = Reaped(d)]
  /\ \/ Cardinality(Reaped(d)) < MaxParallel /\ Move(d, "full", "up")
     \/ disp[d] = "drain" /\ UNCHANGED disp
  /\ UNCHANGED <<lock, fresh, chain, term, hb>>

Drain(d) ==
  /\ Move(d, "up", "drain")
  /\ UNCHANGED <<lock, pool, fresh, chain, term, hb>>

(* --watch goes round again, a single run ends.                            *)
EndRound(d) ==
  /\ pool[d] = {}
  /\ \E to \in {"up", "term"} : Move(d, "drain", to)
  /\ UNCHANGED <<lock, pool, fresh, chain, term, hb>>

(* Where a TERM or HUP takes it: fatal before the handlers are there;      *)
(* SystemExit, hence the finally clause, afterwards; and out of the        *)
(* finally clause itself when that is where it falls.                      *)
OnTerm(at) == IF at \in {"up", "spawn", "full", "drain"} THEN "term" ELSE "dead"

-----------------------------------------------------------------------------
(* The finally clause: shutdown, then release_dispatch_lock.               *)

(* p.terminate() for every chain of _active that still runs.               *)
Terminate(d) ==
  /\ Move(d, "term", "grace")
  /\ term' = [c \in Chain |-> term[c] \/ (Parent(c) = d /\ c[2] \in pool[d] /\ Running(c))]
  /\ UNCHANGED <<lock, pool, fresh, chain, hb>>

(* Mutant: no deadline, the grace lasts until every chain ended.           *)
GraceEndsPatient(d) ==
  /\ Reaped(d) = {} /\ Move(d, "grace", "kill")
  /\ pool' = [pool EXCEPT ![d] = {}]
  /\ UNCHANGED <<lock, fresh, chain, term, hb>>

(* All chains reaped, or the deadline passed.                              *)
GraceEnds(d) ==
  /\ Move(d, "grace", "kill")
  /\ pool' = [pool EXCEPT ![d] = Reaped(d)]
  /\ UNCHANGED <<lock, fresh, chain, term, hb>>

(* Mutant: what is left after the deadline is forgotten, not killed.       *)
KillNone(d) ==
  /\ Move(d, "kill", "release")
  /\ pool' = [pool EXCEPT ![d] = {}]
  /\ UNCHANGED <<lock, fresh, chain, term, hb>>

(* SIGKILL for what is left, one chain at a time.                          *)
Kill(d) ==
  /\ \/ \E i \in pool[d] :
          /\ disp[d] = "kill" /\ UNCHANGED disp
          /\ Set(<<d, i>>, IF Running(<<d, i>>) THEN "killed" ELSE chain[<<d, i>>])
          /\ pool' = [pool EXCEPT ![d] = @ \ {i}]
     \/ pool[d] = {} /\ Move(d, "kill", "release") /\ UNCHANGED <<chain, pool>>
  /\ UNCHANGED <<lock, fresh, term, hb>>

(* rmtree, and the process ends.                                           *)
Release(d) ==
  /\ Move(d, "release", "dead")
  /\ lock' = Free
  /\ UNCHANGED <<pool, fresh, chain, term, hb>>

-----------------------------------------------------------------------------
(* A chain.                                                                *)

(* Before the claim there is no trap: an early exit, or TERM, just ends it.*)
EarlyExit(c) ==
  /\ chain[c] = "early" /\ Set(c, "ended")
  /\ UNCHANGED <<disp, lock, pool, fresh, term, hb>>

(* lease_claim, trap "exit 143" TERM, lease_heartbeat_loop.                *)
ClaimLease(c) ==
  /\ chain[c] = "early" /\ ~term[c] /\ Set(c, "claimed")
  /\ hb' = [hb EXCEPT ![c] = "on"]
  /\ UNCHANGED <<disp, lock, pool, fresh, term>>

InstallTrap(c) ==
  /\ chain[c] = "claimed" /\ ~term[c] /\ Set(c, "working")
  /\ UNCHANGED <<disp, lock, pool, fresh, term, hb>>

(* The chain's work ends, or with TERM pending the node it waits for does. *)
Finish(c) ==
  /\ chain[c] = "working" /\ Set(c, "cleaning")
  /\ UNCHANGED <<disp, lock, pool, fresh, term, hb>>

(* The EXIT trap; lease_cleanup stops the heartbeat.                       *)
CleanUp(c) ==
  /\ chain[c] = "cleaning" /\ Set(c, "ended")
  /\ hb' = [hb EXCEPT ![c] = IF @ = "on" THEN "off" ELSE @]
  /\ UNCHANGED <<disp, lock, pool, fresh, term>>

(* TERM: "exit 143" with no EXIT trap installed, or inside the EXIT trap,  *)
(* which it cuts short.                                                    *)
TakeTerm(c) ==
  /\ term[c] /\ chain[c] \in {"claimed", "cleaning"} /\ Set(c, "ended")
  /\ UNCHANGED <<disp, lock, pool, fresh, term, hb>>

KillChain(c) ==
  /\ Crashes /\ Running(c) /\ Set(c, "killed")
  /\ UNCHANGED <<disp, lock, pool, fresh, term, hb>>

-----------------------------------------------------------------------------
(* A heartbeat.                                                            *)

(* Mutant: the loop does not look for its parent.                          *)
BeatOnAndOn(c) == FALSE

(* kill -0 $PPID fails.                                                    *)
BeatParentless(c) ==
  /\ hb[c] = "on" /\ ~Alive(Parent(c))
  /\ hb' = [hb EXCEPT ![c] = "off"]
  /\ UNCHANGED <<disp, lock, pool, fresh, chain, term>>

(* lease_heartbeat fails: TERM to $PPID.  The loop sleeps first, by when   *)
(* its chain is in _active.                                                *)
BeatFails(c) ==
  /\ hb[c] = "on" /\ Alive(Parent(c)) /\ c[2] \notin fresh[Parent(c)]
  /\ Cardinality({x \in Chain : hb[x] = "lost"}) < MaxLost
  /\ hb' = [hb EXCEPT ![c] = "lost"]
  /\ disp' = [disp EXCEPT ![Parent(c)] = OnTerm(@)]
  /\ UNCHANGED <<lock, pool, fresh, chain, term>>

(* SIGKILL, or TERM or HUP from an operator or a terminal that closes.     *)
StopDispatcher(d) ==
  /\ Crashes /\ Alive(d)
  /\ \E to \in {"dead", OnTerm(disp[d])} : disp' = [disp EXCEPT ![d] = to]
  /\ UNCHANGED <<lock, pool, fresh, chain, term, hb>>

-----------------------------------------------------------------------------

Round(d) == \/ \E i \in Issue : Popen(d, i)
            \/ Append(d)
            \/ Reap(d)
            \/ Drain(d)
            \/ EndRound(d)
Shutdown(d) == Terminate(d) \/ GraceEnds(d) \/ Kill(d) \/ Release(d)
Work(c) == \/ EarlyExit(c)
           \/ ClaimLease(c)
           \/ InstallTrap(c)
           \/ Finish(c)
           \/ CleanUp(c)
           \/ TakeTerm(c)

Next == \/ \E d \in Dispatcher :
             Acquire(d) \/ InstallHandlers(d) \/ Round(d) \/ Shutdown(d) \/ StopDispatcher(d)
        \/ \E c \in Chain : Work(c) \/ KillChain(c) \/ BeatParentless(c) \/ BeatFails(c)

Spec == Init /\ [][Next]_vars

(* The dispatcher's own code and a heartbeat's loop keep running.  Nothing *)
(* makes a chain finish: its nodes are other programs.                     *)
Fairness ==
  /\ \A d \in Dispatcher : WF_vars(Round(d)) /\ WF_vars(Shutdown(d))
  /\ \A c \in Chain : WF_vars(BeatParentless(c))
FairSpec == Spec /\ Fairness

-----------------------------------------------------------------------------

TypeOK ==
  /\ disp \in [Dispatcher -> {"off", "locked", "up", "spawn", "full", "drain", "term",
                              "grace", "kill", "release", "dead"}]
  /\ lock \in Dispatcher \cup {Free}
  /\ pool \in [Dispatcher -> SUBSET Issue] /\ fresh \in [Dispatcher -> SUBSET Issue]
  /\ chain \in [Chain -> {"none", "early", "claimed", "working", "cleaning",
                          "ended", "killed"}]
  /\ term \in [Chain -> BOOLEAN]
  /\ hb \in [Chain -> {"off", "on", "lost"}]

(* "Reap first, then release the lock": when a dispatcher releases it, its *)
(* chains have ended, stubborn ones and ones just starting included.  The  *)
(* exception is the code's: a chain that was started and not yet recorded  *)
(* when the signal fell.                                                   *)
ReapedBeforeRelease ==
  [][\A d \in Dispatcher : lock = d /\ lock' = Free =>
       \A c \in Chain : Parent(c) = d /\ Running(c) => c[2] \in fresh[d]]_vars

(* Never more chains of a dispatcher at once than MAX_PARALLEL, the one    *)
(* about to be appended included.                                          *)
SlotsRespected ==
  \A d \in Dispatcher : Cardinality({c \in Chain : Parent(c) = d /\ Running(c)}) <= MaxParallel

(* A dispatcher on its way out ends, whatever its chains do with the TERM. *)
ShutdownEnds ==
  \A d \in Dispatcher : disp[d] \in {"term", "grace", "kill", "release"} ~> disp[d] = "dead"

(* No heartbeat outlives its dispatcher.                                   *)
BeatsEndWithDispatcher ==
  \A c \in Chain : disp[Parent(c)] = "dead" ~> hb[c] # "on"

-----------------------------------------------------------------------------
(* What comments promise and the code does not keep: each is violated.     *)

(* The loss of a lease ends the chain that held it and no other.           *)
LossStopsOnlyItsChain == \A c \in Chain : term[c] => hb[c] = "lost"

(* A dispatcher works alone: no chain of an earlier one runs any more.  A  *)
(* dead dispatcher's lock is taken over without a look at its chains.      *)
WorksAlone ==
  \A d \in Dispatcher, c \in Chain : Alive(d) /\ Running(c) => Parent(c) = d

(* No heartbeat outlives its chain ("the parent gone, it leaves").  It     *)
(* asks for the dispatcher.                                                *)
BeatsEndWithChain ==
  \A c \in Chain : chain[c] \in {"ended", "killed"} ~> hb[c] # "on"
=============================================================================
