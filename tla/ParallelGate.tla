--------------------------- MODULE ParallelGate ---------------------------
(***************************************************************************)
(* run_parallel_gate (factory_lib.py): the segments of a test gate, each   *)
(* a process in a session of its own, at most workers of them at a time    *)
(* (0: all at once).  The order of the configuration only orders what is   *)
(* printed, so the segments that wait are a set here.  A segment may hang, *)
(* Popen may raise, the gate may be interrupted, and once more while it    *)
(* cleans up: it terminates the groups on its list and waits for their     *)
(* leaders, one after the other, killing the group of one that stays.      *)
(***************************************************************************)
EXTENDS Naturals, FiniteSets

CONSTANTS Segment, Workers

ASSUME GateAssumption == IsFiniteSet(Segment) /\ Segment # {} /\ Workers \in Nat

VARIABLES gate,      \* the process: "none", "loop", "term", "grace", "over"
          rc,        \* its exit code, once over
          pending,   \* segments that are not started
          running,   \* its list of running segments
          proc,      \* proc[s]: the leader of the group of s
          rcs,       \* rcs[s]: what poll or wait said of s
          strays,    \* groups whose leader heeded SIGTERM and others did not
          slipped    \* an interrupt fell where the cleanup does not cover it

gateVars == <<gate, rc, pending, running, proc, rcs, strays, slipped>>

Live(s) == proc[s] \in {"runs", "hangs"}
Alive == {s \in Segment : Live(s)}
NobodyYet == [s \in Segment |-> "none"]

GateInit ==
  /\ gate = "none" /\ rc = 0 /\ pending = {} /\ running = {}
  /\ proc = NobodyYet /\ rcs = NobodyYet /\ strays = {} /\ slipped = FALSE

(* A configuration that is not right, or a segment's missing directory, is *)
(* found before anything is started.                                       *)
Call ==
  /\ gate = "none" /\ running' = {}
  /\ proc' = NobodyYet /\ rcs' = NobodyYet /\ strays' = {} /\ slipped' = FALSE
  /\ \/ gate' = "loop" /\ pending' = Segment /\ rc' = 0
     \/ gate' = "over" /\ pending' = {} /\ rc' = 2

(* Started by Popen, and not yet on the list.                              *)
Fresh == {s \in Segment : s \notin pending \cup running /\ proc[s] # "none" /\ rcs[s] = "none"}

(* Mutant: one more than there are slots.                                  *)
SlotOneMore == Workers = 0 \/ Cardinality(running) <= Workers
Slot == Workers = 0 \/ Cardinality(running) < Workers

Popen(s) ==
  /\ gate = "loop" /\ s \in pending /\ Slot /\ Fresh = {}
  /\ pending' = pending \ {s} /\ proc' = [proc EXCEPT ![s] = "runs"]
  /\ UNCHANGED <<gate, rc, running, rcs, strays, slipped>>

Record(s) ==
  /\ gate = "loop" /\ s \in Fresh /\ running' = running \cup {s}
  /\ UNCHANGED <<gate, rc, pending, proc, rcs, strays, slipped>>

(* The command is not there: the exception ends the gate with exit code 1. *)
PopenFails(s) ==
  /\ gate = "loop" /\ s \in pending /\ Slot /\ Fresh = {}
  /\ gate' = "term" /\ rc' = 1 /\ pending' = pending \ {s}
  /\ UNCHANGED <<running, proc, rcs, strays, slipped>>

Poll ==
  LET ended == {s \in running : ~Live(s)} IN
  /\ gate = "loop" /\ Fresh = {} /\ (pending = {} \/ ~Slot) /\ ended # {}
  /\ running' = running \ ended
  /\ rcs' = [s \in Segment |-> IF s \in ended THEN proc[s] ELSE rcs[s]]
  /\ UNCHANGED <<gate, rc, pending, proc, strays, slipped>>

Finish ==
  /\ gate = "loop" /\ pending = {} /\ running = {} /\ Fresh = {}
  /\ gate' = "over" /\ rc' = IF \A s \in Segment : rcs[s] = "green" THEN 0 ELSE 1
  /\ UNCHANGED <<pending, running, proc, rcs, strays, slipped>>

-----------------------------------------------------------------------------
(* The cleanup, after an interrupt or an exception.                        *)

Interrupt ==
  /\ gate = "loop" /\ gate' = "term" /\ rc' = 130 /\ slipped' = (Fresh # {})
  /\ UNCHANGED <<pending, running, proc, rcs, strays>>

(* SIGTERM to every group on the list, heeded or not, or by the leader     *)
(* alone.                                                                  *)
Term ==
  /\ gate = "term" /\ gate' = "grace"
  /\ \E heed \in SUBSET (Alive \cap running) :
       /\ proc' = [s \in Segment |-> IF s \in heed THEN "red" ELSE proc[s]]
       /\ \E some \in SUBSET heed : strays' = some
  /\ UNCHANGED <<rc, pending, running, rcs, slipped>>

(* Its leader has ended; or the grace is over, or cut short by a second    *)
(* interrupt that falls into the wait, and the group is killed.            *)
Reap(s) ==
  /\ gate = "grace" /\ s \in running /\ running' = running \ {s}
  /\ proc' = [proc EXCEPT ![s] = IF Live(s) THEN "red" ELSE @]
  /\ rcs' = [rcs EXCEPT ![s] = proc'[s]]
  /\ UNCHANGED <<gate, rc, pending, strays, slipped>>

Raise ==
  /\ gate = "grace" /\ running = {} /\ gate' = "over"
  /\ UNCHANGED <<rc, pending, running, proc, rcs, strays, slipped>>

(* Anywhere else in the cleanup a second interrupt ends it: while SIGTERM  *)
(* goes out, between two waits, before SIGKILL and in the wait after it.   *)
InterruptAgain ==
  /\ gate \in {"term", "grace"} /\ gate' = "over" /\ rc' = 130 /\ slipped' = TRUE
  /\ UNCHANGED <<pending, running, proc, rcs, strays>>

-----------------------------------------------------------------------------
(* The segments' own doing.                                                *)

SegEnds(s) ==
  /\ proc[s] = "runs" /\ \E end \in {"green", "red"} : proc' = [proc EXCEPT ![s] = end]
  /\ UNCHANGED <<gate, rc, pending, running, rcs, strays, slipped>>
SegHangs(s) ==
  /\ proc[s] = "runs" /\ proc' = [proc EXCEPT ![s] = "hangs"]
  /\ UNCHANGED <<gate, rc, pending, running, rcs, strays, slipped>>
StrayEnds(s) ==
  /\ s \in strays /\ strays' = strays \ {s}
  /\ UNCHANGED <<gate, rc, pending, running, proc, rcs, slipped>>

GateStep == \/ Call \/ Poll \/ Finish \/ Interrupt \/ Term \/ Raise \/ InterruptAgain
            \/ \E s \in Segment : Popen(s) \/ Record(s) \/ PopenFails(s) \/ Reap(s)
GateNext == GateStep \/ \E s \in Segment : SegEnds(s) \/ SegHangs(s) \/ StrayEnds(s)

GateSpec == GateInit /\ [][GateNext]_gateVars

-----------------------------------------------------------------------------
GateTypeOK ==
  /\ gate \in {"none", "loop", "term", "grace", "over"} /\ rc \in {0, 1, 2, 130}
  /\ pending \in SUBSET Segment /\ running \in SUBSET Segment
  /\ proc \in [Segment -> {"none", "runs", "hangs", "green", "red"}]
  /\ rcs \in [Segment -> {"none", "green", "red"}]
  /\ strays \in SUBSET Segment /\ slipped \in BOOLEAN

(* Green means that every segment ran and was green; a gate that has ended *)
(* by itself, through an exception or by an interrupt leaves no segment    *)
(* running, but for an interrupt between Popen and append or a second one  *)
(* in the cleanup; and there are never more segments than workers.         *)
GreenMeansAll == gate = "over" /\ rc = 0 => \A s \in Segment : proc[s] = "green"
NoneLeft == gate = "over" /\ ~slipped => Alive = {}
WorkersRespected == Workers # 0 => Cardinality(Alive) <= Workers
GateSound == GreenMeansAll /\ NoneLeft /\ WorkersRespected

-----------------------------------------------------------------------------
(* What documents promise and the code does not keep.                      *)

(* An interrupt ends every segment, and a second one too                   *)
(* (factory_lib.py:1299, 1380): not one that Popen has just started, nor   *)
(* those the second one keeps it from waiting for.                         *)
InterruptEndsAll == gate = "over" => Alive = {}

(* The descendants of a segment do not stay (factory_lib.py:1354): they do *)
(* when its leader heeds SIGTERM and they do not, for only the leader is   *)
(* waited for.                                                             *)
NoDescendantStays == gate = "over" => strays = {}
=============================================================================
