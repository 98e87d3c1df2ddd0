---------------------------- MODULE MutationRun ----------------------------
(***************************************************************************)
(* mutations/run.py: proof that the gates notice defects.  For each defect *)
(* the runner puts it into its target, runs the gate in a session of its   *)
(* own, judges the exit code and puts back the bytes it remembers; if all  *)
(* went as expected it stamps the index's version of the configuration.    *)
(* The gate for tests is the command the configuration names: one process  *)
(* group as in this repository, which the killpg of a time-out ends, or a  *)
(* parallel gate, whose segments have sessions of their own again and      *)
(* survive it.  The gate for tampering is guard.py, the one for comments   *)
(* scripts/docstring_gate.py, each a single process.                       *)
(*                                                                         *)
(* All defects have one target, tracked and committed without edits.  Its  *)
(* content is the set of defects in it and a person's edits, or a write    *)
(* that was cut; nobody stages it.  Defects are done in any order.         *)
(***************************************************************************)
EXTENDS ParallelGate, Sequences

CONSTANTS Tests, Guarded, Documented, \* defects for the test gate, guard.py, docstring gate
          Expected,           \* expect_block: those a gate should block
          Version,            \* versions of the configuration; 0 is the first
          Unusable,           \* those its readers refuse
          Adrift,             \* those whose perimeter is not the one of MISSION.md
          Undocumented,       \* those without docstring_gate_cmd
          Split,              \* those whose final_gate_cmd is a parallel gate
          Protected,          \* the target is inside the perimeter
          Broken,             \* no such target, or the anchor is not unique
          NoDefect, NoStamp, NoFile,
          Cut,                \* what a write that was cut leaves
          Whole,              \* a test or docstring gate that is one group
          MaxSelected,        \* bound on the defects of a run
          MaxRuns, MaxMishaps \* bound on runs; on kills, edits, crashes of a gate

Defect == Tests \cup Guarded \cup Documented

ASSUME MutationAssumption ==
  /\ Tests \cap Guarded = {} /\ (Tests \cup Guarded) \cap Documented = {}
  /\ Protected \in BOOLEAN /\ 0 \in Version /\ Version \subseteq Nat
  /\ Unusable \subseteq Version /\ Adrift \subseteq Version /\ Undocumented \subseteq Version
  /\ Split \subseteq Version /\ Expected \subseteq Defect /\ Broken \subseteq Defect
  /\ NoDefect \notin Defect /\ Cut \notin Defect
  /\ NoFile \notin [bugs : SUBSET (Defect \cup {Cut}), edits : Nat]
  /\ {MaxSelected, MaxRuns, MaxMishaps} \subseteq Nat

VARIABLES run,       \* the runner: "off", "next", "read", "write", "put", "start", "gate",
                     \* "restore", "unwind": the finally, and the finally of a Ctrl-C
          selected,  \* the defects of this run (--only, or all)
          left,      \* those it has not come to
          cur,       \* the one it is at
          file,      \* the target
          bytes,     \* what apply_defect has read and not returned, or NoFile
          original,  \* the bytes it remembers, NoFile before an injection
          status,    \* status[d]: outcome of d
          exit,      \* exit code of the last run that ended by itself
          config,    \* version of factory-local.json, worktree and index
          loaded,    \* the version the gates' commands were loaded from
          stamp,     \* evidence-stamp.json: NoStamp or a version
          runs,
          mishaps,   \* what went wrong
          orphans,   \* gates and segments that go on without their runner
          saw,       \* saw[s]: the content that segment s judged
          witness,   \* witness[d]: the gate of d ran to its end on d's defect
          troubled   \* somebody saved the target, or a gate crashed, in this run

world == <<file, config, stamp, orphans>>
runner == <<selected, left, cur, bytes, original, status, exit, loaded, runs>>
vars == <<gateVars, world, runner, run, mishaps, saw, witness, troubled>>

Mishaps == {"kill", "cut", "slip", "save", "config", "crash"}
Mishap(m) == Len(mishaps) < MaxMishaps /\ mishaps' = Append(mishaps, m)
Killed == \E i \in DOMAIN mishaps : mishaps[i] \in {"kill", "slip"}

Text == [bugs : SUBSET (Defect \cup {Cut}), edits : 0 .. MaxMishaps]
Committed == [bugs |-> {}, edits |-> 0]
Torn == [bugs |-> {Cut}, edits |-> 0]

(* Mutant: a target is never taken for dirty.                              *)
NeverDirty == FALSE
TrackedAndDirty == file # Committed

Init ==
  /\ GateInit
  /\ run = "off" /\ selected = {} /\ left = {} /\ cur = NoDefect
  /\ file = Committed /\ bytes = NoFile /\ original = NoFile
  /\ status = [d \in Defect |-> "none"] /\ exit = 0
  /\ config \in Version /\ loaded = config /\ stamp = NoStamp
  /\ runs = 0 /\ mishaps = <<>> /\ orphans = {}
  /\ saw = [s \in Segment |-> {}] /\ witness = [d \in Defect |-> FALSE] /\ troubled = FALSE

-----------------------------------------------------------------------------
(* The runner.                                                             *)

(* The command of the test gate is split into words when the runner is     *)
(* loaded; without usable words it does not start.                         *)
GateWords == {config} \ Unusable
DocstringWords == {loaded} \ Undocumented

(* --only with nothing but commas selects nothing.                         *)
Begin ==
  /\ run = "off" /\ runs < MaxRuns /\ run' = "next" /\ runs' = runs + 1
  /\ \E sel \in SUBSET Defect :
       Cardinality(sel) <= MaxSelected /\ selected' = sel /\ left' = sel
  /\ cur' = NoDefect /\ bytes' = NoFile /\ original' = NoFile /\ loaded' \in GateWords
  /\ status' = [d \in Defect |-> "none"] /\ witness' = [d \in Defect |-> FALSE]
  /\ troubled' = FALSE
  /\ UNCHANGED <<gateVars, world, exit, mishaps, saw>>

Outcome(d, s) == left' = left \ {d} /\ status' = [status EXCEPT ![d] = s]
KeepGate == UNCHANGED <<gateVars, saw, witness, troubled, mishaps>>
Keep == KeepGate /\ UNCHANGED <<config, stamp, orphans, selected, left, status, exit, loaded, runs>>

NoGateFor(d) == d \in Documented /\ DocstringWords = {}
Skip(d) ==
  /\ run = "next" /\ d \in left /\ d \notin Broken /\ (TrackedAndDirty \/ NoGateFor(d))
  /\ Outcome(d, "SKIP")
  /\ KeepGate /\ UNCHANGED <<world, run, selected, cur, bytes, original, exit, loaded, runs>>

Misfit(d) ==
  /\ run = "next" /\ d \in left /\ d \in Broken
  /\ Outcome(d, "FAIL-config")
  /\ KeepGate /\ UNCHANGED <<world, run, selected, cur, bytes, original, exit, loaded, runs>>

Admit(d) ==
  /\ run = "next" /\ d \in left /\ d \notin Broken /\ ~TrackedAndDirty /\ ~NoGateFor(d)
  /\ run' = "read" /\ cur' = d
  /\ Keep /\ UNCHANGED <<file, bytes, original>>

(* apply_defect reads the target, writes it with the defect, and returns   *)
(* what it read; not before that is there something to put back.           *)
Read ==
  /\ run = "read" /\ run' = "write" /\ bytes' = file
  /\ Keep /\ UNCHANGED <<file, cur, original>>

(* An edit saved since may have taken the anchor away.                     *)
Misread ==
  /\ run = "read" /\ file # Committed /\ run' = "next" /\ cur' = NoDefect
  /\ Outcome(cur, "FAIL-config")
  /\ KeepGate /\ UNCHANGED <<world, selected, bytes, original, exit, loaded, runs>>

Write ==
  /\ run = "write" /\ run' = "put" /\ file' = [bytes EXCEPT !.bugs = @ \cup {cur}]
  /\ Keep /\ UNCHANGED <<cur, bytes, original>>

(* Mutant: the bytes are looked up after the defect went in.               *)
RememberLate ==
  /\ run = "put" /\ run' = "start" /\ original' = file /\ bytes' = NoFile
  /\ Keep /\ UNCHANGED <<file, cur>>
Remember ==
  /\ run = "put" /\ run' = "start" /\ original' = bytes /\ bytes' = NoFile
  /\ Keep /\ UNCHANGED <<file, cur>>

(* The command was split into words when the runner was loaded.            *)
IsSplit == cur \in Tests /\ loaded \in Split
Single == gate' = "single" /\ UNCHANGED <<rc, pending, running, proc, rcs, strays, slipped>>
StartGate ==
  /\ run = "start" /\ run' = "gate" /\ saw' = [s \in Segment |-> {}]
  /\ (IsSplit /\ Call) \/ (~IsSplit /\ Single)
  /\ UNCHANGED <<world, runner, witness, troubled, mishaps>>

(* Mutant: no answer is taken for a block.                                 *)
JudgeSilence(d, code) == IF (code # 0) = (d \in Expected) THEN "PASS" ELSE "FAIL"

(* 600 stands for no answer.  Gates have 0 and 1; guard.py has 2 too, for  *)
(* "the gate is broken", which blocks.                                     *)
NoAnswer == 600
Judge(d, code) ==
  IF code = NoAnswer \/ (d \notin Guarded /\ code \notin {0, 1}) THEN "FAIL"
  ELSE IF (code # 0) = (d \in Expected) THEN "PASS" ELSE "FAIL"

(* Mutant: no finally.                                                     *)
VerdictOnly(code) == run' = "next" /\ Outcome(cur, Judge(cur, code))
Verdict(code) == run' = "restore" /\ Outcome(cur, Judge(cur, code))
AfterGate == UNCHANGED <<file, config, stamp, selected, cur, bytes, original, exit, loaded, runs,
                         saw, troubled, mishaps>>

(* A gate that is put away, and those of it that still read the target.    *)
Away ==
  /\ gate' = "none" /\ rc' = 0 /\ pending' = {} /\ running' = {}
  /\ proc' = NobodyYet /\ rcs' = NobodyYet /\ strays' = {} /\ slipped' = FALSE
Behind == Alive \cup strays

(* guard.py judges the path alone: its answer is about the defect's target *)
(* whatever is in it.                                                      *)
Answer ==
  /\ run = "gate" /\ gate \in {"over", "told"} /\ Verdict(rc)
  /\ witness' = [witness EXCEPT ![cur] =
       CASE gate = "over" -> \A s \in Segment : saw[s] = {cur}
         [] gate = "told" /\ cur \notin Guarded -> file.bugs = {cur}
         [] OTHER -> TRUE]
  /\ Away /\ orphans' = orphans \cup Behind
  /\ AfterGate

(* Mutant: the time-out waits for the processes it has killed.             *)
TimeoutPatient ==
  /\ run = "gate" /\ gate \notin {"over", "told"} /\ Alive = {} /\ gate # "single"
  /\ Verdict(NoAnswer) /\ Away /\ orphans' = orphans
  /\ AfterGate /\ UNCHANGED witness
(* killpg reaches the gate's own group; segments are not in it.            *)
Timeout ==
  /\ run = "gate" /\ gate \notin {"over", "told"} /\ Verdict(NoAnswer)
  /\ Away /\ orphans' = orphans \cup Behind
  /\ AfterGate /\ UNCHANGED witness

Restore ==
  /\ run = "restore" /\ run' = "next" /\ file' = original /\ cur' = NoDefect
  /\ Keep /\ UNCHANGED <<bytes, original>>

(* Every target is compared once more; then the verdict, and the stamp.    *)
Failed == \E d \in selected : status[d] \in {"FAIL", "FAIL-config"}
Skipped == \E d \in selected : status[d] = "SKIP"
Residual == original # NoFile /\ file # original
PerimeterBlob == config
WriteStamp == stamp' = PerimeterBlob
Conclude ==
  /\ run = "next" /\ left = {} /\ run' = "off"
  /\ exit' = IF Residual THEN 3 ELSE IF Failed THEN 1 ELSE IF Skipped THEN 4 ELSE 0
  /\ IF exit' = 0 THEN WriteStamp ELSE UNCHANGED stamp
  /\ KeepGate
  /\ UNCHANGED <<file, config, orphans, selected, left, cur, bytes, original, status, loaded, runs>>

-----------------------------------------------------------------------------
(* The gate and its segments: a segment judges what is in the target.      *)

Around == UNCHANGED <<world, runner, run, witness>>
GateWorks ==
  /\ run = "gate"
  /\ \/ Poll \/ Finish \/ Term \/ Raise
     \/ \E s \in Segment : Popen(s) \/ Record(s) \/ Reap(s) \/ StrayEnds(s)
  /\ Around /\ UNCHANGED <<saw, mishaps, troubled>>
GateCrashes ==
  /\ run = "gate" /\ Mishap("crash") /\ troubled' = TRUE
  /\ Interrupt \/ InterruptAgain \/ \E s \in Segment : PopenFails(s)
  /\ Around /\ UNCHANGED saw
SegmentEnds(s) ==
  /\ SegEnds(s) /\ saw' = [saw EXCEPT ![s] = file.bugs]
  /\ Around /\ UNCHANGED <<mishaps, troubled>>
SegmentHangs(s) == SegHangs(s) /\ Around /\ UNCHANGED <<saw, mishaps, troubled>>

(* guard.py --files target judges the path alone, by the configuration of  *)
(* its own start: 2 if it cannot be read or MISSION.md says otherwise.     *)
LoadPerimeter == config \notin Unusable
SelfCheck == config \notin Adrift
Violates == Protected
GuardAnswer == IF ~LoadPerimeter \/ ~SelfCheck THEN 2 ELSE IF Violates THEN 1 ELSE 0

(* 2 of a test or docstring gate is no verdict.                            *)
SingleAnswers ==
  /\ run = "gate" /\ gate = "single" /\ gate' = "told"
  /\ rc' \in IF cur \in Guarded THEN {GuardAnswer} ELSE {0, 1, 2}
  /\ Around /\ UNCHANGED <<pending, running, proc, rcs, strays, slipped, saw, mishaps, troubled>>

OrphanEnds(o) ==
  /\ o \in orphans /\ orphans' = orphans \ {o}
  /\ UNCHANGED <<gateVars, file, config, stamp, runner, run, mishaps, saw, witness, troubled>>

-----------------------------------------------------------------------------
(* What happens from outside.                                              *)

(* An editor saves what is there with the defect, or from before it.       *)
Save ==
  /\ Mishap("save") /\ troubled' = TRUE
  /\ \E bugs \in {file.bugs, {}} : file' = [bugs |-> bugs, edits |-> file.edits + 1]
  /\ UNCHANGED <<gateVars, config, stamp, orphans, runner, run, saw, witness>>

EditConfig ==
  /\ Mishap("config") /\ config' \in Version \ {config}
  /\ UNCHANGED <<gateVars, file, stamp, orphans, runner, run, saw, witness, troubled>>

(* A gate at work goes on with nobody to answer to.                        *)
LeaveGate ==
  /\ orphans' = orphans \cup Behind \cup (IF gate = "loop" THEN pending ELSE {})
                        \cup (IF gate = "single" /\ cur \notin Guarded THEN {Whole} ELSE {})
  /\ Away

(* What is in the target when the runner ends here: a write may be cut.    *)
Texts == {file} \cup (IF run \in {"write", "restore", "unwind"} THEN {Torn} ELSE {})
End(how, text) ==
  /\ run # "off" /\ Mishap(how) /\ run' = "off" /\ file' = text /\ cur' = NoDefect /\ bytes' = NoFile
  /\ LeaveGate
  /\ UNCHANGED <<config, stamp, selected, left, original, status, exit, loaded, runs, saw, witness,
                 troubled>>
KillRunner == \E text \in Texts : End("kill", text)

(* Ctrl-C while there is something to put back runs the finally.           *)
CtrlC ==
  /\ run \in {"start", "gate"} /\ Mishap("cut") /\ run' = "unwind" /\ LeaveGate
  /\ UNCHANGED <<file, config, stamp, runner, saw, witness, troubled>>
PutBack ==
  /\ run = "unwind" /\ run' = "off" /\ file' = original /\ cur' = NoDefect
  /\ Keep /\ UNCHANGED <<bytes, original>>

(* Elsewhere it does not: before the write there is nothing to put back,   *)
(* after it the finally does not know yet, and in the finally it skips the *)
(* write or cuts it.                                                       *)
CtrlCBare ==
  /\ run \notin {"start", "gate"}
  /\ \E text \in Texts :
       End(IF run \in {"next", "read", "write"} /\ text = file THEN "cut" ELSE "slip", text)

Runner == \/ Read \/ Misread \/ Write \/ Remember \/ StartGate \/ Answer \/ Timeout \/ Restore
          \/ PutBack \/ Conclude \/ \E d \in Defect : Skip(d) \/ Misfit(d) \/ Admit(d)

Next == \/ Begin \/ Runner \/ GateWorks \/ GateCrashes \/ SingleAnswers
        \/ \E s \in Segment : SegmentEnds(s) \/ SegmentHangs(s)
        \/ \E o \in Segment \cup {Whole} : OrphanEnds(o)
        \/ Save \/ EditConfig \/ CtrlC \/ CtrlCBare \/ KillRunner

(* communicate(timeout) returns; nothing is assumed of gates and segments. *)
Spec == Init /\ [][Next]_vars /\ WF_vars(Runner)

-----------------------------------------------------------------------------
(* A run is at a defect or between two, holds what it read only until it   *)
(* remembers it, and remembers the target while the gate runs.             *)
TypeOK ==
  /\ gate \in {"none", "loop", "term", "grace", "over", "single", "told"} /\ rc \in {0, 1, 2, 130}
  /\ pending \in SUBSET Segment /\ running \in SUBSET Segment
  /\ proc \in [Segment -> {"none", "runs", "hangs", "green", "red"}]
  /\ rcs \in [Segment -> {"none", "green", "red"}]
  /\ strays \in SUBSET Segment /\ slipped \in BOOLEAN
  /\ run \in {"off", "next", "read", "write", "put", "start", "gate", "restore", "unwind"}
  /\ selected \in SUBSET Defect /\ left \in SUBSET selected
  /\ cur \in Defect \cup {NoDefect}
  /\ file \in Text /\ {bytes, original} \subseteq Text \cup {NoFile}
  /\ status \in [Defect -> {"none", "PASS", "FAIL", "SKIP", "FAIL-config"}]
  /\ exit \in {0, 1, 3, 4} /\ {config, loaded} \subseteq Version /\ stamp \in Version \cup {NoStamp}
  /\ runs \in 0 .. MaxRuns /\ Len(mishaps) <= MaxMishaps /\ mishaps \in Seq(Mishaps)
  /\ orphans \in SUBSET (Segment \cup {Whole}) /\ saw \in [Segment -> SUBSET (Defect \cup {Cut})]
  /\ witness \in [Defect -> BOOLEAN] /\ troubled \in BOOLEAN
  /\ (run \notin {"off", "next"}) = (cur # NoDefect)
  /\ (run \in {"write", "put"}) = (bytes # NoFile)
  /\ run \in {"start", "gate", "restore", "unwind"} => original # NoFile

(* A stamp is written only if for each defect of the run a gate went to    *)
(* its end while that defect, and no other, was in the target, whatever    *)
(* timed out, was cut short or was left behind by earlier runs; but for a  *)
(* run in which the target was saved or a gate crashed.                    *)
StampIsEvidence == [][stamp' # stamp => troubled \/ \A d \in selected : witness[d]]_vars

(* Between runs no defect is in the target, and none but the current one   *)
(* ever is, until a runner is killed, or a Ctrl-C falls between the write  *)
(* and the finally that would know of it, or into the finally: what these  *)
(* leave is never remembered as the original.                              *)
NothingLeftBehind ==
  /\ run \in {"off", "next", "read", "write"} /\ ~Killed => file.bugs = {}
  /\ original # NoFile => original.bugs = {}
  /\ Cardinality(file.bugs) <= 1

(* The runner comes to its end, whatever hangs.                            *)
RunEnds == run # "off" ~> run = "off"

-----------------------------------------------------------------------------
(* What documents promise and the code does not keep.                      *)

(* "No concurrent readers in the window" (run.py:25): the segments of a    *)
(* gate that timed out read on.                                            *)
NoOtherReader == file.bugs # {} => orphans = {}

(* Restored in the finally (run.py:18): not by a Ctrl-C that finds nothing *)
(* remembered yet, or that falls into the finally.                         *)
CtrlCPutsBack ==
  run \in {"off", "next"} /\ (\A i \in DOMAIN mishaps : mishaps[i] # "kill") => file.bugs = {}

(* Edits of people survive (run.py:20): those saved in the window do not.  *)
EditsKept == [][file'.edits >= file.edits]_vars

(* The stamp names the configuration the gates had (run.py:150).           *)
StampBindsWhatRan == [][stamp' # stamp => stamp' = loaded]_vars

(* A stamp speaks of all defects: --only with a subset stamps as well.     *)
StampCoversAll == [][stamp' # stamp => selected = Defect]_vars

(* Exit code 1 is a verdict (factory_lib.py:1290): an exception has it too.*)
RedMeansRed == gate = "over" /\ rc = 1 => \E s \in Segment : proc[s] = "red" /\ s \notin pending
=============================================================================
