------------------------- MODULE MutationRunProofs --------------------------
(***************************************************************************)
(* What the parallel gate and the mutation runner that starts it guarantee *)
(* for any defects, segments, workers and bounds: the gate is sound, the   *)
(* runner leaves no defect behind, and a stamp is evidence.                *)
(***************************************************************************)
EXTENDS MutationRun, FiniteSetTheorems, TLAPS

-----------------------------------------------------------------------------
(* The gate alone, as if nothing but its own steps happened (ParallelGate): *)
(* it is sound whatever hangs, raises or interrupts it.                    *)

GateVarsOK ==
  /\ rc \in {0, 1, 2, 130}
  /\ pending \in SUBSET Segment /\ running \in SUBSET Segment
  /\ proc \in [Segment -> {"none", "runs", "hangs", "green", "red"}]
  /\ rcs \in [Segment -> {"none", "green", "red"}]
  /\ strays \in SUBSET Segment
SlipOK == slipped \in BOOLEAN

AtWork == {"loop", "term", "grace", "over"}

(* A segment waits, runs on the list, or is off it; what was said of it is *)
(* what it came to.                                                        *)
Sorted ==
  \A s \in Segment :
    /\ s \in pending => s \notin running /\ proc[s] = "none" /\ rcs[s] = "none"
    /\ s \in running => proc[s] # "none" /\ rcs[s] = "none"
    /\ Live(s) => rcs[s] = "none" /\ gate \in AtWork
    /\ gate = "loop" /\ s \notin pending \cup running =>
         proc[s] # "none" /\ (rcs[s] # "none" => rcs[s] = proc[s])

(* An exception on its way is never exit code 0.                           *)
Raised == gate \in {"term", "grace"} => rc # 0

(* Once the loop is left, no segment is started and not on the list; and a *)
(* gate that is over has none on it: unless an interrupt slipped through.  *)
Swept ==
  /\ gate \in {"term", "grace", "over"} => slipped \/ Fresh = {}
  /\ gate = "over" => slipped \/ running = {}

(* What is started counts, on the list or not.                             *)
Started == running \cup Fresh
Bounded == Workers # 0 => Cardinality(Started) <= Workers

GateInv == GateVarsOK /\ SlipOK /\ Sorted /\ Raised /\ Swept /\ Bounded /\ GreenMeansAll

LEMMA FiniteSegments ==
  ASSUME NEW S \in SUBSET Segment
  PROVE  IsFiniteSet(S) /\ Cardinality(S) \in Nat
BY GateAssumption, FS_Subset, FS_CardinalityType

(* What GateInv says is what is promised.                                  *)
LEMMA GateInvSound ==
  ASSUME GateInv
  PROVE  GateSound
<1>1. Alive \subseteq Started /\ Started \in SUBSET Segment
  BY DEF GateInv, GateVarsOK, Sorted, Alive, Live, Started, Fresh
<1>2. Cardinality(Alive) <= Cardinality(Started)
  BY <1>1, FiniteSegments, FS_Subset
<1>3. Cardinality(Alive) \in Nat /\ Cardinality(Started) \in Nat
  BY <1>1, FiniteSegments
<1>4. WorkersRespected
  BY <1>2, <1>3, GateAssumption DEF GateInv, Bounded, WorkersRespected
<1>5. NoneLeft
  <2>1. gate = "over" /\ ~slipped => Started = {}
    BY DEF GateInv, Swept, Started
  <2>. QED BY <1>1, <2>1 DEF NoneLeft
<1>. QED BY <1>4, <1>5 DEF GateInv, GateSound

(* The bound stays where nothing new is started.                           *)
LEMMA BoundKept ==
  ASSUME GateVarsOK, Bounded, Started' \subseteq Started
  PROVE  Bounded'
<1>1. Started \in SUBSET Segment /\ Started' \in SUBSET Segment
  BY DEF GateVarsOK, Started, Fresh
<1>2. Cardinality(Started') <= Cardinality(Started)
  BY <1>1, FiniteSegments, FS_Subset
<1>3. Cardinality(Started') \in Nat /\ Cardinality(Started) \in Nat
  BY <1>1, FiniteSegments
<1>. QED BY <1>2, <1>3, GateAssumption DEF Bounded

(* A gate with nothing started: before it, put away, or just called.       *)
LEMMA GateClear ==
  ASSUME gate' \notin {"term", "grace"}, rc' \in {0, 1, 2, 130}, gate' = "over" => rc' # 0,
         gate' = "loop" => pending' = Segment, pending' \in SUBSET Segment,
         running' = {}, proc' = NobodyYet, rcs' = NobodyYet, strays' = {}, slipped' = FALSE
  PROVE  GateInv'
<1>1. Fresh' = {} /\ Started' = {}
  BY DEF Fresh, Started, NobodyYet
<1>2. Bounded'
  BY <1>1, FS_EmptySet, GateAssumption DEF Bounded
<1>3. GateVarsOK' /\ Sorted' /\ Raised' /\ GreenMeansAll'
  BY DEF GateVarsOK, Sorted, Raised, GreenMeansAll, Live, NobodyYet
<1>4. SlipOK' /\ Swept'
  BY <1>1 DEF SlipOK, Swept
<1>. QED BY <1>2, <1>3, <1>4 DEF GateInv

LEMMA CallInv ==
  ASSUME Call
  PROVE  GateInv'
<1>1. CASE gate' = "loop" /\ pending' = Segment /\ rc' = 0
  BY <1>1, GateClear DEF Call
<1>2. CASE gate' = "over" /\ pending' = {} /\ rc' = 2
  <2>1. pending' \in SUBSET Segment /\ rc' \in {0, 1, 2, 130} /\ rc' # 0
    BY <1>2
  <2>. QED BY <1>2, <2>1, GateClear DEF Call
<1>. QED BY <1>1, <1>2 DEF Call

LEMMA PopenInv ==
  ASSUME GateInv, NEW s \in Segment, Popen(s)
  PROVE  GateInv'
<1>. USE DEF GateInv, Popen
<1>1. GateVarsOK'
  BY DEF GateVarsOK
<1>2. SlipOK' /\ Swept'
  BY DEF SlipOK, Swept
<1>3. Sorted'
  BY DEF GateVarsOK, Sorted, Live, AtWork
<1>4. Bounded'
  <2>1. Started = running /\ running \in SUBSET Segment
    BY DEF Started, GateVarsOK
  <2>2. Started' \subseteq running \cup {s}
    BY DEF Started, Fresh, GateVarsOK
  <2>3. running \cup {s} \in SUBSET Segment /\ Started' \in SUBSET Segment
    BY <2>1, <2>2
  <2>4. Cardinality(running \cup {s}) <= Cardinality(running) + 1
    <3>1. IsFiniteSet(running) /\ Cardinality(running) \in Nat
      BY <2>1, FiniteSegments
    <3>2. Cardinality(running \cup {s}) =
            IF s \in running THEN Cardinality(running) ELSE Cardinality(running) + 1
      BY <3>1, FS_AddElement
    <3>. QED BY <3>1, <3>2
  <2>5. Cardinality(Started') <= Cardinality(running \cup {s})
    BY <2>2, <2>3, FiniteSegments, FS_Subset
  <2>6. /\ Cardinality(running) \in Nat /\ Cardinality(running \cup {s}) \in Nat
        /\ Cardinality(Started') \in Nat
    BY <2>1, <2>3, FiniteSegments
  <2>. QED BY <2>4, <2>5, <2>6, GateAssumption DEF Slot, Bounded
<1>5. Raised' /\ GreenMeansAll'
  BY DEF Raised, GreenMeansAll
<1>. QED BY <1>1, <1>2, <1>3, <1>4, <1>5

LEMMA RecordInv ==
  ASSUME GateInv, NEW s \in Segment, Record(s)
  PROVE  GateInv'
<1>. USE DEF GateInv, Record
<1>1. GateVarsOK'
  BY DEF GateVarsOK
<1>2. SlipOK' /\ Swept'
  BY DEF SlipOK, Swept
<1>3. Sorted'
  BY DEF Sorted, Live, Fresh
<1>4. Bounded'
  <2>1. Started' \subseteq Started
    BY DEF Started, Fresh
  <2>. QED BY <2>1, BoundKept
<1>5. Raised' /\ GreenMeansAll'
  BY DEF Raised, GreenMeansAll
<1>. QED BY <1>1, <1>2, <1>3, <1>4, <1>5

LEMMA PopenFailsInv ==
  ASSUME GateInv, NEW s \in Segment, PopenFails(s)
  PROVE  GateInv'
<1>. USE DEF GateInv, PopenFails
<1>1. GateVarsOK'
  BY DEF GateVarsOK
<1>2. Fresh' = {}
  BY DEF Fresh, Sorted
<1>3. SlipOK' /\ Swept'
  BY <1>2 DEF SlipOK, Swept
<1>4. Sorted'
  BY DEF Sorted, Live, AtWork
<1>5. Bounded'
  <2>1. Started' \subseteq Started
    BY <1>2 DEF Started
  <2>. QED BY <2>1, BoundKept
<1>6. Raised' /\ GreenMeansAll'
  BY DEF Raised, GreenMeansAll
<1>. QED BY <1>1, <1>3, <1>4, <1>5, <1>6

LEMMA PollInv ==
  ASSUME GateInv, Poll
  PROVE  GateInv'
<1>. USE DEF GateInv, Poll
<1>1. GateVarsOK'
  BY DEF GateVarsOK, Live, Sorted
<1>2. SlipOK' /\ Swept'
  BY DEF SlipOK, Swept
<1>3. Sorted'
  BY DEF GateVarsOK, Sorted, Live, AtWork
<1>4. Bounded'
  <2>1. Started' \subseteq Started
    BY DEF Started, Fresh, GateVarsOK, Sorted, Live
  <2>. QED BY <2>1, BoundKept
<1>5. Raised' /\ GreenMeansAll'
  BY DEF Raised, GreenMeansAll
<1>. QED BY <1>1, <1>2, <1>3, <1>4, <1>5

LEMMA FinishInv ==
  ASSUME GateInv, Finish
  PROVE  GateInv'
<1>. USE DEF GateInv, Finish
<1>1. GateVarsOK'
  BY DEF GateVarsOK
<1>2. Fresh' = {} /\ Started' \subseteq Started
  BY DEF Fresh, Started
<1>3. SlipOK' /\ Swept'
  BY <1>2 DEF SlipOK, Swept
<1>4. Sorted' /\ Raised'
  BY DEF Sorted, Live, AtWork, Raised
<1>5. Bounded'
  BY <1>2, BoundKept
<1>6. GreenMeansAll'
  <2>1. \A s \in Segment : rcs[s] # "none"
    BY DEF Fresh, Sorted
  <2>. QED BY <2>1 DEF Sorted, GreenMeansAll
<1>. QED BY <1>1, <1>3, <1>4, <1>5, <1>6

LEMMA InterruptInv ==
  ASSUME GateInv, Interrupt
  PROVE  GateInv'
<1>. USE DEF GateInv, Interrupt
<1>1. GateVarsOK' /\ Sorted' /\ Raised' /\ GreenMeansAll'
  BY DEF GateVarsOK, Sorted, Live, AtWork, Raised, GreenMeansAll
<1>2. Fresh' = Fresh /\ Started' \subseteq Started
  BY DEF Fresh, Started
<1>3. SlipOK' /\ Swept'
  BY <1>2, Zenon DEF SlipOK, Swept
<1>4. Bounded'
  BY <1>2, BoundKept
<1>. QED BY <1>1, <1>3, <1>4

LEMMA TermInv ==
  ASSUME GateInv, Term
  PROVE  GateInv'
<1>. USE DEF GateInv
<1>1. PICK heed \in SUBSET (Alive \cap running) :
        proc' = [s \in Segment |-> IF s \in heed THEN "red" ELSE proc[s]]
  BY DEF Term
<1>2. /\ gate = "term" /\ gate' = "grace" /\ strays' \subseteq Segment
      /\ UNCHANGED <<rc, pending, running, rcs, slipped>>
  BY DEF Term, Alive
<1>3. GateVarsOK'
  BY <1>1, <1>2 DEF GateVarsOK
<1>4. Sorted' /\ Raised' /\ GreenMeansAll'
  BY <1>1, <1>2 DEF GateVarsOK, Sorted, Live, Alive, AtWork, Raised, GreenMeansAll
<1>5. Fresh' \subseteq Fresh
  BY <1>1, <1>2 DEF Fresh, GateVarsOK, Alive
<1>6. SlipOK' /\ Swept'
  <2>1. SlipOK'
    BY <1>2, Zenon DEF SlipOK
  <2>2. Fresh = {} => Fresh' = {}
    BY <1>5
  <2>. QED BY <1>2, <2>1, <2>2 DEF Swept
<1>7. Bounded'
  <2>1. Started' \subseteq Started
    BY <1>2, <1>5 DEF Started
  <2>. QED BY <2>1, BoundKept
<1>. QED BY <1>3, <1>4, <1>6, <1>7

LEMMA ReapInv ==
  ASSUME GateInv, NEW s \in Segment, Reap(s)
  PROVE  GateInv'
<1>. USE DEF GateInv, Reap
<1>1. proc'[s] \in {"green", "red"} /\ \A r \in Segment \ {s} : proc'[r] = proc[r] /\ rcs'[r] = rcs[r]
  BY DEF GateVarsOK, Live, Sorted
<1>2. rcs'[s] = proc'[s]
  BY DEF GateVarsOK
<1>3. GateVarsOK'
  BY <1>1 DEF GateVarsOK
<1>4. Sorted'
  BY <1>1, <1>2 DEF Sorted, Live, AtWork
<1>5. Fresh' \subseteq Fresh
  BY <1>1, <1>2 DEF Fresh
<1>6. SlipOK' /\ Swept'
  BY <1>5 DEF SlipOK, Swept
<1>7. Bounded'
  <2>1. Started' \subseteq Started
    BY <1>5 DEF Started
  <2>. QED BY <2>1, BoundKept
<1>8. Raised' /\ GreenMeansAll'
  BY DEF Raised, GreenMeansAll
<1>. QED BY <1>3, <1>4, <1>6, <1>7, <1>8

LEMMA RaiseInv ==
  ASSUME GateInv, Raise
  PROVE  GateInv'
<1>. USE DEF GateInv, Raise
<1>1. GateVarsOK' /\ Sorted' /\ Raised' /\ GreenMeansAll'
  BY DEF GateVarsOK, Sorted, Live, AtWork, Raised, GreenMeansAll
<1>2. Fresh' = Fresh /\ Started' \subseteq Started
  BY DEF Fresh, Started
<1>3. SlipOK' /\ Swept'
  BY <1>2 DEF SlipOK, Swept
<1>4. Bounded'
  BY <1>2, BoundKept
<1>. QED BY <1>1, <1>3, <1>4

LEMMA InterruptAgainInv ==
  ASSUME GateInv, InterruptAgain
  PROVE  GateInv'
<1>. USE DEF GateInv, InterruptAgain
<1>1. GateVarsOK' /\ Sorted' /\ Raised' /\ GreenMeansAll'
  BY DEF GateVarsOK, Sorted, Live, AtWork, Raised, GreenMeansAll
<1>2. Started' \subseteq Started
  BY DEF Fresh, Started
<1>3. SlipOK' /\ Swept'
  BY DEF SlipOK, Swept
<1>4. Bounded'
  BY <1>2, BoundKept
<1>. QED BY <1>1, <1>3, <1>4

LEMMA SegmentInv ==
  ASSUME GateInv, NEW s \in Segment, SegEnds(s) \/ SegHangs(s)
  PROVE  GateInv'
<1>. USE DEF GateInv, SegEnds, SegHangs
<1>1. /\ proc[s] = "runs" /\ proc'[s] \in {"green", "red", "hangs"}
      /\ \A r \in Segment \ {s} : proc'[r] = proc[r]
      /\ UNCHANGED <<gate, rc, pending, running, rcs, strays, slipped>>
  BY DEF GateVarsOK
<1>2. GateVarsOK'
  BY DEF GateVarsOK
<1>3. Sorted' /\ Raised' /\ GreenMeansAll'
  BY <1>1 DEF Sorted, Live, AtWork, Raised, GreenMeansAll
<1>4. Fresh' \subseteq Fresh
  BY <1>1 DEF Fresh
<1>5. SlipOK' /\ Swept'
  <2>1. SlipOK'
    BY <1>1, Zenon DEF SlipOK
  <2>2. Fresh = {} => Fresh' = {}
    BY <1>4
  <2>. QED BY <1>1, <2>1, <2>2 DEF Swept
<1>6. Bounded'
  <2>1. Started' \subseteq Started
    BY <1>1, <1>4 DEF Started
  <2>. QED BY <2>1, BoundKept
<1>. QED BY <1>2, <1>3, <1>5, <1>6

LEMMA GateStutter ==
  ASSUME GateInv, UNCHANGED <<gate, rc, pending, running, proc, rcs, slipped>>, strays' \subseteq strays
  PROVE  GateInv'
<1>. USE DEF GateInv
<1>1. GateVarsOK' /\ Sorted' /\ Raised' /\ GreenMeansAll'
  BY DEF GateVarsOK, Sorted, Live, Raised, GreenMeansAll
<1>2. Fresh' = Fresh /\ Started' \subseteq Started
  BY DEF Fresh, Started
<1>3. SlipOK' /\ Swept'
  BY <1>2 DEF SlipOK, Swept
<1>4. Bounded'
  BY <1>2, BoundKept
<1>. QED BY <1>1, <1>3, <1>4

LEMMA StrayInv ==
  ASSUME GateInv, NEW s \in Segment, StrayEnds(s)
  PROVE  GateInv'
BY GateStutter DEF StrayEnds

LEMMA GateStill ==
  ASSUME GateInv, UNCHANGED gateVars
  PROVE  GateInv'
BY GateStutter DEF gateVars

LEMMA GateStepInv ==
  ASSUME GateInv, GateNext
  PROVE  GateInv'
BY CallInv, PopenInv, RecordInv, PopenFailsInv, PollInv, FinishInv, InterruptInv, TermInv, ReapInv,
   RaiseInv, InterruptAgainInv, SegmentInv, StrayInv
   DEF GateNext, GateStep

LEMMA GateInvInit ==
  ASSUME GateInit
  PROVE  GateInv
<1>1. Fresh = {} /\ Started = {}
  BY DEF GateInit, Fresh, Started, NobodyYet
<1>2. Bounded
  BY <1>1, FS_EmptySet, GateAssumption DEF Bounded
<1>3. GateVarsOK /\ Sorted /\ Raised /\ GreenMeansAll
  BY DEF GateInit, GateVarsOK, Sorted, Raised, GreenMeansAll, Live, NobodyYet
<1>4. SlipOK /\ Swept
  BY <1>1 DEF GateInit, SlipOK, Swept
<1>. QED BY <1>2, <1>3, <1>4 DEF GateInv

(* run_parallel_gate: green means that every segment ran and was green, a  *)
(* gate that has ended leaves no segment running, but for an interrupt     *)
(* between Popen and append or a second one in the cleanup, and there are  *)
(* never more segments than workers, those not yet on the list included.   *)
THEOREM GateIsSound == GateSpec => []GateSound
<1>1. GateInit => GateInv
  BY GateInvInit
<1>2. GateInv /\ [GateNext]_gateVars => GateInv'
  BY GateStepInv, GateStill
<1>3. GateInv => GateSound
  BY GateInvSound
<1>. QED BY <1>1, <1>2, <1>3, PTL DEF GateSpec

-----------------------------------------------------------------------------
(* The runner.                                                             *)

Types ==
  /\ gate \in {"none", "loop", "term", "grace", "over", "single", "told"}
  /\ run \in {"off", "next", "read", "write", "put", "start", "gate", "restore", "unwind"}
  /\ selected \in SUBSET Defect /\ left \in SUBSET selected
  /\ cur \in Defect \cup {NoDefect}
  /\ file \in Text /\ {bytes, original} \subseteq Text \cup {NoFile}
  /\ status \in [Defect -> {"none", "PASS", "FAIL", "SKIP", "FAIL-config"}]
  /\ exit \in {0, 1, 3, 4} /\ {config, loaded} \subseteq Version /\ stamp \in Version \cup {NoStamp}
  /\ runs \in 0 .. MaxRuns /\ Len(mishaps) <= MaxMishaps /\ mishaps \in Seq(Mishaps)
  /\ orphans \in SUBSET (Segment \cup {Whole}) /\ saw \in [Segment -> SUBSET (Defect \cup {Cut})]
  /\ witness \in [Defect -> BOOLEAN] /\ troubled \in BOOLEAN

(* A runner with a defect in its hands holds the bytes it has read until   *)
(* it remembers them; its gate is at work only while it waits for it.      *)
Places ==
  /\ (run \notin {"off", "next"}) <=> (cur # NoDefect)
  /\ (run \in {"write", "put"}) <=> (bytes # NoFile)
  /\ run \in {"start", "gate", "restore", "unwind"} => original # NoFile
  /\ run # "gate" => gate = "none"
  /\ gate \in AtWork => cur \in Tests

(* What is in the target, in what is held and in what is remembered.       *)
Files ==
  /\ run \in {"off", "next"} => Killed \/ file.bugs = {}
  /\ run \in {"read", "write"} => file.bugs = {}
  /\ run \in {"put", "start", "gate", "restore", "unwind"} => file.bugs \subseteq {cur}
  /\ run \in {"put", "start", "gate"} => troubled \/ file.bugs = {cur}
  /\ \E d : file.bugs \subseteq {d}
  /\ file.edits <= Len(mishaps)
  /\ bytes # NoFile => bytes.bugs = {} /\ bytes.edits <= Len(mishaps)
  /\ original # NoFile => original.bugs = {} /\ original.edits <= Len(mishaps)

(* What a passed defect rests on.                                          *)
Evidence ==
  /\ \A d \in selected : status[d] = "none" => d \in left
  /\ \A d \in Defect : status[d] = "PASS" => witness[d] \/ troubled
  /\ troubled \/ gate \notin {"term", "grace"}
  /\ gate = "loop" =>
       troubled \/ \A s \in Segment : proc[s] \in {"green", "red"} => saw[s] = {cur}
  /\ gate = "over" /\ rc \in {0, 1} => troubled \/ \A s \in Segment : saw[s] = {cur}

Inv == GateInv /\ Types /\ Places /\ Files /\ Evidence

LEMMA Texts0 == Committed \in Text /\ NoFile \notin Text /\ Torn \in Text
BY MutationAssumption DEF Committed, Torn, Text

(* The account of what went wrong.                                         *)
LEMMA MishapNoted ==
  ASSUME Types, NEW m \in Mishaps, Mishap(m)
  PROVE  /\ mishaps' \in Seq(Mishaps) /\ Len(mishaps') <= MaxMishaps
         /\ Len(mishaps) \in Nat /\ Len(mishaps') = Len(mishaps) + 1
         /\ Killed => Killed'
         /\ m \in {"kill", "slip"} => Killed'
<1>1. mishaps \in Seq(Mishaps) /\ mishaps' = Append(mishaps, m) /\ Len(mishaps) < MaxMishaps
      /\ MaxMishaps \in Nat
  BY MutationAssumption DEF Types, Mishap
<1>2. /\ mishaps' \in Seq(Mishaps) /\ Len(mishaps') = Len(mishaps) + 1
      /\ \A i \in DOMAIN mishaps : i \in DOMAIN mishaps' /\ mishaps'[i] = mishaps[i]
      /\ Len(mishaps') \in DOMAIN mishaps' /\ mishaps'[Len(mishaps')] = m
  BY <1>1
<1>. QED BY <1>1, <1>2 DEF Killed

(* More mishaps, and nothing else that Files speaks of.                    *)
LEMMA TextsBounded ==
  ASSUME Types, Files, Len(mishaps) \in Nat, Len(mishaps') = Len(mishaps) + 1
  PROVE  /\ file.edits <= Len(mishaps')
         /\ bytes # NoFile => bytes.edits <= Len(mishaps')
         /\ original # NoFile => original.edits <= Len(mishaps')
<1>1. file.edits \in Nat /\ (bytes # NoFile => bytes.edits \in Nat)
      /\ (original # NoFile => original.edits \in Nat)
  BY DEF Types, Text
<1>. QED BY <1>1 DEF Files

LEMMA MoreMishaps ==
  ASSUME Types, Files, Len(mishaps) \in Nat, Len(mishaps') = Len(mishaps) + 1, Killed => Killed',
         UNCHANGED <<run, cur, file, bytes, original>>, troubled => troubled'
  PROVE  Files'
BY TextsBounded DEF Files

(* A gate that is put away, or is a single process.                        *)
LEMMA AwayInv ==
  ASSUME Away
  PROVE  GateInv'
BY GateClear DEF Away

LEMMA SingleInv ==
  ASSUME GateInv, gate \notin AtWork, gate' \in {"single", "told"}, rc' \in {0, 1, 2, 130},
         UNCHANGED <<pending, running, proc, rcs, strays, slipped>>
  PROVE  GateInv'
<1>. USE DEF GateInv
<1>1. GateVarsOK' /\ Sorted' /\ Raised' /\ GreenMeansAll'
  BY DEF GateVarsOK, Sorted, Live, AtWork, Raised, GreenMeansAll
<1>2. Started' \subseteq Started
  BY DEF Fresh, Started
<1>3. SlipOK' /\ Swept'
  BY DEF SlipOK, Swept
<1>4. Bounded'
  BY <1>2, BoundKept
<1>. QED BY <1>1, <1>3, <1>4

(* Whatever a gate has said is a witness or none.                          *)
LEMMA WitnessType ==
  ASSUME Types, cur \in Defect, Answer
  PROVE  witness' \in [Defect -> BOOLEAN]
BY DEF Types, Answer

LEMMA BeginInv ==
  ASSUME Inv, Begin
  PROVE  Inv'
<1>. USE DEF Inv, Begin
<1>1. GateInv'
  BY GateStill
<1>2. Types'
  <2>1. runs' \in 0 .. MaxRuns /\ loaded' \in Version
    BY MutationAssumption DEF Types, GateWords
  <2>2. witness' \in [Defect -> BOOLEAN] /\ troubled' \in BOOLEAN
    OBVIOUS
  <2>3. status' \in [Defect -> {"none", "PASS", "FAIL", "SKIP", "FAIL-config"}]
    OBVIOUS
  <2>. QED BY <2>1, <2>2, <2>3 DEF Types, world, gateVars, Text
<1>3. Places'
  BY DEF Places, gateVars, AtWork
<1>4. Files'
  BY DEF Files, world, Killed
<1>5. Evidence'
  BY DEF Evidence, Places, gateVars
<1>. QED BY <1>1, <1>2, <1>3, <1>4, <1>5

(* A defect that is not injected gets its outcome at once.                 *)
LEMMA PassOverInv ==
  ASSUME Inv, NEW d \in Defect, Skip(d) \/ Misfit(d)
  PROVE  Inv'
<1>. USE DEF Inv, Skip, Misfit, Outcome, KeepGate
<1>1. GateInv'
  BY GateStill
<1>2. Types'
  BY DEF Types, world, gateVars, Text
<1>3. Places'
  BY DEF Places, gateVars, AtWork
<1>4. Files'
  BY DEF Files, world, Killed
<1>5. Evidence'
  BY DEF Evidence, gateVars, Types
<1>. QED BY <1>1, <1>2, <1>3, <1>4, <1>5

(* The steps by which a defect gets into the target, and out of it.        *)
LEMMA AdmitInv ==
  ASSUME Inv, NEW d \in Defect, Admit(d)
  PROVE  Inv'
<1>. USE DEF Inv, Admit, Keep, KeepGate
<1>1. GateInv'
  BY GateStill
<1>2. file' = file /\ file.bugs = {} /\ d # NoDefect
  BY MutationAssumption DEF TrackedAndDirty, Committed
<1>3. Types'
  BY DEF Types, gateVars
<1>4. Places'
  BY <1>2 DEF Places, gateVars, AtWork
<1>5. Files'
  BY <1>2 DEF Files
<1>6. Evidence'
  BY DEF Evidence, Places, gateVars
<1>. QED BY <1>1, <1>3, <1>4, <1>5, <1>6

LEMMA ReadInv ==
  ASSUME Inv, Read
  PROVE  Inv'
<1>. USE DEF Inv, Read, Keep, KeepGate
<1>1. GateInv'
  BY GateStill
<1>2. file \in Text /\ file # NoFile /\ bytes' = file /\ file.bugs = {} /\ file.edits <= Len(mishaps)
  BY Texts0 DEF Types, Files
<1>3. Types'
  BY <1>2 DEF Types, gateVars
<1>4. Places'
  BY <1>2 DEF Places, gateVars, AtWork
<1>5. Files'
  BY <1>2 DEF Files
<1>6. Evidence'
  BY DEF Evidence, Places, gateVars
<1>. QED BY <1>1, <1>3, <1>4, <1>5, <1>6

LEMMA MisreadInv ==
  ASSUME Inv, Misread
  PROVE  Inv'
<1>. USE DEF Inv, Misread, Outcome, KeepGate
<1>1. GateInv'
  BY GateStill
<1>2. cur \in Defect /\ file.bugs = {}
  BY DEF Types, Places, Files
<1>3. Types'
  BY <1>2 DEF Types, gateVars, world
<1>4. Places'
  BY DEF Places, gateVars, AtWork
<1>5. Files'
  BY <1>2 DEF Files, world
<1>6. Evidence'
  BY <1>2 DEF Evidence, Types, Places, gateVars
<1>. QED BY <1>1, <1>3, <1>4, <1>5, <1>6

LEMMA WriteInv ==
  ASSUME Inv, Write
  PROVE  Inv'
<1>. USE DEF Inv, Write, Keep, KeepGate
<1>1. GateInv'
  BY GateStill
<1>2. cur \in Defect /\ bytes \in Text /\ bytes.bugs = {} /\ bytes.edits <= Len(mishaps)
  BY DEF Types, Places, Files
<1>3. file' \in Text /\ file'.bugs = {cur} /\ file'.edits = bytes.edits
  BY <1>2 DEF Text
<1>4. Types'
  BY <1>3 DEF Types, gateVars
<1>5. Places'
  BY DEF Places, gateVars, AtWork
<1>6. Files'
  <2>1. \E e : file'.bugs \subseteq {e}
    BY <1>3
  <2>. QED BY <1>2, <1>3, <2>1 DEF Files
<1>7. Evidence'
  BY DEF Evidence, Places, gateVars
<1>. QED BY <1>1, <1>4, <1>5, <1>6, <1>7

LEMMA RememberInv ==
  ASSUME Inv, Remember
  PROVE  Inv'
<1>. USE DEF Inv, Remember, Keep, KeepGate
<1>1. GateInv'
  BY GateStill
<1>2. bytes \in Text /\ bytes # NoFile /\ bytes.bugs = {} /\ bytes.edits <= Len(mishaps)
  BY DEF Types, Places, Files
<1>3. Types'
  BY <1>2 DEF Types, gateVars
<1>4. Places'
  BY <1>2 DEF Places, gateVars, AtWork
<1>5. Files'
  BY <1>2 DEF Files
<1>6. Evidence'
  BY DEF Evidence, Places, gateVars
<1>. QED BY <1>1, <1>3, <1>4, <1>5, <1>6

(* At the end of a defect, and in the finally of a Ctrl-C.                 *)
LEMMA RestoreInv ==
  ASSUME Inv, Restore \/ PutBack
  PROVE  Inv'
<1>. USE DEF Inv, Restore, PutBack, Keep, KeepGate
<1>1. GateInv'
  BY GateStill
<1>2. /\ file' = original /\ original \in Text /\ original # NoFile
      /\ original.bugs = {} /\ original.edits <= Len(mishaps)
  BY DEF Types, Places, Files
<1>3. run' \in {"next", "off"} /\ cur' = NoDefect
  OBVIOUS
<1>4. Types'
  BY <1>2, <1>3 DEF Types, gateVars
<1>5. Places'
  BY <1>3 DEF Places, gateVars, AtWork
<1>6. Files'
  <2>1. \E e : file'.bugs \subseteq {e}
    BY <1>2
  <2>. QED BY <1>2, <1>3, <2>1 DEF Files, Places
<1>7. Evidence'
  BY DEF Evidence, Places, gateVars
<1>. QED BY <1>1, <1>4, <1>5, <1>6, <1>7

LEMMA StartGateInv ==
  ASSUME Inv, StartGate
  PROVE  Inv'
<1>. USE DEF Inv, StartGate
<1>1. gate = "none" /\ run = "start" /\ run' = "gate" /\ UNCHANGED <<world, runner, troubled, mishaps>>
  BY DEF Places
<1>2. GateInv'
  <2>1. CASE IsSplit /\ Call
    BY <2>1, CallInv
  <2>2. CASE ~IsSplit /\ Single
    <3>1. gate \notin AtWork /\ rc \in {0, 1, 2, 130}
      BY <1>1 DEF AtWork, GateInv, GateVarsOK
    <3>. QED BY <2>2, <3>1, SingleInv DEF Single
  <2>. QED BY <2>1, <2>2
<1>3. gate' \in {"loop", "over", "single"} /\ (gate' \in {"loop", "over"} => cur \in Tests)
  BY DEF Call, Single, IsSplit
<1>4. gate' = "loop" => \A s \in Segment : proc'[s] = "none"
  BY DEF Call, Single, NobodyYet
<1>5. gate' = "over" => rc' = 2
  BY DEF Call, Single
<1>6. Types'
  BY <1>1, <1>3 DEF Types, world, runner, Text
<1>7. Places'
  BY <1>1, <1>3 DEF Places, runner, AtWork
<1>8. Files'
  BY <1>1 DEF Files, world, runner
<1>9. Evidence'
  BY <1>1, <1>3, <1>4, <1>5 DEF Evidence, runner
<1>. QED BY <1>2, <1>6, <1>7, <1>8, <1>9

(* No answer and a code that is none never pass a defect.                  *)
LEMMA Judged ==
  ASSUME NEW d \in Defect, NEW code
  PROVE  /\ Judge(d, code) \in {"PASS", "FAIL"}
         /\ Judge(d, NoAnswer) = "FAIL"
         /\ d \notin Guarded /\ Judge(d, code) = "PASS" => code \in {0, 1}
BY DEF Judge

LEMMA AnswerInv ==
  ASSUME Inv, Answer
  PROVE  Inv'
<1>. USE DEF Inv, Answer, AfterGate, Verdict, Outcome
<1>1. GateInv'
  BY AwayInv
<1>2. cur \in Defect
  BY DEF Places, Types
<1>3. Types'
  <2>1. orphans' \in SUBSET (Segment \cup {Whole})
    BY DEF Types, Behind, Alive, GateInv, GateVarsOK
  <2>2. witness' \in [Defect -> BOOLEAN]
    BY <1>2, WitnessType
  <2>3. status' \in [Defect -> {"none", "PASS", "FAIL", "SKIP", "FAIL-config"}]
    BY <1>2, Judged DEF Types
  <2>. QED BY <2>1, <2>2, <2>3 DEF Types, Text, Away
<1>4. Places'
  BY DEF Places, Away, AtWork
<1>5. Files'
  BY DEF Files
<1>6. Evidence'
  <2>1. ASSUME Judge(cur, rc) = "PASS", ~troubled
        PROVE  witness'[cur]
    <3>1. CASE gate = "over"
      <4>1. cur \in Tests /\ rc \in {0, 1}
        BY <1>2, <2>1, <3>1, Judged, MutationAssumption DEF Places, AtWork
      <4>2. \A s \in Segment : saw[s] = {cur}
        BY <2>1, <3>1, <4>1 DEF Evidence
      <4>. QED BY <1>2, <3>1, <4>2 DEF Types
    <3>2. CASE gate = "told" /\ cur \notin Guarded
      <4>1. file.bugs = {cur}
        BY <2>1 DEF Files
      <4>. QED BY <1>2, <3>2, <4>1 DEF Types
    <3>3. CASE gate # "over" /\ ~(gate = "told" /\ cur \notin Guarded)
      BY <1>2, <3>3 DEF Types
    <3>. QED BY <3>1, <3>2, <3>3
  <2>2. Judge(cur, rc) = "PASS" => witness'[cur] \/ troubled
    BY <2>1
  <2>3. \A d \in Defect : status'[d] = "PASS" => witness'[d] \/ troubled
    BY <1>2, <2>2 DEF Types, Evidence
  <2>4. \A d \in selected : status'[d] = "none" => d \in left'
    BY <1>2, Judged DEF Types, Evidence
  <2>. QED BY <2>3, <2>4 DEF Evidence, Away
<1>. QED BY <1>1, <1>3, <1>4, <1>5, <1>6

LEMMA TimeoutInv ==
  ASSUME Inv, Timeout
  PROVE  Inv'
<1>. USE DEF Inv, Timeout, AfterGate, Verdict, Outcome
<1>1. GateInv'
  BY AwayInv
<1>2. cur \in Defect
  BY DEF Places, Types
<1>3. Types'
  <2>1. orphans' \in SUBSET (Segment \cup {Whole})
    BY DEF Types, Behind, Alive, GateInv, GateVarsOK
  <2>2. status' \in [Defect -> {"none", "PASS", "FAIL", "SKIP", "FAIL-config"}]
    BY <1>2, Judged DEF Types
  <2>. QED BY <2>1, <2>2 DEF Types, Text, Away
<1>4. Places'
  BY DEF Places, Away, AtWork
<1>5. Files'
  BY DEF Files
<1>6. Evidence'
  BY <1>2, Judged DEF Evidence, Types, Away
<1>. QED BY <1>1, <1>3, <1>4, <1>5, <1>6

LEMMA ConcludeInv ==
  ASSUME Inv, Conclude
  PROVE  Inv'
<1>. USE DEF Inv, Conclude, KeepGate
<1>1. GateInv'
  BY GateStill
<1>2. exit' \in {0, 1, 3, 4} /\ stamp' \in Version \cup {NoStamp}
  BY DEF Types, WriteStamp, PerimeterBlob
<1>3. Types'
  BY <1>2 DEF Types, gateVars
<1>4. Places'
  BY DEF Places, gateVars, AtWork
<1>5. Files'
  BY DEF Files, Killed
<1>6. Evidence'
  BY DEF Evidence, gateVars
<1>. QED BY <1>1, <1>3, <1>4, <1>5, <1>6

-----------------------------------------------------------------------------
(* The gate and its segments under the runner.                             *)

LEMMA GateWorksInv ==
  ASSUME Inv, GateWorks
  PROVE  Inv'
<1>. USE DEF Inv, GateWorks, Around
<1>1. GateNext
  BY DEF GateNext, GateStep
<1>2. GateInv'
  BY <1>1, GateStepInv
<1>3. (gate' \in {"loop", "grace", "over"} /\ gate \in AtWork) \/ gate' = gate
  BY DEF Poll, Finish, Term, Raise, Popen, Record, Reap, StrayEnds, AtWork
<1>4. Types'
  BY <1>3 DEF Types, world, runner, Text
<1>5. Places'
  BY <1>3 DEF Places, world, runner, AtWork
<1>6. Files'
  BY DEF Files, world, runner, Killed
<1>7. Evidence'
  <2>1. SUFFICES ASSUME ~troubled
                 PROVE  /\ gate' \notin {"term", "grace"}
                        /\ gate' = "loop" => \A s \in Segment : proc'[s] \in {"green", "red"} => saw[s] = {cur}
                        /\ gate' = "over" /\ rc' \in {0, 1} => \A s \in Segment : saw[s] = {cur}
    BY DEF Evidence, world, runner
  <2>2. /\ gate \notin {"term", "grace"}
        /\ gate = "loop" => \A s \in Segment : proc[s] \in {"green", "red"} => saw[s] = {cur}
        /\ gate = "over" /\ rc \in {0, 1} => \A s \in Segment : saw[s] = {cur}
    BY <2>1 DEF Evidence
  <2>3. CASE Poll
    BY <2>2, <2>3 DEF Poll
  <2>4. CASE Finish
    <3>1. \A s \in Segment : proc[s] \in {"green", "red"}
      BY <2>4 DEF Finish, GateInv, GateVarsOK, Sorted, Fresh
    <3>. QED BY <2>2, <2>4, <3>1 DEF Finish
  <2>5. CASE \E s \in Segment : Popen(s)
    BY <2>2, <2>5 DEF Popen, GateInv, GateVarsOK
  <2>6. CASE \E s \in Segment : Record(s) \/ StrayEnds(s)
    BY <2>2, <2>6 DEF Record, StrayEnds
  <2>7. ~Term /\ ~Raise /\ ~\E s \in Segment : Reap(s)
    BY <2>2 DEF Term, Raise, Reap
  <2>. QED BY <2>3, <2>4, <2>5, <2>6, <2>7
<1>. QED BY <1>2, <1>4, <1>5, <1>6, <1>7

LEMMA GateCrashesInv ==
  ASSUME Inv, GateCrashes
  PROVE  Inv'
<1>. USE DEF Inv, GateCrashes, Around
<1>1. GateInv'
  BY InterruptInv, InterruptAgainInv, PopenFailsInv
<1>2. /\ mishaps' \in Seq(Mishaps) /\ Len(mishaps') <= MaxMishaps
      /\ Len(mishaps) \in Nat /\ Len(mishaps') = Len(mishaps) + 1 /\ (Killed => Killed')
  BY MishapNoted DEF Mishaps
<1>3. gate \in AtWork /\ gate' \in {"term", "over"} /\ rc' \in {1, 130}
      /\ (gate' = "over" => rc' = 130)
  BY DEF Interrupt, InterruptAgain, PopenFails, AtWork
<1>4. Types'
  BY <1>2, <1>3 DEF Types, world, runner, Text
<1>5. Places'
  BY <1>3 DEF Places, world, runner, AtWork
<1>6. Files'
  BY <1>2, MoreMishaps DEF world, runner
<1>7. Evidence'
  BY <1>3 DEF Evidence, world, runner
<1>. QED BY <1>1, <1>4, <1>5, <1>6, <1>7

LEMMA SegmentEndsInv ==
  ASSUME Inv, NEW s \in Segment, SegmentEnds(s)
  PROVE  Inv'
<1>. USE DEF Inv, SegmentEnds, SegEnds, Around
<1>1. GateInv'
  BY SegmentInv
<1>2. gate \in AtWork /\ run = "gate"
  BY DEF Live, GateInv, Sorted, Places, AtWork
<1>3. Types'
  BY DEF Types, world, runner, Text
<1>4. Places'
  BY DEF Places, world, runner
<1>5. Files'
  BY DEF Files, world, runner, Killed
<1>6. Evidence'
  BY <1>2 DEF Evidence, Files, world, runner, Types, GateInv, GateVarsOK
<1>. QED BY <1>1, <1>3, <1>4, <1>5, <1>6

LEMMA SegmentHangsInv ==
  ASSUME Inv, NEW s \in Segment, SegmentHangs(s)
  PROVE  Inv'
<1>. USE DEF Inv, SegmentHangs, Around, SegHangs
<1>1. GateInv'
  BY SegmentInv
<1>2. Types'
  BY DEF Types, world, runner, Text
<1>3. Places'
  BY DEF Places, world, runner
<1>4. Files'
  BY DEF Files, world, runner, Killed
<1>5. Evidence'
  BY DEF Evidence, world, runner, GateInv, GateVarsOK
<1>. QED BY <1>1, <1>2, <1>3, <1>4, <1>5

LEMMA SingleAnswersInv ==
  ASSUME Inv, SingleAnswers
  PROVE  Inv'
<1>. USE DEF Inv, SingleAnswers, Around
<1>1. rc' \in {0, 1, 2, 130} /\ gate \notin AtWork /\ gate' = "told"
  BY DEF GuardAnswer, AtWork
<1>2. GateInv'
  BY <1>1, SingleInv
<1>3. Types'
  BY DEF Types, world, runner, Text
<1>4. Places'
  BY DEF Places, world, runner, AtWork
<1>5. Files'
  BY DEF Files, world, runner, Killed
<1>6. Evidence'
  BY DEF Evidence, world, runner
<1>. QED BY <1>2, <1>3, <1>4, <1>5, <1>6

LEMMA OrphanEndsInv ==
  ASSUME Inv, NEW o \in Segment \cup {Whole}, OrphanEnds(o)
  PROVE  Inv'
<1>. USE DEF Inv, OrphanEnds
<1>1. GateInv'
  BY GateStill
<1>2. Types'
  BY DEF Types, gateVars, runner, Text
<1>3. Places'
  BY DEF Places, gateVars, runner
<1>4. Files'
  BY DEF Files, runner, Killed
<1>5. Evidence'
  BY DEF Evidence, gateVars, runner
<1>. QED BY <1>1, <1>2, <1>3, <1>4, <1>5

-----------------------------------------------------------------------------
(* What happens from outside.                                              *)

LEMMA SaveInv ==
  ASSUME Inv, Save
  PROVE  Inv'
<1>. USE DEF Inv, Save
<1>1. GateInv'
  BY GateStill
<1>2. /\ mishaps' \in Seq(Mishaps) /\ Len(mishaps') <= MaxMishaps
      /\ Len(mishaps) \in Nat /\ Len(mishaps') = Len(mishaps) + 1 /\ (Killed => Killed')
  BY MishapNoted DEF Mishaps
<1>3. file.edits \in Nat /\ MaxMishaps \in Nat /\ file.bugs \in SUBSET (Defect \cup {Cut})
  BY MutationAssumption DEF Types, Text
<1>4. file'.bugs \in {file.bugs, {}} /\ file'.edits = file.edits + 1
  OBVIOUS
<1>5. file.edits + 1 <= MaxMishaps /\ file.edits + 1 <= Len(mishaps')
  BY <1>2, <1>3 DEF Files
<1>6. file' \in Text
  BY <1>3, <1>4, <1>5 DEF Text
<1>7. Types'
  BY <1>2, <1>6 DEF Types, gateVars, runner
<1>8. Places'
  BY DEF Places, gateVars, runner
<1>9. Files'
  <2>1. UNCHANGED <<run, cur, bytes, original>> /\ troubled' = TRUE
    BY DEF runner
  <2>2. /\ bytes # NoFile => bytes.bugs = {} /\ bytes.edits <= Len(mishaps')
        /\ original # NoFile => original.bugs = {} /\ original.edits <= Len(mishaps')
    BY <1>2, TextsBounded DEF Files
  <2>3. /\ run \in {"off", "next"} => Killed' \/ file'.bugs = {}
        /\ run \in {"read", "write"} => file'.bugs = {}
        /\ run \in {"put", "start", "gate", "restore", "unwind"} => file'.bugs \subseteq {cur}
        /\ \E e : file'.bugs \subseteq {e}
    BY <1>2, <1>4 DEF Files
  <2>. QED BY <1>4, <1>5, <2>1, <2>2, <2>3 DEF Files
<1>10. Evidence'
  BY DEF Evidence, gateVars, runner
<1>. QED BY <1>1, <1>7, <1>8, <1>9, <1>10

LEMMA EditConfigInv ==
  ASSUME Inv, EditConfig
  PROVE  Inv'
<1>. USE DEF Inv, EditConfig
<1>1. GateInv'
  BY GateStill
<1>2. /\ mishaps' \in Seq(Mishaps) /\ Len(mishaps') <= MaxMishaps
      /\ Len(mishaps) \in Nat /\ Len(mishaps') = Len(mishaps) + 1 /\ (Killed => Killed')
  BY MishapNoted DEF Mishaps
<1>3. Types'
  BY <1>2 DEF Types, gateVars, runner, Text
<1>4. Places'
  BY DEF Places, gateVars, runner
<1>5. Files'
  BY <1>2, MoreMishaps DEF runner
<1>6. Evidence'
  BY DEF Evidence, gateVars, runner
<1>. QED BY <1>1, <1>3, <1>4, <1>5, <1>6

(* What a gate at work leaves when its runner ends or lets go of it.       *)
LEMMA LeaveGateInv ==
  ASSUME Inv, LeaveGate
  PROVE  /\ GateInv' /\ gate' = "none"
         /\ orphans' \in SUBSET (Segment \cup {Whole})
<1>1. GateInv' /\ gate' = "none"
  BY AwayInv DEF LeaveGate, Away
<1>2. orphans' \in SUBSET (Segment \cup {Whole})
  BY DEF Inv, Types, GateInv, GateVarsOK, LeaveGate, Behind, Alive
<1>. QED BY <1>1, <1>2

LEMMA CtrlCInv ==
  ASSUME Inv, CtrlC
  PROVE  Inv'
<1>. USE DEF Inv, CtrlC
<1>1. GateInv' /\ gate' = "none" /\ orphans' \in SUBSET (Segment \cup {Whole})
  BY LeaveGateInv
<1>2. /\ mishaps' \in Seq(Mishaps) /\ Len(mishaps') <= MaxMishaps
      /\ Len(mishaps) \in Nat /\ Len(mishaps') = Len(mishaps) + 1 /\ (Killed => Killed')
  BY MishapNoted DEF Mishaps
<1>3. Types'
  BY <1>1, <1>2 DEF Types, runner, Text
<1>4. Places'
  BY <1>1 DEF Places, runner, AtWork
<1>5. Files'
  <2>1. UNCHANGED <<file, cur, bytes, original, troubled>> /\ run' = "unwind"
    BY DEF runner
  <2>2. file.edits <= Len(mishaps')
    BY <1>2, TextsBounded
  <2>3. /\ bytes # NoFile => bytes.bugs = {} /\ bytes.edits <= Len(mishaps')
        /\ original # NoFile => original.bugs = {} /\ original.edits <= Len(mishaps')
    BY <1>2, TextsBounded DEF Files
  <2>. QED BY <1>2, <2>1, <2>2, <2>3 DEF Files
<1>6. Evidence'
  BY <1>1 DEF Evidence, runner
<1>. QED BY <1>1, <1>3, <1>4, <1>5, <1>6

(* A runner that ends at once: what it leaves in the target is there after *)
(* a kill or a Ctrl-C that slipped through, or held no defect.             *)
LEMMA EndInv ==
  ASSUME Inv, NEW how \in {"kill", "cut", "slip"}, NEW text \in Texts, End(how, text),
         how = "cut" => run \in {"next", "read", "write"} /\ text = file
  PROVE  Inv'
<1>. USE DEF Inv, End
<1>1. GateInv' /\ gate' = "none" /\ orphans' \in SUBSET (Segment \cup {Whole})
  BY LeaveGateInv
<1>2. /\ mishaps' \in Seq(Mishaps) /\ Len(mishaps') <= MaxMishaps
      /\ Len(mishaps) \in Nat /\ Len(mishaps') = Len(mishaps) + 1 /\ (Killed => Killed')
      /\ how \in {"kill", "slip"} => Killed'
  BY MishapNoted DEF Mishaps
<1>3. file' \in Text /\ file' \in {file, Torn}
  BY Texts0 DEF Texts, Types
<1>4. Types'
  BY <1>1, <1>2, <1>3 DEF Types
<1>5. Places'
  BY <1>1 DEF Places, AtWork
<1>6. Files'
  <2>1. original # NoFile => original.bugs = {} /\ original.edits <= Len(mishaps')
    BY <1>2, TextsBounded DEF Files
  <2>2. file'.edits <= Len(mishaps')
    <3>1. file.edits \in Nat /\ file.edits <= Len(mishaps) /\ Torn.edits = 0
      BY DEF Types, Text, Files, Torn
    <3>. QED BY <1>2, <1>3, <3>1
  <2>3. \E e : file'.bugs \subseteq {e}
    BY <1>3 DEF Files, Torn
  <2>4. Killed' \/ file'.bugs = {}
    <3>1. CASE how = "cut"
      BY <1>2, <3>1 DEF Files
    <3>2. CASE how # "cut"
      BY <1>2, <3>2
    <3>. QED BY <3>1, <3>2
  <2>. QED BY <2>1, <2>2, <2>3, <2>4 DEF Files
<1>7. Evidence'
  BY <1>1 DEF Evidence
<1>. QED BY <1>1, <1>4, <1>5, <1>6, <1>7

LEMMA KillInv ==
  ASSUME Inv, KillRunner
  PROVE  Inv'
BY EndInv DEF KillRunner

LEMMA CtrlCBareInv ==
  ASSUME Inv, CtrlCBare
  PROVE  Inv'
<1>1. PICK text \in Texts :
        End(IF run \in {"next", "read", "write"} /\ text = file THEN "cut" ELSE "slip", text)
  BY DEF CtrlCBare
<1>2. CASE run \in {"next", "read", "write"} /\ text = file
  BY <1>1, <1>2, EndInv
<1>3. CASE ~(run \in {"next", "read", "write"} /\ text = file)
  BY <1>1, <1>3, EndInv
<1>. QED BY <1>2, <1>3

-----------------------------------------------------------------------------
LEMMA InvInit ==
  ASSUME Init
  PROVE  Inv
<1>. USE DEF Init
<1>1. GateInv
  BY GateInvInit
<1>2. Types
  <2>1. runs \in 0 .. MaxRuns /\ Len(mishaps) <= MaxMishaps /\ mishaps \in Seq(Mishaps)
    BY MutationAssumption
  <2>2. witness \in [Defect -> BOOLEAN] /\ troubled \in BOOLEAN
    OBVIOUS
  <2>3. status \in [Defect -> {"none", "PASS", "FAIL", "SKIP", "FAIL-config"}]
    OBVIOUS
  <2>. QED BY <2>1, <2>2, <2>3, MutationAssumption, Texts0 DEF Types, GateInit
<1>3. Places
  BY DEF Places, GateInit, AtWork
<1>4. Files
  BY DEF Files, Committed
<1>5. Evidence
  BY DEF Evidence, GateInit
<1>. QED BY <1>1, <1>2, <1>3, <1>4, <1>5 DEF Inv

LEMMA InvNext ==
  ASSUME Inv, [Next]_vars
  PROVE  Inv'
<1>1. CASE Next
  BY <1>1, BeginInv, PassOverInv, AdmitInv, ReadInv, MisreadInv, WriteInv, RememberInv, StartGateInv, AnswerInv,
     TimeoutInv, RestoreInv, ConcludeInv, GateWorksInv, GateCrashesInv, SegmentEndsInv,
     SegmentHangsInv, SingleAnswersInv, OrphanEndsInv, SaveInv, EditConfigInv, CtrlCInv, KillInv,
     CtrlCBareInv
  DEF Next, Runner
<1>2. CASE UNCHANGED vars
  <2>1. GateInv'
    BY <1>2, GateStill DEF vars, Inv
  <2>. QED BY <1>2, <2>1 DEF vars, gateVars, world, runner, Inv, Types, Places, Files, Evidence,
                         Killed
<1>. QED BY <1>1, <1>2

(* The invariant of the runner, the gate's included.                       *)
THEOREM Invariance == Spec => []Inv
BY InvInit, InvNext, PTL DEF Spec

(* The type invariant of the runner: at a defect or between two, what it   *)
(* has read held until it is remembered, remembered while the gate runs.   *)
THEOREM RunnerTypeCorrect == Spec => []TypeOK
<1>1. Inv => TypeOK
  <2>1. SUFFICES ASSUME Inv PROVE TypeOK
    OBVIOUS
  <2>2. slipped \in BOOLEAN
    BY <2>1, Zenon DEF Inv, GateInv, SlipOK
  <2>3. /\ (run \notin {"off", "next"}) = (cur # NoDefect)
        /\ (run \in {"write", "put"}) = (bytes # NoFile)
        /\ run \in {"start", "gate", "restore", "unwind"} => original # NoFile
    BY <2>1 DEF Inv, Places
  <2>. QED BY <2>1, <2>2, <2>3, Zenon DEF Inv, GateInv, GateVarsOK, Types, TypeOK
<1>. QED BY <1>1, Invariance, PTL

(* The gate a runner starts, lets go of, times out or waits for is sound:  *)
(* green and over only with every segment run and green, nobody left but   *)
(* after an interrupt that slipped through, workers respected.             *)
THEOREM RunnerGateSound == Spec => []GateSound
<1>1. Inv => GateSound
  BY GateInvSound DEF Inv
<1>. QED BY <1>1, Invariance, PTL

(* No defect is left in the target but by a runner that was killed or by a *)
(* Ctrl-C between the write and the finally that knows of it, or in the    *)
(* finally; and none is ever remembered as what the target should be.      *)
THEOREM NoDefectStays == Spec => []NothingLeftBehind
<1>1. Inv => NothingLeftBehind
  <2>1. SUFFICES ASSUME Inv PROVE NothingLeftBehind
    OBVIOUS
  <2>2. run \in {"off", "next", "read", "write"} /\ ~Killed => file.bugs = {}
    BY <2>1 DEF Inv, Files
  <2>3. original # NoFile => original.bugs = {}
    BY <2>1 DEF Inv, Files
  <2>4. PICK d : file.bugs \subseteq {d}
    BY <2>1 DEF Inv, Files
  <2>5. IsFiniteSet({d}) /\ Cardinality({d}) = 1
    BY FS_Singleton
  <2>6. IsFiniteSet(file.bugs) /\ Cardinality(file.bugs) <= Cardinality({d})
    BY <2>4, <2>5, FS_Subset
  <2>7. Cardinality(file.bugs) <= 1
    BY <2>5, <2>6, FS_CardinalityType
  <2>. QED BY <2>2, <2>3, <2>7 DEF NothingLeftBehind
<1>. QED BY <1>1, Invariance, PTL

(* A stamp is written by Conclude alone, when every defect of the run has  *)
(* passed; and a defect passes only when a gate went to its end on it.     *)
THEOREM StampsAreEvidence == Spec => StampIsEvidence
<1>1. Inv /\ [Next]_vars => [stamp' # stamp => troubled \/ \A d \in selected : witness[d]]_vars
  <2>1. SUFFICES ASSUME Inv, Next, stamp' # stamp, ~troubled
                 PROVE  \A d \in selected : witness[d]
    BY DEF vars
  <2>2. Conclude
    BY <2>1 DEF Next, Runner, Begin, Answer, Timeout, StartGate, Restore, PutBack, Skip, Misfit,
                Admit, Read, Misread, Write, Remember, GateWorks, GateCrashes, SingleAnswers, SegmentEnds,
                SegmentHangs, OrphanEnds, Save, EditConfig, CtrlC, CtrlCBare, KillRunner, End,
                Around, AfterGate, Keep, KeepGate, world
  <2>3. left = {} /\ ~Failed /\ ~Skipped
    BY <2>1, <2>2 DEF Conclude
  <2>4. \A d \in selected : status[d] = "PASS"
    BY <2>1, <2>3 DEF Inv, Types, Evidence, Failed, Skipped
  <2>. QED BY <2>1, <2>4 DEF Inv, Types, Evidence
<1>. QED BY <1>1, Invariance, PTL DEF Spec, StampIsEvidence

=============================================================================
