------------------------- MODULE CronDispatchProofs -------------------------
(***************************************************************************)
(* What holds of the dispatcher's lock and of the breaker for any number   *)
(* of wrappers, chains by hand and slots, and any limits.                  *)
(***************************************************************************)
EXTENDS CronDispatch, FiniteSetTheorems, FunctionTheorems, TLAPS

PcOf == {"idle", "gate", "mkdir", "read", "judge", "clear", "remake", "write",
         "round", "drain", "work", "unlock", "report", "exit"}
Process == [pc : PcOf, number : Number, old : Pid \cup {NoPid}, again : BOOLEAN, rc : 0 .. 3]

(* What a place in the code says of a process.                             *)
Placed ==
  \A p \in Proc :
    /\ proc[p].pc \in {"judge", "clear"} => proc[p].old \in Pid
    /\ proc[p].pc = "idle" => proc[p].old = NoPid
    /\ proc[p].pc = "work" => p \in Hand

(* Until a lock goes astray, a lock that is held names its holder, or      *)
(* nobody while the holder is about to write its pid.                      *)
Inside == {"write", "round", "drain", "work", "unlock"}
Held ==
  ~strayed =>
    /\ \A p \in Proc : proc[p].pc \in Inside \ {"write"} => lock = Me(p)
    /\ \A p \in Proc : proc[p].pc = "write" => lock = NoPid
    /\ \A p, q \in Proc : proc[p].pc \in Inside /\ proc[q].pc \in Inside => p = q

Inv == TypeOK /\ Placed /\ Held

LEMMA NotPids == NoDir \notin Pid /\ NoPid \notin Pid /\ NoDir # NoPid
BY CronDispatchAssumption DEF Pid, Proc, Number

LEMMA FiniteProc ==
  /\ IsFiniteSet(Proc) /\ Cardinality(Proc) \in Nat
  /\ IsFiniteSet(Number) /\ Cardinality(Number) = Cardinality(Proc) + 1
<1>1. IsFiniteSet(Proc) /\ Cardinality(Proc) \in Nat
  BY CronDispatchAssumption, FS_CardinalityType DEF Proc
<1>. QED BY <1>1, FS_Interval DEF Number

(* There is a number that nobody remembers: one of |Proc| + 1, when the    *)
(* lock and the other processes remember one each.                         *)
LEMMA FreshNumber ==
  ASSUME Inv, NEW p \in Proc, At(p, "idle")
  PROVE  \E n \in Number : <<p, n>> \notin Remembered
<1>1. SUFFICES ASSUME \A n \in Number : <<p, n>> \in Remembered
               PROVE  FALSE
  OBVIOUS
<1>2. \A n \in Number : <<p, n>> # proc[p].old
  BY NotPids DEF Inv, Placed, At, Pid
<1>3. \A n \in Number : lock = <<p, n>> \/ \E q \in Proc \ {p} : proc[q].old = <<p, n>>
  BY <1>1, <1>2 DEF Remembered
<1> DEFINE who == [n \in Number |-> IF lock = <<p, n>> THEN p
                                    ELSE CHOOSE q \in Proc \ {p} : proc[q].old = <<p, n>>]
<1>4. \A n \in Number : \/ who[n] = p /\ lock = <<p, n>>
                        \/ who[n] \in Proc \ {p} /\ proc[who[n]].old = <<p, n>>
  BY <1>3
<1>5. who \in [Number -> Proc]
  BY <1>4
<1> HIDE DEF who
<1>6. Cardinality(Proc) < Cardinality(Number)
  BY FiniteProc
<1>7. PICK m \in Number, n \in Number : m # n /\ who[m] = who[n]
  BY <1>5, <1>6, FiniteProc, FS_PigeonHole
<1>8. <<p, m>> = <<p, n>>
  BY <1>4, <1>7
<1>. QED BY <1>7, <1>8

-----------------------------------------------------------------------------
(* Steps of one process, by what they do to the lock.                      *)

(* p moves and the lock stays: it neither comes to hold it nor, but for a  *)
(* holder that goes on, holds it still.                                    *)
LEMMA HeldKept ==
  ASSUME Inv, NEW p \in Proc, NEW r, proc' = [proc EXCEPT ![p] = r],
         UNCHANGED <<lock, strayed>>,
         \/ r.pc \notin Inside
         \/ r.number = proc[p].number /\ proc[p].pc \in Inside \ {"write"} /\ r.pc \in Inside \ {"write"}
  PROVE  Held'
<1>1. \A q \in Proc : proc'[q] = IF q = p THEN r ELSE proc[q]
  BY DEF Inv, TypeOK
<1>. QED BY <1>1 DEF Inv, Held, Me, Inside

(* p makes the directory.                                                  *)
LEMMA HeldMade ==
  ASSUME Inv, NEW p \in Proc, NEW r, proc' = [proc EXCEPT ![p] = r],
         lock = NoDir, lock' = NoPid, UNCHANGED strayed, r.pc = "write"
  PROVE  Held'
<1>1. \A q \in Proc : proc'[q] = IF q = p THEN r ELSE proc[q]
  BY DEF Inv, TypeOK
<1>2. \A q \in Proc : Me(q) \in Pid
  BY DEF Inv, TypeOK, Me, Pid
<1>3. ~strayed => \A q \in Proc : proc[q].pc \notin Inside
  BY <1>2, NotPids DEF Inv, Held, Inside
<1>. QED BY <1>1, <1>3 DEF Held, Inside

LEMMA WritePidHeld ==
  ASSUME Inv, NEW p \in Proc, WritePid(p)
  PROVE  Held'
<1>1. SUFFICES ASSUME ~strayed PROVE Held'
  BY DEF WritePid, Held
<1>2. /\ lock = NoPid /\ lock' = Me(p) /\ strayed' = strayed
      /\ \A q \in Proc \ {p} : proc[q].pc \notin Inside
  BY <1>1, NotPids DEF Inv, Held, WritePid, At, Inside
<1>3. /\ \A q \in Proc \ {p} : proc'[q] = proc[q]
      /\ proc'[p].pc \in {"round", "work"} /\ proc'[p].number = proc[p].number
  BY <1>2, NotPids DEF WritePid, Inv, TypeOK
<1>. QED BY <1>2, <1>3 DEF Held, Me, Inside

(* A lock in use is not taken away unnoticed.                              *)
LEMMA ClearHeld ==
  ASSUME Inv, NEW p \in Proc, Clear(p)
  PROVE  Held'
<1>1. SUFFICES ASSUME ~strayed' PROVE Held'
  BY DEF Held
<1>2. ~strayed /\ lock \in {NoDir, proc[p].old} /\ ~(lock \in Pid /\ Alive(lock))
  BY <1>1 DEF Clear
<1>3. proc[p].old \in Pid
  BY DEF Clear, At, Inv, Placed
<1>4. \A q \in Proc : proc[q].pc \notin Inside
  <2>1. SUFFICES ASSUME NEW q \in Proc, proc[q].pc \in Inside PROVE FALSE
    OBVIOUS
  <2>2. CASE proc[q].pc = "write"
    BY <1>2, <1>3, <2>2, NotPids DEF Inv, Held
  <2>3. CASE proc[q].pc # "write"
    <3>1. lock = Me(q) /\ Me(q) \in Pid
      BY <1>2, <2>1, <2>3 DEF Inv, Held, TypeOK, Me, Pid
    <3>2. Alive(Me(q))
      BY <2>1 DEF Alive, Me, Inside
    <3>. QED BY <1>2, <3>1, <3>2
  <2>. QED BY <2>2, <2>3
<1>5. \A q \in Proc : proc'[q].pc \notin Inside
  BY <1>4 DEF Clear, To, Inv, TypeOK, Inside
<1>. QED BY <1>5 DEF Held, Inside

LEMMA UnlockHeld ==
  ASSUME Inv, NEW p \in Proc, Unlock(p)
  PROVE  Held'
<1>1. SUFFICES ASSUME ~strayed PROVE Held'
  BY DEF Unlock, Held
<1>2. \A q \in Proc \ {p} : proc[q].pc \notin Inside
  BY <1>1 DEF Inv, Held, Unlock, At, Inside
<1>3. \A q \in Proc : proc'[q].pc \notin Inside
  BY <1>2 DEF Unlock, Exit, Inv, TypeOK, Inside
<1>. QED BY <1>3 DEF Held, Inside

-----------------------------------------------------------------------------
(* Types.                                                                  *)

StateOf(p, r) ==
  /\ r \in Process
  /\ r.pc \in {"judge", "clear"} => r.old \in Pid
  /\ r.pc = "idle" => r.old = NoPid
  /\ r.pc = "work" => p \in Hand

LEMMA StateBefore ==
  ASSUME Inv, NEW p \in Proc
  PROVE  StateOf(p, proc[p])
BY DEF Inv, TypeOK, Placed, StateOf, Process, PcOf

Line == [date : -1 .. LastDay + 1, ok : BOOLEAN, on : Days]

LEMMA ProcMoved ==
  ASSUME Inv, NEW p \in Proc, NEW r, proc' = [proc EXCEPT ![p] = r], StateOf(p, r),
         proc[p].pc = "drain" => \A s \in Issue : chain[s].parent # p,
         UNCHANGED <<day, chain, orphaned, broken, mishaps>>, ledger' \in Seq(Line),
         lock' \in Pid \cup {NoDir, NoPid}, strayed' \in BOOLEAN, stalled' \in BOOLEAN,
         streak' \in [n : 1 .. StalledAfter, at : Days] \cup {NoFile}
  PROVE  TypeOK' /\ Placed'
<1>1. \A q \in Proc : proc'[q] = IF q = p THEN r ELSE proc[q]
  BY DEF Inv, TypeOK
<1>2. proc' \in [Proc -> Process]
  BY DEF Inv, TypeOK, StateOf, Process, PcOf
<1>3. \A s \in Issue : chain'[s].parent # Nobody => At(chain[s].parent, "drain")'
  <2>1. SUFFICES ASSUME NEW s \in Issue, chain[s].parent # Nobody
                 PROVE  proc'[chain[s].parent].pc = "drain"
    BY DEF At
  <2>2. chain[s].parent \in Proc /\ proc[chain[s].parent].pc = "drain"
    BY <2>1 DEF Inv, TypeOK, At, Proc
  <2>3. chain[s].parent # p
    BY <2>2
  <2>. QED BY <1>1, <2>2, <2>3
<1>4. Placed'
  BY <1>1 DEF Inv, Placed, StateOf
<1>. QED BY <1>2, <1>3, <1>4 DEF Inv, TypeOK, Process, PcOf, Line

LEMMA Moves ==
  ASSUME Inv, NEW p \in Proc, NEW pc \in PcOf,
         pc \in {"judge", "clear"} => proc[p].old \in Pid, pc # "idle", pc = "work" => p \in Hand
  PROVE  StateOf(p, [proc[p] EXCEPT !.pc = pc])
BY StateBefore DEF StateOf, Process

LEMMA Exits ==
  ASSUME Inv, NEW p \in Proc, NEW code \in 0 .. 3
  PROVE  StateOf(p, [proc[p] EXCEPT !.pc = IF p \in Cron THEN "report" ELSE "exit",
                                    !.old = NoPid, !.again = FALSE, !.rc = code])
BY StateBefore DEF StateOf, Process, PcOf

(* Every step of a process but the last of its round leaves the rest of    *)
(* the types to ProcMoved.                                                 *)
LEMMA SameOk ==
  ASSUME Inv, NEW p \in Proc, NEW r, proc' = [proc EXCEPT ![p] = r], StateOf(p, r),
         proc[p].pc = "drain" => \A s \in Issue : chain[s].parent # p,
         \/ r.pc \notin Inside
         \/ r.number = proc[p].number /\ proc[p].pc \in Inside \ {"write"} /\ r.pc \in Inside \ {"write"},
         Same, Quiet
  PROVE  Inv'
<1>1. TypeOK' /\ Placed'
  BY ProcMoved DEF Same, Quiet, watch, Inv, TypeOK, Line
<1>2. Held'
  BY HeldKept DEF Same
<1>. QED BY <1>1, <1>2 DEF Inv

LEMMA StartOk ==
  ASSUME Inv, NEW p \in Proc, Start(p)
  PROVE  Inv'
<1>1. PICK n \in Number : proc' = [proc EXCEPT ![p].pc = "gate", ![p].number = n]
  BY FreshNumber DEF Start
<1> DEFINE r == [proc[p] EXCEPT !.pc = "gate", !.number = n]
<1>2. proc' = [proc EXCEPT ![p] = r] /\ StateOf(p, r) /\ r.pc = "gate"
  BY <1>1, StateBefore DEF StateOf, Process, PcOf, Inv, TypeOK
<1>3. proc[p].pc # "drain" /\ Same /\ Quiet
  BY DEF Start, At
<1>. HIDE DEF r
<1>. QED BY <1>2, <1>3, SameOk DEF Inside

(* p goes elsewhere, or ends its round, and the lock stays.                *)
LEMMA GoOk ==
  ASSUME Inv, NEW p \in Proc, NEW pc \in PcOf, To(p, pc), Same, Quiet,
         pc \in {"judge", "clear"} => proc[p].old \in Pid, pc # "idle", pc = "work" => p \in Hand,
         proc[p].pc = "drain" => \A s \in Issue : chain[s].parent # p,
         pc \in Inside => pc # "write" /\ proc[p].pc \in Inside \ {"write"}
  PROVE  Inv'
<1> DEFINE r == [proc[p] EXCEPT !.pc = pc]
<1>1. proc' = [proc EXCEPT ![p] = r]
  BY DEF To, Inv, TypeOK
<1>2. StateOf(p, r)
  BY Moves
<1>3. r.pc = pc /\ r.number = proc[p].number
  BY DEF Inv, TypeOK
<1>. HIDE DEF r
<1>. QED BY <1>1, <1>2, <1>3, SameOk

LEMMA ExitOk ==
  ASSUME Inv, NEW p \in Proc, NEW code \in 0 .. 3, Exit(p, code), Same, Quiet, proc[p].pc # "drain"
  PROVE  Inv'
<1> DEFINE r == [proc[p] EXCEPT !.pc = IF p \in Cron THEN "report" ELSE "exit",
                                !.old = NoPid, !.again = FALSE, !.rc = code]
<1>1. proc' = [proc EXCEPT ![p] = r]
  BY DEF Exit, Inv, TypeOK
<1>2. StateOf(p, r)
  BY Exits
<1>3. r.pc \notin Inside
  BY DEF Inv, TypeOK, Inside
<1>. HIDE DEF r
<1>. QED BY <1>1, <1>2, <1>3, SameOk

LEMMA GateOk ==
  ASSUME Inv, NEW p \in Proc, Gate(p)
  PROVE  Inv'
<1>1. proc[p].pc # "drain" /\ Same /\ Quiet
  BY DEF Gate, At
<1>2. To(p, "exit") \/ Exit(p, 2) \/ To(p, "mkdir")
  BY DEF Gate
<1>. QED BY <1>1, <1>2, GoOk, ExitOk DEF PcOf, Inside

LEMMA ReadPidOk ==
  ASSUME Inv, NEW p \in Proc, ReadPid(p)
  PROVE  Inv'
<1>1. proc[p].pc = "read" /\ Same /\ Quiet
  BY DEF ReadPid, At, Same
<1>2. CASE lock \in Pid
  <2> DEFINE r == [proc[p] EXCEPT !.pc = "judge", !.old = lock]
  <2>1. proc' = [proc EXCEPT ![p] = r]
    BY <1>2 DEF ReadPid, Inv, TypeOK
  <2>2. StateOf(p, r) /\ r.pc = "judge"
    BY <1>2, StateBefore DEF StateOf, Process, PcOf
  <2>. HIDE DEF r
  <2>. QED BY <1>1, <2>1, <2>2, SameOk DEF Inside
<1>3. CASE lock \notin Pid
  BY <1>1, <1>3, ExitOk DEF ReadPid
<1>. QED BY <1>2, <1>3

LEMMA JudgeOk ==
  ASSUME Inv, NEW p \in Proc, Judge(p)
  PROVE  Inv'
<1>1. proc[p].pc = "judge" /\ Same /\ Quiet /\ proc[p].old \in Pid
  BY DEF Judge, At, Same, Inv, Placed
<1>2. Exit(p, 0) \/ To(p, "clear")
  BY DEF Judge
<1>. QED BY <1>1, <1>2, GoOk, ExitOk DEF PcOf, Inside

LEMMA RoundOk ==
  ASSUME Inv, NEW p \in Proc, Round(p)
  PROVE  Inv'
<1>1. proc[p].pc = "round" /\ Same /\ Quiet
  BY DEF Round, At
<1>2. CASE Tripped
  <2> DEFINE r == [proc[p] EXCEPT !.pc = "unlock", !.rc = 3]
  <2>1. proc' = [proc EXCEPT ![p] = r]
    BY <1>2 DEF Round, Inv, TypeOK
  <2>2. proc[p] \in Process /\ 3 \in 0 .. 3
    BY StateBefore DEF StateOf
  <2>3. StateOf(p, r) /\ r.pc = "unlock" /\ r.number = proc[p].number
    BY <2>2 DEF StateOf, Process, PcOf
  <2>. HIDE DEF r
  <2>. QED BY <1>1, <2>1, <2>3, SameOk DEF Inside
<1>3. CASE ~Tripped
  BY <1>1, <1>3, GoOk DEF Round, To, PcOf, Inside
<1>. QED BY <1>2, <1>3

LEMMA FinalSyncOk ==
  ASSUME Inv, NEW p \in Proc, FinalSync(p)
  PROVE  Inv'
BY GoOk DEF FinalSync, Children, At, PcOf, Inside

LEMMA LeaveOk ==
  ASSUME Inv, NEW p \in Proc, Leave(p)
  PROVE  Inv'
<1>1. proc[p].pc = "exit" /\ Same /\ Quiet /\ proc' = [proc EXCEPT ![p] = Gone]
  BY DEF Leave, At
<1>2. StateOf(p, Gone) /\ Gone.pc = "idle"
  BY FiniteProc DEF StateOf, Gone, Process, PcOf, Number
<1>. QED BY <1>1, <1>2, SameOk DEF Inside

(* Steps that change the lock.                                             *)
LEMMA MkdirOk ==
  ASSUME Inv, NEW p \in Proc, Mkdir(p)
  PROVE  Inv'
<1>1. proc[p].pc = "mkdir" /\ Quiet /\ UNCHANGED strayed
  BY DEF Mkdir, At
<1>2. CASE lock = NoDir
  <2> DEFINE r == [proc[p] EXCEPT !.pc = "write"]
  <2>1. proc' = [proc EXCEPT ![p] = r] /\ lock' = NoPid
    BY <1>2 DEF Mkdir, Inv, TypeOK
  <2>2. StateOf(p, r) /\ r.pc = "write"
    BY StateBefore DEF StateOf, Process, PcOf
  <2>. HIDE DEF r
  <2>3. TypeOK' /\ Placed'
    BY <1>1, <2>1, <2>2, ProcMoved DEF Quiet, watch, Inv, TypeOK, Line
  <2>4. Held'
    BY <1>1, <1>2, <2>1, <2>2, HeldMade
  <2>. QED BY <2>3, <2>4 DEF Inv
<1>3. CASE lock # NoDir
  BY <1>1, <1>3, GoOk DEF Mkdir, Same, PcOf, Inside
<1>. QED BY <1>2, <1>3

LEMMA ClearOk ==
  ASSUME Inv, NEW p \in Proc, Clear(p)
  PROVE  Inv'
<1> DEFINE r == [proc[p] EXCEPT !.pc = "remake"]
<1>1. proc' = [proc EXCEPT ![p] = r]
  BY DEF Clear, To, Inv, TypeOK
<1>2. StateOf(p, r)
  BY Moves DEF PcOf
<1>3. proc[p].pc = "clear" /\ lock' = NoDir /\ strayed' \in BOOLEAN /\ Quiet
  BY DEF Clear, At, Inv, TypeOK
<1>. HIDE DEF r
<1>4. TypeOK' /\ Placed'
  BY <1>1, <1>2, <1>3, ProcMoved DEF Quiet, watch, Inv, TypeOK, Line
<1>. QED BY <1>4, ClearHeld DEF Inv

LEMMA RemakeOk ==
  ASSUME Inv, NEW p \in Proc, Remake(p)
  PROVE  Inv'
<1>1. proc[p].pc = "remake" /\ Quiet /\ UNCHANGED strayed
  BY DEF Remake, At
<1>2. CASE lock = NoDir
  <2> DEFINE r == [proc[p] EXCEPT !.pc = "write", !.old = NoPid, !.again = TRUE]
  <2>1. proc' = [proc EXCEPT ![p] = r] /\ lock' = NoPid
    BY <1>2 DEF Remake, Inv, TypeOK
  <2>2. StateOf(p, r) /\ r.pc = "write"
    BY StateBefore DEF StateOf, Process, PcOf
  <2>. HIDE DEF r
  <2>3. TypeOK' /\ Placed'
    BY <1>1, <2>1, <2>2, ProcMoved DEF Quiet, watch, Inv, TypeOK, Line
  <2>4. Held'
    BY <1>1, <1>2, <2>1, <2>2, HeldMade
  <2>. QED BY <2>3, <2>4 DEF Inv
<1>3. CASE lock # NoDir
  BY <1>1, <1>3, ExitOk DEF Remake, Same
<1>. QED BY <1>2, <1>3

LEMMA WritePidOk ==
  ASSUME Inv, NEW p \in Proc, WritePid(p)
  PROVE  Inv'
<1>1. proc[p].pc = "write" /\ Quiet /\ UNCHANGED strayed
  BY DEF WritePid, At
<1>2. lock' \in Pid \cup {NoDir, NoPid}
  BY DEF WritePid, Me, Pid, Inv, TypeOK
<1>3. PICK r : proc' = [proc EXCEPT ![p] = r] /\ StateOf(p, r)
  <2>1. CASE lock = NoDir /\ (p \in Cron \/ proc[p].again)
    <3>1. Exit(p, 1)
      BY <2>1 DEF WritePid
    <3> DEFINE r == [proc[p] EXCEPT !.pc = IF p \in Cron THEN "report" ELSE "exit",
                                    !.old = NoPid, !.again = FALSE, !.rc = 1]
    <3>2. proc' = [proc EXCEPT ![p] = r]
      BY <3>1 DEF Exit, Inv, TypeOK
    <3>3. 1 \in 0 .. 3
      OBVIOUS
    <3>4. StateOf(p, r)
      BY <3>3, Exits
    <3>. QED BY <3>2, <3>4
  <2>2. CASE ~(lock = NoDir /\ (p \in Cron \/ proc[p].again))
    <3> DEFINE r == [proc[p] EXCEPT !.pc = IF p \in Cron THEN "round" ELSE "work", !.again = FALSE]
    <3>1. proc' = [proc EXCEPT ![p] = r]
      BY <2>2 DEF WritePid, Inv, TypeOK
    <3>2. StateOf(p, r)
      BY StateBefore DEF StateOf, Process, PcOf, Proc
    <3>. QED BY <3>1, <3>2
  <2>. QED BY <2>1, <2>2
<1>4. TypeOK' /\ Placed'
  BY <1>1, <1>2, <1>3, ProcMoved DEF Quiet, watch, Inv, TypeOK, Line
<1>. QED BY <1>4, WritePidHeld DEF Inv

LEMMA UnlockOk ==
  ASSUME Inv, NEW p \in Proc, Unlock(p)
  PROVE  Inv'
<1>1. proc[p].pc = "unlock" /\ Quiet /\ lock' = NoDir /\ strayed' \in BOOLEAN
  BY DEF Unlock, At, Inv, TypeOK
<1>2. PICK r : proc' = [proc EXCEPT ![p] = r] /\ StateOf(p, r)
  BY Exits DEF Unlock, Exit, Inv, TypeOK
<1>3. TypeOK' /\ Placed'
  BY <1>1, <1>2, ProcMoved DEF Quiet, watch, Inv, TypeOK, Line
<1>. QED BY <1>3, UnlockHeld DEF Inv

(* The account of the round, and the work of a chain by hand.              *)
LEMMA ReportOk ==
  ASSUME Inv, NEW p \in Proc, Report(p)
  PROVE  Inv'
<1> DEFINE r == [proc[p] EXCEPT !.pc = "exit"]
<1>1. proc' = [proc EXCEPT ![p] = r]
  BY DEF Report, To, Inv, TypeOK
<1>2. StateOf(p, r) /\ r.pc = "exit"
  BY StateBefore DEF StateOf, Process, PcOf
<1>. HIDE DEF r
<1>3. proc[p].pc = "report" /\ Same /\ UNCHANGED <<day, ledger, chain, orphaned, broken, mishaps>>
  BY DEF Report, At
<1>4. Failure \in [n : 1 .. StalledAfter, at : Days]
  <2>1. streak # NoFile => streak.n \in 1 .. StalledAfter
    BY DEF Inv, TypeOK
  <2>. QED BY <2>1 DEF Failure, StalledAfter, Inv, TypeOK
<1>5. streak' \in [n : 1 .. StalledAfter, at : Days] \cup {NoFile} /\ stalled' \in BOOLEAN
  BY <1>4 DEF Report, Inv, TypeOK
<1>6. TypeOK' /\ Placed'
  BY <1>1, <1>2, <1>3, <1>5, ProcMoved DEF Same, Inv, TypeOK, Line
<1>7. Held'
  BY <1>1, <1>2, <1>3, HeldKept DEF Same, Inside
<1>. QED BY <1>6, <1>7 DEF Inv

LEMMA Recorded ==
  ASSUME TypeOK, NEW ok \in BOOLEAN, Record(ok)
  PROVE  ledger' \in Seq(Line)
<1>1. PICK d \in Dates : ledger' = Append(ledger, [date |-> d, ok |-> ok, on |-> day])
  BY DEF Record
<1>2. d \in -1 .. LastDay + 1
  BY <1>1, CronDispatchAssumption DEF Dates, TypeOK, Days
<1>3. [date |-> d, ok |-> ok, on |-> day] \in Line
  BY <1>2 DEF Line, TypeOK
<1>. QED BY <1>1, <1>3 DEF TypeOK, Line

LEMMA HandWorksOk ==
  ASSUME Inv, NEW p \in Proc, HandWorks(p)
  PROVE  Inv'
<1> DEFINE r == [proc[p] EXCEPT !.pc = "unlock"]
<1>1. proc' = [proc EXCEPT ![p] = r]
  BY DEF HandWorks, To, Inv, TypeOK
<1>2. StateOf(p, r) /\ r.pc = "unlock" /\ r.number = proc[p].number
  BY StateBefore DEF StateOf, Process, PcOf
<1>. HIDE DEF r
<1>3. proc[p].pc = "work" /\ UNCHANGED <<day, lock, strayed, chain, orphaned, broken, watch, mishaps>>
  BY DEF HandWorks, At
<1>4. ledger' \in Seq(Line)
  BY Recorded DEF HandWorks, Inv
<1>5. TypeOK' /\ Placed'
  BY <1>1, <1>2, <1>3, <1>4, ProcMoved DEF watch, Inv, TypeOK, Line
<1>6. Held'
  BY <1>1, <1>2, <1>3, HeldKept DEF Inside
<1>. QED BY <1>5, <1>6 DEF Inv

(* Steps of chains and of the world around leave the lock and its holders. *)
LEMMA HeldElse ==
  ASSUME Inv, UNCHANGED <<lock, strayed, proc>>
  PROVE  Placed' /\ Held'
BY DEF Inv, Placed, Held, Me

ChainState == [pc : {"free", "claimed", "leased", "killed", "lost"}, parent : Cron \cup {Nobody}]

(* A chain keeps its parent, loses it, or gets one that is in its round.   *)
LEMMA ElseTyped ==
  ASSUME Inv, UNCHANGED <<lock, strayed, proc, watch>>, ledger' \in Seq(Line),
         UNCHANGED orphaned, day' \in Days, mishaps' \in 0 .. MaxMishaps, broken' \in BOOLEAN,
         chain' \in [Issue -> ChainState],
         \A t \in Issue : \/ chain'[t].parent \in {chain[t].parent, Nobody}
                         \/ At(chain'[t].parent, "drain")
  PROVE  Inv'
<1>1. \A t \in Issue : chain'[t].parent # Nobody => proc'[chain'[t].parent].pc = "drain"
  BY DEF Inv, TypeOK, At
<1>2. TypeOK'
  BY <1>1 DEF watch, Inv, TypeOK, At, Line, ChainState
<1>. QED BY <1>2, HeldElse DEF Inv

LEMMA ChainBefore ==
  ASSUME Inv
  PROVE  /\ chain \in [Issue -> ChainState] /\ ledger \in Seq(Line)
         /\ day \in Days /\ mishaps \in 0 .. MaxMishaps /\ broken \in BOOLEAN
BY DEF Inv, TypeOK, ChainState, Line

LEMMA SpawnOk ==
  ASSUME Inv, NEW p \in Cron, NEW s \in Issue, Spawn(p, s)
  PROVE  Inv'
<1>1. /\ chain' \in [Issue -> ChainState]
      /\ \A t \in Issue : chain'[t].parent = chain[t].parent \/ chain'[t].parent = p
  BY ChainBefore DEF Spawn, ChainState
<1>2. At(p, "drain") /\ UNCHANGED <<lock, strayed, proc, orphaned, watch, ledger, day, mishaps, broken>>
  BY DEF Spawn, Same
<1>. QED BY <1>1, <1>2, ChainBefore, ElseTyped

LEMMA ChainWorkOk ==
  ASSUME Inv, NEW s \in Issue, ChainWork(s) \/ ChainEnds(s)
  PROVE  Inv'
<1>1. UNCHANGED <<lock, strayed, proc, orphaned, day, broken, watch, mishaps>>
  BY DEF ChainWork, ChainGate, ChainEnds, LeaseEnds, Recover, Still
<1>2. ledger' \in Seq(Line)
  <2>1. CASE ChainEnds(s)
    BY <2>1, Recorded DEF ChainEnds, Inv
  <2>2. CASE ~ChainEnds(s)
    BY <2>2, ChainBefore DEF ChainWork, ChainGate, LeaseEnds, Recover
  <2>. QED BY <2>1, <2>2
<1>3. PICK c \in ChainState : /\ chain' = [chain EXCEPT ![s] = c]
                             /\ c.parent \in {chain[s].parent, Nobody}
  <2>1. Free \in ChainState /\ Free.parent = Nobody
    BY DEF Free, ChainState
  <2>2. \A pc \in {"leased", "lost"} : [chain[s] EXCEPT !.pc = pc] \in ChainState
                                      /\ [chain[s] EXCEPT !.pc = pc].parent = chain[s].parent
    BY ChainBefore DEF ChainState
  <2>3. CASE ChainGate(s)
    BY <2>1, <2>2, <2>3, ChainBefore DEF ChainGate
  <2>4. CASE ChainEnds(s) \/ Recover(s)
    BY <2>1, <2>4 DEF ChainEnds, Recover
  <2>5. CASE LeaseEnds(s)
    BY <2>2, <2>5, ChainBefore DEF LeaseEnds
  <2>. QED BY <2>3, <2>4, <2>5 DEF ChainWork
<1>4. /\ chain' \in [Issue -> ChainState]
      /\ \A t \in Issue : chain'[t].parent \in {chain[t].parent, Nobody}
  BY <1>3, ChainBefore
<1>. QED BY <1>1, <1>2, <1>4, ChainBefore, ElseTyped

LEMMA KillChainOk ==
  ASSUME Inv, NEW s \in Issue, KillChain(s)
  PROVE  Inv'
<1>1. mishaps' \in 0 .. MaxMishaps
  BY CronDispatchAssumption, ChainBefore DEF KillChain, Mishap
<1>2. /\ chain' \in [Issue -> ChainState]
      /\ \A t \in Issue : chain'[t].parent \in {chain[t].parent, Nobody}
  BY ChainBefore DEF KillChain, ChainState
<1>3. UNCHANGED <<lock, strayed, proc, orphaned, watch, ledger, day, broken>>
  BY DEF KillChain
<1>. QED BY <1>1, <1>2, <1>3, ChainBefore, ElseTyped

LEMMA WorldOk ==
  ASSUME Inv, NextDay \/ Environment
  PROVE  Inv'
<1>1. UNCHANGED <<ledger, lock, strayed, proc, chain, orphaned, watch>>
  BY DEF NextDay, Environment
<1>2. day' \in Days /\ mishaps' \in 0 .. MaxMishaps /\ broken' \in BOOLEAN
  <2>1. CASE NextDay
    BY <2>1, CronDispatchAssumption, ChainBefore DEF NextDay, Days
  <2>2. CASE Environment
    BY <2>2, CronDispatchAssumption, ChainBefore DEF Environment
  <2>. QED BY <2>1, <2>2
<1>. QED BY <1>1, <1>2, ChainBefore, ElseTyped

LEMMA ChildrenFinite ==
  ASSUME NEW p
  PROVE  IsFiniteSet(Children(p)) /\ Cardinality(Children(p)) \in Nat
<1>1. Children(p) \in SUBSET Issue
  BY DEF Children
<1>2. IsFiniteSet(Children(p))
  BY <1>1, CronDispatchAssumption, FS_Subset
<1>. QED BY <1>2, FS_CardinalityType

LEMMA OrphansGrow ==
  ASSUME TypeOK, NEW p \in Proc, Kill(p)
  PROVE  orphaned' \in Nat /\ orphaned <= orphaned'
<1>1. orphaned' = orphaned + Cardinality(Children(p)) /\ orphaned \in Nat
  BY DEF Kill, TypeOK
<1>. QED BY <1>1, ChildrenFinite

LEMMA KillOk ==
  ASSUME Inv, NEW p \in Proc, Kill(p)
  PROVE  Inv'
<1>1. mishaps' \in 0 .. MaxMishaps
  BY CronDispatchAssumption, ChainBefore DEF Kill, Mishap
<1>2. Gone \in Process /\ StateOf(p, Gone) /\ Gone.pc = "idle"
  BY FiniteProc DEF StateOf, Gone, Process, PcOf, Number
<1>3. /\ proc' = [proc EXCEPT ![p] = Gone]
      /\ \A q \in Proc : proc'[q] = IF q = p THEN Gone ELSE proc[q]
      /\ proc' \in [Proc -> Process]
  BY <1>2 DEF Kill, Inv, TypeOK, Process, PcOf
<1>4. /\ chain' \in [Issue -> ChainState]
      /\ \A t \in Issue : IF chain[t].parent = p THEN chain'[t].parent = Nobody
                                                ELSE chain'[t].parent = chain[t].parent
  BY ChainBefore DEF Kill, ChainState
<1>5. \A t \in Issue : chain'[t].parent # Nobody => proc'[chain'[t].parent].pc = "drain"
  <2>1. SUFFICES ASSUME NEW t \in Issue, chain'[t].parent # Nobody
                 PROVE  proc'[chain'[t].parent].pc = "drain"
    OBVIOUS
  <2>2. chain[t].parent # p /\ chain'[t].parent = chain[t].parent
    BY <1>4, <2>1
  <2>3. chain[t].parent \in Proc /\ proc[chain[t].parent].pc = "drain"
    BY <2>1, <2>2, ChainBefore DEF Inv, TypeOK, At, Proc, ChainState
  <2>. QED BY <1>3, <2>2, <2>3
<1>6. UNCHANGED <<day, ledger, lock, strayed, broken, watch>> /\ orphaned' \in Nat
  BY OrphansGrow DEF Kill, Inv
<1>7. TypeOK'
  BY <1>1, <1>3, <1>4, <1>5, <1>6 DEF watch, At, Inv, TypeOK, Process, PcOf, ChainState
<1>8. Placed'
  BY <1>2, <1>3 DEF Inv, Placed, StateOf
<1>9. Held'
  BY <1>2, <1>3, <1>6, HeldKept DEF Inside
<1>. QED BY <1>7, <1>8, <1>9 DEF Inv

LEMMA InvInit ==
  ASSUME Init
  PROVE  Inv
<1>1. /\ Gone \in Process /\ Gone.pc = "idle" /\ Gone.old = NoPid
      /\ proc \in [Proc -> Process] /\ \A p \in Proc : proc[p] = Gone
  BY FiniteProc DEF Init, Gone, Process, PcOf, Number
<1>2. ledger \in Seq(Line) /\ day \in Days /\ mishaps \in 0 .. MaxMishaps
  BY CronDispatchAssumption DEF Init, Days
<1>3. TypeOK
  <2>1. /\ chain \in [Issue -> [pc : {"free", "claimed", "leased", "killed", "lost"},
                               parent : Cron \cup {Nobody}]]
        /\ \A i \in Issue : chain[i].parent = Nobody
    BY DEF Init, Free
  <2>. QED BY <1>1, <1>2, <2>1 DEF Init, TypeOK, Line, Process, PcOf
<1>4. Placed /\ Held
  BY <1>1 DEF Placed, Held, Inside
<1>. QED BY <1>3, <1>4 DEF Inv

LEMMA InvNext ==
  ASSUME Inv, [Next]_vars
  PROVE  Inv'
<1>1. ASSUME NEW p \in Proc, Work(p)
      PROVE  Inv'
  BY <1>1, GateOk, MkdirOk, ReadPidOk, JudgeOk, ClearOk, RemakeOk, WritePidOk, UnlockOk, RoundOk,
     FinalSyncOk, ReportOk, LeaveOk
  DEF Work
<1>2. CASE UNCHANGED vars
  <2>1. Placed' /\ Held'
    BY <1>2, HeldElse DEF vars
  <2>. QED BY <1>2, <2>1 DEF vars, watch, Inv, TypeOK, At
<1>. QED BY <1>1, <1>2, StartOk, HandWorksOk, KillOk, SpawnOk, ChainWorkOk, KillChainOk, WorldOk DEF Next

(* The invariant of the night: types, who is where, and whose the lock is. *)
THEOREM Invariance == Spec => []Inv
BY InvInit, InvNext, PTL DEF Spec

(* The type invariant: only a process in its round has chains.             *)
THEOREM NightTypeCorrect == Spec => []TypeOK
BY Invariance, PTL DEF Inv

(* Mutual exclusion under the lock directory, for dispatchers and chains   *)
(* by hand alike, as long as nobody removed a lock that was not the one he *)
(* had judged dead, or his own.                                            *)
THEOREM OneDispatcherAtATime == Spec => []OneDispatcher
<1>1. Inv => OneDispatcher
  <2>1. SUFFICES ASSUME Inv, ~strayed PROVE Cardinality(AtWork) <= 1
    BY DEF OneDispatcher
  <2>2. \A p, q \in AtWork : p = q
    BY <2>1 DEF Inv, Held, AtWork, Inside
  <2>3. CASE AtWork = {}
    BY <2>3, FS_EmptySet
  <2>4. CASE AtWork # {}
    <3>1. PICK p : AtWork = {p}
      BY <2>2, <2>4
    <3>. QED BY <3>1, FS_Singleton
  <2>. QED BY <2>3, <2>4
<1>. QED BY <1>1, Invariance, PTL

-----------------------------------------------------------------------------
(* A dispatcher counts its children; chains that lost theirs are counted   *)
(* in orphaned.  So much can work at a time.                               *)

Orphans == {i \in Issue : chain[i].pc \in {"claimed", "leased"} /\ chain[i].parent = Nobody}
Owned == {i \in Issue : chain[i].parent \in Cron}

Pooled ==
  /\ \A p \in Cron : Cardinality(Children(p)) <= MaxParallel
  /\ Cardinality(Orphans) <= orphaned

LEMMA IssueSets ==
  /\ IsFiniteSet(Orphans) /\ Cardinality(Orphans) \in Nat
  /\ IsFiniteSet(Owned) /\ Cardinality(Owned) \in Nat
<1>1. Orphans \in SUBSET Issue /\ Owned \in SUBSET Issue
  BY DEF Orphans, Owned
<1>2. IsFiniteSet(Orphans) /\ IsFiniteSet(Owned)
  BY <1>1, CronDispatchAssumption, FS_Subset
<1>. QED BY <1>2, FS_CardinalityType

LEMMA PooledShrinks ==
  ASSUME TypeOK, Pooled, UNCHANGED orphaned, Orphans' \subseteq Orphans,
         \A p \in Cron : Children(p)' \subseteq Children(p)
  PROVE  Pooled'
<1>1. Cardinality(Orphans') <= Cardinality(Orphans) /\ Cardinality(Orphans') \in Nat
  <2>1. IsFiniteSet(Orphans') /\ Cardinality(Orphans') <= Cardinality(Orphans)
    BY IssueSets, FS_Subset
  <2>. QED BY <2>1, FS_CardinalityType
<1>2. ASSUME NEW p \in Cron
      PROVE  Cardinality(Children(p)') <= MaxParallel
  <2>1. /\ IsFiniteSet(Children(p)')
        /\ Cardinality(Children(p)') <= Cardinality(Children(p))
    BY ChildrenFinite, FS_Subset
  <2>2. Cardinality(Children(p)') \in Nat
    BY <2>1, FS_CardinalityType
  <2>. QED BY <2>1, <2>2, ChildrenFinite, CronDispatchAssumption DEF Pooled
<1>3. Cardinality(Orphans') <= orphaned'
  BY <1>1, IssueSets DEF Pooled, TypeOK
<1>. QED BY <1>2, <1>3 DEF Pooled

LEMMA SpawnPooled ==
  ASSUME TypeOK, Pooled, NEW p \in Cron, NEW s \in Issue, Spawn(p, s)
  PROVE  Pooled'
<1>1. \A t \in Issue : chain'[t] = IF t = s THEN [pc |-> "claimed", parent |-> p] ELSE chain[t]
  BY DEF Spawn, TypeOK
<1>2. UNCHANGED orphaned /\ Cardinality(Children(p)) < MaxParallel
  BY DEF Spawn
<1>3. Cardinality(Orphans') <= orphaned'
  <2>1. Orphans' \subseteq Orphans
    BY <1>1, CronDispatchAssumption DEF Orphans
  <2>2. IsFiniteSet(Orphans') /\ Cardinality(Orphans') <= Cardinality(Orphans)
    BY <2>1, IssueSets, FS_Subset
  <2>3. Cardinality(Orphans') \in Nat
    BY <2>2, FS_CardinalityType
  <2>. QED BY <1>2, <2>2, <2>3, IssueSets DEF Pooled, TypeOK
<1>4. Cardinality(Children(p)') <= MaxParallel
  <2>1. Children(p)' = Children(p) \cup {s}
    BY <1>1 DEF Children
  <2>2. Cardinality(Children(p) \cup {s}) \in {Cardinality(Children(p)), Cardinality(Children(p)) + 1}
    BY ChildrenFinite, FS_AddElement
  <2>. QED BY <1>2, <2>1, <2>2, ChildrenFinite, CronDispatchAssumption
<1>5. ASSUME NEW q \in Cron, q # p
      PROVE  Cardinality(Children(q)') <= MaxParallel
  <2>1. Children(q)' \subseteq Children(q)
    BY <1>1, <1>5 DEF Children
  <2>2. IsFiniteSet(Children(q)') /\ Cardinality(Children(q)') <= Cardinality(Children(q))
    BY <2>1, ChildrenFinite, FS_Subset
  <2>3. Cardinality(Children(q)') \in Nat
    BY <2>2, FS_CardinalityType
  <2>. QED BY <2>2, <2>3, ChildrenFinite, CronDispatchAssumption DEF Pooled
<1>. QED BY <1>3, <1>4, <1>5 DEF Pooled

(* What a killed dispatcher's children were, they are as orphans.          *)
LEMMA KillPooled ==
  ASSUME TypeOK, Pooled, NEW p \in Proc, Kill(p)
  PROVE  Pooled'
<1>1. \A t \in Issue : /\ chain'[t].pc = chain[t].pc
                      /\ chain'[t].parent = IF chain[t].parent = p THEN Nobody ELSE chain[t].parent
  BY DEF Kill, TypeOK
<1>2. Orphans' \subseteq Orphans \cup Children(p)
  BY <1>1 DEF Orphans, Children
<1>3. Cardinality(Orphans') <= orphaned'
  <2>1. /\ IsFiniteSet(Orphans \cup Children(p))
        /\ Cardinality(Orphans \cup Children(p)) =
             Cardinality(Orphans) + Cardinality(Children(p)) - Cardinality(Orphans \cap Children(p))
    BY IssueSets, ChildrenFinite, FS_Union
  <2>2. IsFiniteSet(Orphans \cap Children(p))
    BY ChildrenFinite, FS_Subset
  <2>3. Cardinality(Orphans \cap Children(p)) \in Nat
    BY <2>2, FS_CardinalityType
  <2>4. /\ IsFiniteSet(Orphans')
        /\ Cardinality(Orphans') <= Cardinality(Orphans \cup Children(p))
    BY <1>2, <2>1, FS_Subset
  <2>5. Cardinality(Orphans') \in Nat
    BY <2>4, FS_CardinalityType
  <2>6. orphaned' = orphaned + Cardinality(Children(p)) /\ orphaned \in Nat
    BY DEF Kill, TypeOK
  <2>7. Cardinality(Orphans) <= orphaned
    BY DEF Pooled
  <2>. QED BY <2>1, <2>3, <2>4, <2>5, <2>6, <2>7, IssueSets, ChildrenFinite
<1>4. ASSUME NEW q \in Cron
      PROVE  Cardinality(Children(q)') <= MaxParallel
  <2>1. Children(q)' \subseteq Children(q)
    BY <1>1, CronDispatchAssumption DEF Children
  <2>2. IsFiniteSet(Children(q)') /\ Cardinality(Children(q)') <= Cardinality(Children(q))
    BY <2>1, ChildrenFinite, FS_Subset
  <2>3. Cardinality(Children(q)') \in Nat
    BY <2>2, FS_CardinalityType
  <2>. QED BY <2>2, <2>3, ChildrenFinite, CronDispatchAssumption DEF Pooled
<1>. QED BY <1>3, <1>4 DEF Pooled

LEMMA ChainPooled ==
  ASSUME TypeOK, Pooled, NEW s \in Issue, ChainWork(s) \/ ChainEnds(s) \/ KillChain(s)
  PROVE  Pooled'
<1>1. UNCHANGED orphaned
  BY DEF ChainWork, ChainGate, ChainEnds, LeaseEnds, Recover, KillChain, Still
<1>2. \A t \in Issue \ {s} : chain'[t] = chain[t]
  BY DEF ChainWork, ChainGate, ChainEnds, LeaseEnds, Recover, KillChain, TypeOK
<1>3. \/ chain'[s].parent = Nobody /\ chain'[s].pc \in {"free", "killed", "lost"}
      \/ chain'[s].parent = chain[s].parent /\ chain[s].pc = "claimed"
      \/ chain'[s].parent = chain[s].parent /\ chain'[s].pc = "lost"
  <2>1. CASE ChainGate(s)
    BY <2>1 DEF ChainGate, Free, TypeOK
  <2>2. CASE ChainEnds(s) \/ Recover(s)
    BY <2>2 DEF ChainEnds, Recover, Free, TypeOK
  <2>3. CASE LeaseEnds(s)
    BY <2>3 DEF LeaseEnds, TypeOK
  <2>4. CASE KillChain(s)
    BY <2>4 DEF KillChain, TypeOK
  <2>. QED BY <2>1, <2>2, <2>3, <2>4 DEF ChainWork
<1>4. Orphans' \subseteq Orphans
  BY <1>2, <1>3 DEF Orphans
<1>5. \A p \in Cron : Children(p)' \subseteq Children(p)
  BY <1>2, <1>3, CronDispatchAssumption DEF Children
<1>. QED BY <1>1, <1>4, <1>5, PooledShrinks

LEMMA PooledSame ==
  ASSUME TypeOK, Pooled, UNCHANGED <<chain, orphaned>>
  PROVE  Pooled'
BY PooledShrinks DEF Orphans, Children

LEMMA PooledNext ==
  ASSUME TypeOK, Pooled, [Next]_vars
  PROVE  Pooled'
<1>1. ASSUME NEW p \in Proc, Start(p) \/ Work(p) \/ HandWorks(p)
      PROVE  Pooled'
  <2>1. UNCHANGED <<chain, orphaned>>
    BY <1>1 DEF Start, Work, HandWorks, Gate, Mkdir, ReadPid, Judge, Clear, Remake, WritePid, Unlock,
                Round, FinalSync, Report, Leave, Quiet
  <2>. QED BY <2>1, PooledSame
<1>2. CASE NextDay \/ Environment \/ UNCHANGED vars
  BY <1>2, PooledSame DEF NextDay, Environment, vars
<1>. QED BY <1>1, <1>2, KillPooled, SpawnPooled, ChainPooled DEF Next

LEMMA PooledInit ==
  ASSUME Init
  PROVE  Pooled
<1>1. Orphans = {} /\ \A p \in Cron : Children(p) = {}
  BY CronDispatchAssumption DEF Init, Free, Orphans, Children
<1>2. 0 <= MaxParallel /\ orphaned = 0
  BY CronDispatchAssumption DEF Init
<1>3. Cardinality(Orphans) = 0 /\ \A p \in Cron : Cardinality(Children(p)) = 0
  BY <1>1, FS_EmptySet
<1>. QED BY <1>2, <1>3 DEF Pooled

(* A dispatcher never has more children than MAX_PARALLEL, and no more     *)
(* chains have lost theirs than were counted as orphaned.                  *)
THEOREM PoolsStayBounded == Spec => []Pooled
BY PooledInit, PooledNext, NightTypeCorrect, PTL DEF Spec

(* A number for each child of a dispatcher: no more than MaxParallel.      *)
LEMMA Numbered ==
  ASSUME TypeOK, Pooled, NEW p \in Cron
  PROVE  \E g \in [Children(p) -> 1 .. MaxParallel] :
            \A x, y \in Children(p) : g[x] = g[y] => x = y
<1> DEFINE n == Cardinality(Children(p))
<1>1. n \in Nat /\ n <= MaxParallel /\ ExistsBijection(1 .. n, Children(p))
  BY ChildrenFinite, FS_CardinalityType DEF Pooled
<1>. HIDE DEF n
<1>2. ExistsBijection(Children(p), 1 .. n)
  BY <1>1, Fun_ExistsBijSymmetric
<1>3. PICK g : g \in Bijection(Children(p), 1 .. n)
  BY <1>2 DEF ExistsBijection
<1>4. g \in [Children(p) -> 1 .. n] /\ \A x, y \in Children(p) : g[x] = g[y] => x = y
  BY <1>3 DEF Bijection, Injection, IsInjective
<1>5. g \in [Children(p) -> 1 .. MaxParallel]
  BY <1>1, <1>4, CronDispatchAssumption
<1>. QED BY <1>4, <1>5

LEMMA OwnedFew ==
  ASSUME TypeOK, Pooled
  PROVE  /\ Cardinality(Owned) <= Cardinality(Cron \X (1 .. MaxParallel))
         /\ Cardinality(Cron \X (1 .. MaxParallel)) \in Nat
<1> DEFINE place == Cron \X (1 .. MaxParallel)
           g == [p \in Cron |-> CHOOSE h \in [Children(p) -> 1 .. MaxParallel] :
                                  \A x, y \in Children(p) : h[x] = h[y] => x = y]
           f == [x \in Owned |-> <<chain[x].parent, g[chain[x].parent][x]>>]
<1>1. \A p \in Cron : /\ g[p] \in [Children(p) -> 1 .. MaxParallel]
                     /\ \A x, y \in Children(p) : g[p][x] = g[p][y] => x = y
  BY Numbered
<1>. HIDE DEF g
<1>2. \A x \in Owned : chain[x].parent \in Cron /\ x \in Children(chain[x].parent)
  BY DEF Owned, Children
<1>3. f \in [Owned -> place]
  BY <1>1, <1>2
<1>4. ASSUME NEW x \in Owned, NEW y \in Owned, f[x] = f[y]
      PROVE  x = y
  <2>1. chain[x].parent = chain[y].parent /\ g[chain[x].parent][x] = g[chain[y].parent][y]
    BY <1>4
  <2>. QED BY <1>1, <1>2, <2>1
<1>5. f \in Injection(Owned, place)
  BY <1>3, <1>4 DEF Injection, IsInjective
<1>6. IsFiniteSet(place) /\ Cardinality(place) \in Nat
  <2>1. IsFiniteSet(Cron) /\ IsFiniteSet(1 .. MaxParallel)
    <3>1. Cron \in SUBSET (Cron \cup Hand) /\ 1 \in Int /\ MaxParallel \in Int
      BY CronDispatchAssumption
    <3>. QED BY <3>1, CronDispatchAssumption, FS_Subset, FS_Interval
  <2>2. IsFiniteSet(place)
    BY <2>1, FS_Product
  <2>. QED BY <2>2, FS_CardinalityType
<1>. HIDE DEF f, place
<1>7. Cardinality(Owned) <= Cardinality(place)
  BY <1>5, <1>6, FS_Injection
<1>. QED BY <1>6, <1>7 DEF place

-----------------------------------------------------------------------------
(* How far a day's runs and a streak of failures can pass the limits of    *)
(* the breaker: by less than the number of chains at a time.  The breaker  *)
(* is asked before a chain is let in and told when it ends, so the lines   *)
(* of the ledger are counted together with the chains that were let in.    *)
(* The local day must begin with the UTC day.                              *)

LetIn == {"mkdir", "read", "judge", "clear", "remake", "write", "work"}
Active == Cardinality(Leased) + Cardinality(Cleared)

Lines(d) == {i \in DOMAIN ledger : ledger[i].on = d}
FailLines == {i \in DOMAIN ledger : FailedFrom(i)}

Dated == \A i \in DOMAIN ledger : ledger[i].date = ledger[i].on /\ ledger[i].on <= day

Pot ==
  /\ Cardinality(Lines(day)) + Active < MaxRuns + Chains
  /\ Cardinality(FailLines) + Active < MaxFails + Chains
  /\ \A d \in Days : Cardinality(Lines(d)) < MaxRuns + Chains

Limits == Dated /\ Pot

(* Chains and processes by hand that are at work are at most Chains.       *)
ActiveFew ==
  /\ IsFiniteSet(Leased) /\ IsFiniteSet(Cleared)
  /\ Cardinality(Leased) \in Nat /\ Cardinality(Cleared) \in Nat
  /\ Active \in Nat /\ Chains \in Nat /\ Active <= Chains

LEMMA AtMostChains ==
  ASSUME TypeOK, Pooled
  PROVE  ActiveFew
<1>1. /\ IsFiniteSet(Hand) /\ Cardinality(Hand) \in Nat
      /\ IsFiniteSet(Cleared) /\ Cardinality(Cleared) \in Nat
      /\ Cardinality(Cleared) <= Cardinality(Hand)
  <2>1. IsFiniteSet(Hand) /\ Cleared \in SUBSET Hand
    BY CronDispatchAssumption, FS_Subset DEF Cleared
  <2>2. IsFiniteSet(Cleared) /\ Cardinality(Cleared) <= Cardinality(Hand)
    BY <2>1, FS_Subset
  <2>. QED BY <2>1, <2>2, FS_CardinalityType
<1>2. Leased \subseteq Owned \cup Orphans
  BY DEF Leased, Owned, Orphans, TypeOK
<1>3. /\ IsFiniteSet(Owned \cup Orphans) /\ Cardinality(Owned \cup Orphans) \in Nat
      /\ Cardinality(Owned \cup Orphans) <= Cardinality(Owned) + Cardinality(Orphans)
  <2>1. /\ IsFiniteSet(Owned \cup Orphans)
        /\ Cardinality(Owned \cup Orphans) =
             Cardinality(Owned) + Cardinality(Orphans) - Cardinality(Owned \cap Orphans)
    BY IssueSets, FS_Union
  <2>2. IsFiniteSet(Owned \cap Orphans)
    BY IssueSets, FS_Subset
  <2>3. Cardinality(Owned \cap Orphans) \in Nat /\ Cardinality(Owned \cup Orphans) \in Nat
    BY <2>1, <2>2, FS_CardinalityType
  <2>. QED BY <2>1, <2>3, IssueSets
<1>4. /\ IsFiniteSet(Leased)
      /\ Cardinality(Leased) <= Cardinality(Owned \cup Orphans)
  BY <1>2, <1>3, FS_Subset
<1>5. Cardinality(Leased) \in Nat
  BY <1>4, FS_CardinalityType
<1>6. Cardinality(Orphans) <= orphaned /\ orphaned \in Nat
  BY DEF Pooled, TypeOK
<1>7. Active \in Nat /\ Chains \in Nat /\ Active <= Chains
  BY <1>1, <1>3, <1>4, <1>5, <1>6, IssueSets, OwnedFew DEF Active, Chains
<1>. QED BY <1>1, <1>4, <1>5, <1>7 DEF ActiveFew

(* There are never fewer of them: a killed dispatcher only adds orphans.   *)
Grows == orphaned <= orphaned'
LEMMA ChainsGrow ==
  ASSUME TypeOK, Pooled, TypeOK', Grows
  PROVE  Chains <= Chains' /\ Chains' \in Nat
<1>1. Cardinality(Hand) \in Nat /\ Cardinality(Cron \X (1 .. MaxParallel)) \in Nat
  <2>1. IsFiniteSet(Hand)
    BY CronDispatchAssumption, FS_Subset
  <2>. QED BY <2>1, FS_CardinalityType, OwnedFew
<1>. QED BY <1>1 DEF Grows, Chains, TypeOK

LEMMA OneLess ==
  ASSUME NEW S, IsFiniteSet(S), NEW x \in S
  PROVE  Cardinality(S \ {x}) = Cardinality(S) - 1
BY FS_RemoveElement

LEMMA OneMore ==
  ASSUME NEW S, IsFiniteSet(S), NEW x
  PROVE  /\ IsFiniteSet(S \cup {x})
         /\ Cardinality(S \cup {x}) \in Nat
         /\ Cardinality(S \cup {x}) <= Cardinality(S) + 1
         /\ x \notin S => Cardinality(S \cup {x}) = Cardinality(S) + 1
<1>1. IsFiniteSet(S \cup {x}) /\ Cardinality(S) \in Nat
  BY FS_AddElement, FS_CardinalityType
<1>2. Cardinality(S \cup {x}) \in Nat
  BY <1>1, FS_CardinalityType
<1>3. Cardinality(S \cup {x}) = IF x \in S THEN Cardinality(S) ELSE Cardinality(S) + 1
  BY FS_AddElement
<1>. QED BY <1>1, <1>2, <1>3

LEMMA LinesCount ==
  ASSUME TypeOK
  PROVE  /\ \A d : IsFiniteSet(Lines(d)) /\ Cardinality(Lines(d)) \in Nat
         /\ IsFiniteSet(FailLines) /\ Cardinality(FailLines) \in Nat
<1>1. IsFiniteSet(DOMAIN ledger)
  <2>1. Len(ledger) \in Nat /\ DOMAIN ledger = 1 .. Len(ledger)
    BY DEF TypeOK
  <2>. QED BY <2>1, FS_Interval
<1>2. ASSUME NEW d
      PROVE  IsFiniteSet(Lines(d)) /\ Cardinality(Lines(d)) \in Nat
  <2>1. Lines(d) \in SUBSET DOMAIN ledger
    BY DEF Lines
  <2>2. IsFiniteSet(Lines(d))
    BY <1>1, <2>1, FS_Subset
  <2>. QED BY <2>2, FS_CardinalityType
<1>3. IsFiniteSet(FailLines) /\ Cardinality(FailLines) \in Nat
  <2>1. FailLines \in SUBSET DOMAIN ledger
    BY DEF FailLines
  <2>2. IsFiniteSet(FailLines)
    BY <1>1, <2>1, FS_Subset
  <2>. QED BY <2>2, FS_CardinalityType
<1>. QED BY <1>2, <1>3

(* The counts before and after a step.                                     *)
Counted == TypeOK /\ Pooled /\ TypeOK' /\ Pooled' /\ Grows
LEMMA AtMostChainsImp == TypeOK /\ Pooled => ActiveFew
BY AtMostChains

LEMMA AtMostChainsNext == TypeOK' /\ Pooled' => ActiveFew'
BY AtMostChainsImp, PTL

LEMMA ActiveNow ==
  ASSUME Counted
  PROVE  ActiveFew /\ ActiveFew' /\ Chains <= Chains'
<1>. QED BY AtMostChains, AtMostChainsNext, ChainsGrow DEF Counted

LEMMA SameLines ==
  ASSUME UNCHANGED ledger
  PROVE  /\ \A d : Cardinality(Lines(d)') = Cardinality(Lines(d))
         /\ Cardinality(FailLines') = Cardinality(FailLines)
<1>1. \A d : Lines(d)' = Lines(d)
  BY DEF Lines
<1>2. FailLines' = FailLines
  BY DEF FailLines, FailedFrom
<1>. QED BY <1>1, <1>2

-----------------------------------------------------------------------------
(* Nobody is let in, and perhaps somebody leaves without a line.           *)
LEMMA NoneLetIn ==
  ASSUME Counted, Limits, UNCHANGED <<day, ledger>>,
         Leased' \subseteq Leased, Cleared' \subseteq Cleared
  PROVE  Limits'
<1>1. Cardinality(Leased') <= Cardinality(Leased) /\ Cardinality(Cleared') <= Cardinality(Cleared)
  BY ActiveNow, FS_Subset DEF ActiveFew
<1>2. /\ Active' <= Active /\ Active \in Nat /\ Active' \in Nat
      /\ Chains \in Nat /\ Chains' \in Nat /\ Chains <= Chains'
  BY <1>1, ActiveNow DEF ActiveFew, Active
<1>3. MaxRuns \in Nat /\ MaxFails \in Nat
  BY CronDispatchAssumption
<1>4. /\ Cardinality(Lines(day)') + Active' < MaxRuns + Chains'
      /\ Cardinality(FailLines') + Active' < MaxFails + Chains'
      /\ \A d \in Days : Cardinality(Lines(d)') < MaxRuns + Chains'
  BY <1>2, <1>3, SameLines, LinesCount DEF Limits, Pot, Counted
<1>5. Dated'
  BY DEF Limits, Dated
<1>. QED BY <1>4, <1>5 DEF Limits, Pot, Lines

(* Somebody is let in, by a breaker that is not tripped.                   *)
LEMMA LetInOnce ==
  ASSUME Counted, Limits, UNCHANGED <<day, ledger>>, ~Tripped
  PROVE  Limits'
<1>1. {i \in DOMAIN ledger : ledger[i].date = day} = Lines(day)
  BY DEF Limits, Dated, Lines
<1>2. Cardinality(Lines(day)) < MaxRuns /\ Cardinality(FailLines) < MaxFails
  BY <1>1, LinesCount, CronDispatchAssumption DEF Tripped, Runs, Fails, FailLines, Counted
<1>3. MaxRuns \in Nat /\ MaxFails \in Nat
  BY CronDispatchAssumption
<1>4. /\ Cardinality(Lines(day)') + Active' < MaxRuns + Chains'
      /\ Cardinality(FailLines') + Active' < MaxFails + Chains'
      /\ \A d \in Days : Cardinality(Lines(d)') < MaxRuns + Chains'
  BY <1>2, <1>3, ActiveNow, SameLines, LinesCount DEF ActiveFew, Limits, Pot, Counted
<1>5. Dated'
  BY DEF Limits, Dated
<1>. QED BY <1>4, <1>5 DEF Limits, Pot, Lines

(* One more line, with today's date, and one chain less.                   *)
LEMMA OneRecorded ==
  ASSUME Counted, Limits, Zone = "utc", UNCHANGED day, NEW ok \in BOOLEAN, Record(ok),
         \/ \E s \in Leased : Leased' = Leased \ {s} /\ Cleared' = Cleared
         \/ \E p \in Cleared : Cleared' = Cleared \ {p} /\ Leased' = Leased
  PROVE  Limits'
<1> DEFINE n == Len(ledger) + 1
           e == [date |-> day, ok |-> ok, on |-> day]
<1>1. /\ ledger' = Append(ledger, e) /\ n \in Nat /\ n \notin DOMAIN ledger
      /\ DOMAIN ledger' = DOMAIN ledger \cup {n} /\ ledger'[n] = e
      /\ \A i \in DOMAIN ledger : ledger'[i] = ledger[i]
  BY DEF Record, Dates, Counted, TypeOK
<1>2. /\ Active' = Active - 1 /\ Active' \in Nat /\ Active \in Nat
      /\ Chains \in Nat /\ Chains' \in Nat /\ Chains <= Chains'
  <2>1. CASE \E s \in Leased : Leased' = Leased \ {s} /\ Cleared' = Cleared
    <3>1. Cardinality(Leased') = Cardinality(Leased) - 1 /\ Cardinality(Cleared') = Cardinality(Cleared)
      BY <2>1, OneLess, ActiveNow DEF ActiveFew
    <3>. QED BY <3>1, ActiveNow DEF ActiveFew, Active
  <2>2. CASE \E p \in Cleared : Cleared' = Cleared \ {p} /\ Leased' = Leased
    <3>1. Cardinality(Cleared') = Cardinality(Cleared) - 1 /\ Cardinality(Leased') = Cardinality(Leased)
      BY <2>2, OneLess, ActiveNow DEF ActiveFew
    <3>. QED BY <3>1, ActiveNow DEF ActiveFew, Active
  <2>. QED BY <2>1, <2>2
<1>3. /\ Cardinality(Lines(day)') = Cardinality(Lines(day)) + 1
      /\ \A d \in Days \ {day} : Lines(d)' = Lines(d)
  <2>1. Lines(day)' = Lines(day) \cup {n} /\ n \notin Lines(day)
    BY <1>1 DEF Lines
  <2>2. \A d \in Days \ {day} : Lines(d)' = Lines(d)
    BY <1>1 DEF Lines
  <2>3. Cardinality(Lines(day) \cup {n}) = Cardinality(Lines(day)) + 1
    BY <2>1, LinesCount, OneMore DEF Counted
  <2>. QED BY <2>1, <2>2, <2>3
<1>4. Cardinality(FailLines') <= Cardinality(FailLines) + 1 /\ Cardinality(FailLines') \in Nat
  <2>1. FailLines' \subseteq FailLines \cup {n}
    <3>1. SUFFICES ASSUME NEW i \in DOMAIN ledger, FailedFrom(i)'
                   PROVE  FailedFrom(i)
      BY <1>1 DEF FailLines
    <3>2. Len(ledger') = Len(ledger) + 1
      BY <1>1 DEF Counted, TypeOK
    <3>3. ASSUME NEW j \in i .. Len(ledger)
          PROVE  ~ledger[j].ok
      <4>1. j \in i .. Len(ledger') /\ j \in DOMAIN ledger
        BY <3>2, <3>3 DEF Counted, TypeOK
      <4>. QED BY <1>1, <3>1, <4>1 DEF FailedFrom
    <3>. QED BY <3>3 DEF FailedFrom
  <2>2. /\ IsFiniteSet(FailLines \cup {n})
        /\ Cardinality(FailLines \cup {n}) <= Cardinality(FailLines) + 1
        /\ Cardinality(FailLines \cup {n}) \in Nat
    BY LinesCount, OneMore DEF Counted
  <2>3. /\ IsFiniteSet(FailLines')
        /\ Cardinality(FailLines') <= Cardinality(FailLines \cup {n})
    BY <2>1, <2>2, FS_Subset
  <2>. QED BY <2>2, <2>3, LinesCount, FS_CardinalityType DEF Counted
<1>5. MaxRuns \in Nat /\ MaxFails \in Nat
  BY CronDispatchAssumption
<1>6. /\ Cardinality(Lines(day)') + Active' < MaxRuns + Chains'
      /\ Cardinality(FailLines') + Active' < MaxFails + Chains'
      /\ \A d \in Days : Cardinality(Lines(d)') < MaxRuns + Chains'
  BY <1>2, <1>3, <1>4, <1>5, LinesCount DEF Limits, Pot, Counted
<1>7. Dated'
  BY <1>1 DEF Limits, Dated, Counted, TypeOK, Days
<1>. QED BY <1>6, <1>7 DEF Limits, Pot, Lines

(* A new day has no lines.                                                 *)
LEMMA DayBegins ==
  ASSUME Counted, Limits, NextDay
  PROVE  Limits'
<1>1. Leased' = Leased /\ Cleared' = Cleared /\ ledger' = ledger /\ day' = day + 1 /\ day \in Int
  BY DEF NextDay, Leased, Cleared, Counted, TypeOK, Days
<1>2. \A i \in DOMAIN ledger : ledger[i].on \in Int /\ ledger[i].on <= day
  <2>1. SUFFICES ASSUME NEW i \in DOMAIN ledger
                 PROVE  ledger[i].on \in Int /\ ledger[i].on <= day
    OBVIOUS
  <2>2. ledger \in Seq(Line)
    BY DEF Counted, TypeOK, Line
  <2>3. ledger[i] \in Line
    BY <2>2
  <2>. QED BY <2>3 DEF Limits, Dated, Line, Days
<1>3. Cardinality(Lines(day)') = 0
  <2>1. Lines(day)' = {}
    BY <1>1, <1>2 DEF Lines
  <2>. QED BY <2>1, FS_EmptySet
<1>4. /\ Active' = Active /\ Active' \in Nat /\ Active' <= Chains'
      /\ Chains \in Nat /\ Chains' \in Nat /\ Chains <= Chains'
  BY <1>1, ActiveNow DEF ActiveFew, Active
<1>5. MaxRuns \in Nat \ {0} /\ MaxFails \in Nat
  BY CronDispatchAssumption
<1>6. Cardinality(Lines(day)') + Active' < MaxRuns + Chains'
  <2> DEFINE n == Cardinality(Lines(day)')
             a == Active'
             c == Chains'
  <2>1. n = 0 /\ a \in Nat /\ c \in Nat /\ a <= c
    BY <1>3, <1>4
  <2>. HIDE DEF n, a, c
  <2>2. n + a < MaxRuns + c
    BY <1>5, <2>1
  <2>. QED BY <2>2 DEF n, a, c
<1>7. /\ Cardinality(FailLines') + Active' < MaxFails + Chains'
      /\ \A d \in Days : Cardinality(Lines(d)') < MaxRuns + Chains'
  <2>1. \A d \in Days : Lines(d)' = Lines(d)
    BY <1>1 DEF Lines
  <2>2. Cardinality(FailLines') = Cardinality(FailLines)
    BY <1>1, SameLines
  <2>. QED BY <1>4, <1>5, <2>1, <2>2, LinesCount DEF Limits, Pot, Counted
<1>8. Dated'
  BY <1>1, <1>2 DEF Limits, Dated
<1>. QED BY <1>6, <1>7, <1>8 DEF Limits, Pot, Lines, Days

-----------------------------------------------------------------------------
LEMMA LimitsInit ==
  ASSUME Init, TypeOK, Pooled
  PROVE  Limits
<1>1. DOMAIN ledger = {} /\ Leased = {} /\ Cleared = {}
  BY DEF Init, Free, Leased, Cleared, Gone, Proc
<1>2. /\ \A d : Cardinality(Lines(d)) = 0
      /\ Cardinality(FailLines) = 0 /\ Active = 0
  <2>1. (\A d : Lines(d) = {}) /\ FailLines = {}
    BY <1>1 DEF Lines, FailLines
  <2>. QED BY <1>1, <2>1, FS_EmptySet DEF Active
<1>3. MaxRuns \in Nat \ {0} /\ MaxFails \in Nat \ {0} /\ Chains \in Nat
  BY CronDispatchAssumption, AtMostChains DEF ActiveFew
<1>. QED BY <1>1, <1>2, <1>3 DEF Limits, Pot, Dated

(* Inside the round and the lock nobody passes a gate.                     *)
LEMMA WorkLetsIn ==
  ASSUME TypeOK, NEW p \in Proc,
         \/ Mkdir(p) \/ ReadPid(p) \/ Judge(p) \/ Clear(p) \/ Remake(p) \/ WritePid(p)
         \/ Unlock(p) \/ Round(p) \/ FinalSync(p) \/ Report(p) \/ Leave(p)
  PROVE  \A q \in Proc : proc'[q].pc \in LetIn => proc[q].pc \in LetIn
<1>1. CASE Mkdir(p) \/ ReadPid(p) \/ Judge(p) \/ Clear(p)
  BY <1>1 DEF Mkdir, ReadPid, Judge, Clear, To, Exit, At, LetIn, TypeOK
<1>2. CASE Remake(p) \/ WritePid(p)
  <2>1. proc[p].pc \in LetIn
    BY <1>2 DEF Remake, WritePid, At, LetIn
  <2>2. \A q \in Proc \ {p} : proc'[q] = proc[q]
    BY <1>2 DEF Remake, WritePid, Exit, TypeOK
  <2>. QED BY <2>1, <2>2
<1>3. CASE Unlock(p) \/ Round(p) \/ FinalSync(p) \/ Report(p) \/ Leave(p)
  <2>1. \A q \in Proc \ {p} : proc'[q] = proc[q]
    BY <1>3 DEF Unlock, Round, FinalSync, Report, Leave, To, Exit, Gone, TypeOK
  <2>2. proc'[p].pc \notin LetIn
    <3>1. CASE Unlock(p) \/ FinalSync(p)
      BY <3>1 DEF Unlock, FinalSync, To, Exit, LetIn, TypeOK
    <3>2. CASE Round(p) \/ Report(p) \/ Leave(p)
      BY <3>2 DEF Round, Report, Leave, To, Gone, LetIn, TypeOK
    <3>. QED BY <1>3, <3>1, <3>2
  <2>. QED BY <2>1, <2>2
<1>. QED BY <1>1, <1>2, <1>3

(* A process of which nothing is counted before its step is let in by it   *)
(* only at its gate; one that is counted leaves, or goes on.               *)
LEMMA WorkLimits ==
  ASSUME Inv, Counted, Limits, NEW p \in Proc, Work(p)
  PROVE  Limits'
<1>1. TypeOK /\ \A q \in Hand : q \in Proc
  BY DEF Inv, Proc
<1>2. CASE Gate(p)
  <2>1. UNCHANGED <<day, ledger>>
    BY <1>2 DEF Gate, Quiet
  <2>2. CASE Tripped
    <3>1. Leased' = Leased /\ Cleared' \subseteq Cleared
      BY <1>1, <1>2, <2>2 DEF Gate, To, Quiet, Leased, Cleared, TypeOK
    <3>. QED BY <2>1, <3>1, NoneLetIn
  <2>3. CASE ~Tripped
    BY <2>1, <2>3, LetInOnce
  <2>. QED BY <2>2, <2>3
<1>3. CASE \/ Mkdir(p) \/ ReadPid(p) \/ Judge(p) \/ Clear(p) \/ Remake(p) \/ WritePid(p)
          \/ Unlock(p) \/ Round(p) \/ FinalSync(p) \/ Report(p) \/ Leave(p)
  <2>1. UNCHANGED <<day, ledger, chain>>
    BY <1>3 DEF Mkdir, ReadPid, Judge, Clear, Remake, WritePid, Unlock, Round, FinalSync, Report,
                Leave, Quiet
  <2>2. \A q \in Proc : proc'[q].pc \in LetIn => proc[q].pc \in LetIn
    BY <1>1, <1>3, WorkLetsIn
  <2>3. Leased' = Leased /\ Cleared' \subseteq Cleared
    BY <1>1, <2>1, <2>2 DEF Leased, Cleared, LetIn
  <2>. QED BY <2>1, <2>3, NoneLetIn
<1>. QED BY <1>2, <1>3 DEF Work

LEMMA HandLimits ==
  ASSUME Zone = "utc", Inv, Counted, Limits, NEW p \in Proc, HandWorks(p)
  PROVE  Limits'
<1>1. TypeOK /\ proc[p].pc = "work" /\ p \in Hand /\ p \in Cleared
  BY DEF HandWorks, At, Inv, Placed, Cleared
<1>2. Leased' = Leased /\ Cleared' = Cleared \ {p} /\ UNCHANGED day
  BY <1>1 DEF HandWorks, To, Leased, Cleared, TypeOK, Proc
<1>. QED BY <1>1, <1>2, OneRecorded DEF HandWorks

LEMMA ChainLimits ==
  ASSUME Zone = "utc", Inv, Counted, Limits, NEW s \in Issue, ChainWork(s) \/ ChainEnds(s)
  PROVE  Limits'
<1>1. TypeOK /\ UNCHANGED <<day, proc>> /\ Cleared' = Cleared
  BY DEF Inv, ChainWork, ChainGate, ChainEnds, LeaseEnds, Recover, Still, Cleared
<1>2. CASE ChainGate(s) /\ ~Tripped
  BY <1>1, <1>2, LetInOnce DEF ChainGate
<1>3. CASE (ChainGate(s) /\ Tripped) \/ LeaseEnds(s) \/ Recover(s)
  <2>1. UNCHANGED ledger /\ \/ chain' = [chain EXCEPT ![s] = Free]
                            \/ chain' = [chain EXCEPT ![s].pc = "lost"]
    BY <1>3 DEF ChainGate, LeaseEnds, Recover
  <2>2. /\ \A t \in Issue \ {s} : chain'[t] = chain[t]
        /\ chain'[s].pc # "leased"
    BY <1>1, <2>1 DEF Free, TypeOK
  <2>3. Leased' \subseteq Leased
    BY <2>2 DEF Leased
  <2>. QED BY <1>1, <2>1, <2>3, NoneLetIn
<1>4. CASE ChainEnds(s)
  <2>1. s \in Leased /\ Leased' = Leased \ {s}
    BY <1>1, <1>4 DEF ChainEnds, Free, Leased, TypeOK
  <2>. QED BY <1>1, <1>4, <2>1, OneRecorded DEF ChainEnds
<1>. QED BY <1>2, <1>3, <1>4 DEF ChainWork

LEMMA NextGrows ==
  ASSUME TypeOK, [Next]_vars
  PROVE  Grows
<1>1. ASSUME NEW p \in Proc, Kill(p)
      PROVE  Grows
  BY <1>1, OrphansGrow DEF Grows
<1>2. CASE UNCHANGED orphaned
  BY <1>2 DEF Grows, TypeOK
<1>3. ASSUME NEW p \in Proc, Start(p) \/ Work(p) \/ HandWorks(p)
      PROVE  UNCHANGED orphaned
  BY <1>3 DEF Start, Work, HandWorks, Gate, Mkdir, ReadPid, Judge, Clear, Remake, WritePid, Unlock,
              Round, FinalSync, Report, Leave, Quiet
<1>4. ASSUME NEW s \in Issue, ChainWork(s) \/ ChainEnds(s) \/ KillChain(s)
      PROVE  UNCHANGED orphaned
  BY <1>4 DEF ChainWork, ChainGate, ChainEnds, LeaseEnds, Recover, KillChain, Still
<1>5. ASSUME NEW p \in Cron, NEW s \in Issue, Spawn(p, s)
      PROVE  UNCHANGED orphaned
  BY <1>5 DEF Spawn
<1>6. CASE NextDay \/ Environment \/ UNCHANGED vars
  BY <1>2, <1>6 DEF NextDay, Environment, vars
<1>. QED BY <1>1, <1>2, <1>3, <1>4, <1>5, <1>6 DEF Next

LEMMA LimitsNext ==
  ASSUME Zone = "utc", Inv, Pooled, Limits, [Next]_vars
  PROVE  Limits'
<1>1. TypeOK /\ Hand \subseteq Proc
  BY DEF Inv, Proc
<1>. Counted
  BY <1>1, InvNext, PooledNext, NextGrows DEF Counted, Inv
<1>2. ASSUME NEW p \in Proc, Start(p)
      PROVE  Limits'
  <2>1. PICK n \in Number : proc' = [proc EXCEPT ![p].pc = "gate", ![p].number = n]
    BY <1>2, FreshNumber DEF Start
  <2>2. /\ UNCHANGED <<day, ledger>> /\ Leased' = Leased
        /\ \A q \in Proc : proc'[q].pc \in LetIn => proc[q].pc \in LetIn
    BY <1>1, <1>2, <2>1 DEF Start, Quiet, LetIn, Leased, TypeOK
  <2>. QED BY <1>1, <2>2, NoneLetIn DEF Cleared, LetIn
<1>3. ASSUME NEW p \in Proc, Kill(p)
      PROVE  Limits'
  <2>1. \A q \in Proc : proc'[q].pc \in LetIn => proc[q].pc \in LetIn
    BY <1>1, <1>3 DEF Kill, Gone, LetIn, TypeOK
  <2>2. UNCHANGED <<day, ledger>> /\ Leased' = Leased
    BY <1>1, <1>3 DEF Kill, Leased, TypeOK
  <2>. QED BY <1>1, <2>1, <2>2, NoneLetIn DEF Cleared, LetIn
<1>4. ASSUME NEW p \in Cron, NEW s \in Issue, Spawn(p, s)
      PROVE  Limits'
  <2>1. UNCHANGED <<day, ledger>> /\ Leased' \subseteq Leased /\ Cleared' = Cleared
    BY <1>1, <1>4 DEF Spawn, Leased, Cleared, TypeOK
  <2>. QED BY <2>1, NoneLetIn
<1>5. ASSUME NEW s \in Issue, KillChain(s)
      PROVE  Limits'
  <2>1. UNCHANGED <<day, ledger>> /\ Leased' \subseteq Leased /\ Cleared' = Cleared
    BY <1>1, <1>5 DEF KillChain, Leased, Cleared, TypeOK
  <2>. QED BY <2>1, NoneLetIn
<1>6. CASE Environment \/ UNCHANGED vars
  <2>1. UNCHANGED <<day, ledger>> /\ Leased' = Leased /\ Cleared' = Cleared
    BY <1>6 DEF Environment, vars, Leased, Cleared
  <2>. QED BY <2>1, NoneLetIn
<1>. QED BY <1>2, <1>3, <1>4, <1>5, <1>6, WorkLimits, HandLimits, ChainLimits, DayBegins DEF Next

(* On any day and in any streak of failures the breaker is passed by less  *)
(* than the number of chains at a time, every orphan counted once more,    *)
(* where the local day begins with the UTC day.                            *)
THEOREM BreakerIsBounded ==
  ASSUME Zone = "utc"
  PROVE  Spec => []BreakerHolds
<1>1. Limits /\ TypeOK /\ Pooled => BreakerHolds
  <2>1. SUFFICES ASSUME Limits, TypeOK, Pooled PROVE BreakerHolds
    OBVIOUS
  <2>2. Fails = Cardinality(FailLines) /\ \A d : RunsOn(d) = Cardinality(Lines(d))
    BY DEF Fails, FailLines, RunsOn, Lines
  <2>3. Active \in Nat /\ Chains \in Nat /\ MaxFails \in Nat
    BY <2>1, AtMostChains, CronDispatchAssumption DEF ActiveFew
  <2>4. Fails < MaxFails + Chains
    BY <2>1, <2>2, <2>3, LinesCount DEF Limits, Pot
  <2>. QED BY <2>1, <2>2, <2>4 DEF BreakerHolds, Limits, Pot
<1>2. Init /\ TypeOK /\ Pooled => Limits
  BY LimitsInit
<1>3. Inv /\ Pooled /\ Limits /\ [Next]_vars => Limits'
  BY LimitsNext
<1>4. Inv => TypeOK
  BY DEF Inv
<1>. QED BY <1>1, <1>2, <1>3, <1>4, Invariance, PoolsStayBounded, PTL DEF Spec

-----------------------------------------------------------------------------
(* A streak of failures that stopped the factory is not undone: lines are  *)
(* only written by those that were let in, and the breaker lets in nobody. *)

LEMMA StopNext ==
  ASSUME Inv, Stopped, [Next]_vars
  PROVE  Stopped'
<1>1. TypeOK /\ Hand \subseteq Proc /\ Tripped
  BY DEF Inv, Proc, Stopped, Tripped
<1>2. /\ \A i \in Issue : chain[i].pc # "leased"
      /\ \A p \in Hand : proc[p].pc \notin LetIn
  BY DEF Stopped, Leased, Cleared, LetIn
<1>3. SUFFICES /\ UNCHANGED ledger
               /\ \A i \in Issue : chain'[i].pc # "leased"
               /\ \A p \in Hand : proc'[p].pc \notin LetIn
  BY DEF Stopped, Leased, Cleared, LetIn, Fails, FailedFrom
<1>4. ASSUME NEW p \in Proc, Start(p)
      PROVE  UNCHANGED <<ledger, chain>> /\ \A q \in Hand : proc'[q].pc \notin LetIn
  <2>1. PICK n \in Number : proc' = [proc EXCEPT ![p].pc = "gate", ![p].number = n]
    BY <1>4, FreshNumber DEF Start
  <2>. QED BY <1>1, <1>2, <1>4, <2>1 DEF Start, Quiet, LetIn, TypeOK
<1>5. ASSUME NEW p \in Proc, Gate(p)
      PROVE  UNCHANGED <<ledger, chain>> /\ \A q \in Hand : proc'[q].pc \notin LetIn
  BY <1>1, <1>2, <1>5 DEF Gate, To, Quiet, LetIn, TypeOK
<1>6. ASSUME NEW p \in Proc,
             \/ Mkdir(p) \/ ReadPid(p) \/ Judge(p) \/ Clear(p) \/ Remake(p) \/ WritePid(p)
             \/ Unlock(p) \/ Round(p) \/ FinalSync(p) \/ Report(p) \/ Leave(p)
      PROVE  UNCHANGED <<ledger, chain>> /\ \A q \in Hand : proc'[q].pc \notin LetIn
  <2>1. UNCHANGED <<ledger, chain>>
    BY <1>6 DEF Mkdir, ReadPid, Judge, Clear, Remake, WritePid, Unlock, Round, FinalSync, Report,
                Leave, Quiet
  <2>. QED BY <1>1, <1>2, <1>6, <2>1, WorkLetsIn
<1>7. ASSUME NEW p \in Proc, HandWorks(p)
      PROVE  FALSE
  BY <1>2, <1>7 DEF HandWorks, At, Inv, Placed, LetIn
<1>8. ASSUME NEW p \in Proc, Kill(p)
      PROVE  /\ UNCHANGED ledger /\ \A i \in Issue : chain'[i].pc = chain[i].pc
             /\ \A q \in Hand : proc'[q].pc \notin LetIn
  BY <1>1, <1>2, <1>8 DEF Kill, Gone, LetIn, TypeOK
<1>9. ASSUME NEW p \in Cron, NEW s \in Issue, Spawn(p, s)
      PROVE  UNCHANGED <<ledger, proc>> /\ \A i \in Issue : chain'[i].pc # "leased"
  BY <1>1, <1>2, <1>9 DEF Spawn, TypeOK
<1>10. ASSUME NEW s \in Issue, ChainEnds(s)
       PROVE  FALSE
  BY <1>2, <1>10 DEF ChainEnds
<1>11. ASSUME NEW s \in Issue, ChainWork(s) \/ KillChain(s)
       PROVE  UNCHANGED <<ledger, proc>> /\ \A i \in Issue : chain'[i].pc # "leased"
  <2>1. UNCHANGED <<ledger, proc>>
    BY <1>11 DEF ChainWork, ChainGate, LeaseEnds, Recover, KillChain, Still
  <2>2. \A i \in Issue \ {s} : chain'[i] = chain[i]
    BY <1>1, <1>11 DEF ChainWork, ChainGate, LeaseEnds, Recover, KillChain, TypeOK
  <2>3. chain'[s].pc # "leased"
    <3>1. CASE ChainGate(s)
      BY <1>1, <3>1 DEF ChainGate, Free, TypeOK
    <3>2. CASE LeaseEnds(s) \/ Recover(s)
      BY <1>1, <3>2 DEF LeaseEnds, Recover, Free, TypeOK
    <3>3. CASE KillChain(s)
      BY <1>1, <3>3 DEF KillChain, TypeOK
    <3>. QED BY <1>11, <3>1, <3>2, <3>3 DEF ChainWork
  <2>. QED BY <1>2, <2>1, <2>2, <2>3
<1>12. CASE NextDay \/ Environment \/ UNCHANGED vars
  BY <1>2, <1>12 DEF NextDay, Environment, vars
<1>. QED BY <1>2, <1>4, <1>5, <1>6, <1>7, <1>8, <1>9, <1>10, <1>11, <1>12 DEF Next, Work

(* Once the limit of failures is reached and those that were let in before *)
(* have ended, no chain works any more: not one the pool spawns, none that *)
(* outlived its dispatcher, none started by hand.                          *)
THEOREM StopIsFinal == Spec => TripIsFinal
<1>1. Inv /\ [Next]_vars => (Stopped => Stopped')
  BY StopNext
<1>2. Inv /\ [Next]_vars => [Stopped => Stopped']_vars
  BY <1>1
<1>. QED BY <1>2, Invariance, PTL DEF Spec, TripIsFinal

=============================================================================
