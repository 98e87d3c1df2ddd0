------------------------ MODULE HostingLabelsProofs ------------------------
(***************************************************************************)
(* What holds of the two adapters for any number of calls, labels and      *)
(* faults at any number of sites: the history is never short and answers   *)
(* are true; and as long as the calls are of one site, nobody is killed    *)
(* and no request is lost, the adapters are a label store.                 *)
(***************************************************************************)
EXTENDS HostingLabels, FiniteSetTheorems, TLAPS

CallRec == [pc : Pc, op : Op, label : Label, rdc : BOOLEAN, hits : SUBSET Nat,
            pid : Pid \cup {NoPid}, ok : BOOLEAN, told : Nat, shown : SUBSET Label, sure : BOOLEAN]
WasRec == [on : SUBSET Label, off : SUBSET Label, open : SUBSET Nat, rounds : Nat]
Mark == [label : Label, open : BOOLEAN]

Of(l) == {i \in DOMAIN marks : marks[i].label = l}
Closed(l) == {i \in DOMAIN marks : marks[i].label = l /\ ~marks[i].open}

(* Who is where: an operation of an adapter has its own steps.             *)
AddPc == {"lock", "take", "recheck", "pid", "check", "post", "unlock", "link"}
Placed(c) ==
  LET k == call[c] IN
  /\ k.pc # "idle" => calls[c] \in 1 .. MaxCalls
  /\ k.pc \in AddPc => k.op = "add"
  /\ k.pc \in {"list", "resolve"} => k.op = "remove"
  /\ k.pc \in {"open", "resolved"} => k.op \in {"view", "history"}
  /\ k.pc = "links" => k.op = "view"
  /\ k.pc = "page" => k.op = "list"
  /\ k.pc = "reread" => k.op \in {"add", "remove"}
  /\ k.pc \in {"edit", "reread"} => platform = "github"
  /\ platform = "github" => k.pc \in {"idle", "edit", "reread", "done"}

(* What was[c] knows of the call's past.                                   *)
Seen(c) ==
  call[c].pc # "idle" =>
    /\ On \subseteq was[c].on /\ Label \ On \subseteq was[c].off
    /\ was[c].open \subseteq DOMAIN marks
    /\ \A i \in was[c].open : marks[i].label = call[c].label
    /\ was[c].open # {} \/ call[c].label \in was[c].off \/ platform = "github"
    /\ was[c].rounds <= Count(call[c].label)

(* What a call has found out so far.                                       *)
TrueShow(c) == call[c].shown \subseteq was[c].on /\ Label \ call[c].shown \subseteq was[c].off
Told(c) ==
  LET k == call[c] w == was[c] IN
  /\ k.pc # "idle" /\ k.op = "add" /\ k.ok => k.label \in w.on
  /\ k.pc # "idle" /\ k.op = "remove" /\ k.ok
       => k.label \in w.off \/ (w.open # {} /\ \A i \in w.open : ~marks[i].open)
  /\ k.pc = "resolve" => /\ k.hits \subseteq DOMAIN marks
                         /\ \A i \in w.open : i \in k.hits \/ ~marks[i].open
  /\ k.op = "view" /\ k.sure /\ (k.pc \in {"resolved", "links"} \/ (k.pc = "done" /\ k.ok)) => TrueShow(c)
  /\ k.op = "list" /\ k.pc = "done" /\ k.ok => platform = "codeup" \/ TrueShow(c)
  /\ k.op = "history" /\ k.pc = "resolved" => k.told + Cardinality(Closed(k.label)) >= w.rounds
  /\ k.op = "history" /\ k.pc = "done" /\ k.ok => k.told >= w.rounds

Inv ==
  /\ TypeOK /\ was \in [Client -> WasRec]
  /\ \A c \in Client : Placed(c) /\ Seen(c) /\ Told(c)

(* No step undoes what it says: markers stay, and a closed one is closed.  *)
Kept ==
  /\ platform' = platform
  /\ \A l \in Label : events[l] <= events'[l]
  /\ \A i \in DOMAIN marks : /\ i \in DOMAIN marks' /\ marks'[i].label = marks[i].label
                             /\ marks'[i].open => marks[i].open

-----------------------------------------------------------------------------
LEMMA Types ==
  ASSUME TypeOK
  PROVE  /\ Len(marks) \in Nat /\ DOMAIN marks = 1 .. Len(marks) /\ IsFiniteSet(DOMAIN marks)
         /\ DOMAIN marks \subseteq Nat
         /\ \A i \in DOMAIN marks : marks[i] \in Mark
         /\ call \in [Client -> CallRec]
         /\ dir \in [Site \X Label -> Dir \cup {NoDir}] /\ victim \in [Client -> Dir \cup {NoDir}]
<1>1. Len(marks) \in Nat /\ DOMAIN marks = 1 .. Len(marks)
  BY DEF TypeOK
<1>2. IsFiniteSet(DOMAIN marks)
  BY <1>1, FS_Interval
<1>3. \A i \in DOMAIN marks : marks[i] \in Mark
  <2>1. marks \in Seq(Mark)
    BY DEF TypeOK, Mark
  <2>. QED BY <2>1
<1>. QED BY <1>1, <1>2, <1>3 DEF TypeOK, CallRec

LEMMA Counts ==
  ASSUME TypeOK, NEW l
  PROVE  /\ IsFiniteSet(Of(l)) /\ IsFiniteSet(Open(l)) /\ IsFiniteSet(Closed(l))
         /\ Cardinality(Of(l)) \in Nat /\ Cardinality(Open(l)) \in Nat
         /\ Cardinality(Closed(l)) \in Nat
         /\ Cardinality(Open(l)) + Cardinality(Closed(l)) = Cardinality(Of(l))
<1>1. Of(l) \in SUBSET DOMAIN marks /\ Open(l) \in SUBSET Of(l) /\ Closed(l) \in SUBSET Of(l)
  BY DEF Of, Open, Closed
<1>2. IsFiniteSet(Of(l))
  BY <1>1, Types, FS_Subset
<1>3. IsFiniteSet(Open(l)) /\ IsFiniteSet(Closed(l))
  BY <1>1, <1>2, FS_Subset
<1>4. /\ Cardinality(Of(l)) \in Nat /\ Cardinality(Open(l)) \in Nat
      /\ Cardinality(Closed(l)) \in Nat
  BY <1>2, <1>3, FS_CardinalityType
<1>5. Open(l) \cup Closed(l) = Of(l) /\ Open(l) \cap Closed(l) = {}
  BY Types DEF Of, Open, Closed, Mark
<1>6. Cardinality(Of(l)) = Cardinality(Open(l)) + Cardinality(Closed(l)) - Cardinality({})
  BY <1>3, <1>5, FS_Union
<1>. QED BY <1>2, <1>3, <1>4, <1>6, FS_EmptySet

LEMMA CountIs ==
  ASSUME TypeOK, NEW l \in Label
  PROVE  /\ platform = "github" => Count(l) = events[l]
         /\ platform = "codeup" => Count(l) = Cardinality(Of(l))
         /\ Count(l) \in Nat
<1>1. events[l] \in Nat /\ Cardinality(Of(l)) \in Nat
  BY Counts DEF TypeOK
<1>. QED BY <1>1 DEF Count, Of, TypeOK

CountsTyped ==
  \A l \in Label : /\ IsFiniteSet(Of(l)) /\ IsFiniteSet(Closed(l))
                   /\ Cardinality(Of(l)) \in Nat /\ Cardinality(Closed(l)) \in Nat
                   /\ Count(l) \in Nat

LEMMA CountTypes == TypeOK => CountsTyped
BY Counts, CountIs DEF CountsTyped

LEMMA CountTypesNext == TypeOK' => CountsTyped'
BY CountTypes, PTL

LEMMA OnIs ==
  ASSUME TypeOK
  PROVE  /\ On \subseteq Label
         /\ platform = "github" => On = labels
         /\ platform = "codeup" => On = {l \in Label : Open(l) # {}}
BY DEF On, TypeOK

(* The marks of a label only grow, and the closed ones.                    *)
LEMMA KeptCounts ==
  ASSUME TypeOK, TypeOK', Kept, NEW l \in Label
  PROVE  /\ Cardinality(Of(l)) <= Cardinality(Of(l)')
         /\ Cardinality(Closed(l)) <= Cardinality(Closed(l)')
         /\ Count(l) <= Count(l)'
         /\ Count(l) \in Nat /\ Count(l)' \in Nat
         /\ Cardinality(Closed(l)) \in Nat /\ Cardinality(Closed(l)') \in Nat
<1>1. IsFiniteSet(Of(l)') /\ IsFiniteSet(Closed(l)') /\ Cardinality(Of(l)') \in Nat
      /\ Cardinality(Closed(l)') \in Nat /\ Count(l)' \in Nat
  BY CountTypesNext DEF CountsTyped
<1>2. Of(l) \subseteq Of(l)' /\ Closed(l) \subseteq Closed(l)'
  BY DEF Kept, Of, Closed
<1>3. Cardinality(Of(l)) <= Cardinality(Of(l)') /\ Cardinality(Closed(l)) <= Cardinality(Closed(l)')
  BY <1>1, <1>2, FS_Subset
<1>4. Count(l) <= Count(l)'
  BY <1>3, Counts DEF Kept, Count, Of, TypeOK
<1>. QED BY <1>1, <1>3, <1>4, Counts, CountIs

-----------------------------------------------------------------------------
(* Calls that do not move, and what was[c] learns.                         *)

LEMMA IdleFine ==
  ASSUME NEW c \in Client, call'[c].pc = "idle"
  PROVE  Placed(c)' /\ Seen(c)' /\ Told(c)'
BY DEF Placed, Seen, Told, AddPc

LEMMA WasGrows ==
  ASSUME Inv, Watch, NEW c \in Client, call'[c].pc # "idle", calls'[c] = calls[c]
  PROVE  /\ was'[c].on = was[c].on \cup On' /\ was'[c].off = was[c].off \cup (Label \ On')
         /\ was'[c].open = was[c].open /\ was'[c].rounds = was[c].rounds
<1>1. was[c] \in WasRec
  BY DEF Inv
<1>2. was'[c] = [was[c] EXCEPT !.on = @ \cup On', !.off = @ \cup (Label \ On')]
  BY DEF Watch
<1>. QED BY <1>1, <1>2 DEF WasRec

LEMMA SeenKept ==
  ASSUME Inv, TypeOK', Kept, Watch, NEW c \in Client, call[c].pc # "idle", call'[c].pc # "idle",
         calls'[c] = calls[c], call'[c].label = call[c].label
  PROVE  Seen(c)'
<1>1. call[c].label \in Label
  BY Types DEF Inv, CallRec
<1>2. was[c].rounds \in Nat
  BY DEF Inv, WasRec
<1>3. Count(call[c].label) <= Count(call[c].label)' /\ Count(call[c].label) \in Nat
      /\ Count(call[c].label)' \in Nat
  BY <1>1, KeptCounts DEF Inv
<1>4. was'[c].rounds <= Count(call[c].label)'
  BY <1>2, <1>3, WasGrows DEF Inv, Seen
<1>5. was'[c].open \subseteq DOMAIN marks' /\ \A i \in was'[c].open : marks'[i].label = call[c].label
  BY WasGrows DEF Inv, Seen, Kept
<1>. QED BY <1>4, <1>5, WasGrows DEF Inv, Seen, Kept, Count

LEMMA ToldKept ==
  ASSUME Inv, TypeOK', Kept, Watch, NEW c \in Client, call[c].pc # "idle",
         calls'[c] = calls[c], call'[c] = call[c]
  PROVE  Placed(c)' /\ Told(c)'
<1>1. Placed(c)'
  BY DEF Inv, Placed, Kept
<1>2. call[c].label \in Label /\ was[c].rounds \in Nat /\ call[c].told \in Nat
  BY Types DEF Inv, CallRec, WasRec
<1>3. /\ Cardinality(Closed(call[c].label)) <= Cardinality(Closed(call[c].label)')
      /\ Cardinality(Closed(call[c].label)) \in Nat /\ Cardinality(Closed(call[c].label)') \in Nat
  BY <1>2, KeptCounts DEF Inv
<1>4. Told(c) /\ was[c].open \subseteq DOMAIN marks
  BY DEF Inv, Seen
<1>5. \A i \in was[c].open : i \in DOMAIN marks' /\ (~marks[i].open => ~marks'[i].open)
  BY <1>4 DEF Kept
<1>6. platform' = platform /\ DOMAIN marks \subseteq DOMAIN marks'
  BY DEF Kept
<1>7. /\ was[c].on \subseteq was'[c].on /\ was[c].off \subseteq was'[c].off
      /\ was'[c].open = was[c].open /\ was'[c].rounds = was[c].rounds
  BY WasGrows
<1>8. TrueShow(c) => TrueShow(c)'
  BY <1>7 DEF TrueShow
<1>9. /\ call[c].pc # "idle" /\ call[c].op = "add" /\ call[c].ok => call[c].label \in was'[c].on
      /\ call[c].op = "remove" /\ call[c].ok
           => \/ call[c].label \in was'[c].off
              \/ was'[c].open # {} /\ \A i \in was'[c].open : ~marks'[i].open
      /\ call[c].pc = "resolve" => /\ call[c].hits \subseteq DOMAIN marks'
                                   /\ \A i \in was'[c].open : i \in call[c].hits \/ ~marks'[i].open
  BY <1>4, <1>5, <1>6, <1>7 DEF Told
<1>10. call[c].op = "history" /\ call[c].pc = "resolved"
        => call[c].told + Cardinality(Closed(call[c].label)') >= was'[c].rounds
  BY <1>2, <1>3, <1>4, <1>7 DEF Told
<1>11. call[c].op = "history" /\ call[c].pc = "done" /\ call[c].ok => call[c].told >= was'[c].rounds
  BY <1>4, <1>7 DEF Told
<1>12. Told(c)'
  BY <1>4, <1>6, <1>8, <1>9, <1>10, <1>11 DEF Told
<1>. QED BY <1>1, <1>12

LEMMA WasTyped ==
  ASSUME Inv, TypeOK', Watch
  PROVE  was' \in [Client -> WasRec]
<1>1. On \subseteq Label /\ On' \subseteq Label
  BY DEF On, Inv, TypeOK
<1>2. SUFFICES ASSUME NEW c \in Client
               PROVE  was'[c] \in WasRec
  BY DEF Watch
<1>3. call'[c].label \in Label
  BY DEF TypeOK
<1>4. Open(call'[c].label) \subseteq Nat /\ Count(call'[c].label) \in Nat
  BY <1>3, Types, CountIs DEF Open, Inv
<1>5. was[c] \in WasRec
  BY DEF Inv
<1> DEFINE past == IF calls'[c] # calls[c]
                   THEN [on |-> On, off |-> Label \ On,
                         open |-> Open(call'[c].label), rounds |-> Count(call'[c].label)]
                   ELSE was[c]
<1>6. past \in WasRec
  BY <1>1, <1>4, <1>5 DEF WasRec
<1>7. was'[c] = IF call'[c].pc = "idle" THEN Nothing
                ELSE [past EXCEPT !.on = @ \cup On', !.off = @ \cup (Label \ On')]
  BY DEF Watch
<1>8. Nothing \in WasRec
  BY DEF Nothing, WasRec
<1>. HIDE DEF past
<1>. QED BY <1>1, <1>6, <1>7, <1>8 DEF WasRec

(* The step of one call.                                                   *)
LEMMA StepDone ==
  ASSUME Inv, TypeOK', Kept, Watch, NEW c \in Client, Placed(c)', Seen(c)', Told(c)',
         \A d \in Client \ {c} : call'[d] = call[d] /\ calls'[d] = calls[d]
  PROVE  Inv'
<1>1. ASSUME NEW d \in Client \ {c}
      PROVE  Placed(d)' /\ Seen(d)' /\ Told(d)'
  <2>1. CASE call[d].pc = "idle"
    BY <2>1, IdleFine
  <2>2. CASE call[d].pc # "idle"
    BY <2>2, SeenKept, ToldKept
  <2>. QED BY <2>1, <2>2
<1>. QED BY <1>1, WasTyped DEF Inv

LEMMA FaultsTyped ==
  ASSUME TypeOK, UNCHANGED faults \/ \E f \in Faults : Fault(f)
  PROVE  faults' \in Seq(Faults) /\ Len(faults') <= MaxFaults
<1>1. faults \in Seq(Faults) /\ Len(faults) <= MaxFaults /\ MaxFaults \in Nat
  BY HostingAssumption DEF TypeOK
<1>. QED BY <1>1 DEF Fault

LEMMA TypesMoved ==
  ASSUME Inv, NEW c \in Client, NEW r \in CallRec, call' = [call EXCEPT ![c] = r],
         UNCHANGED platform, calls' \in [Client -> 0 .. MaxCalls],
         labels' \in SUBSET Label, events' \in [Label -> Nat], marks' \in Seq(Mark),
         linked' \in SUBSET Label, dir' \in [Site \X Label -> Dir \cup {NoDir}],
         victim' \in [Client -> Dir \cup {NoDir}],
         victim'[c] # NoDir <=> r.pc = "recheck", \A d \in Client \ {c} : victim'[d] = victim[d],
         faults' \in Seq(Faults), Len(faults') <= MaxFaults
  PROVE  TypeOK'
<1>1. call' \in [Client -> CallRec] /\ \A d \in Client : call'[d] = IF d = c THEN r ELSE call[d]
  BY Types DEF Inv
<1>2. \A d \in Client : victim'[d] # NoDir <=> call'[d].pc = "recheck"
  BY <1>1 DEF Inv, TypeOK
<1>. QED BY <1>1, <1>2 DEF TypeOK, CallRec, Mark, Inv

LEMMA WorldKept ==
  ASSUME TypeOK, UNCHANGED <<platform, labels, events, marks>>
  PROVE  /\ Kept /\ On' = On
         /\ labels' \in SUBSET Label /\ events' \in [Label -> Nat] /\ marks' \in Seq(Mark)
<1>1. \A l \in Label : events[l] \in Nat
  BY DEF TypeOK
<1>. QED BY <1>1 DEF Kept, On, Open, TypeOK, Mark

-----------------------------------------------------------------------------
(* A step of c that leaves the labels alone, and what it owes.             *)

LEMMA Look ==
  ASSUME Inv, Watch, NEW c \in Client, NEW r \in CallRec, call' = [call EXCEPT ![c] = r],
         UNCHANGED <<platform, labels, events, marks, calls>>, linked' \in SUBSET Label,
         dir' \in [Site \X Label -> Dir \cup {NoDir}], victim' \in [Client -> Dir \cup {NoDir}],
         victim'[c] # NoDir <=> r.pc = "recheck", \A d \in Client \ {c} : victim'[d] = victim[d],
         UNCHANGED faults \/ \E f \in Faults : Fault(f),
         call[c].pc # "idle", r.pc # "idle", r.label = call[c].label, Placed(c)', Told(c)'
  PROVE  Inv'
<1>1. Kept /\ labels' \in SUBSET Label /\ events' \in [Label -> Nat] /\ marks' \in Seq(Mark)
  BY WorldKept DEF Inv
<1>2. faults' \in Seq(Faults) /\ Len(faults') <= MaxFaults
  BY FaultsTyped DEF Inv
<1>3. calls' \in [Client -> 0 .. MaxCalls]
  BY DEF Inv, TypeOK
<1>4. TypeOK'
  BY <1>1, <1>2, <1>3, TypesMoved
<1>5. call'[c] = r /\ \A d \in Client \ {c} : call'[d] = call[d] /\ calls'[d] = calls[d]
  BY Types DEF Inv
<1>6. Seen(c)'
  BY <1>1, <1>4, <1>5, SeenKept
<1>. QED BY <1>1, <1>4, <1>5, <1>6, StepDone

(* While a call runs, what is on counts as seen, and so does what was.     *)
LEMMA SeesNow ==
  ASSUME Inv, Watch, NEW c \in Client, call[c].pc # "idle", call'[c].pc # "idle", calls'[c] = calls[c]
  PROVE  /\ On \subseteq was'[c].on /\ Label \ On \subseteq was'[c].off
         /\ On' \subseteq was'[c].on /\ Label \ On' \subseteq was'[c].off
         /\ was[c].on \subseteq was'[c].on /\ was[c].off \subseteq was'[c].off
         /\ was'[c].open = was[c].open /\ was'[c].rounds = was[c].rounds
BY WasGrows DEF Inv, Seen

(* Putting a label on, but for the POST.                                   *)
LEMMA AddStep ==
  ASSUME Inv, Watch, NEW c \in Client, NEW r \in CallRec, call' = [call EXCEPT ![c] = r],
         UNCHANGED <<platform, labels, events, marks, calls>>, linked' \in SUBSET Label,
         dir' \in [Site \X Label -> Dir \cup {NoDir}], victim' \in [Client -> Dir \cup {NoDir}],
         victim'[c] # NoDir <=> r.pc = "recheck", \A d \in Client \ {c} : victim'[d] = victim[d],
         UNCHANGED faults \/ \E f \in Faults : Fault(f),
         call[c].pc \in AddPc, r.pc \in AddPc \cup {"done"}, r.label = call[c].label,
         r.op = call[c].op, r.ok => call[c].ok \/ call[c].label \in On
  PROVE  Inv'
<1>1. call'[c] = r
  BY Types DEF Inv
<1>2. call[c].op = "add" /\ platform = "codeup" /\ platform' = "codeup"
  BY DEF Inv, Placed, AddPc, TypeOK
<1>3. Placed(c)'
  BY <1>1, <1>2 DEF Placed, AddPc, Inv
<1>4. r.ok => r.label \in was'[c].on
  <2>1. call[c].pc # "idle" /\ call'[c].pc # "idle" /\ calls'[c] = calls[c]
    BY <1>1 DEF AddPc
  <2>2. call[c].ok => call[c].label \in was[c].on
    BY <1>2, <2>1 DEF Inv, Told
  <2>. QED BY <2>1, <2>2, SeesNow
<1>5. Told(c)'
  BY <1>1, <1>2, <1>4 DEF Told, AddPc
<1>6. call[c].pc # "idle" /\ r.pc # "idle"
  BY DEF AddPc
<1>. QED BY <1>3, <1>5, <1>6, Look

LEMMA CallIs ==
  ASSUME Inv, NEW c \in Client
  PROVE  call[c] \in CallRec
BY Types DEF Inv

(* The fields of a record of a call.                                       *)
LEMMA CallFields ==
  ASSUME NEW r \in CallRec
  PROVE  /\ r.pc \in Pc /\ r.op \in Op /\ r.label \in Label /\ r.rdc \in BOOLEAN
         /\ r.hits \in SUBSET Nat /\ r.pid \in Pid \cup {NoPid} /\ r.ok \in BOOLEAN
         /\ r.told \in Nat /\ r.shown \in SUBSET Label /\ r.sure \in BOOLEAN
BY DEF CallRec

LEMMA LocksStay ==
  ASSUME Inv, UNCHANGED locks, NEW c \in Client
  PROVE  /\ dir' \in [Site \X Label -> Dir \cup {NoDir}] /\ victim' \in [Client -> Dir \cup {NoDir}]
         /\ victim'[c] # NoDir <=> call[c].pc = "recheck"
         /\ \A d \in Client \ {c} : victim'[d] = victim[d]
BY DEF Inv, TypeOK, locks

LEMMA PcTo ==
  ASSUME Inv, NEW c \in Client, NEW pc \in Pc, To(c, pc)
  PROVE  \E r \in CallRec : /\ call' = [call EXCEPT ![c] = r] /\ r.pc = pc
                            /\ r.op = call[c].op /\ r.label = call[c].label /\ r.ok = call[c].ok
<1>1. call[c] \in CallRec
  BY CallIs
<1> DEFINE r == [call[c] EXCEPT !.pc = pc]
<1>2. r \in CallRec /\ r.pc = pc /\ r.op = call[c].op /\ r.label = call[c].label /\ r.ok = call[c].ok
  BY <1>1 DEF CallRec
<1>3. call' = [call EXCEPT ![c] = r]
  BY DEF To
<1>. QED BY <1>2, <1>3

LEMMA FailedTo ==
  ASSUME Inv, NEW c \in Client, NEW pc \in Pc, Failed(c, pc, FALSE)
  PROVE  \E r \in CallRec :
           /\ call' = [call EXCEPT ![c] = r] /\ r.op = call[c].op /\ r.label = call[c].label
           /\ r.told = call[c].told /\ r.hits = call[c].hits
           /\ r.shown = call[c].shown /\ r.sure = call[c].sure
           /\ \/ call[c].rdc /\ r.pc = pc /\ r.ok = FALSE
              \/ r.pc = call[c].pc /\ r.ok = call[c].ok
<1>1. call[c] \in CallRec
  BY CallIs
<1> DEFINE r1 == [call[c] EXCEPT !.pc = pc, !.ok = FALSE]
           r2 == [call[c] EXCEPT !.rdc = TRUE]
<1>2. CASE call[c].rdc
  <2>1. r1 \in CallRec
    BY <1>1 DEF CallRec
  <2>2. call' = [call EXCEPT ![c] = r1]
    BY <1>2 DEF Failed
  <2>. QED BY <1>1, <1>2, <2>1, <2>2 DEF CallRec
<1>3. CASE ~call[c].rdc
  <2>1. r2 \in CallRec
    BY <1>1 DEF CallRec
  <2>2. call' = [call EXCEPT ![c] = r2]
    BY <1>3 DEF Failed
  <2>. QED BY <1>1, <2>1, <2>2 DEF CallRec
<1>. QED BY <1>2, <1>3

LEMMA RefusedTo ==
  ASSUME NEW c \in Client, NEW pc, Refused(c, pc, FALSE) \/ Lost(c, pc, FALSE)
  PROVE  Failed(c, pc, FALSE) /\ \E f \in Faults : Fault(f)
BY DEF Refused, Lost, Fault

LEMMA LooksStill ==
  ASSUME Inv, UNCHANGED <<platform, github, codeup, locks, calls>>, NEW c \in Client
  PROVE  /\ UNCHANGED <<platform, labels, events, marks, calls>> /\ linked' \in SUBSET Label
         /\ dir' \in [Site \X Label -> Dir \cup {NoDir}] /\ victim' \in [Client -> Dir \cup {NoDir}]
         /\ victim'[c] # NoDir <=> call[c].pc = "recheck"
         /\ \A d \in Client \ {c} : victim'[d] = victim[d]
<1>1. linked \in SUBSET Label
  BY DEF Inv, TypeOK
<1>. QED BY <1>1, LocksStay DEF github, codeup

-----------------------------------------------------------------------------
(* The lock of a label.                                                    *)

LEMMA PidIs ==
  ASSUME Inv, NEW c \in Client, call[c].pc # "idle"
  PROVE  Me(c) \in Pid
BY DEF Me, Pid, Inv, Placed

LEMMA LockIs ==
  ASSUME Inv, NEW c \in Client, call[c].pc # "idle"
  PROVE  LockOf(c) \in Site \X Label
<1>1. SiteOf[Me(c)] \in Site
  BY PidIs, HostingAssumption DEF Pid
<1>2. call[c].label \in Label
  BY CallIs, CallFields
<1>. QED BY <1>1, <1>2 DEF LockOf

LEMMA LockSteps ==
  ASSUME Inv, Watch, NEW c \in Client, Mkdir(c) \/ Judge(c) \/ GiveUp(c) \/ Take(c) \/ Recheck(c)
  PROVE  Inv'
<1>1. /\ call[c] \in CallRec /\ call[c].label \in Label /\ call[c].ok \in BOOLEAN
      /\ call[c].pid \in Pid \cup {NoPid} /\ LockOf(c) \in Site \X Label
  <2>1. call[c].pc # "idle"
    BY DEF Mkdir, Judge, GiveUp, Take, Recheck
  <2>. QED BY <2>1, CallIs, CallFields, LockIs
<1>2. /\ dir \in [Site \X Label -> Dir \cup {NoDir}] /\ victim \in [Client -> Dir \cup {NoDir}]
      /\ linked \in SUBSET Label
      /\ \A d \in Client : victim[d] # NoDir <=> call[d].pc = "recheck"
  BY DEF Inv, TypeOK
<1>3. CASE Mkdir(c)
  <2>1. PICK r \in CallRec : /\ call' = [call EXCEPT ![c] = r] /\ r.pc = "pid"
                             /\ r.op = call[c].op /\ r.label = call[c].label /\ r.ok = call[c].ok
    BY <1>3, PcTo DEF Mkdir, Pc
  <2>2. [maker |-> Me(c), pid |-> NoPid] \in Dir
    BY <1>3, PidIs DEF Mkdir, Dir
  <2>. QED BY <1>1, <1>2, <1>3, <2>1, <2>2, AddStep DEF Mkdir, AddPc, github, codeup
<1>4. CASE Judge(c)
  <2> DEFINE d == dir[LockOf(c)]
             r == [call[c] EXCEPT !.pc = "take", !.pid = d.pid]
  <2>1. d.pid \in Pid \cup {NoPid}
    BY <1>1, <1>2, <1>4 DEF Judge, Dir
  <2>2. /\ r \in CallRec /\ r.pc = "take" /\ r.op = call[c].op /\ r.label = call[c].label
        /\ r.ok = call[c].ok
    BY <1>1, <2>1 DEF CallRec, Pc
  <2>3. call' = [call EXCEPT ![c] = r]
    BY <1>4 DEF Judge
  <2>. HIDE DEF r
  <2>4. call[c].pc = "lock" /\ UNCHANGED <<platform, github, codeup, locks, calls, faults>>
    BY <1>4 DEF Judge
  <2>. QED BY <2>2, <2>3, <2>4, LooksStill, AddStep DEF AddPc
<1>5. CASE GiveUp(c)
  <2> DEFINE r == [call[c] EXCEPT !.pc = "done", !.ok = FALSE]
  <2>1. /\ r \in CallRec /\ r.pc = "done" /\ r.op = call[c].op /\ r.label = call[c].label
        /\ r.ok = FALSE
    BY <1>1 DEF CallRec, Pc
  <2>2. call' = [call EXCEPT ![c] = r]
    BY <1>5 DEF GiveUp, EndCall
  <2>. HIDE DEF r
  <2>3. call[c].pc = "lock" /\ UNCHANGED <<platform, github, codeup, locks, calls, faults>>
    BY <1>5 DEF GiveUp
  <2>. QED BY <2>1, <2>2, <2>3, LooksStill, AddStep DEF AddPc
<1>6. CASE Take(c)
  <2>1. CASE dir[LockOf(c)] = NoDir
    <3>1. PICK r \in CallRec : /\ call' = [call EXCEPT ![c] = r] /\ r.pc = "lock"
                               /\ r.op = call[c].op /\ r.label = call[c].label /\ r.ok = call[c].ok
      BY <1>6, <2>1, PcTo DEF Take, Pc
    <3>. QED BY <1>2, <1>6, <2>1, <3>1, AddStep DEF Take, AddPc, github, codeup, locks
  <2>2. CASE dir[LockOf(c)] # NoDir
    <3>1. PICK r \in CallRec : /\ call' = [call EXCEPT ![c] = r] /\ r.pc = "recheck"
                               /\ r.op = call[c].op /\ r.label = call[c].label /\ r.ok = call[c].ok
      BY <1>6, <2>2, PcTo DEF Take, Pc
    <3>2. /\ dir' \in [Site \X Label -> Dir \cup {NoDir}] /\ victim' \in [Client -> Dir \cup {NoDir}]
          /\ victim'[c] # NoDir /\ \A d \in Client \ {c} : victim'[d] = victim[d]
      BY <1>1, <1>2, <1>6, <2>2 DEF Take
    <3>3. /\ call[c].pc = "take" /\ linked' \in SUBSET Label /\ UNCHANGED faults
          /\ UNCHANGED <<platform, labels, events, marks, calls>>
      BY <1>2, <1>6 DEF Take, github, codeup
    <3>. QED BY <3>1, <3>2, <3>3, AddStep DEF AddPc
  <2>. QED BY <2>1, <2>2
<1>7. CASE Recheck(c)
  <2>1. PICK r \in CallRec : /\ call' = [call EXCEPT ![c] = r] /\ r.pc = "lock"
                             /\ r.op = call[c].op /\ r.label = call[c].label /\ r.ok = call[c].ok
    BY <1>7, PcTo DEF Recheck, Pc
  <2>2. dir' \in [Site \X Label -> Dir \cup {NoDir}]
    BY <1>1, <1>2, <1>7 DEF Recheck
  <2>. QED BY <1>1, <1>2, <1>7, <2>1, <2>2, AddStep DEF Recheck, AddPc, github, codeup
<1>. QED BY <1>3, <1>4, <1>5, <1>6, <1>7

LEMMA HoldSteps ==
  ASSUME Inv, Watch, NEW c \in Client, WritePid(c) \/ Check(c) \/ Unlock(c) \/ Link(c)
  PROVE  Inv'
<1>1. /\ call[c] \in CallRec /\ call[c].label \in Label /\ call[c].ok \in BOOLEAN
      /\ LockOf(c) \in Site \X Label
  <2>1. call[c].pc # "idle"
    BY DEF WritePid, Check, Unlock, Link
  <2>. QED BY <2>1, CallIs, CallFields, LockIs
<1>2. /\ dir \in [Site \X Label -> Dir \cup {NoDir}] /\ victim \in [Client -> Dir \cup {NoDir}]
      /\ linked \in SUBSET Label
      /\ \A d \in Client : victim[d] # NoDir <=> call[d].pc = "recheck"
  BY DEF Inv, TypeOK
<1>3. CASE WritePid(c)
  <2>1. PICK r \in CallRec : /\ call' = [call EXCEPT ![c] = r] /\ r.pc = "check"
                             /\ r.op = call[c].op /\ r.label = call[c].label /\ r.ok = call[c].ok
    BY <1>3, PcTo DEF WritePid, Pc
  <2>2. Me(c) \in Pid
    BY <1>3, PidIs DEF WritePid
  <2>3. dir' \in [Site \X Label -> Dir \cup {NoDir}]
    <3>1. CASE dir[LockOf(c)] = NoDir
      BY <1>2, <1>3, <3>1 DEF WritePid
    <3>2. CASE dir[LockOf(c)] # NoDir
      <4>1. [dir[LockOf(c)] EXCEPT !.pid = Me(c)] \in Dir
        BY <1>1, <1>2, <2>2, <3>2 DEF Dir
      <4>. QED BY <1>1, <1>2, <1>3, <3>2, <4>1 DEF WritePid
    <3>. QED BY <3>1, <3>2
  <2>. QED BY <1>1, <1>2, <1>3, <2>1, <2>3, AddStep DEF WritePid, AddPc, github, codeup
<1>4. CASE Check(c)
  <2>1. call[c].op = "add" /\ platform = "codeup"
    BY <1>4 DEF Inv, Placed, Check, AddPc, TypeOK
  <2>2. Open(call[c].label) # {} => call[c].label \in On
    BY <1>1, <2>1, OnIs DEF Inv
  <2> DEFINE r1 == [call[c] EXCEPT !.pc = "unlock", !.ok = TRUE]
  <2>3. r1 \in CallRec /\ r1.pc = "unlock" /\ r1.op = call[c].op /\ r1.label = call[c].label
    BY <1>1 DEF CallRec, Pc
  <2>. HIDE DEF r1
  <2>4. CASE Open(call[c].label) # {} /\ call' = [call EXCEPT ![c] = r1] /\ UNCHANGED faults
    BY <1>1, <1>2, <1>4, <2>2, <2>3, <2>4, AddStep DEF Check, AddPc, github, codeup, locks
  <2>5. CASE To(c, "post") /\ UNCHANGED faults
    <3>1. PICK r \in CallRec : /\ call' = [call EXCEPT ![c] = r] /\ r.pc = "post"
                               /\ r.op = call[c].op /\ r.label = call[c].label /\ r.ok = call[c].ok
      BY <2>5, PcTo DEF Pc
    <3>. QED BY <1>1, <1>2, <1>4, <2>5, <3>1, AddStep DEF Check, AddPc, github, codeup, locks
  <2>6. CASE Refused(c, "unlock", FALSE)
    <3>0. Failed(c, "unlock", FALSE) /\ "unlock" \in Pc
      BY <2>6, RefusedTo DEF Pc
    <3>1. PICK r \in CallRec : /\ call' = [call EXCEPT ![c] = r]
                               /\ r.op = call[c].op /\ r.label = call[c].label
                               /\ \/ call[c].rdc /\ r.pc = "unlock" /\ r.ok = FALSE
                                  \/ r.pc = call[c].pc /\ r.ok = call[c].ok
      BY <3>0, FailedTo
    <3>2. \E f \in Faults : Fault(f)
      BY <2>6, RefusedTo
    <3>3. call[c].pc = "check" /\ UNCHANGED <<platform, github, codeup, locks, calls>>
      BY <1>4 DEF Check
    <3>. QED BY <3>1, <3>2, <3>3, LooksStill, AddStep DEF AddPc
  <2>. QED BY <1>4, <2>4, <2>5, <2>6 DEF Check, r1
<1>5. CASE Unlock(c)
  <2> DEFINE pc == IF call[c].ok THEN "link" ELSE "done"
  <2>1. PICK r \in CallRec : /\ call' = [call EXCEPT ![c] = r] /\ r.pc = pc
                             /\ r.op = call[c].op /\ r.label = call[c].label /\ r.ok = call[c].ok
    BY <1>5, PcTo DEF Unlock, Pc
  <2>. QED BY <1>1, <1>2, <1>5, <2>1, AddStep DEF Unlock, AddPc, github, codeup
<1>6. CASE Link(c)
  <2>1. PICK r \in CallRec : /\ call' = [call EXCEPT ![c] = r] /\ r.pc = "done"
                             /\ r.op = call[c].op /\ r.label = call[c].label /\ r.ok = call[c].ok
    BY <1>6, PcTo DEF Link, Pc
  <2>2. linked' \in SUBSET Label
    BY <1>1, <1>2, <1>6 DEF Link
  <2>. QED BY <1>1, <1>2, <1>6, <2>1, <2>2, AddStep DEF Link, AddPc, github, locks
<1>. QED BY <1>3, <1>4, <1>5, <1>6

-----------------------------------------------------------------------------
(* Markers that are posted and resolved.                                   *)

(* A step of c that keeps its lock and GitHub as they are.                 *)
LEMMA Touch ==
  ASSUME Inv, Watch, NEW c \in Client, NEW r \in CallRec, call' = [call EXCEPT ![c] = r],
         UNCHANGED <<platform, linked, locks, calls>>, Kept,
         labels' \in SUBSET Label, events' \in [Label -> Nat], marks' \in Seq(Mark),
         UNCHANGED faults \/ \E f \in Faults : Fault(f),
         call[c].pc \notin {"idle", "recheck"}, r.pc \notin {"idle", "recheck"},
         r.label = call[c].label, Placed(c)', Told(c)'
  PROVE  Inv'
<1>1. faults' \in Seq(Faults) /\ Len(faults') <= MaxFaults
  BY FaultsTyped DEF Inv
<1>2. calls' \in [Client -> 0 .. MaxCalls] /\ linked' \in SUBSET Label
  BY DEF Inv, TypeOK
<1>3. TypeOK'
  BY <1>1, <1>2, LocksStay, TypesMoved
<1>4. call'[c] = r /\ \A d \in Client \ {c} : call'[d] = call[d] /\ calls'[d] = calls[d]
  BY Types DEF Inv
<1>5. Seen(c)'
  BY <1>3, <1>4, SeenKept
<1>. QED BY <1>3, <1>4, <1>5, StepDone

LEMMA PostKeeps ==
  ASSUME Inv, UNCHANGED <<platform, github>>, NEW l \in Label,
         marks' = Append(marks, [label |-> l, open |-> TRUE])
  PROVE  /\ Kept /\ marks' \in Seq(Mark)
         /\ labels' \in SUBSET Label /\ events' \in [Label -> Nat]
         /\ platform = "codeup" => l \in On'
<1>1. marks \in Seq(Mark) /\ [label |-> l, open |-> TRUE] \in Mark
  BY DEF Inv, TypeOK, Mark
<1>2. /\ marks' \in Seq(Mark) /\ Len(marks') = Len(marks) + 1
      /\ \A i \in 1 .. Len(marks) : marks'[i] = marks[i]
      /\ marks'[Len(marks) + 1] = [label |-> l, open |-> TRUE]
      /\ Len(marks) \in Nat
    BY <1>1
<1>3. DOMAIN marks = 1 .. Len(marks) /\ DOMAIN marks' = 1 .. Len(marks) + 1
  BY <1>1, <1>2
<1>4. labels' \in SUBSET Label /\ events' \in [Label -> Nat] /\ \A k \in Label : events[k] <= events'[k]
  BY DEF Inv, TypeOK, github
<1>5. Kept
  BY <1>2, <1>3, <1>4 DEF Kept
<1>6. Len(marks) + 1 \in Open(l)'
  BY <1>2, <1>3 DEF Open
<1>. QED BY <1>2, <1>4, <1>5, <1>6 DEF On

LEMMA ResolveKeeps ==
  ASSUME Inv, UNCHANGED <<platform, github>>, NEW i \in DOMAIN marks,
         marks' = [marks EXCEPT ![i].open = FALSE]
  PROVE  /\ Kept /\ marks' \in Seq(Mark) /\ DOMAIN marks' = DOMAIN marks
         /\ labels' \in SUBSET Label /\ events' \in [Label -> Nat]
         /\ ~marks'[i].open
<1>1. marks \in Seq(Mark) /\ \A j \in DOMAIN marks : marks[j] \in Mark
  <2>1. marks \in Seq(Mark)
    BY DEF Inv, TypeOK, Mark
  <2>. QED BY <2>1
<1>2. [marks[i] EXCEPT !.open = FALSE] \in Mark
  BY <1>1 DEF Mark
<1>3. /\ marks' \in Seq(Mark) /\ DOMAIN marks' = DOMAIN marks
      /\ \A j \in DOMAIN marks : marks'[j] = IF j = i THEN [marks[i] EXCEPT !.open = FALSE] ELSE marks[j]
  <2>1. marks' = [marks EXCEPT ![i] = [marks[i] EXCEPT !.open = FALSE]]
    OBVIOUS
  <2>. QED BY <1>1, <1>2, <2>1
<1>4. labels' \in SUBSET Label /\ events' \in [Label -> Nat] /\ \A k \in Label : events[k] <= events'[k]
  BY DEF Inv, TypeOK, github
<1>5. [marks[i] EXCEPT !.open = FALSE].open = FALSE /\ [marks[i] EXCEPT !.open = FALSE].label = marks[i].label
  BY <1>1 DEF Mark
<1>6. Kept
  BY <1>3, <1>4, <1>5 DEF Kept
<1>. QED BY <1>3, <1>4, <1>5, <1>6

LEMMA PostStep ==
  ASSUME Inv, Watch, NEW c \in Client, Post(c)
  PROVE  Inv'
<1>1. call[c] \in CallRec /\ call[c].label \in Label
  BY CallIs, CallFields
<1>2. call[c].pc = "post" /\ UNCHANGED <<platform, github, linked, locks, calls>>
  BY DEF Post
<1>3. call[c].op = "add" /\ platform = "codeup" /\ calls[c] \in 1 .. MaxCalls
  BY <1>2 DEF Inv, Placed, AddPc, TypeOK
<1> DEFINE posted == marks' = Append(marks, [label |-> call[c].label, open |-> TRUE])
           done == [call[c] EXCEPT !.pc = "unlock", !.ok = TRUE]
<1>4. done \in CallRec /\ done.pc = "unlock" /\ done.op = call[c].op /\ done.label = call[c].label
  BY <1>1 DEF CallRec, Pc
<1>. HIDE DEF done
<1>5. ASSUME NEW r \in CallRec, call' = [call EXCEPT ![c] = r], posted,
             UNCHANGED faults \/ \E f \in Faults : Fault(f),
             r.pc \in {"unlock", "post"}, r.label = call[c].label, r.op = call[c].op
      PROVE  Inv'
  <2>1. call'[c] = r
    BY <1>5, Types DEF Inv
  <2>2. call[c].label \in was'[c].on
    BY <1>1, <1>2, <1>3, <1>5, <2>1, PostKeeps, SeesNow
  <2>3. Placed(c)'
    BY <1>2, <1>3, <1>5, <2>1 DEF Placed, AddPc
  <2>4. Told(c)'
    BY <1>3, <1>5, <2>1, <2>2 DEF Told
  <2>. QED BY <1>1, <1>2, <1>3, <1>5, <2>3, <2>4, PostKeeps, Touch
<1>6. CASE posted /\ UNCHANGED faults /\ call' = [call EXCEPT ![c] = done]
  BY <1>4, <1>5, <1>6
<1>7. CASE posted /\ Lost(c, "unlock", FALSE)
  <2>1. Failed(c, "unlock", FALSE) /\ "unlock" \in Pc /\ \E f \in Faults : Fault(f)
    BY <1>7, RefusedTo DEF Pc
  <2>2. PICK r \in CallRec : /\ call' = [call EXCEPT ![c] = r]
                             /\ r.op = call[c].op /\ r.label = call[c].label
                             /\ \/ call[c].rdc /\ r.pc = "unlock" /\ r.ok = FALSE
                                \/ r.pc = call[c].pc /\ r.ok = call[c].ok
    BY <2>1, FailedTo
  <2>. QED BY <1>2, <1>5, <1>7, <2>1, <2>2
<1>8. CASE Refused(c, "unlock", FALSE) /\ UNCHANGED marks
  <2>1. Failed(c, "unlock", FALSE) /\ "unlock" \in Pc /\ \E f \in Faults : Fault(f)
    BY <1>8, RefusedTo DEF Pc
  <2>2. PICK r \in CallRec : /\ call' = [call EXCEPT ![c] = r]
                             /\ r.op = call[c].op /\ r.label = call[c].label
                             /\ \/ call[c].rdc /\ r.pc = "unlock" /\ r.ok = FALSE
                                \/ r.pc = call[c].pc /\ r.ok = call[c].ok
    BY <2>1, FailedTo
  <2>3. UNCHANGED <<platform, github, codeup, locks, calls>>
    BY <1>2, <1>8 DEF codeup
  <2>. QED BY <1>2, <2>1, <2>2, <2>3, LooksStill, AddStep DEF AddPc
<1>. QED BY <1>6, <1>7, <1>8 DEF Post, done

LEMMA ResolveStep ==
  ASSUME Inv, Watch, NEW c \in Client, Resolve(c)
  PROVE  Inv'
<1>1. call[c] \in CallRec /\ call[c].label \in Label /\ call[c].hits \in SUBSET Nat
  BY CallIs, CallFields
<1>2. call[c].pc = "resolve" /\ UNCHANGED <<platform, github, linked, locks, calls>>
  BY DEF Resolve
<1>3. call[c].op = "remove" /\ platform = "codeup" /\ calls[c] \in 1 .. MaxCalls
  BY <1>2 DEF Inv, Placed, TypeOK
<1>4. /\ call[c].hits \subseteq DOMAIN marks /\ was[c].open \subseteq DOMAIN marks
      /\ \A j \in was[c].open : j \in call[c].hits \/ ~marks[j].open
      /\ call[c].ok => call[c].label \in was[c].off
                         \/ (was[c].open # {} /\ \A j \in was[c].open : ~marks[j].open)
      /\ was[c].open # {} \/ call[c].label \in was[c].off
  BY <1>2, <1>3 DEF Inv, Told, Seen
<1>5. PICK i \in call[c].hits :
        LET rest == call[c].hits \ {i}
            resolved == marks' = [marks EXCEPT ![i].open = FALSE]
        IN \/ /\ resolved /\ UNCHANGED faults
              /\ call' = [call EXCEPT ![c].hits = rest, ![c].ok = rest = {},
                                      ![c].pc = IF rest = {} THEN "done" ELSE "resolve"]
           \/ resolved /\ Lost(c, "done", FALSE)
           \/ Refused(c, "done", FALSE) /\ UNCHANGED marks
  BY DEF Resolve
<1> DEFINE rest == call[c].hits \ {i}
           resolved == marks' = [marks EXCEPT ![i].open = FALSE]
           next == [call[c] EXCEPT !.hits = rest, !.ok = rest = {},
                                   !.pc = IF rest = {} THEN "done" ELSE "resolve"]
<1>6. ASSUME NEW r \in CallRec, call' = [call EXCEPT ![c] = r],
             Kept, marks' \in Seq(Mark), labels' \in SUBSET Label, events' \in [Label -> Nat],
             UNCHANGED faults \/ \E f \in Faults : Fault(f),
             r.pc \in {"done", "resolve"}, r.label = call[c].label, r.op = "remove",
             r.pc = "resolve" => \A j \in call[c].hits : j \in r.hits \/ ~marks'[j].open,
             r.hits \subseteq call[c].hits,
             r.ok => call[c].ok \/ \A j \in call[c].hits : ~marks'[j].open
      PROVE  Inv'
  <2>1. call'[c] = r
    BY <1>6, Types DEF Inv
  <2>2. /\ was[c].off \subseteq was'[c].off /\ was'[c].open = was[c].open
    BY <1>2, <1>6, <2>1, SeesNow
  <2>3. Placed(c)'
    BY <1>2, <1>3, <1>6, <2>1 DEF Placed, AddPc
  <2>4. \A j \in was[c].open : j \in DOMAIN marks' /\ (j \in call[c].hits \/ ~marks'[j].open)
                                /\ (~marks[j].open => ~marks'[j].open)
    BY <1>4, <1>6 DEF Kept
  <2>5. r.ok => r.label \in was'[c].off \/ (was'[c].open # {} /\ \A j \in was'[c].open : ~marks'[j].open)
    BY <1>4, <1>6, <2>2, <2>4
  <2>6. r.pc = "resolve" => /\ r.hits \subseteq DOMAIN marks'
                            /\ \A j \in was'[c].open : j \in r.hits \/ ~marks'[j].open
    BY <1>4, <1>6, <2>2, <2>4 DEF Kept
  <2>7. Told(c)'
    BY <1>6, <2>1, <2>5, <2>6 DEF Told
  <2>8. call[c].pc \notin {"idle", "recheck"} /\ r.pc \notin {"idle", "recheck"}
    BY <1>2, <1>6
  <2>. QED BY <1>2, <1>6, <2>3, <2>7, <2>8, Touch
<1>7. CASE resolved /\ UNCHANGED faults /\ call' = [call EXCEPT ![c] = next]
  <2>1. /\ next \in CallRec /\ next.label = call[c].label /\ next.op = call[c].op
        /\ next.hits = rest /\ next.ok = (rest = {}) /\ next.pc = IF rest = {} THEN "done" ELSE "resolve"
    BY <1>1 DEF CallRec, Pc
  <2>. HIDE DEF next
  <2>2. /\ Kept /\ marks' \in Seq(Mark) /\ labels' \in SUBSET Label /\ events' \in [Label -> Nat]
        /\ ~marks'[i].open
    BY <1>2, <1>4, <1>7, ResolveKeeps
  <2>. QED BY <1>3, <1>6, <1>7, <2>1, <2>2
<1>8. CASE resolved /\ Lost(c, "done", FALSE)
  <2>1. Failed(c, "done", FALSE) /\ "done" \in Pc /\ \E f \in Faults : Fault(f)
    BY <1>8, RefusedTo DEF Pc
  <2>2. PICK r \in CallRec : /\ call' = [call EXCEPT ![c] = r]
                             /\ r.op = call[c].op /\ r.label = call[c].label /\ r.hits = call[c].hits
                             /\ \/ call[c].rdc /\ r.pc = "done" /\ r.ok = FALSE
                                \/ r.pc = call[c].pc /\ r.ok = call[c].ok
    BY <2>1, FailedTo
  <2>3. /\ Kept /\ marks' \in Seq(Mark) /\ labels' \in SUBSET Label /\ events' \in [Label -> Nat]
    BY <1>2, <1>4, <1>8, ResolveKeeps
  <2>. QED BY <1>2, <1>3, <1>6, <2>1, <2>2, <2>3
<1>9. CASE Refused(c, "done", FALSE) /\ UNCHANGED marks
  <2>1. Failed(c, "done", FALSE) /\ "done" \in Pc /\ \E f \in Faults : Fault(f)
    BY <1>9, RefusedTo DEF Pc
  <2>2. PICK r \in CallRec : /\ call' = [call EXCEPT ![c] = r]
                             /\ r.op = call[c].op /\ r.label = call[c].label /\ r.hits = call[c].hits
                             /\ \/ call[c].rdc /\ r.pc = "done" /\ r.ok = FALSE
                                \/ r.pc = call[c].pc /\ r.ok = call[c].ok
    BY <2>1, FailedTo
  <2>3. Kept /\ marks' \in Seq(Mark) /\ labels' \in SUBSET Label /\ events' \in [Label -> Nat]
    BY <1>2, <1>9, WorldKept DEF Inv, github
  <2>. QED BY <1>2, <1>3, <1>6, <2>1, <2>2, <2>3
<1>. QED BY <1>5, <1>7, <1>8, <1>9

-----------------------------------------------------------------------------
(* Reading on Codeup.                                                      *)

(* A reading that fails is sent again or ends the call without success.    *)
LEMMA RefusedDone ==
  ASSUME Inv, Watch, NEW c \in Client, Refused(c, "done", FALSE),
         UNCHANGED <<platform, github, codeup, locks, calls>>,
         call[c].pc \in {"reread", "edit", "list", "open", "resolved", "page"}
  PROVE  Inv'
<1>1. Failed(c, "done", FALSE) /\ "done" \in Pc /\ \E f \in Faults : Fault(f)
  BY RefusedTo DEF Pc
<1>2. PICK r \in CallRec :
        /\ call' = [call EXCEPT ![c] = r] /\ r.op = call[c].op /\ r.label = call[c].label
        /\ r.told = call[c].told /\ r.hits = call[c].hits
        /\ r.shown = call[c].shown /\ r.sure = call[c].sure
        /\ \/ call[c].rdc /\ r.pc = "done" /\ r.ok = FALSE
           \/ r.pc = call[c].pc /\ r.ok = call[c].ok
  BY <1>1, FailedTo
<1>3. call'[c] = r /\ UNCHANGED <<platform, labels, events, marks, calls>>
  BY <1>2, Types DEF Inv, github, codeup
<1>4. call[c].pc # "idle" /\ r.pc # "idle"
  BY <1>2
<1>5. Placed(c)'
  BY <1>2, <1>3 DEF Inv, Placed, AddPc
<1>6. /\ was[c].on \subseteq was'[c].on /\ was[c].off \subseteq was'[c].off
      /\ was'[c].open = was[c].open /\ was'[c].rounds = was[c].rounds
  BY <1>3, <1>4, SeesNow
<1>7. Told(c)'
  <2>1. TrueShow(c) /\ r.shown = call[c].shown => TrueShow(c)'
    BY <1>3, <1>6 DEF TrueShow
  <2>2. Closed(call[c].label)' = Closed(call[c].label)
    BY <1>2, <1>3 DEF Closed
  <2>3. Told(c)
    BY DEF Inv
  <2>. QED BY <1>2, <1>3, <1>4, <1>6, <2>1, <2>2, <2>3 DEF Told
<1>. QED BY <1>1, <1>2, <1>3, <1>4, <1>5, <1>7, LooksStill, Look

LEMMA ListStep ==
  ASSUME Inv, Watch, NEW c \in Client, List(c)
  PROVE  Inv'
<1>1. call[c] \in CallRec /\ call[c].label \in Label
  BY CallIs, CallFields
<1>2. call[c].pc = "list" /\ UNCHANGED <<platform, github, codeup, locks, calls>>
  BY DEF List
<1>3. call[c].op = "remove" /\ platform = "codeup" /\ calls[c] \in 1 .. MaxCalls
  BY <1>2 DEF Inv, Placed, TypeOK
<1>4. CASE Refused(c, "done", FALSE)
  BY <1>2, <1>4, RefusedDone
<1> DEFINE hits == Open(call[c].label)
           r == [call[c] EXCEPT !.pc = IF hits = {} THEN "done" ELSE "resolve",
                                !.hits = hits, !.ok = hits = {}]
<1>5. CASE call' = [call EXCEPT ![c] = r] /\ UNCHANGED faults
  <2>1. hits \subseteq DOMAIN marks /\ hits \in SUBSET Nat
    BY Types DEF Inv, Open
  <2>2. /\ r \in CallRec /\ r.label = call[c].label /\ r.op = "remove" /\ r.hits = hits
        /\ r.ok = (hits = {}) /\ r.pc = IF hits = {} THEN "done" ELSE "resolve"
    BY <1>1, <1>3, <2>1 DEF CallRec, Pc
  <2>. HIDE DEF r
  <2>3. call'[c] = r /\ UNCHANGED <<platform, labels, events, marks, calls>>
    BY <1>2, <1>5, Types DEF Inv, github, codeup
  <2>4. /\ was[c].off \subseteq was'[c].off /\ was'[c].open = was[c].open
    BY <1>2, <2>2, <2>3, SeesNow
  <2>5. /\ was[c].open \subseteq DOMAIN marks /\ \A i \in was[c].open : marks[i].label = call[c].label
        /\ was[c].open # {} \/ call[c].label \in was[c].off
    BY <1>2, <1>3 DEF Inv, Seen
  <2>6. \A i \in was[c].open : i \in hits \/ ~marks[i].open
    BY <2>5 DEF Open
  <2>7. Told(c)'
    BY <2>1, <2>2, <2>3, <2>4, <2>5, <2>6 DEF Told
  <2>8. Placed(c)'
    BY <1>2, <1>3, <2>2, <2>3 DEF Placed, AddPc
  <2>9. call[c].pc # "idle" /\ r.pc \notin {"idle", "recheck"} /\ call[c].pc # "recheck"
    BY <1>2, <2>2
  <2>. QED BY <1>2, <1>5, <2>2, <2>3, <2>7, <2>8, <2>9, LooksStill, Look
<1>. QED BY <1>4, <1>5 DEF List

LEMMA OpenClosed ==
  ASSUME Inv, NEW c \in Client, call[c].pc \in {"open", "resolved"}
  PROVE  /\ {i \in DOMAIN marks : marks[i].label = call[c].label /\ marks[i].open # Half(call[c].pc)}
              = IF call[c].pc = "open" THEN Open(call[c].label) ELSE Closed(call[c].label)
         /\ Cardinality(Open(call[c].label)) \in Nat /\ Cardinality(Closed(call[c].label)) \in Nat
<1>1. \A i \in DOMAIN marks : marks[i].open \in BOOLEAN
  BY Types DEF Inv, Mark
<1>2. CASE call[c].pc = "open"
  <2>1. \A i \in DOMAIN marks : (marks[i].open # Half(call[c].pc)) <=> marks[i].open
    BY <1>1, <1>2, Zenon DEF Half
  <2>. QED BY <1>2, <2>1, Counts DEF Inv, Open
<1>3. CASE call[c].pc = "resolved"
  <2>1. \A i \in DOMAIN marks : (marks[i].open # Half(call[c].pc)) <=> ~marks[i].open
    BY <1>1, <1>3 DEF Half
  <2>. QED BY <1>3, <2>1, Counts DEF Inv, Closed
<1>. QED BY <1>2, <1>3

LEMMA ReadStep ==
  ASSUME Inv, Watch, NEW c \in Client, ReadComments(c)
  PROVE  Inv'
<1>1. /\ call[c] \in CallRec /\ call[c].label \in Label /\ call[c].told \in Nat
      /\ call[c].shown \in SUBSET Label /\ call[c].rdc \in BOOLEAN
  BY CallIs, CallFields
<1>2. /\ call[c].pc \in {"open", "resolved"} /\ UNCHANGED <<platform, github, codeup, locks, calls>>
      /\ call[c].pc # "idle" /\ call[c].pc # "recheck"
  BY DEF ReadComments
<1>3. /\ call[c].op \in {"view", "history"} /\ platform = "codeup" /\ calls[c] \in 1 .. MaxCalls
  BY <1>2 DEF Inv, Placed, TypeOK
<1> DEFINE l == call[c].label
           n == Cardinality(IF call[c].pc = "open" THEN Open(l) ELSE Closed(l))
           next == IF call[c].pc = "open" THEN "resolved"
                   ELSE IF call[c].op = "view" THEN "links" ELSE "done"
           r == [call[c] EXCEPT !.told = @ + n, !.shown = IF Half(call[c].pc) THEN @ ELSE On,
                                !.ok = call[c].pc = "resolved", !.pc = next]
           hidden == [call[c] EXCEPT !.pc = "links", !.sure = FALSE]
           again == [call[c] EXCEPT !.rdc = TRUE]
<1>4. CASE call' = [call EXCEPT ![c] = r] /\ UNCHANGED faults
  <2>1. On \in SUBSET Label /\ n \in Nat /\ next \in {"resolved", "links", "done"}
    BY OpenClosed, OnIs, <1>2 DEF Inv
  <2>2. /\ r \in CallRec /\ r.label = l /\ r.op = call[c].op /\ r.told = call[c].told + n
        /\ r.shown = (IF Half(call[c].pc) THEN call[c].shown ELSE On) /\ r.sure = call[c].sure
        /\ r.ok = (call[c].pc = "resolved") /\ r.pc = next
    <3> DEFINE told == call[c].told + n
               shown == IF Half(call[c].pc) THEN call[c].shown ELSE On
               ok == call[c].pc = "resolved"
    <3>1. told \in Nat /\ shown \in SUBSET Label /\ ok \in BOOLEAN /\ next \in Pc
      BY <1>1, <2>1 DEF Pc
    <3>2. r = [call[c] EXCEPT !.told = told, !.shown = shown, !.ok = ok, !.pc = next]
      BY <1>1 DEF CallRec
    <3>. HIDE DEF r, told, shown, ok, next
    <3>3. /\ r \in CallRec /\ r.label = l /\ r.op = call[c].op /\ r.told = told
          /\ r.shown = shown /\ r.sure = call[c].sure /\ r.ok = ok /\ r.pc = next
      BY <1>1, <3>1, <3>2 DEF CallRec
    <3>. QED BY <3>3 DEF told, shown, ok
  <2>. HIDE DEF r
  <2>3. call'[c] = r /\ UNCHANGED <<platform, labels, events, marks, calls>>
    BY <1>2, <1>4, Types DEF Inv, github, codeup
  <2>4. call'[c].pc \notin {"idle", "recheck"}
    BY <2>1, <2>2, <2>3
  <2>5. /\ On \subseteq was'[c].on /\ Label \ On \subseteq was'[c].off
        /\ was[c].on \subseteq was'[c].on /\ was[c].off \subseteq was'[c].off
        /\ was'[c].rounds = was[c].rounds
    BY <1>2, <2>3, <2>4, SeesNow
  <2>6. Told(c) /\ was[c].rounds \in Nat /\ was[c].rounds <= Count(l)
    BY <1>2 DEF Inv, Seen, WasRec
  <2>7. Placed(c)'
    BY <1>2, <1>3, <2>1, <2>2, <2>3 DEF Placed, AddPc
  <2>8. Told(c)'
    <3>1. CASE call[c].pc = "open"
      <4>1. Cardinality(Open(l)) + Cardinality(Closed(l)) >= was[c].rounds
        BY <1>1, <1>3, <2>6, Counts, CountIs DEF Inv
      <4>2. n = Cardinality(Open(l)) /\ Cardinality(Open(l)) \in Nat /\ Cardinality(Closed(l)) \in Nat
        BY <1>2, <3>1, OpenClosed
      <4>3. r.told + Cardinality(Closed(l)) >= was'[c].rounds
        BY <1>1, <2>2, <2>5, <2>6, <4>1, <4>2
      <4>4. r.shown = On /\ r.pc = "resolved"
        BY <2>2, <3>1 DEF Half
      <4>5. TrueShow(c)'
        BY <2>3, <2>5, <4>4 DEF TrueShow
      <4>6. Closed(l)' = Closed(l) /\ call'[c].label = l
        BY <2>2, <2>3 DEF Closed
      <4>. QED BY <1>3, <2>2, <2>3, <4>3, <4>4, <4>5, <4>6 DEF Told
    <3>2. CASE call[c].pc = "resolved"
      <4>1. n = Cardinality(Closed(l))
        BY <3>2
      <4>2. call[c].op = "history" => r.told >= was'[c].rounds
        BY <2>2, <2>5, <2>6, <3>2, <4>1 DEF Told
      <4>3. r.shown = call[c].shown
        BY <2>2, <3>2 DEF Half
      <4>4. call[c].op = "view" /\ call[c].sure => TrueShow(c)'
        BY <2>3, <2>5, <2>6, <3>2, <4>3 DEF Told, TrueShow
      <4>. QED BY <1>3, <2>1, <2>2, <2>3, <3>2, <4>2, <4>4 DEF Told
    <3>. QED BY <1>2, <3>1, <3>2
  <2>. QED BY <1>2, <1>4, <2>2, <2>3, <2>4, <2>7, <2>8, LooksStill, Look
<1>5. CASE call[c].op = "history" /\ Refused(c, "done", FALSE)
  BY <1>2, <1>5, RefusedDone
<1>6. ASSUME NEW s \in CallRec, call' = [call EXCEPT ![c] = s], Fault("refused"), call[c].op = "view",
             s.label = l, s.op = call[c].op, s.told = call[c].told, s.shown = call[c].shown,
             \/ s.pc = "links" /\ ~s.sure
             \/ s.pc = call[c].pc /\ s.sure = call[c].sure
      PROVE  Inv'
  <2>1. call'[c] = s /\ UNCHANGED <<platform, labels, events, marks, calls>>
    BY <1>2, <1>6, Types DEF Inv, github, codeup
  <2>2. s.pc \notin {"idle", "recheck", "done"}
    BY <1>2, <1>6
  <2>3. /\ was[c].on \subseteq was'[c].on /\ was[c].off \subseteq was'[c].off
    BY <1>2, <2>1, <2>2, SeesNow
  <2>4. Placed(c)'
    BY <1>2, <1>3, <1>6, <2>1 DEF Placed, AddPc
  <2>5. Told(c)
    BY DEF Inv
  <2>6. Told(c)'
    BY <1>2, <1>6, <2>1, <2>2, <2>3, <2>5 DEF Told, TrueShow
  <2>7. \E f \in Faults : Fault(f)
    BY <1>6 DEF Fault
  <2>. QED BY <1>2, <1>6, <2>1, <2>2, <2>4, <2>6, <2>7, LooksStill, Look
<1>7. CASE call[c].op = "view" /\ Fault("refused") /\ call' = [call EXCEPT ![c] = hidden]
  <2>1. /\ hidden \in CallRec /\ hidden.label = l /\ hidden.op = call[c].op /\ hidden.told = call[c].told
        /\ hidden.shown = call[c].shown /\ hidden.pc = "links" /\ ~hidden.sure
    BY <1>1 DEF CallRec, Pc
  <2>. HIDE DEF hidden
  <2>. QED BY <1>6, <1>7, <2>1
<1>8. CASE call[c].op = "view" /\ Fault("refused") /\ call' = [call EXCEPT ![c] = again]
  <2>1. /\ again \in CallRec /\ again.label = l /\ again.op = call[c].op /\ again.told = call[c].told
        /\ again.shown = call[c].shown /\ again.pc = call[c].pc /\ again.sure = call[c].sure
    BY <1>1 DEF CallRec
  <2>. HIDE DEF again
  <2>. QED BY <1>6, <1>8, <2>1
<1>9. \/ call' = [call EXCEPT ![c] = r] /\ UNCHANGED faults
      \/ call[c].op = "history" /\ Refused(c, "done", FALSE)
      \/ /\ call[c].op = "view" /\ Fault("refused")
         /\ call' = [call EXCEPT ![c] = hidden] \/ call' = [call EXCEPT ![c] = again]
  <2> DEFINE m == Cardinality({i \in DOMAIN marks :
                    marks[i].label = call[c].label /\ marks[i].open # Half(call[c].pc)})
             q == [call[c] EXCEPT !.told = @ + m, !.shown = IF Half(call[c].pc) THEN @ ELSE On,
                                  !.ok = call[c].pc = "resolved", !.pc = next]
  <2>1. m = n
    BY <1>2, OpenClosed
  <2>2. \/ call' = [call EXCEPT ![c] = q] /\ UNCHANGED faults
        \/ Unread(c)
    BY DEF ReadComments
  <2>3. q = r
    BY <2>1
  <2>. HIDE DEF q, r
  <2>. QED BY <2>2, <2>3 DEF Unread
<1>. QED BY <1>4, <1>5, <1>7, <1>8, <1>9

(* The answer that ends a reading.                                         *)
LEMMA Answer ==
  ASSUME Inv, Watch, NEW c \in Client, call[c].pc \in {"links", "page", "edit", "reread"},
         UNCHANGED <<platform, github, codeup, locks, calls, faults>>,
         NEW ok \in BOOLEAN, NEW told \in Nat, NEW shown \in SUBSET Label,
         call' = [call EXCEPT ![c] = [call[c] EXCEPT !.pc = "done", !.ok = ok, !.told = told, !.shown = shown]],
         call[c].op = "add" /\ ok => call[c].label \in On,
         call[c].op = "remove" /\ ok => call[c].label \notin On,
         call[c].op = "history" => told >= was[c].rounds,
         call[c].op = "view" /\ call[c].sure => shown = On \/ (shown = call[c].shown /\ call[c].pc = "links"),
         call[c].op = "list" => shown = On \/ platform = "codeup"
  PROVE  Inv'
<1>1. call[c] \in CallRec /\ call[c].label \in Label
  BY CallIs, CallFields
<1>2. call[c].pc # "idle" /\ call[c].pc # "recheck" /\ Placed(c) /\ Told(c)
  BY DEF Inv
<1> DEFINE r == [call[c] EXCEPT !.pc = "done", !.ok = ok, !.told = told, !.shown = shown]
<1>3. /\ r \in CallRec /\ r.label = call[c].label /\ r.op = call[c].op /\ r.pc = "done"
      /\ r.ok = ok /\ r.told = told /\ r.shown = shown /\ r.sure = call[c].sure
  BY <1>1 DEF CallRec, Pc
<1>4. call' = [call EXCEPT ![c] = r]
  OBVIOUS
<1>. HIDE DEF r
<1>5. call'[c] = r /\ UNCHANGED <<platform, labels, events, marks, calls>>
  BY <1>4, Types DEF Inv, github, codeup
<1>6. /\ On \subseteq was'[c].on /\ Label \ On \subseteq was'[c].off
      /\ was[c].on \subseteq was'[c].on /\ was[c].off \subseteq was'[c].off
      /\ was'[c].rounds = was[c].rounds
  BY <1>2, <1>3, <1>5, SeesNow
<1>7. Placed(c)'
  BY <1>2, <1>3, <1>5 DEF Placed, AddPc
<1>8. call[c].op = "view" /\ call[c].sure => TrueShow(c)'
  BY <1>2, <1>3, <1>5, <1>6 DEF Told, TrueShow
<1>9. call[c].op = "list" => platform = "codeup" \/ TrueShow(c)'
  BY <1>3, <1>5, <1>6 DEF TrueShow
<1>10. Told(c)'
  BY <1>1, <1>3, <1>5, <1>6, <1>8, <1>9 DEF Told
<1>. QED BY <1>2, <1>3, <1>4, <1>5, <1>7, <1>10, LooksStill, Look

LEMMA AnswerSteps ==
  ASSUME Inv, Watch, NEW c \in Client, ReadLinks(c) \/ ReadPage(c) \/ Ask(c) \/ Reread(c)
  PROVE  Inv'
<1>1. /\ call[c] \in CallRec /\ call[c].label \in Label /\ call[c].told \in Nat
      /\ call[c].shown \in SUBSET Label /\ linked \in SUBSET Label
  BY CallIs, CallFields DEF Inv, TypeOK
<1>2. Placed(c)
  BY DEF Inv
<1>3. CASE ReadLinks(c)
  <2>1. PICK links \in {linked, {}} :
          call' = [call EXCEPT ![c].pc = "done", ![c].ok = TRUE,
                     ![c].shown = IF call[c].sure THEN Visible(@) ELSE links]
    BY <1>3 DEF ReadLinks
  <2> DEFINE shown == IF call[c].sure THEN call[c].shown ELSE links
  <2>2. Visible(call[c].shown) = call[c].shown
    BY DEF Visible
  <2>3. [call[c] EXCEPT !.pc = "done", !.ok = TRUE, !.shown = IF call[c].sure THEN Visible(@) ELSE links]
          = [call[c] EXCEPT !.pc = "done", !.ok = TRUE, !.told = call[c].told, !.shown = shown]
    BY <1>1, <2>2 DEF CallRec
  <2>4. call' = [call EXCEPT ![c] = [call[c] EXCEPT !.pc = "done", !.ok = TRUE,
                                                    !.told = call[c].told, !.shown = shown]]
    BY <2>1, <2>3
  <2>5. shown \in SUBSET Label
    BY <1>1
  <2>6. call[c].pc = "links" /\ call[c].op = "view"
    BY <1>2, <1>3 DEF ReadLinks, Placed
  <2>. QED BY <1>1, <1>3, <2>4, <2>5, <2>6, Answer DEF ReadLinks
<1>4. CASE ReadPage(c)
  <2>1. CASE Refused(c, "done", FALSE)
    BY <1>4, <2>1, RefusedDone DEF ReadPage
  <2>2. CASE /\ \E names \in {linked, {}} :
                  call' = [call EXCEPT ![c].pc = "done", ![c].ok = TRUE, ![c].shown = names]
             /\ UNCHANGED faults
    <3>1. PICK names \in {linked, {}} :
            call' = [call EXCEPT ![c].pc = "done", ![c].ok = TRUE, ![c].shown = names]
      BY <2>2
    <3>2. [call[c] EXCEPT !.pc = "done", !.ok = TRUE, !.shown = names]
            = [call[c] EXCEPT !.pc = "done", !.ok = TRUE, !.told = call[c].told, !.shown = names]
      BY <1>1 DEF CallRec
    <3>3. call' = [call EXCEPT ![c] = [call[c] EXCEPT !.pc = "done", !.ok = TRUE,
                                                      !.told = call[c].told, !.shown = names]]
      BY <3>1, <3>2
    <3>4. call[c].pc = "page" /\ call[c].op = "list" /\ platform = "codeup" /\ names \in SUBSET Label
      BY <1>1, <1>2, <1>4 DEF ReadPage, Placed, Inv, TypeOK
    <3>. QED BY <1>1, <1>4, <2>2, <3>3, <3>4, Answer DEF ReadPage
  <2>. QED BY <1>4, <2>1, <2>2 DEF ReadPage
<1>5. CASE Ask(c)
  <2>1. CASE Refused(c, "done", FALSE)
    BY <1>5, <2>1, RefusedDone DEF Ask
  <2>2. CASE /\ call' = [call EXCEPT ![c].pc = "done", ![c].ok = TRUE, ![c].shown = labels,
                                     ![c].told = events[call[c].label]]
             /\ UNCHANGED faults
    <3>1. platform = "github" /\ call[c].pc = "edit" /\ call[c].op \in {"view", "history", "list"}
      BY <1>2, <1>5 DEF Ask, Placed
    <3>2. labels = On /\ labels \in SUBSET Label /\ events[call[c].label] \in Nat
      BY <1>1, <3>1, OnIs DEF Inv, TypeOK
    <3>3. events[call[c].label] >= was[c].rounds
      BY <1>1, <3>1, CountIs DEF Inv, Seen, WasRec
    <3>4. [call[c] EXCEPT !.pc = "done", !.ok = TRUE, !.shown = labels, !.told = events[call[c].label]]
            = [call[c] EXCEPT !.pc = "done", !.ok = TRUE, !.told = events[call[c].label], !.shown = labels]
      BY <1>1 DEF CallRec
    <3>5. call' = [call EXCEPT ![c] = [call[c] EXCEPT !.pc = "done", !.ok = TRUE,
                                        !.told = events[call[c].label], !.shown = labels]]
      BY <2>2, <3>4
    <3>6. UNCHANGED <<platform, github, codeup, locks, calls, faults>>
      BY <1>5, <2>2 DEF Ask
    <3>. QED BY <3>1, <3>2, <3>3, <3>5, <3>6, Answer
  <2>. QED BY <1>5, <2>1, <2>2 DEF Ask
<1>6. CASE Reread(c)
  <2>1. CASE Refused(c, "done", FALSE)
    BY <1>6, <2>1, RefusedDone DEF Reread
  <2>2. CASE EndCall(c, (call[c].label \in labels) = (call[c].op = "add")) /\ UNCHANGED faults
    <3> DEFINE ok == (call[c].label \in labels) = (call[c].op = "add")
    <3>1. platform = "github" /\ call[c].pc = "reread" /\ call[c].op \in {"add", "remove"}
      BY <1>2, <1>6 DEF Reread, Placed
    <3>2. labels = On
      BY <3>1, OnIs DEF Inv
    <3>3. ok \in BOOLEAN
      OBVIOUS
    <3>4. [call[c] EXCEPT !.pc = "done", !.ok = ok]
            = [call[c] EXCEPT !.pc = "done", !.ok = ok, !.told = call[c].told, !.shown = call[c].shown]
      BY <1>1 DEF CallRec
    <3>5. call' = [call EXCEPT ![c] = [call[c] EXCEPT !.pc = "done", !.ok = ok,
                                        !.told = call[c].told, !.shown = call[c].shown]]
      BY <2>2, <3>4 DEF EndCall
    <3>6. (call[c].op = "add" /\ ok => call[c].label \in On)
          /\ (call[c].op = "remove" /\ ok => call[c].label \notin On)
      BY <3>1, <3>2
    <3>. HIDE DEF ok
    <3>. QED BY <1>1, <1>6, <2>2, <3>1, <3>3, <3>5, <3>6, Answer DEF Reread
  <2>. QED BY <1>6, <2>1, <2>2 DEF Reread
<1>. QED BY <1>3, <1>4, <1>5, <1>6

LEMMA EditStep ==
  ASSUME Inv, Watch, NEW c \in Client, Edit(c)
  PROVE  Inv'
<1>1. call[c] \in CallRec /\ call[c].label \in Label
  BY CallIs, CallFields
<1>2. /\ call[c].pc = "edit" /\ call[c].op \in {"add", "remove"}
      /\ UNCHANGED <<platform, codeup, locks, calls>>
  BY DEF Edit
<1>3. platform = "github" /\ calls[c] \in 1 .. MaxCalls /\ Told(c)
  BY <1>2 DEF Inv, Placed
<1>4. ASSUME Apply(c)
      PROVE  /\ Kept /\ labels' \in SUBSET Label /\ events' \in [Label -> Nat] /\ marks' \in Seq(Mark)
             /\ call[c].op = "add" => call[c].label \in On'
             /\ call[c].op = "remove" => call[c].label \notin On'
  <2>1. labels \in SUBSET Label /\ events \in [Label -> Nat] /\ marks \in Seq(Mark)
    BY DEF Inv, TypeOK, Mark
  <2>2. labels' \in SUBSET Label /\ events' \in [Label -> Nat] /\ \A l \in Label : events[l] <= events'[l]
    BY <1>1, <1>4, <2>1 DEF Apply, Put, TakeOff
  <2>3. marks' = marks /\ platform' = platform /\ On' = labels'
    BY <1>2, <1>3 DEF codeup, On
  <2>. QED BY <1>2, <1>4, <2>1, <2>2, <2>3 DEF Kept, Apply, Put, TakeOff
<1>5. ASSUME NEW r \in CallRec, call' = [call EXCEPT ![c] = r],
             UNCHANGED faults \/ \E f \in Faults : Fault(f),
             r.pc \in {"done", "reread", "edit"}, r.label = call[c].label, r.op = call[c].op,
             Apply(c) \/ (UNCHANGED github /\ (r.ok => call[c].ok))
      PROVE  Inv'
  <2>1. Kept /\ labels' \in SUBSET Label /\ events' \in [Label -> Nat] /\ marks' \in Seq(Mark)
    <3>1. CASE Apply(c)
      BY <1>4, <3>1
    <3>2. CASE UNCHANGED github
      BY <1>2, <3>2, WorldKept DEF Inv, github, codeup
    <3>. QED BY <1>5, <3>1, <3>2
  <2>2. call'[c] = r
    BY <1>5, Types DEF Inv
  <2>3. Placed(c)'
    BY <1>2, <1>3, <1>5, <2>2 DEF Placed, AddPc
  <2>4. /\ On' \subseteq was'[c].on /\ Label \ On' \subseteq was'[c].off
        /\ was[c].on \subseteq was'[c].on /\ was[c].off \subseteq was'[c].off
        /\ was'[c].open = was[c].open
    BY <1>2, <1>5, <2>2, SeesNow
  <2>5. call[c].op = "add" /\ r.ok => call[c].label \in was'[c].on
    BY <1>2, <1>3, <1>4, <1>5, <2>4 DEF Told
  <2>6. marks' = marks
    BY <1>2 DEF codeup
  <2>7. call[c].op = "remove" /\ r.ok
          => call[c].label \in was'[c].off
               \/ (was'[c].open # {} /\ \A i \in was'[c].open : ~marks'[i].open)
    BY <1>1, <1>2, <1>3, <1>4, <1>5, <2>4, <2>6 DEF Told
  <2>8. Told(c)'
    BY <1>2, <1>5, <2>2, <2>5, <2>7 DEF Told
  <2>. QED BY <1>2, <1>5, <2>1, <2>3, <2>8, Touch DEF codeup
<1>6. CASE Apply(c) /\ EndCall(c, TRUE) /\ UNCHANGED faults
  <2> DEFINE r == [call[c] EXCEPT !.pc = "done", !.ok = TRUE]
  <2>1. r \in CallRec /\ r.pc = "done" /\ r.label = call[c].label /\ r.op = call[c].op
    BY <1>1 DEF CallRec, Pc
  <2>2. call' = [call EXCEPT ![c] = r]
    BY <1>6 DEF EndCall
  <2>. HIDE DEF r
  <2>. QED BY <1>5, <1>6, <2>1, <2>2
<1>7. ASSUME Refused(c, "reread", FALSE) \/ Lost(c, "reread", FALSE),
             Apply(c) \/ UNCHANGED github
      PROVE  Inv'
  <2>1. Failed(c, "reread", FALSE) /\ "reread" \in Pc /\ \E f \in Faults : Fault(f)
    BY <1>7, RefusedTo DEF Pc
  <2>2. PICK r \in CallRec : /\ call' = [call EXCEPT ![c] = r]
                             /\ r.op = call[c].op /\ r.label = call[c].label
                             /\ \/ call[c].rdc /\ r.pc = "reread" /\ r.ok = FALSE
                                \/ r.pc = call[c].pc /\ r.ok = call[c].ok
    BY <2>1, FailedTo
  <2>. QED BY <1>2, <1>5, <1>7, <2>1, <2>2
<1>. QED BY <1>6, <1>7 DEF Edit

-----------------------------------------------------------------------------
(* Calls begin and end.                                                    *)

LEMMA StartStep ==
  ASSUME Inv, Watch, NEW c \in Client, NEW op \in Op, NEW l \in Label, NEW rdc \in BOOLEAN,
         Start(c, op, l, rdc)
  PROVE  Inv'
<1> DEFINE pc == IF platform = "github" THEN "edit"
                 ELSE CASE op = "add" -> "lock" [] op = "remove" -> "list"
                        [] op = "list" -> "page" [] OTHER -> "open"
           r == [Idle EXCEPT !.op = op, !.label = l, !.rdc = rdc, !.pc = pc]
<1>1. /\ call[c].pc = "idle" /\ calls[c] < MaxCalls /\ calls' = [calls EXCEPT ![c] = @ + 1]
      /\ call' = [call EXCEPT ![c] = r]
      /\ UNCHANGED <<platform, github, codeup, locks, faults>>
  BY DEF Start
<1>2. /\ calls \in [Client -> 0 .. MaxCalls] /\ MaxCalls \in Nat /\ platform \in {"github", "codeup"}
      /\ linked \in SUBSET Label /\ dir \in [Site \X Label -> Dir \cup {NoDir}]
      /\ victim \in [Client -> Dir \cup {NoDir}] /\ faults \in Seq(Faults) /\ Len(faults) <= MaxFaults
      /\ victim[c] = NoDir
  BY <1>1, HostingAssumption DEF Inv, TypeOK
<1>3. pc \in {"edit", "lock", "list", "page", "open"} /\ pc \in Pc
  BY DEF Pc
<1>4. /\ r \in CallRec /\ r.pc = pc /\ r.op = op /\ r.label = l /\ r.ok = FALSE
  BY <1>3 DEF CallRec, Idle
<1>5. platform = "codeup" => /\ pc = "lock" => op = "add"
                             /\ pc = "list" => op = "remove"
                             /\ pc = "page" => op = "list"
                             /\ pc = "open" => op \in {"view", "history"}
                             /\ pc # "edit"
  BY DEF Op
<1>6. platform = "github" => pc = "edit"
  OBVIOUS
<1>. HIDE DEF r, pc
<1>7. /\ call'[c] = r /\ calls'[c] = calls[c] + 1 /\ calls' \in [Client -> 0 .. MaxCalls]
      /\ calls'[c] \in 1 .. MaxCalls /\ calls'[c] # calls[c]
      /\ \A d \in Client \ {c} : call'[d] = call[d] /\ calls'[d] = calls[d]
  BY <1>1, <1>2, Types DEF Inv
<1>8. UNCHANGED <<platform, labels, events, marks>> /\ dir' = dir /\ victim' = victim /\ linked' = linked
  BY <1>1 DEF github, codeup, locks
<1>9. Kept /\ On' = On /\ labels' \in SUBSET Label /\ events' \in [Label -> Nat] /\ marks' \in Seq(Mark)
  BY <1>8, WorldKept DEF Inv
<1>10. r.pc # "recheck" /\ r.pc # "idle"
  BY <1>3, <1>4
<1>11. TypeOK'
  BY <1>1, <1>2, <1>4, <1>7, <1>8, <1>9, <1>10, TypesMoved
<1>12. /\ was'[c].on = On \cup On' /\ was'[c].off = (Label \ On) \cup (Label \ On')
       /\ was'[c].open = Open(l) /\ was'[c].rounds = Count(l)
  BY <1>4, <1>7, <1>10 DEF Watch
<1>13. Placed(c)'
  BY <1>2, <1>3, <1>4, <1>5, <1>6, <1>7, <1>8 DEF Placed, AddPc
<1>14. Seen(c)'
  <2>1. Open(l) \subseteq DOMAIN marks /\ \A i \in Open(l) : marks[i].label = l
    BY DEF Open
  <2>2. Open(l) = {} \/ platform = "codeup" \/ platform = "github"
    BY <1>2
  <2>3. platform = "codeup" => Open(l) # {} \/ l \notin On
    BY DEF On
  <2>4. Count(l)' = Count(l) /\ Count(l) \in Nat
    BY <1>8, CountIs DEF Count, Inv
  <2>5. Count(call[c].label)' = Count(l)'
    BY <1>4, <1>7 DEF Count
  <2>. QED BY <1>2, <1>4, <1>7, <1>8, <1>9, <1>12, <2>1, <2>3, <2>4, <2>5 DEF Seen
<1>15. Told(c)'
  BY <1>3, <1>4, <1>7 DEF Told
<1>. QED BY <1>7, <1>9, <1>11, <1>13, <1>14, <1>15, StepDone

LEMMA EndStep ==
  ASSUME Inv, Watch, NEW c \in Client, Leave(c) \/ Kill(c)
  PROVE  Inv'
<1>1. /\ call' = [call EXCEPT ![c] = Idle] /\ UNCHANGED <<platform, github, codeup, dir, calls>>
      /\ victim' = victim \/ victim' = [victim EXCEPT ![c] = NoDir]
      /\ call[c].pc = "done" \/ victim' = [victim EXCEPT ![c] = NoDir]
      /\ UNCHANGED faults \/ \E f \in Faults : Fault(f)
  BY DEF Leave, Kill, locks, Fault, Over
<1>2. /\ dir \in [Site \X Label -> Dir \cup {NoDir}] /\ victim \in [Client -> Dir \cup {NoDir}]
      /\ linked \in SUBSET Label /\ calls \in [Client -> 0 .. MaxCalls]
      /\ \A d \in Client : victim[d] # NoDir <=> call[d].pc = "recheck"
  BY DEF Inv, TypeOK
<1>3. Idle \in CallRec /\ Idle.pc = "idle"
  <2>1. (CHOOSE l \in Label : TRUE) \in Label
    BY HostingAssumption
  <2>. QED BY <2>1 DEF Idle, CallRec, Pc, Op
<1>. HIDE DEF Idle
<1>4. /\ call'[c] = Idle /\ UNCHANGED <<platform, labels, events, marks>> /\ linked' = linked
      /\ \A d \in Client \ {c} : call'[d] = call[d] /\ calls'[d] = calls[d]
  BY <1>1, Types DEF Inv, github, codeup
<1>5. Kept /\ labels' \in SUBSET Label /\ events' \in [Label -> Nat] /\ marks' \in Seq(Mark)
  BY <1>4, WorldKept DEF Inv
<1>6. faults' \in Seq(Faults) /\ Len(faults') <= MaxFaults
  BY <1>1, FaultsTyped DEF Inv
<1>7. /\ victim' \in [Client -> Dir \cup {NoDir}] /\ victim'[c] = NoDir
      /\ \A d \in Client \ {c} : victim'[d] = victim[d]
  BY <1>1, <1>2
<1>8. TypeOK'
  BY <1>1, <1>2, <1>3, <1>4, <1>5, <1>6, <1>7, TypesMoved
<1>9. Placed(c)' /\ Seen(c)' /\ Told(c)'
  BY <1>3, <1>4, IdleFine
<1>. QED BY <1>4, <1>5, <1>8, <1>9, StepDone

LEMMA InvInit == Init => Inv
<1>1. SUFFICES ASSUME Init
               PROVE  Inv
  OBVIOUS
<1>2. Idle \in CallRec /\ Idle.pc = "idle"
  <2>1. (CHOOSE l \in Label : TRUE) \in Label
    BY HostingAssumption
  <2>. QED BY <2>1 DEF Idle, CallRec, Pc, Op
<1>3. Nothing \in WasRec
  BY DEF Nothing, WasRec
<1>. HIDE DEF Idle, Nothing
<1>4. /\ call = [c \in Client |-> Idle] /\ was = [c \in Client |-> Nothing]
      /\ victim = [c \in Client |-> NoDir]
  BY <1>1, Zenon DEF Init
<1>5. TypeOK
  <2>1. call \in [Client -> CallRec] /\ \A c \in Client : call[c].pc = "idle" /\ victim[c] = NoDir
    BY <1>2, <1>4
  <2>2. /\ platform \in {"github", "codeup"} /\ labels \in SUBSET Label
        /\ linked \in SUBSET Label
        /\ calls \in [Client -> 0 .. MaxCalls] /\ events \in [Label -> Nat]
        /\ dir \in [Site \X Label -> Dir \cup {NoDir}] /\ victim \in [Client -> Dir \cup {NoDir}]
    BY <1>1, HostingAssumption DEF Init
  <2>3. marks \in Seq(Mark) /\ faults \in Seq(Faults) /\ Len(faults) <= MaxFaults
    BY <1>1, HostingAssumption DEF Init
  <2>. QED BY <2>1, <2>2, <2>3 DEF TypeOK, CallRec, Mark
<1>6. \A c \in Client : Placed(c) /\ Seen(c) /\ Told(c)
  BY <1>2, <1>4 DEF Placed, Seen, Told, AddPc
<1>7. was \in [Client -> WasRec]
  BY <1>3, <1>4
<1>. QED BY <1>5, <1>6, <1>7 DEF Inv

LEMMA InvNext == Inv /\ [Next]_vars => Inv'
<1>1. SUFFICES ASSUME Inv, [Next]_vars
               PROVE  Inv'
  OBVIOUS
<1>2. CASE UNCHANGED vars
  <2>1. UNCHANGED <<platform, labels, events, marks, linked, dir, victim, calls, call, faults, was>>
    BY <1>2 DEF vars
  <2>2. TypeOK' /\ was' \in [Client -> WasRec]
    BY <1>1, <2>1 DEF Inv, TypeOK
  <2>3. ASSUME NEW c \in Client
        PROVE  Placed(c)' /\ Seen(c)' /\ Told(c)'
    <3>1. Placed(c) /\ Seen(c) /\ Told(c)
      BY <1>1 DEF Inv
    <3>2. Placed(c)' /\ Seen(c)'
      BY <2>1, <3>1 DEF Placed, Seen, On, Open, Count
    <3>3. Told(c)'
      BY <2>1, <3>1 DEF Told, TrueShow, Closed
    <3>. QED BY <3>2, <3>3
  <2>. QED BY <2>2, <2>3 DEF Inv
<1>3. CASE Next
  <2>1. PICK c \in Client : /\ Leave(c) \/ Step(c) \/ StartAny(c) \/ Kill(c)
                            /\ Watch
    BY <1>3 DEF Next, Work
  <2>2. CASE Leave(c) \/ Kill(c)
    BY <1>1, <2>1, <2>2, EndStep
  <2>3. CASE StartAny(c)
    BY <1>1, <2>1, <2>3, StartStep DEF StartAny
  <2>4. CASE Step(c)
    BY <1>1, <2>1, <2>4, LockSteps, HoldSteps, PostStep, ResolveStep, ListStep, ReadStep,
       AnswerSteps, EditStep DEF Step
  <2>. QED BY <2>1, <2>2, <2>3, <2>4
<1>. QED BY <1>1, <1>2, <1>3

LEMMA InvAlways == Spec => []Inv
<1>. QED BY InvInit, InvNext, PTL DEF Spec

(* The variables keep their types, and who renamed a lock directory away   *)
(* has it until it is put back or removed.                                 *)
THEOREM HostingTypeCorrect == Spec => []TypeOK
<1>1. Inv => TypeOK
  BY DEF Inv
<1>. QED BY <1>1, InvAlways, PTL

(* label_history: a request that arrives while markers are posted and      *)
(* resolved, with faults, never answers fewer rounds than there were when  *)
(* it began: what closes leaves the open half before the resolved is read. *)
THEOREM HistoryIsNeverShort == Spec => []HistoryNeverShort
<1>1. Inv => HistoryNeverShort
  BY DEF Inv, HistoryNeverShort, Told
<1>. QED BY <1>1, InvAlways, PTL

(* The adapters' answers: a call that reports success tells what held at   *)
(* some moment of its run, whoever else was killed or had requests lost.   *)
THEOREM AnswersHold == Spec => []AnswersAreTrue
<1>1. Inv => AnswersAreTrue
  <2>1. SUFFICES ASSUME Inv, NEW c \in Client, call[c].pc = "done", call[c].ok
                 PROVE  Truthful(c)
    BY DEF AnswersAreTrue
  <2>2. Told(c) /\ call[c].op \in Op
    BY <2>1, CallIs, CallFields DEF Inv
  <2>3. call[c].pc # "idle" /\ call[c].pc # "resolve"
    BY <2>1
  <2>. QED BY <2>1, <2>2, <2>3 DEF Told, Truthful, TrueShow, Op
<1>. QED BY <1>1, InvAlways, PTL

-----------------------------------------------------------------------------
(* As long as the calls are of one site, nobody is killed and no request   *)
(* is lost, a lock directory has the one that made it, and only that one   *)
(* posts a marker.                                                         *)

Holding == {"pid", "check", "post", "unlock"}
Locked(c) ==
  LET k == call[c] d == dir[LockOf(c)] IN
  /\ k.pc \notin {"take", "recheck"}
  /\ k.pc \in Holding => /\ d # NoDir /\ d.maker = Me(c)
                         /\ d.pid = Me(c) \/ (k.pc = "pid" /\ d.pid = NoPid)
  /\ k.pc = "post" => Open(k.label) = {}
Owned(k) == dir[k] # NoDir =>
  \E c \in Client : dir[k].maker = Me(c) /\ call[c].pc \in Holding /\ LockOf(c) = k
LockInv == (\A c \in Client : Locked(c)) /\ (\A k \in Site \X Label : Owned(k))

LEMMA FaultCalm ==
  ASSUME Inv, Unharmed', UNCHANGED faults \/ \E f \in Faults : Fault(f)
  PROVE  /\ Unharmed /\ \A f \in Faults : Fault(f) => f = "refused"
<1>1. faults \in Seq(Faults)
  BY DEF Inv, TypeOK
<1>2. CASE UNCHANGED faults
  <2>1. \A f \in Faults : ~Fault(f)
    <3>1. SUFFICES ASSUME NEW f \in Faults, faults' = Append(faults, f)
                   PROVE  FALSE
      BY DEF Fault
    <3>2. Len(faults') = Len(faults) + 1 /\ Len(faults) \in Nat
      BY <1>1, <3>1
    <3>. QED BY <1>2, <3>2
  <2>. QED BY <1>2, <2>1 DEF Unharmed
<1>3. ASSUME NEW f \in Faults, Fault(f)
      PROVE  Unharmed /\ \A g \in Faults : Fault(g) => g = "refused"
  <2>1. faults' = Append(faults, f)
    BY <1>3 DEF Fault
  <2>2. /\ Len(faults) \in Nat /\ DOMAIN faults = 1 .. Len(faults)
        /\ DOMAIN faults' = 1 .. Len(faults) + 1 /\ faults'[Len(faults) + 1] = f
        /\ \A i \in 1 .. Len(faults) : faults'[i] = faults[i]
    BY <1>1, <2>1
  <2>3. Unharmed
    BY <2>2 DEF Unharmed
  <2>4. ASSUME NEW g \in Faults, faults' = Append(faults, g)
        PROVE  g = "refused"
    <3>1. faults'[Len(faults) + 1] = g
      BY <1>1, <2>4
    <3>. QED BY <2>2, <3>1 DEF Unharmed
  <2>. QED BY <2>3, <2>4 DEF Fault
<1>. QED BY <1>2, <1>3

LEMMA Faulty ==
  ASSUME NEW c \in Client, Leave(c) \/ Step(c) \/ StartAny(c) \/ Kill(c)
  PROVE  UNCHANGED faults \/ \E f \in Faults : Fault(f)
<1>1. \A f : Fault(f) => f \in Faults
  BY DEF Fault
<1>. QED BY <1>1 DEF Leave, Step, StartAny, Start, Kill, Edit, Reread, Ask, List, Resolve, Mkdir, Judge,
       GiveUp, Take, Recheck, WritePid, Check, Post, Unlock, Link, ReadComments, ReadLinks, ReadPage,
       Refused, Lost, Unread

LEMMA NotCalm ==
  ASSUME Inv, Calm', NEW c \in Client
  PROVE  ~Fault("kill") /\ ~Fault("lost")
<1>1. \A f : Fault(f) => f \in Faults
  BY DEF Fault
<1>2. ("kill" # "refused") /\ ("lost" # "refused")
  OBVIOUS
<1>3. ASSUME Fault("kill")
      PROVE  FALSE
  BY <1>1, <1>2, <1>3, FaultCalm DEF Calm
<1>4. ASSUME Fault("lost")
      PROVE  FALSE
  BY <1>1, <1>2, <1>4, FaultCalm DEF Calm
<1>. QED BY <1>3, <1>4

(* Calls are only added, so the calls before were of one site as well.     *)
LEMMA CalmBefore ==
  ASSUME Inv, Calm', NEW c \in Client, Leave(c) \/ Step(c) \/ StartAny(c) \/ Kill(c)
  PROVE  Calm
<1>1. Unharmed
  BY Faulty, FaultCalm DEF Calm
<1>2. calls \in [Client -> 0 .. MaxCalls] /\ MaxCalls \in Nat
  BY HostingAssumption DEF Inv, TypeOK
<1>3. calls' = calls \/ calls' = [calls EXCEPT ![c] = @ + 1]
  BY DEF Leave, Step, StartAny, Start, Kill, Edit, Reread, Ask, List, Resolve, Mkdir, Judge,
       GiveUp, Take, Recheck, WritePid, Check, Post, Unlock, Link, ReadComments, ReadLinks, ReadPage
<1>4. \A d \in Client : calls[d] \in Nat /\ calls'[d] \in Nat /\ calls[d] <= calls'[d]
  BY <1>2, <1>3
<1>5. PICK s \in Site : \A d \in Client : \A n \in 1 .. calls'[d] : SiteOf[<<d, n>>] = s
  BY DEF Calm, OneSite
<1>6. ASSUME NEW d \in Client, NEW n \in 1 .. calls[d]
      PROVE  SiteOf[<<d, n>>] = s
  <2>1. n \in 1 .. calls'[d]
    BY <1>4
  <2>. QED BY <1>5, <2>1
<1>. QED BY <1>1, <1>6 DEF Calm, OneSite

LEMMA SameSite ==
  ASSUME Inv, OneSite, NEW c \in Client, NEW d \in Client, call[c].pc # "idle", call[d].pc # "idle",
         call[c].label = call[d].label
  PROVE  LockOf(c) = LockOf(d)
<1>1. calls[c] \in 1 .. calls[c] /\ calls[d] \in 1 .. calls[d]
  BY HostingAssumption DEF Inv, Placed
<1>. QED BY <1>1 DEF OneSite, LockOf, Me

(* Two calls do not hold one lock.                                         *)
LEMMA OneHolder ==
  ASSUME Inv, LockInv, OneSite, NEW c \in Client, NEW d \in Client,
         call[c].pc \in Holding, call[d].pc \in Holding, call[c].label = call[d].label
  PROVE  c = d
<1>0. LockOf(c) = LockOf(d)
  BY SameSite DEF Holding
<1>1. Me(c) = Me(d)
  BY <1>0 DEF LockInv, Locked
<1>. QED BY <1>1 DEF Me

(* The steps of a call that holds no lock before and after.                *)
LEMMA Quiet ==
  ASSUME Inv, LockInv, NEW c \in Client, call[c].pc \notin Holding,
         call'[c].pc \notin Holding \cup {"take", "recheck"}, dir' = dir,
         \A d \in Client \ {c} : call'[d] = call[d] /\ calls'[d] = calls[d],
         \A l : Open(l)' \subseteq Open(l)
  PROVE  LockInv'
<1>1. Locked(c)'
  BY DEF Locked, Holding
<1>2. ASSUME NEW d \in Client \ {c}
      PROVE  Locked(d)'
  <2>1. Locked(d) /\ call'[d] = call[d] /\ calls'[d] = calls[d]
    BY DEF LockInv
  <2>2. Open(call[d].label)' \subseteq Open(call[d].label)
    <3>1. \A l : {i \in DOMAIN marks' : marks'[i].label = l /\ marks'[i].open}
                   \subseteq {i \in DOMAIN marks : marks[i].label = l /\ marks[i].open}
      BY DEF Open
    <3>. QED BY <2>1, <3>1 DEF Open
  <2>. QED BY <2>1, <2>2 DEF Locked, LockOf, Me
<1>3. ASSUME NEW k \in Site \X Label
      PROVE  Owned(k)'
  <2>1. Owned(k)
    BY DEF LockInv
  <2>. QED BY <2>1 DEF Owned, LockOf, Me
<1>. QED BY <1>1, <1>2, <1>3 DEF LockInv

LEMMA OpenStays ==
  ASSUME UNCHANGED marks
  PROVE  \A l : Open(l)' \subseteq Open(l)
BY DEF Open

LEMMA FailedPc ==
  ASSUME Inv, NEW c \in Client, NEW pc \in Pc, Refused(c, pc, FALSE)
  PROVE  /\ call'[c].pc \in {pc, call[c].pc} /\ call'[c].label = call[c].label
         /\ \A d \in Client \ {c} : call'[d] = call[d]
<1>1. PICK r \in CallRec : /\ call' = [call EXCEPT ![c] = r] /\ r.label = call[c].label
                           /\ \/ call[c].rdc /\ r.pc = pc /\ r.ok = FALSE
                              \/ r.pc = call[c].pc /\ r.ok = call[c].ok
  BY RefusedTo, FailedTo
<1>. QED BY <1>1, Types DEF Inv

LEMMA Replaced ==
  ASSUME Inv, NEW c \in Client, NEW r, call' = [call EXCEPT ![c] = r]
  PROVE  call'[c] = r /\ \A d \in Client \ {c} : call'[d] = call[d]
BY Types DEF Inv

LEMMA QuietSteps ==
  ASSUME Inv, LockInv, Calm', NEW c \in Client,
         \/ Reread(c) \/ Ask(c) \/ List(c) \/ GiveUp(c) \/ Link(c)
         \/ ReadComments(c) \/ ReadLinks(c) \/ ReadPage(c) \/ StartAny(c) \/ Leave(c)
  PROVE  LockInv'
<1>1. call \in [Client -> CallRec] /\ calls \in [Client -> 0 .. MaxCalls]
  BY Types DEF Inv, TypeOK
<1> DEFINE out == /\ call[c].pc \notin Holding /\ call'[c].pc \notin Holding \cup {"take", "recheck"}
                  /\ dir' = dir /\ \A d \in Client \ {c} : call'[d] = call[d] /\ calls'[d] = calls[d]
<1>2. UNCHANGED marks
  BY DEF Reread, Ask, List, GiveUp, Link, ReadComments, ReadLinks, ReadPage, StartAny, Start, Leave, codeup
<1>3. call[c] \in CallRec
  BY <1>1
<1>4. CASE Reread(c)
  <2>1. call'[c].pc \in {"done", "reread"} /\ \A d \in Client \ {c} : call'[d] = call[d]
    <3>1. CASE Refused(c, "done", FALSE)
      BY <1>4, <3>1, FailedPc DEF Reread, Pc
    <3>2. CASE EndCall(c, (call[c].label \in labels) = (call[c].op = "add"))
      BY <1>1, <1>3, <3>2 DEF EndCall, CallRec
    <3>. QED BY <1>4, <3>1, <3>2 DEF Reread
  <2>. QED BY <1>2, <1>4, <2>1, OpenStays, Quiet DEF Reread, Holding, locks
<1>5. CASE Ask(c)
  <2>1. call'[c].pc \in {"done", "edit"} /\ \A d \in Client \ {c} : call'[d] = call[d]
    <3>1. CASE Refused(c, "done", FALSE)
      BY <1>5, <3>1, FailedPc DEF Ask, Pc
    <3>2. CASE ~Refused(c, "done", FALSE)
      <4> DEFINE r == [call[c] EXCEPT !.pc = "done", !.ok = TRUE, !.shown = labels,
                                     !.told = events[call[c].label]]
      <4>1. r.pc = "done"
        BY <1>3 DEF CallRec
      <4>2. call' = [call EXCEPT ![c] = r]
        BY <1>5, <3>2 DEF Ask
      <4>. HIDE DEF r
      <4>. QED BY <4>1, <4>2, Replaced
    <3>. QED BY <3>1, <3>2
  <2>. QED BY <1>2, <1>5, <2>1, OpenStays, Quiet DEF Ask, Holding, locks
<1>6. CASE List(c)
  <2>1. call'[c].pc \in {"done", "list", "resolve"} /\ \A d \in Client \ {c} : call'[d] = call[d]
    <3>1. CASE Refused(c, "done", FALSE)
      BY <1>6, <3>1, FailedPc DEF List, Pc
    <3>2. CASE ~Refused(c, "done", FALSE)
      <4> DEFINE r == [call[c] EXCEPT !.pc = IF Open(call[c].label) = {} THEN "done" ELSE "resolve",
                                     !.hits = Open(call[c].label), !.ok = Open(call[c].label) = {}]
      <4>1. r.pc \in {"done", "resolve"}
        BY <1>3 DEF CallRec
      <4>2. call' = [call EXCEPT ![c] = r]
        BY <1>6, <3>2 DEF List
      <4>. HIDE DEF r
      <4>. QED BY <4>1, <4>2, Replaced
    <3>. QED BY <3>1, <3>2
  <2>. QED BY <1>2, <1>6, <2>1, OpenStays, Quiet DEF List, Holding, locks
<1>7. CASE GiveUp(c) \/ Link(c)
  <2>1. call'[c].pc = "done" /\ \A d \in Client \ {c} : call'[d] = call[d]
    BY <1>1, <1>3, <1>7 DEF GiveUp, Link, EndCall, To, CallRec
  <2>. QED BY <1>2, <1>7, <2>1, OpenStays, Quiet DEF GiveUp, Link, Holding, locks
<1>8. CASE ReadComments(c)
  <2>1. call'[c].pc \in {"done", "links", "open", "resolved"} /\ \A d \in Client \ {c} : call'[d] = call[d]
    <3>1. CASE Refused(c, "done", FALSE)
      BY <1>8, <3>1, FailedPc DEF ReadComments, Pc
    <3>2. CASE ~Refused(c, "done", FALSE)
      <4> DEFINE next == IF call[c].pc = "open" THEN "resolved"
                         ELSE IF call[c].op = "view" THEN "links" ELSE "done"
             n == Cardinality({i \in DOMAIN marks :
                    marks[i].label = call[c].label /\ marks[i].open # Half(call[c].pc)})
             r1 == [call[c] EXCEPT !.told = @ + n, !.shown = IF Half(call[c].pc) THEN @ ELSE On,
                                   !.ok = call[c].pc = "resolved", !.pc = next]
             r2 == [call[c] EXCEPT !.pc = "links", !.sure = FALSE]
             r3 == [call[c] EXCEPT !.rdc = TRUE]
      <4>1. \/ call' = [call EXCEPT ![c] = r1]
            \/ call' = [call EXCEPT ![c] = r2]
            \/ call' = [call EXCEPT ![c] = r3]
        BY <1>8, <3>2 DEF ReadComments, Unread
      <4>2. r1.pc = next /\ r2.pc = "links" /\ r3.pc = call[c].pc
        BY <1>3 DEF CallRec
      <4>3. call'[c].pc \in {next, "links", call[c].pc} /\ \A d \in Client \ {c} : call'[d] = call[d]
        <5>. HIDE DEF r1, r2, r3, next
        <5>. QED BY <4>1, <4>2, Replaced
      <4>. QED BY <1>8, <4>3 DEF ReadComments
    <3>. QED BY <3>1, <3>2
  <2>. QED BY <1>2, <1>8, <2>1, OpenStays, Quiet DEF ReadComments, Holding, locks
<1>9. CASE ReadLinks(c)
  <2>1. call'[c].pc = "done" /\ \A d \in Client \ {c} : call'[d] = call[d]
    BY <1>1, <1>3, <1>9 DEF ReadLinks, CallRec
  <2>. QED BY <1>2, <1>9, <2>1, OpenStays, Quiet DEF ReadLinks, Holding, locks
<1>10. CASE ReadPage(c)
  <2>1. call'[c].pc \in {"done", "page"} /\ \A d \in Client \ {c} : call'[d] = call[d]
    <3>1. CASE Refused(c, "done", FALSE)
      BY <1>10, <3>1, FailedPc DEF ReadPage, Pc
    <3>2. CASE ~Refused(c, "done", FALSE)
      <4>1. PICK names \in {linked, {}} :
              call' = [call EXCEPT ![c].pc = "done", ![c].ok = TRUE, ![c].shown = names]
        BY <1>10, <3>2 DEF ReadPage
      <4> DEFINE r == [call[c] EXCEPT !.pc = "done", !.ok = TRUE, !.shown = names]
      <4>2. r.pc = "done"
        BY <1>3 DEF CallRec
      <4>3. call' = [call EXCEPT ![c] = r]
        BY <4>1
      <4>. HIDE DEF r
      <4>. QED BY <4>2, <4>3, Replaced
    <3>. QED BY <3>1, <3>2
  <2>. QED BY <1>2, <1>10, <2>1, OpenStays, Quiet DEF ReadPage, Holding, locks
<1>11. CASE StartAny(c)
  <2>1. PICK op \in Op, l \in Label, rdc \in BOOLEAN : Start(c, op, l, rdc)
    BY <1>11 DEF StartAny
  <2>2. /\ call[c].pc = "idle" /\ dir' = dir
        /\ \A d \in Client \ {c} : call'[d] = call[d] /\ calls'[d] = calls[d]
    BY <1>1, <2>1 DEF Start, locks
  <2>3. call'[c].pc \in {"edit", "lock", "list", "page", "open"}
    BY <1>1, <2>1 DEF Start, Idle
  <2>. QED BY <1>2, <2>2, <2>3, OpenStays, Quiet DEF Holding
<1>12. CASE Leave(c)
  <2>1. call'[c].pc = "idle" /\ \A d \in Client \ {c} : call'[d] = call[d]
    BY <1>1, <1>12 DEF Leave, Idle
  <2>. QED BY <1>2, <1>12, <2>1, OpenStays, Quiet DEF Leave, Over, Holding, locks
<1>. QED BY <1>4, <1>5, <1>6, <1>7, <1>8, <1>9, <1>10, <1>11, <1>12

LEMMA QuietWrites ==
  ASSUME Inv, LockInv, Calm', NEW c \in Client, Edit(c) \/ Resolve(c)
  PROVE  LockInv'
<1>1. call[c] \in CallRec
  BY CallIs
<1>2. ~Fault("lost")
  BY NotCalm
<1>3. CASE Edit(c)
  <2>1. call'[c].pc \in {"done", "reread", "edit"} /\ \A d \in Client \ {c} : call'[d] = call[d]
    <3>1. CASE Refused(c, "reread", FALSE)
      BY <1>3, <3>1, FailedPc DEF Edit, Pc
    <3>2. CASE EndCall(c, TRUE)
      <4> DEFINE r == [call[c] EXCEPT !.pc = "done", !.ok = TRUE]
      <4>1. r.pc = "done"
        BY <1>1 DEF CallRec
      <4>2. call' = [call EXCEPT ![c] = r]
        BY <3>2 DEF EndCall
      <4>. HIDE DEF r
      <4>. QED BY <4>1, <4>2, Replaced
    <3>. QED BY <1>2, <1>3, <3>1, <3>2 DEF Edit, Lost
  <2>2. UNCHANGED marks
    BY <1>3 DEF Edit, codeup
  <2>. QED BY <1>3, <2>1, <2>2, OpenStays, Quiet DEF Edit, Holding, locks
<1>4. CASE Resolve(c)
  <2>1. PICK i \in call[c].hits :
          \/ /\ marks' = [marks EXCEPT ![i].open = FALSE]
             /\ call' = [call EXCEPT ![c].hits = @ \ {i}, ![c].ok = call[c].hits \ {i} = {},
                                     ![c].pc = IF call[c].hits \ {i} = {} THEN "done" ELSE "resolve"]
          \/ Refused(c, "done", FALSE) /\ UNCHANGED marks
    BY <1>2, <1>4 DEF Resolve, Lost
  <2>2. call'[c].pc \in {"done", "resolve"} /\ \A d \in Client \ {c} : call'[d] = call[d]
    <3>1. CASE Refused(c, "done", FALSE)
      BY <1>4, <3>1, FailedPc DEF Resolve, Pc
    <3>2. CASE ~Refused(c, "done", FALSE)
      <4> DEFINE next == IF call[c].hits \ {i} = {} THEN "done" ELSE "resolve"
                 r == [call[c] EXCEPT !.hits = @ \ {i}, !.ok = call[c].hits \ {i} = {}, !.pc = next]
      <4>1. r.pc = next
        BY <1>1 DEF CallRec
      <4>2. call' = [call EXCEPT ![c] = r]
        BY <2>1, <3>2
      <4>. HIDE DEF r
      <4>. QED BY <4>1, <4>2, Replaced
    <3>. QED BY <3>1, <3>2
  <2>3. ASSUME NEW l
        PROVE  Open(l)' \subseteq Open(l)
    <3>1. CASE marks' = [marks EXCEPT ![i].open = FALSE]
      <4>1. i \in DOMAIN marks
        <5>1. Told(c) /\ call[c].pc = "resolve"
          BY <1>4 DEF Inv, Resolve
        <5>. QED BY <2>1, <5>1 DEF Told
      <4>2. UNCHANGED <<platform, github>>
        BY <1>4 DEF Resolve
      <4>3. Kept /\ DOMAIN marks' = DOMAIN marks
        BY <3>1, <4>1, <4>2, ResolveKeeps
      <4>. QED BY <4>3 DEF Kept, Open
    <3>2. CASE UNCHANGED marks
      BY <3>2 DEF Open
    <3>. QED BY <2>1, <3>1, <3>2
  <2>. QED BY <1>4, <2>2, <2>3, Quiet DEF Resolve, Holding, locks
<1>. QED BY <1>3, <1>4

LEMMA NotStale ==
  ASSUME Inv, LockInv, NEW k \in Site \X Label, dir[k] # NoDir
  PROVE  ~Stale(dir[k])
<1>1. PICK c \in Client : dir[k].maker = Me(c) /\ call[c].pc \in Holding /\ LockOf(c) = k
  BY DEF LockInv, Owned
<1>2. dir[k].pid = Me(c) \/ (call[c].pc = "pid" /\ dir[k].pid = NoPid)
  BY <1>1 DEF LockInv, Locked
<1>3. Alive(Me(c)) /\ Me(c)[1] = c
  BY <1>1 DEF Alive, Me, Holding
<1>4. Me(c) \in Pid /\ NoPid \notin Pid
  BY <1>1, PidIs, HostingAssumption DEF Pid, Holding
<1>. QED BY <1>1, <1>2, <1>3, <1>4 DEF Stale

(* Between two labels, and between two calls, the locks do not meet.       *)
LEMMA HeldFrame ==
  ASSUME Inv, LockInv, OneSite, NEW c \in Client, NEW d \in Client \ {c}, call[c].pc \in Holding,
         call'[d] = call[d], calls'[d] = calls[d],
         \A k \in Site \X Label \ {LockOf(c)} : dir'[k] = dir[k],
         \A l \in Label \ {call[c].label} : Open(l)' = Open(l),
         call[d].label \in Label
  PROVE  Locked(d)'
<1>1. Locked(d) /\ LockOf(d)' = LockOf(d)
  BY DEF LockInv, LockOf, Me
<1>2. CASE call[d].pc \in Holding
  <2>1. call[d].label # call[c].label
    BY <1>2, OneHolder
  <2>2. Open(call[d].label)' = Open(call[d].label)
    <3>1. \A l \in Label \ {call[c].label} : Open(l)' = Open(l)
      OBVIOUS
    <3>. QED BY <2>1, <3>1 DEF Open
  <2>3. dir'[LockOf(d)] = dir[LockOf(d)]
    <3>1. LockOf(d) # LockOf(c)
      BY <2>1 DEF LockOf
    <3>2. LockOf(d) \in Site \X Label
      BY <1>2, LockIs DEF Holding
    <3>. QED BY <3>1, <3>2
  <2>. QED BY <1>1, <2>2, <2>3 DEF Locked, Me
<1>3. CASE call[d].pc \notin Holding
  BY <1>1, <1>3 DEF Locked, Holding
<1>. QED BY <1>2, <1>3

LEMMA ToPc ==
  ASSUME Inv, NEW c \in Client, NEW pc \in Pc, To(c, pc)
  PROVE  /\ call'[c].pc = pc /\ call'[c].label = call[c].label
         /\ \A d \in Client \ {c} : call'[d] = call[d]
<1>1. PICK r \in CallRec : /\ call' = [call EXCEPT ![c] = r] /\ r.pc = pc
                           /\ r.op = call[c].op /\ r.label = call[c].label /\ r.ok = call[c].ok
  BY PcTo
<1>. QED BY <1>1, Replaced

LEMMA HeldOwned ==
  ASSUME Inv, LockInv, NEW c \in Client, call[c].pc \in Holding,
         NEW k \in Site \X Label \ {LockOf(c)},
         dir'[k] = dir[k], \A d \in Client \ {c} : call'[d] = call[d], calls' = calls
  PROVE  Owned(k)'
<1>1. Owned(k)
  BY DEF LockInv
<1>2. \A d \in Client \ {c} : LockOf(d)' = LockOf(d)
  BY DEF LockOf, Me
<1>. QED BY <1>1, <1>2 DEF Owned, Me

LEMMA HeldSteps ==
  ASSUME Inv, LockInv, OneSite, Calm', NEW c \in Client, Check(c) \/ Post(c) \/ WritePid(c)
  PROVE  LockInv'
<1> DEFINE l == call[c].label
<1>2. call[c].pc \in Holding /\ Locked(c) /\ calls' = calls
  BY DEF Check, Post, WritePid, Holding, LockInv
<1>1. /\ call[c] \in CallRec /\ l \in Label /\ dir \in [Site \X Label -> Dir \cup {NoDir}]
      /\ \A d \in Client : call[d].label \in Label
      /\ LockOf(c) \in Site \X Label
  BY <1>2, CallIs, CallFields, LockIs DEF Inv, TypeOK, Holding
<1>0. PICK q \in Site \X Label : q = LockOf(c)
  BY <1>1
<1>3. dir[q] # NoDir /\ dir[q].maker = Me(c) /\ dir[q] \in Dir
  BY <1>0, <1>1, <1>2 DEF Locked
<1>4. ASSUME call'[c].pc \in Holding, call'[c].label = l, \A d \in Client \ {c} : call'[d] = call[d],
             \A k \in Site \X Label \ {q} : dir'[k] = dir[k],
             \A m \in Label \ {l} : Open(m)' = Open(m),
             dir'[q] # NoDir, dir'[q].maker = Me(c), dir'[q].pid = Me(c),
             call'[c].pc = "post" => Open(l)' = {}
      PROVE  LockInv'
  <2>1. \A d \in Client \ {c} : Locked(d)'
    BY <1>0, <1>1, <1>2, <1>4, HeldFrame
  <2>2. Me(c)' = Me(c) /\ LockOf(c)' = q
    BY <1>0, <1>2, <1>4 DEF Me, LockOf
  <2>3. Locked(c)'
    <3>1. call'[c].pc = "post" => {i \in DOMAIN marks' : marks'[i].label = l /\ marks'[i].open} = {}
      BY <1>4 DEF Open
    <3>. QED BY <1>4, <2>2, <3>1 DEF Locked, Holding, Open
  <2>4. \A k \in Site \X Label \ {q} : Owned(k)'
    BY <1>0, <1>2, <1>4, HeldOwned
  <2>5. \A k \in Site \X Label : Owned(k)'
    <3>1. SUFFICES ASSUME NEW k \in Site \X Label
                   PROVE  Owned(k)'
      OBVIOUS
    <3>2. CASE k = q
      BY <3>2, <1>4, <2>2 DEF Owned
    <3>. QED BY <2>4, <3>2
  <2>. QED BY <2>1, <2>3, <2>5 DEF LockInv
<1>5. CASE WritePid(c)
  <2>1. dir' = [dir EXCEPT ![q] = [dir[q] EXCEPT !.pid = Me(c)]]
    BY <1>0, <1>3, <1>5 DEF WritePid
  <2>2. /\ dir'[q] = [dir[q] EXCEPT !.pid = Me(c)]
        /\ \A k \in Site \X Label \ {q} : dir'[k] = dir[k]
    BY <1>1, <2>1
  <2>3. Me(c) \in Pid
    BY <1>5, PidIs DEF WritePid
  <2>4. dir'[q] \in Dir /\ dir'[q].maker = Me(c) /\ dir'[q].pid = Me(c)
    BY <1>3, <2>2, <2>3 DEF Dir
  <2>5. dir'[q] # NoDir
    BY <2>4, HostingAssumption DEF Dir, Pid
  <2>6. call'[c].pc = "check" /\ call'[c].label = l /\ \A d \in Client \ {c} : call'[d] = call[d]
    BY <1>5, ToPc DEF WritePid, Pc
  <2>7. marks' = marks
    BY <1>5 DEF WritePid, codeup
  <2>. QED BY <1>4, <2>2, <2>4, <2>5, <2>6, <2>7 DEF Holding, Open
<1>6. CASE Check(c)
  <2>1. /\ call'[c].pc \in {"unlock", "post", "check"} /\ call'[c].label = l
        /\ \A d \in Client \ {c} : call'[d] = call[d]
        /\ call'[c].pc = "post" => Open(l) = {}
    <3>1. CASE Refused(c, "unlock", FALSE)
      <4>1. call'[c].pc \in {"unlock", call[c].pc} /\ call'[c].label = l
             /\ \A d \in Client \ {c} : call'[d] = call[d]
        BY <3>1, FailedPc DEF Pc
      <4>. QED BY <1>6, <4>1 DEF Check
    <3>2. CASE Open(l) # {} /\ call' = [call EXCEPT ![c].pc = "unlock", ![c].ok = TRUE]
      <4> DEFINE r == [call[c] EXCEPT !.pc = "unlock", !.ok = TRUE]
      <4>1. r.pc = "unlock" /\ r.label = l
        BY <1>1 DEF CallRec
      <4>2. call' = [call EXCEPT ![c] = r]
        BY <3>2
      <4>. HIDE DEF r
      <4>. QED BY <4>1, <4>2, Replaced
    <3>3. CASE Open(l) = {} /\ To(c, "post")
      BY <3>3, ToPc DEF Pc
    <3>. QED BY <1>6, <3>1, <3>2, <3>3 DEF Check
  <2>2. dir' = dir /\ marks' = marks /\ dir[q].pid = Me(c)
    BY <1>0, <1>2, <1>6 DEF Check, codeup, locks, Locked
  <2>. QED BY <1>3, <1>4, <2>1, <2>2 DEF Holding, Open
<1>7. CASE Post(c)
  <2>1. dir' = dir /\ dir[q].pid = Me(c) /\ Open(l) = {}
    BY <1>0, <1>2, <1>7 DEF Post, locks, Locked, Holding
  <2>2. CASE Refused(c, "unlock", FALSE) /\ UNCHANGED marks
    <3>1. call'[c].pc \in {"unlock", call[c].pc} /\ call'[c].label = l
             /\ \A d \in Client \ {c} : call'[d] = call[d]
      BY <2>2, FailedPc DEF Pc
    <3>2. call[c].pc = "post"
      BY <1>7 DEF Post
    <3>. QED BY <1>3, <1>4, <2>1, <2>2, <3>1, <3>2 DEF Holding, Open
  <2>3. CASE /\ marks' = Append(marks, [label |-> l, open |-> TRUE])
             /\ call' = [call EXCEPT ![c].pc = "unlock", ![c].ok = TRUE]
    <3> DEFINE r == [call[c] EXCEPT !.pc = "unlock", !.ok = TRUE]
    <3>1. r.pc = "unlock" /\ r.label = l
      BY <1>1 DEF CallRec
    <3>2. call' = [call EXCEPT ![c] = r]
      BY <2>3
    <3>. HIDE DEF r
    <3>3. call'[c] = r /\ \A d \in Client \ {c} : call'[d] = call[d]
      BY <3>2, Replaced
    <3>4. \A k \in Label \ {l} : Open(k)' = Open(k)
      <4>1. marks \in Seq(Mark) /\ [label |-> l, open |-> TRUE] \in Mark
        BY <1>1 DEF Inv, TypeOK, Mark
      <4>2. /\ Len(marks) \in Nat /\ DOMAIN marks = 1 .. Len(marks)
            /\ DOMAIN marks' = 1 .. Len(marks) + 1
            /\ \A i \in 1 .. Len(marks) : marks'[i] = marks[i]
            /\ marks'[Len(marks) + 1] = [label |-> l, open |-> TRUE]
        BY <2>3, <4>1
      <4>. QED BY <4>2 DEF Open
    <3>. QED BY <1>3, <1>4, <2>1, <3>1, <3>3, <3>4 DEF Holding
  <2>4. ~Fault("lost")
    BY NotCalm
  <2>. QED BY <1>7, <2>2, <2>3, <2>4 DEF Post, Lost
<1>. QED BY <1>5, <1>6, <1>7

LEMMA DoorSteps ==
  ASSUME Inv, LockInv, OneSite, Calm', NEW c \in Client, Mkdir(c) \/ Unlock(c) \/ Judge(c) \/ Take(c) \/ Recheck(c)
  PROVE  LockInv'
<1> DEFINE l == call[c].label
<1>1. /\ call[c] \in CallRec /\ l \in Label /\ dir \in [Site \X Label -> Dir \cup {NoDir}]
      /\ \A d \in Client : call[d].label \in Label
      /\ LockOf(c) \in Site \X Label
  <2>1. call[c].pc # "idle"
    BY DEF Mkdir, Unlock, Judge, Take, Recheck
  <2>. QED BY <2>1, CallIs, CallFields, LockIs DEF Inv, TypeOK
<1>0. PICK q \in Site \X Label : q = LockOf(c)
  BY <1>1
<1>2. Locked(c)
  BY DEF LockInv
<1>3. ~Judge(c) /\ ~Take(c) /\ ~Recheck(c)
  BY <1>1, <1>2, NotStale DEF Judge, Take, Recheck, Locked
<1>4. CASE Mkdir(c)
  <2>1. /\ call[c].pc = "lock" /\ dir[q] = NoDir /\ marks' = marks /\ calls' = calls
        /\ dir' = [dir EXCEPT ![q] = [maker |-> Me(c), pid |-> NoPid]]
    BY <1>0, <1>4 DEF Mkdir, codeup
  <2>2. call'[c].pc = "pid" /\ call'[c].label = l /\ \A d \in Client \ {c} : call'[d] = call[d]
    BY <1>4, ToPc DEF Mkdir, Pc
  <2>3. /\ dir'[q] = [maker |-> Me(c), pid |-> NoPid]
        /\ \A k \in Site \X Label \ {q} : dir'[k] = dir[k]
    BY <1>1, <2>1
  <2>9. Me(c)' = Me(c) /\ LockOf(c)' = q /\ \A d \in Client \ {c} : LockOf(d)' = LockOf(d)
    BY <1>0, <2>1, <2>2 DEF LockOf, Me
  <2>4. Me(c) \in Pid
    BY <2>1, PidIs
  <2>5. dir'[q] \in Dir /\ dir'[q] # NoDir
    BY <2>3, <2>4, HostingAssumption DEF Dir, Pid
  <2>6. Locked(c)'
    BY <2>1, <2>2, <2>3, <2>5, <2>9 DEF Locked, Holding
  <2>7. ASSUME NEW d \in Client \ {c}
        PROVE  Locked(d)'
    <3>1. Locked(d) /\ call'[d] = call[d]
      BY <2>2 DEF LockInv
    <3>2. call[d].pc \in Holding => LockOf(d) # q /\ LockOf(d) \in Site \X Label
      BY <2>1, <3>1, LockIs DEF Locked, Holding
    <3>3. Open(call[d].label)' = Open(call[d].label)
      BY <2>1, <3>1 DEF Open
    <3>. QED BY <1>1, <2>1, <2>3, <2>9, <3>1, <3>2, <3>3 DEF Locked, Me, Holding
  <2>8. ASSUME NEW k \in Site \X Label
        PROVE  Owned(k)'
    <3>1. CASE k = q
      BY <2>1, <2>2, <2>3, <2>9, <3>1 DEF Owned, Holding
    <3>2. CASE k # q
      <4>1. Owned(k)
        BY DEF LockInv
      <4>. QED BY <2>1, <2>2, <2>3, <2>9, <3>2, <4>1 DEF Owned, Me, Holding
    <3>. QED BY <3>1, <3>2
  <2>. QED BY <2>6, <2>7, <2>8 DEF LockInv
<1>5. CASE Unlock(c)
  <2>1. /\ call[c].pc = "unlock" /\ marks' = marks /\ calls' = calls
        /\ dir' = [dir EXCEPT ![q] = NoDir]
    BY <1>0, <1>5 DEF Unlock, codeup
  <2>2. call'[c].pc \in {"link", "done"} /\ \A d \in Client \ {c} : call'[d] = call[d]
    <3>1. CASE call[c].ok
      BY <1>5, <3>1, ToPc DEF Unlock, Pc
    <3>2. CASE ~call[c].ok
      BY <1>5, <3>2, ToPc DEF Unlock, Pc
    <3>. QED BY <3>1, <3>2
  <2>3. /\ dir'[q] = NoDir /\ \A k \in Site \X Label \ {q} : dir'[k] = dir[k]
        /\ \A m \in Label \ {l} : Open(m)' = Open(m)
    BY <1>1, <2>1 DEF Open
  <2>4. Locked(c)'
    BY <2>2 DEF Locked, Holding
  <2>5. call[c].pc \in Holding
    BY <2>1 DEF Holding
  <2>6. \A d \in Client \ {c} : Locked(d)'
    BY <1>0, <1>1, <2>1, <2>2, <2>3, <2>5, HeldFrame
  <2>7. ASSUME NEW k \in Site \X Label
        PROVE  Owned(k)'
    <3>1. CASE k = q
      BY <2>3, <3>1 DEF Owned
    <3>2. CASE k # q
      BY <1>0, <2>1, <2>2, <2>3, <2>5, <3>2, HeldOwned
    <3>. QED BY <3>1, <3>2
  <2>. QED BY <2>4, <2>6, <2>7 DEF LockInv
<1>. QED BY <1>3, <1>4, <1>5

LEMMA LockInit == Init => LockInv
<1>1. SUFFICES ASSUME Init
               PROVE  LockInv
  OBVIOUS
<1>2. /\ \A c \in Client : call[c].pc = "idle"
      /\ \A k \in Site \X Label : dir[k] = NoDir
  BY <1>1 DEF Init, Idle
<1>. QED BY <1>2 DEF LockInv, Locked, Owned, Holding

CalmLocks == Calm => LockInv

LEMMA LockNext == Inv /\ CalmLocks /\ [Next]_vars => CalmLocks'
<1>1. SUFFICES ASSUME Inv, CalmLocks, [Next]_vars, Calm'
               PROVE  LockInv'
  BY DEF CalmLocks
<1>2. CASE UNCHANGED vars
  <2>1. UNCHANGED <<marks, dir, calls, call, faults>>
    BY <1>2 DEF vars
  <2>2. LockInv
    BY <1>1, <2>1 DEF CalmLocks, Calm, Unharmed, OneSite
  <2>3. ASSUME NEW c \in Client
        PROVE  Locked(c)'
    BY <2>1, <2>2 DEF LockInv, Locked, LockOf, Me, Open
  <2>4. ASSUME NEW k \in Site \X Label
        PROVE  Owned(k)'
    BY <2>1, <2>2 DEF LockInv, Owned, LockOf, Me
  <2>. QED BY <2>3, <2>4 DEF LockInv
<1>3. CASE Next
  <2>1. PICK c \in Client : Leave(c) \/ Step(c) \/ StartAny(c) \/ Kill(c)
    BY <1>3 DEF Next, Work
  <2>2. LockInv /\ OneSite
    BY <1>1, <2>1, CalmBefore DEF CalmLocks, Calm
  <2>3. ~Kill(c)
    BY <1>1, NotCalm DEF Kill
  <2>. QED BY <1>1, <2>1, <2>2, <2>3, QuietSteps, QuietWrites, HeldSteps, DoorSteps DEF Step
<1>. QED BY <1>1, <1>2, <1>3

-----------------------------------------------------------------------------
(* What a step is for the store.                                           *)

LEMMA StoreStill ==
  ASSUME UNCHANGED <<platform, github, marks>>
  PROVE  UNCHANGED Store!vars
<1>1. On' = On /\ \A l : Count(l)' = Count(l)
  BY DEF On, Open, Count, github
<1>. QED BY <1>1 DEF Store!vars, Count

LEMMA StoreStep ==
  ASSUME Inv, LockInv, Calm', NEW c \in Client, Step(c)
  PROVE  [Store!Next]_(Store!vars)
<1>1. call[c] \in CallRec /\ call[c].label \in Label
  BY CallIs, CallFields
<1>2. ~Fault("lost")
  BY NotCalm
<1>0. PICK l \in Label : l = call[c].label
  BY <1>1
<1> DEFINE rounds == [k \in Label |-> Count(k)]
<1>3. CASE Edit(c)
  <2>1. platform = "github" /\ platform' = platform /\ marks' = marks
    BY <1>3 DEF Inv, Placed, Edit, codeup
  <2>2. On = labels /\ On' = labels' /\ \A k : Count(k) = events[k] /\ Count(k)' = events'[k]
    BY <2>1 DEF On, Count
  <2>3. labels \in SUBSET Label /\ events \in [Label -> Nat]
    BY DEF Inv, TypeOK
  <2>4. CASE UNCHANGED github
    BY <2>1, <2>4, StoreStill
  <2>5. CASE call[c].op = "add" /\ Put(l)
    <3>1. CASE l \in labels
      <4>1. labels' = labels /\ events' = events
        BY <2>3, <2>5, <3>1 DEF Put
      <4>. QED BY <2>1, <4>1, StoreStill DEF github
    <3>2. CASE l \notin labels
      <4>1. events' = [events EXCEPT ![l] = @ + 1]
        BY <2>5, <3>2 DEF Put
      <4>2. [k \in Label |-> events'[k]] = [[k \in Label |-> events[k]] EXCEPT ![l] = @ + 1]
        BY <1>1, <2>3, <4>1
      <4>3. rounds' = [k \in Label |-> events'[k]] /\ rounds = [k \in Label |-> events[k]]
        BY <2>1 DEF Count
      <4>4. Store!Add(l)
        BY <2>2, <2>5, <3>2, <4>2, <4>3 DEF Store!Add, Put
      <4>. QED BY <1>1, <4>4 DEF Store!Next
    <3>. QED BY <3>1, <3>2
  <2>6. CASE TakeOff(l)
    <3>1. On' = On \ {l} /\ rounds' = rounds
      BY <2>1, <2>2, <2>6 DEF TakeOff, Count
    <3>2. Store!Remove(l)
      BY <3>1 DEF Store!Remove
    <3>. QED BY <1>1, <3>2 DEF Store!Next
  <2>. QED BY <1>0, <1>2, <1>3, <2>4, <2>5, <2>6 DEF Edit, Lost, Apply
<1>4. CASE Resolve(c)
  <2>1. /\ platform = "codeup" /\ UNCHANGED <<platform, github>>
        /\ call[c].hits \subseteq DOMAIN marks
    BY <1>4 DEF Inv, Placed, Told, Resolve, TypeOK
  <2>2. CASE UNCHANGED marks
    BY <2>1, <2>2, StoreStill
  <2>3. ASSUME NEW i \in call[c].hits, marks' = [marks EXCEPT ![i].open = FALSE]
        PROVE  [Store!Next]_(Store!vars)
    <3>1. /\ Kept /\ DOMAIN marks' = DOMAIN marks /\ ~marks'[i].open /\ i \in DOMAIN marks
      BY <2>1, <2>3, ResolveKeeps
    <3>2. \A j \in DOMAIN marks \ {i} : marks'[j] = marks[j]
      BY <2>3
    <3>3. PICK k \in Label : k = marks[i].label
      BY <3>1, Types DEF Inv, Mark
    <3>4. \A m \in Label : Of(m)' = Of(m)
      BY <3>1 DEF Kept, Of
    <3>5. rounds' = rounds
      <4>1. \A m \in Label : Count(m)' = Count(m)
        BY <2>1, <3>4 DEF Count, Of
      <4>. QED BY <4>1 DEF Count
    <3>6. /\ \A m \in Label \ {k} : Open(m)' = Open(m)
          /\ Open(k)' \subseteq Open(k)
      BY <3>1, <3>2, <3>3 DEF Open, Kept
    <3>7. On = {m \in Label : Open(m) # {}} /\ On' = {m \in Label : Open(m)' # {}}
      BY <2>1 DEF On
    <3>8. On' = On \/ On' = On \ {k}
      BY <3>3, <3>6, <3>7 DEF Open
    <3>9. CASE On' = On
      BY <3>5, <3>9 DEF Store!vars
    <3>10. CASE On' = On \ {k}
      <4>1. Store!Remove(k)
        BY <3>5, <3>10 DEF Store!Remove
      <4>. QED BY <3>3, <4>1 DEF Store!Next
    <3>. QED BY <3>8, <3>9, <3>10
  <2>. QED BY <1>2, <1>4, <2>2, <2>3 DEF Resolve, Lost
<1>5. CASE Post(c)
  <2>1. /\ platform = "codeup" /\ UNCHANGED <<platform, github>> /\ Open(l) = {}
    BY <1>0, <1>5 DEF Inv, Placed, Post, AddPc, TypeOK, LockInv, Locked
  <2>2. CASE UNCHANGED marks
    BY <2>1, <2>2, StoreStill
  <2>3. CASE marks' = Append(marks, [label |-> l, open |-> TRUE])
    <3>1. marks \in Seq(Mark) /\ [label |-> l, open |-> TRUE] \in Mark
      BY <1>1 DEF Inv, TypeOK, Mark
    <3>0. PICK n \in Nat : n = Len(marks) + 1
      BY <3>1
    <3>2. /\ Len(marks) \in Nat /\ DOMAIN marks = 1 .. Len(marks)
          /\ DOMAIN marks' = 1 .. n
          /\ \A i \in 1 .. Len(marks) : marks'[i] = marks[i]
          /\ marks'[n] = [label |-> l, open |-> TRUE]
      BY <2>3, <3>0, <3>1
    <3>3. /\ \A k \in Label \ {l} : Open(k)' = Open(k) /\ Of(k)' = Of(k)
          /\ n \in Open(l)' /\ Of(l)' = Of(l) \cup {n} /\ n \notin Of(l)
      BY <3>0, <3>2 DEF Open, Of
    <3>4. On = {m \in Label : Open(m) # {}} /\ On' = {m \in Label : Open(m)' # {}}
      BY <2>1 DEF On
    <3>5. l \notin On /\ On' = On \cup {l}
      BY <1>1, <2>1, <3>3, <3>4 DEF Open
    <3>6. Cardinality(Of(l)') = Cardinality(Of(l)) + 1
      BY <3>3, Counts, FS_AddElement DEF Inv
    <3>7. /\ \A k \in Label : Count(k) = Cardinality(Of(k)) /\ Count(k)' = Cardinality(Of(k)')
      BY <2>1 DEF Count, Of
    <3>8. rounds' = [rounds EXCEPT ![l] = @ + 1]
      <4>1. \A k \in Label : Count(k)' = IF k = l THEN Count(k) + 1 ELSE Count(k)
        <5>1. SUFFICES ASSUME NEW k \in Label
                       PROVE  Cardinality(Of(k)') = IF k = l THEN Cardinality(Of(k)) + 1
                                                             ELSE Cardinality(Of(k))
          BY <3>7
        <5>. QED BY <3>3, <3>6 DEF Of
      <4>2. rounds' = [k \in Label |-> IF k = l THEN Count(k) + 1 ELSE Count(k)]
        BY <4>1
      <4>. QED BY <1>1, <4>2
    <3>9. Store!Add(l)
      BY <3>5, <3>8 DEF Store!Add
    <3>. QED BY <1>1, <3>9 DEF Store!Next
  <2>. QED BY <1>0, <1>2, <1>5, <2>2, <2>3 DEF Post, Lost
<1>6. CASE ~Edit(c) /\ ~Resolve(c) /\ ~Post(c)
  <2>1. UNCHANGED <<platform, github, marks>>
    BY <1>6 DEF Step, Reread, Ask, List, Mkdir, Judge, GiveUp, Take, Recheck, WritePid, Check, Unlock,
       Link, ReadComments, ReadLinks, ReadPage, codeup
  <2>. QED BY <2>1, StoreStill
<1>. QED BY <1>3, <1>4, <1>5, <1>6

(* The two adapters are one label store, as state.py takes them to be, as  *)
(* long as the calls are of one site, no process is killed and no request  *)
(* is lost: a lock directory names the one that holds it, so a marker is   *)
(* posted only where none is open, and the history gains one per label put *)
(* on.                                                                     *)
THEOREM AdaptersAreALabelStore == Spec => ImplementsLabelStore
<1>1. Init => Store!Init
  <2>1. SUFFICES ASSUME Init
                 PROVE  Store!Init
    OBVIOUS
  <2>2. On = {} /\ \A l \in Label : Count(l) = 0
    <3>1. labels = {} /\ marks = <<>> /\ \A l \in Label : events[l] = 0
      BY <2>1 DEF Init
    <3>2. DOMAIN marks = {}
      BY <3>1
    <3>. QED BY <3>1, <3>2, FS_EmptySet DEF On, Open, Count
  <2>. QED BY <2>2 DEF Store!Init
<1>2. Inv /\ CalmLocks /\ [Next]_vars => (Calm' => [Store!Next]_(Store!vars))
  <2>1. SUFFICES ASSUME Inv, CalmLocks, [Next]_vars, Calm'
                 PROVE  [Store!Next]_(Store!vars)
    OBVIOUS
  <2>2. CASE UNCHANGED vars
    <3>1. UNCHANGED <<platform, github, marks>>
      BY <2>2 DEF vars, github
    <3>. QED BY <3>1, StoreStill
  <2>3. CASE Next
    <3>1. PICK c \in Client : Leave(c) \/ Step(c) \/ StartAny(c) \/ Kill(c)
      BY <2>3 DEF Next, Work
    <3>2. LockInv
      BY <2>1, <3>1, CalmBefore DEF CalmLocks
    <3>3. CASE Step(c)
      BY <2>1, <3>2, <3>3, StoreStep
    <3>4. CASE Leave(c) \/ StartAny(c) \/ Kill(c)
      <4>1. UNCHANGED <<platform, github, marks>>
        BY <3>4 DEF Leave, StartAny, Start, Kill, codeup
      <4>. QED BY <4>1, StoreStill
    <3>. QED BY <3>1, <3>3, <3>4
  <2>. QED BY <2>1, <2>2, <2>3
<1>3. Init => CalmLocks
  BY LockInit DEF CalmLocks
<1>. QED BY <1>1, <1>2, <1>3, LockNext, InvInit, InvNext, PTL DEF Spec, ImplementsLabelStore

=============================================================================
