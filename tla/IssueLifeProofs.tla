-------------------------- MODULE IssueLifeProofs --------------------------
(***************************************************************************)
(* What holds of an issue for any number of machines, slots, deeds and     *)
(* mishaps, as far as it does: the types; the bound on the rounds of a     *)
(* pull request on one machine; the mark on an issue being worked on, for  *)
(* any number of machines with one slot; the claim on one machine with one *)
(* slot.                                                                   *)
(***************************************************************************)
EXTENDS IssueLife, TLAPS

(* Operations the proofs follow, and all that a plan may hold.             *)
AddFix == [target |-> "pr", op |-> "add", label |-> "needs-fix"]
AddLock == [target |-> "issue", op |-> "add", label |-> "in-progress"]
TakeLock == [target |-> "issue", op |-> "remove", label |-> "in-progress"]
TakeAccepted == [target |-> "issue", op |-> "remove", label |-> "accepted"]
PlanOp == [target : {"issue"}, op : {"add", "remove"}, label : IssueLabel]
          \cup [target : {"pr"}, op : {"add", "remove"}, label : PrLabel]

(* What is left of the two ways out.                                       *)
TrapWay == {<<"triaging", "accepted", "in-progress">>, <<"accepted", "in-progress">>,
            <<"in-progress">>, <<>>}
TripWay == {<<"in-progress", "triaging", "accepted">>, <<"triaging", "accepted">>,
            <<"accepted">>, <<>>}

Place == {"idle", "sync", "syncing", "triage", "judge", "merge", "merging", "redispatch",
          "refix", "unfix", "reclaim", "respawn", "drain", "check", "claim", "spawn",
          "wait", "final", "finishing"}
ChainPlace == {"none", "start", "tripped", "claimed", "marked", "judging", "working",
               "passed", "pushed", "opened", "trap", "leave"}

Facts == /\ issue \in Issue /\ pr \in Pr
         /\ adds \in Nat /\ rejections \in Nat /\ fixes \in Nat /\ remote \in BOOLEAN
Counts == rejections <= deeds /\ deeds \in 0 .. MaxHuman /\ faults \in 0 .. MaxFaults
Places == /\ disp \in [Machine -> Place] /\ ops \in [Machine -> SUBSET PlanOp]
          /\ chain \in [Chain -> ChainPlace] /\ left \in [Chain -> TrapWay \cup TripWay]
          /\ lease \in SUBSET Chain /\ live \in BOOLEAN /\ armed \in SUBSET Chain

(* Who has labels left to remove, when chains run, when a plan is pending. *)
Ways == \A c \in Chain : /\ left[c] # <<>> => chain[c] \in {"trap", "tripped"}
                         /\ chain[c] = "trap" => left[c] \in TrapWay
                         /\ chain[c] = "tripped" => faults > 0
Quiet == \A c \in Chain : chain[c] \notin {"none", "tripped"} =>
           disp[On(c)] \in {"idle", "drain", "check", "claim", "spawn", "wait"}
Syncs == \A m \in Machine : ops[m] # {} => disp[m] \in {"syncing", "finishing"}

Base == Facts /\ Counts /\ Places /\ Ways /\ Quiet /\ Syncs

-----------------------------------------------------------------------------
(* The label function, one operation at a time.                            *)

LEMMA AppliedOne ==
  ASSUME NEW L, NEW o \in PlanOp, NEW t
  PROVE  Applied(L, {o}, t) = IF o.target # t THEN L
                              ELSE IF o.op = "add" THEN L \cup {o.label} ELSE L \ {o.label}
<1>1. CASE o.target # t
  BY <1>1 DEF Applied
<1>2. CASE o.target = t /\ o.op = "add"
  BY <1>2 DEF Applied
<1>3. CASE o.target = t /\ o.op = "remove"
  BY <1>3 DEF Applied
<1>. QED BY <1>1, <1>2, <1>3 DEF PlanOp

LEMMA AppliedIn ==
  ASSUME NEW L, NEW o \in PlanOp, NEW t
  PROVE  Applied(L, {o}, t) \subseteq L \cup (IF o.target = t THEN {o.label} ELSE {})
<1>1. Applied(L, {o}, t) = IF o.target # t THEN L
                           ELSE IF o.op = "add" THEN L \cup {o.label} ELSE L \ {o.label}
  BY AppliedOne
<1>. QED BY <1>1

LEMMA AppliedHas ==
  ASSUME NEW L, NEW o \in PlanOp, NEW t, NEW l
  PROVE  (l \in Applied(L, {o}, t)) <=>
           \/ l \in L /\ (o.target = t /\ o.op = "remove" => o.label # l)
           \/ o.target = t /\ o.op = "add" /\ o.label = l
<1>1. Applied(L, {o}, t) = IF o.target # t THEN L
                           ELSE IF o.op = "add" THEN L \cup {o.label} ELSE L \ {o.label}
  BY AppliedOne
<1>. QED BY <1>1 DEF PlanOp

LEMMA RemovesAre ==
  ASSUME NEW t, NEW L, NEW o
  PROVE  o \in Removes(t, L) <=> \E l \in L : o = [target |-> t, op |-> "remove", label |-> l]
BY DEF Removes

LEMMA AddsAre ==
  ASSUME NEW t, NEW l, NEW L, NEW o
  PROVE  o \in Adds(t, l, L) <=> l \notin L /\ o = [target |-> t, op |-> "add", label |-> l]
BY DEF Adds

(* What a plan holds: typed operations; needs-fix below the bound only; no *)
(* lock goes from an open issue without a marker, and none is ever put on; *)
(* accepted never goes without the lock.                                   *)
LEMMA Planned ==
  ASSUME NEW i \in Issue, NEW p \in Pr, NEW n \in Nat, NEW o \in Plan(i, p, n)
  PROVE  /\ o \in PlanOp
         /\ o = AddFix => n < MaxFixRounds
         /\ i.open /\ ~i.marker => o # TakeLock
         /\ o # AddLock
         /\ o = TakeAccepted /\ "in-progress" \in i.labels => TakeLock \in Plan(i, p, n)
<1>. DEFINE gone == i.labels \ {"rejected"}
<1>1. i.labels \subseteq IssueLabel /\ p.labels \subseteq PrLabel /\ i.open \in BOOLEAN /\ i.marker \in BOOLEAN
  BY DEF Issue, Pr
<1>2. CASE i.marker
  <2>1. Plan(i, p, n) = Removes("issue", gone) \cup Adds("issue", "rejected", i.labels)
    BY <1>2 DEF Plan
  <2>2. (\E l \in gone : o = [target |-> "issue", op |-> "remove", label |-> l])
          \/ o = [target |-> "issue", op |-> "add", label |-> "rejected"]
    BY <2>1, RemovesAre, AddsAre
  <2>3. o \in PlanOp /\ o # AddFix /\ o # AddLock
    BY <1>1, <2>2 DEF PlanOp, AddFix, AddLock, IssueLabel, Locks
  <2>4. "in-progress" \in i.labels => TakeLock \in Plan(i, p, n)
    BY <2>1, RemovesAre DEF TakeLock
  <2>. QED BY <1>2, <2>3, <2>4
<1>3. CASE ~i.marker /\ ~i.open
  <2>1. Plan(i, p, n) = Removes("issue", gone)
    BY <1>3 DEF Plan
  <2>2. \E l \in gone : o = [target |-> "issue", op |-> "remove", label |-> l]
    BY <2>1, RemovesAre
  <2>3. o \in PlanOp /\ o # AddFix /\ o # AddLock
    BY <1>1, <2>2 DEF PlanOp, AddFix, AddLock
  <2>4. "in-progress" \in i.labels => TakeLock \in Plan(i, p, n)
    BY <2>1, RemovesAre DEF TakeLock
  <2>. QED BY <1>3, <2>3, <2>4
<1>4. CASE ~i.marker /\ i.open
  <2>1. Plan(i, p, n) = {} \/ Plan(i, p, n) = ReviewPlan(i) \cup PrPlan(p, n)
    BY <1>4 DEF Plan
  <2>2. \/ \E l \in i.labels \ (Locks \cup {"in-review", "accepted", "rejected"}) :
              o = [target |-> "issue", op |-> "remove", label |-> l]
        \/ o = [target |-> "issue", op |-> "add", label |-> "in-review"]
        \/ \E l \in p.labels \ PrSide : o = [target |-> "pr", op |-> "remove", label |-> l]
        \/ o = [target |-> "pr", op |-> "add", label |-> PrPhase(p, n)]
    BY <2>1, RemovesAre, AddsAre DEF ReviewPlan, PrPlan
  <2>3. /\ PrPhase(p, n) \in PrLabel
        /\ PrPhase(p, n) = "needs-fix" => n < MaxFixRounds
    BY PlanAssumption DEF PrPhase, PrLabel, PrSide
  <2>4. o \in PlanOp /\ o # AddLock /\ o # TakeLock /\ o # TakeAccepted
    BY <1>1, <2>2, <2>3 DEF PlanOp, AddLock, TakeLock, TakeAccepted, IssueLabel, Locks
  <2>5. ASSUME o = AddFix PROVE n < MaxFixRounds
    <3>1. o.target = "pr" /\ o.op = "add" /\ o.label = "needs-fix"
      BY <2>5 DEF AddFix
    <3>2. PrPhase(p, n) = "needs-fix"
      BY <2>2, <3>1
    <3>. QED BY <2>3, <3>2
  <2>. QED BY <2>4, <2>5
<1>. QED BY <1>1, <1>2, <1>3, <1>4

-----------------------------------------------------------------------------
(* Types.                                                                  *)

LEMMA ChainPairs ==
  /\ \A c \in Chain : On(c) \in Machine /\ c[2] \in Slot /\ c = <<On(c), c[2]>>
  /\ \A m \in Machine, s \in Slot : <<m, s>> \in Chain /\ On(<<m, s>>) = m
BY DEF Chain, On

LEMMA WaySteps ==
  ASSUME NEW w \in TrapWay \cup TripWay, w # <<>>
  PROVE  /\ Head(w) \in {"triaging", "accepted", "in-progress"}
         /\ Tail(w) \in TrapWay \cup TripWay
         /\ w \in TrapWay => /\ Tail(w) \in TrapWay
                             /\ Tail(w) = <<>> => Head(w) = "in-progress"
<1>1. CASE w = <<"triaging", "accepted", "in-progress">>
  <2>1. Head(w) = "triaging" /\ Tail(w) = <<"accepted", "in-progress">>
    BY <1>1
  <2>2. Tail(w) \in TrapWay
    BY <2>1 DEF TrapWay
  <2>3. Tail(w) # <<>>
    BY <2>1
  <2>. QED BY <2>1, <2>2, <2>3
<1>2. CASE w = <<"accepted", "in-progress">>
  <2>1. Head(w) = "accepted" /\ Tail(w) = <<"in-progress">>
    BY <1>2
  <2>2. Tail(w) \in TrapWay
    BY <2>1 DEF TrapWay
  <2>3. Tail(w) # <<>>
    BY <2>1
  <2>. QED BY <2>1, <2>2, <2>3
<1>3. CASE w = <<"in-progress">>
  <2>1. Head(w) = "in-progress" /\ Tail(w) = <<>>
    BY <1>3
  <2>2. Tail(w) \in TrapWay
    BY <2>1 DEF TrapWay
  <2>. QED BY <2>1, <2>2
<1>4. CASE w = <<"in-progress", "triaging", "accepted">>
  <2>1. Head(w) = "in-progress" /\ Tail(w) = <<"triaging", "accepted">>
    BY <1>4
  <2>2. w \notin TrapWay
    BY <1>4 DEF TrapWay
  <2>3. Tail(w) \in TripWay
    BY <2>1 DEF TripWay
  <2>. QED BY <2>1, <2>2, <2>3
<1>5. CASE w = <<"triaging", "accepted">>
  <2>1. Head(w) = "triaging" /\ Tail(w) = <<"accepted">>
    BY <1>5
  <2>2. w \notin TrapWay
    BY <1>5 DEF TrapWay
  <2>3. Tail(w) \in TripWay
    BY <2>1 DEF TripWay
  <2>. QED BY <2>1, <2>2, <2>3
<1>6. CASE w = <<"accepted">>
  <2>1. Head(w) = "accepted" /\ Tail(w) = <<>>
    BY <1>6
  <2>2. w \notin TrapWay
    BY <1>6 DEF TrapWay
  <2>3. Tail(w) \in TripWay
    BY <2>1 DEF TripWay
  <2>. QED BY <2>1, <2>2, <2>3
<1>. QED BY <1>1, <1>2, <1>3, <1>4, <1>5, <1>6 DEF TrapWay, TripWay

LEMMA FactsRelabel ==
  ASSUME Facts, NEW remove, NEW add \in SUBSET IssueLabel, Relabel(remove, add) \/ UNCHANGED facts
  PROVE  Facts'
BY DEF Facts, Relabel, facts, Issue

LEMMA FactsSwap ==
  ASSUME Facts, NEW c, NEW from, NEW to, NEW remove, NEW add \in SUBSET IssueLabel,
         Swap(c, from, to, remove, add)
  PROVE  Facts'
<1>1. Relabel(remove, add) \/ UNCHANGED facts
  BY DEF Swap, Succeeds, Breaks
<1>. QED BY <1>1, FactsRelabel

LEMMA FactsNext == Facts /\ Places /\ [Next]_vars => Facts'
<1> SUFFICES ASSUME Facts, Places, [Next]_vars PROVE Facts'
  OBVIOUS
<1>0. IssueLabel = {"triaging", "in-progress", "accepted", "rejected", "in-review", "needs-human", "foreign"}
  BY DEF IssueLabel, Locks
<1>1. ASSUME NEW m \in Machine, Round(m) PROVE Facts'
  <2>1. CASE SyncWrite(m)
    <3>1. PICK o \in ops[m] : Apply(o) \/ UNCHANGED facts
      BY <2>1 DEF SyncWrite
    <3>2. o \in PlanOp
      BY <3>1 DEF Places
    <3>3. CASE Apply(o)
      <4>1. /\ Applied(issue.labels, {o}, "issue") \in SUBSET IssueLabel
            /\ Applied(pr.labels, {o}, "pr") \in SUBSET PrLabel
        <5>1. issue.labels \in SUBSET IssueLabel /\ pr.labels \in SUBSET PrLabel
          BY DEF Facts, Issue, Pr
        <5>2. /\ o.target = "issue" => o.label \in IssueLabel
              /\ o.target = "pr" => o.label \in PrLabel
          BY <3>2 DEF PlanOp
        <5>3. /\ Applied(issue.labels, {o}, "issue") \subseteq
                   issue.labels \cup (IF o.target = "issue" THEN {o.label} ELSE {})
              /\ Applied(pr.labels, {o}, "pr") \subseteq
                   pr.labels \cup (IF o.target = "pr" THEN {o.label} ELSE {})
          BY <3>2, AppliedIn
        <5>. QED BY <5>1, <5>2, <5>3
      <4>2. adds' \in Nat
        BY <3>3 DEF Apply, AddEvents, Facts
      <4>. QED BY <3>3, <4>1, <4>2 DEF Apply, Facts, Issue, Pr
    <3>. QED BY <3>1, <3>3 DEF facts, Facts
  <2>2. CASE BatchJudge(m)
    <3>1. \/ UNCHANGED facts
          \/ \E v \in {"accepted", "rejected"} : Relabel({}, {v})
      BY <2>2 DEF BatchJudge, Succeeds, Breaks
    <3>. QED BY <1>0, <3>1, FactsRelabel
  <2>3. CASE MergePr(m)
    BY <2>3 DEF MergePr, Merged, facts, Facts, Issue, Pr
  <2>4. CASE Unfix(m)
    BY <2>4 DEF Unfix, TakeNeedsFix, facts, Facts, Pr
  <2>5. CASE ClaimIssue(m)
    <3>1. UNCHANGED facts \/ Relabel({"accepted"}, {"in-progress"})
      BY <2>5 DEF ClaimIssue, Succeeds, Breaks
    <3>. QED BY <1>0, <3>1, FactsRelabel
  <2>6. CASE Spawn(m)
    BY <2>6 DEF Spawn, facts, Facts
  <2>7. CASE \/ Begin(m) \/ SyncRead(m) \/ SyncEnd(m) \/ BatchList(m) \/ MergeList(m) \/ RefixList(m)
             \/ RefixCheck(m) \/ DrainList(m) \/ DrainCheck(m) \/ Await(m)
    BY <2>7 DEF Begin, SyncRead, SyncEnd, BatchList, MergeList, RefixList, RefixCheck, DrainList,
                DrainCheck, Await, facts, Facts
  <2>. QED BY <1>1, <2>1, <2>2, <2>3, <2>4, <2>5, <2>6, <2>7 DEF Round
<1>2. ASSUME NEW c \in Chain, Work(c) PROVE Facts'
  <2>1. CASE Trip(c)
    <3>1. UNCHANGED facts \/ Relabel({}, {"needs-human"})
      BY <2>1 DEF Trip
    <3>. QED BY <1>0, <3>1, FactsRelabel
  <2>2. CASE MarkTriaging(c)
    <3>1. UNCHANGED facts \/ Relabel({}, {"triaging"})
      BY <2>2 DEF MarkTriaging, Succeeds, Breaks
    <3>. QED BY <1>0, <3>1, FactsRelabel
  <2>3. CASE NodeFails(c) \/ Push(c)
    BY <2>3 DEF NodeFails, Push, facts, Facts
  <2>4. CASE Accept(c) \/ Reject(c) \/ HandOver(c)
    <3>1. CASE Accept(c)
      BY <1>0, <3>1, FactsSwap DEF Accept
    <3>2. CASE Reject(c)
      <4>1. \/ Swap(c, "judging", "leave", {"triaging", "in-progress"}, {"rejected"})
            \/ Relabel({"triaging", "in-progress"}, {"rejected"}) \/ UNCHANGED facts
        BY <3>2 DEF Reject, Breaks
      <4>. QED BY <1>0, <4>1, FactsSwap, FactsRelabel
    <3>3. CASE HandOver(c)
      BY <1>0, <3>3, FactsSwap DEF HandOver
    <3>. QED BY <2>4, <3>1, <3>2, <3>3
  <2>5. CASE CreatePr(c)
    <3>1. UNCHANGED facts \/ NewPr
      BY <2>5 DEF CreatePr
    <3>. QED BY <3>1 DEF NewPr, facts, Facts, Pr, PrLabel, PrSide
  <2>6. CASE WayOut(c)
    <3>1. UNCHANGED facts \/ Relabel({Head(left[c])}, {})
      BY <2>6 DEF WayOut, Succeeds, Breaks
    <3>. QED BY <3>1, FactsRelabel
  <2>7. CASE \/ PrepFails(c) \/ ClaimLease(c) \/ AskFence(c) \/ InstallTrap(c) \/ ZeroDiff(c) \/ Pass(c)
             \/ WayOutEnds(c) \/ Leave(c)
    BY <2>7 DEF PrepFails, ClaimLease, AskFence, InstallTrap, ZeroDiff, Pass, WayOutEnds, Leave, facts, Facts
  <2>. QED BY <1>2, <2>1, <2>2, <2>3, <2>4, <2>5, <2>6, <2>7 DEF Work
<1>3. ASSUME NEW c \in Chain, StartByHand(c) \/ KillChain(c) PROVE Facts'
  BY <1>3 DEF StartByHand, KillChain, facts, Facts
<1>4. CASE Lapse \/ UNCHANGED vars
  BY <1>4 DEF Lapse, vars, facts, Facts
<1>5. ASSUME NEW d \in Deed, Do(d) PROVE Facts'
  <2>1. CASE \E r \in {"approved", "changes_requested"} : Review(r)
    BY <2>1 DEF Review, Facts, Pr
  <2>2. CASE Merged
    BY <2>2 DEF Merged, Facts, Issue, Pr
  <2>3. CASE \E b \in BOOLEAN : \/ SetIssue([issue EXCEPT !.open = b])
                               \/ SetIssue([issue EXCEPT !.marker = b])
    BY <2>3 DEF SetIssue, Facts, Issue
  <2>4. CASE SetIssue([issue EXCEPT !.labels = @ \ {"rejected"}])
    BY <2>4 DEF SetIssue, Facts, Issue
  <2>. QED BY <1>5, <2>1, <2>2, <2>3, <2>4 DEF Do
<1>. QED BY <1>1, <1>2, <1>3, <1>4, <1>5 DEF Next

LEMMA PlacesNext == Facts /\ Places /\ [Next]_vars => Places'
<1> SUFFICES ASSUME Facts, Places, [Next]_vars PROVE Places'
  OBVIOUS
<1>1. ASSUME NEW m \in Machine, Round(m) PROVE Places'
  <2>1. CASE SyncRead(m)
    <3>1. Plan(issue, pr, adds) \in SUBSET PlanOp
      BY Planned DEF Facts
    <3>2. ops' \in [Machine -> SUBSET PlanOp]
      BY <2>1, <3>1 DEF SyncRead, Places
    <3>3. disp' \in [Machine -> Place]
      BY <2>1 DEF SyncRead, Go, Places, Place
    <3>. QED BY <2>1, <3>2, <3>3 DEF SyncRead, theirs, Places
  <2>2. CASE SyncWrite(m)
    BY <2>2 DEF SyncWrite, theirs, Places
  <2>3. CASE Begin(m) \/ SyncEnd(m) \/ BatchList(m) \/ BatchJudge(m) \/ MergeList(m) \/ MergePr(m)
    BY <2>3 DEF Begin, SyncEnd, BatchList, BatchJudge, MergeList, MergePr, Go, theirs, Places, Place
  <2>4. CASE RefixList(m) \/ RefixCheck(m) \/ Unfix(m) \/ DrainList(m) \/ DrainCheck(m)
    BY <2>4 DEF RefixList, RefixCheck, Unfix, DrainList, DrainCheck, InProgress, Go, theirs, Places, Place
  <2>5. CASE ClaimIssue(m) \/ Await(m)
    BY <2>5 DEF ClaimIssue, Await, Go, theirs, Places, Place
  <2>6. CASE Spawn(m)
    <3>1. disp' \in [Machine -> Place]
      BY <2>6 DEF Spawn, Go, Places, Place
    <3>2. chain' \in [Chain -> ChainPlace]
      BY <2>6, ChainPairs DEF Spawn, Step, Places, ChainPlace
    <3>. QED BY <2>6, <3>1, <3>2 DEF Spawn, Places
  <2>. QED BY <1>1, <2>1, <2>2, <2>3, <2>4, <2>5, <2>6 DEF Round
<1>2. ASSUME NEW c \in Chain, Work(c) PROVE Places'
  <2>0. /\ <<"in-progress", "triaging", "accepted">> \in TripWay
        /\ <<"triaging", "accepted", "in-progress">> \in TrapWay
    BY DEF TripWay, TrapWay
  <2>a. armed' \in SUBSET Chain
    <3>1. armed' \in {armed, armed \cup {c}, armed \ {c}}
      BY <1>2 DEF Work, Trip, PrepFails, ClaimLease, AskFence, MarkTriaging, InstallTrap, NodeFails, Accept,
                  Reject, ZeroDiff, Pass, Push, CreatePr, HandOver, WayOut, WayOutEnds, Leave, Swap, Guarded,
                  Refused
    <3>. QED BY <3>1 DEF Places
  <2>1. CASE \E from : Abort(c, from) /\ UNCHANGED <<mine, lease, live>>
    BY <2>0, <2>a, <2>1 DEF Abort, Step, mine, Places, ChainPlace
  <2>2. CASE (\E from, to : to \in ChainPlace /\ Step(c, from, to)) /\ UNCHANGED <<mine, left, lease, live>>
    BY <2>a, <2>2 DEF Step, mine, Places
  <2>3. CASE Trip(c)
    BY <2>0, <2>a, <2>3 DEF Trip, Step, mine, Places, ChainPlace
  <2>4. CASE ClaimLease(c)
    <3>1. lease' \in SUBSET Chain /\ live' \in BOOLEAN
      BY <2>4 DEF ClaimLease, Token, Places
    <3>. QED BY <2>a, <2>4, <3>1 DEF ClaimLease, Step, mine, Places, ChainPlace
  <2>5. CASE WayOut(c)
    <3>1. Tail(left[c]) \in TrapWay \cup TripWay
      BY <2>5, WaySteps DEF WayOut, Places
    <3>. QED BY <2>a, <2>5, <3>1 DEF WayOut, mine, Places
  <2>6. CASE Leave(c)
    BY <2>a, <2>6 DEF Leave, Step, mine, Places, ChainPlace
  <2>7. CASE PrepFails(c) \/ MarkTriaging(c) \/ InstallTrap(c) \/ ZeroDiff(c) \/ Pass(c) \/ WayOutEnds(c)
    <3>1. UNCHANGED <<mine, left, lease, live>>
      BY <2>7 DEF PrepFails, MarkTriaging, InstallTrap, ZeroDiff, Pass, WayOutEnds
    <3>2. \E from, to : to \in ChainPlace /\ Step(c, from, to)
      BY <2>7 DEF PrepFails, MarkTriaging, InstallTrap, ZeroDiff, Pass, WayOutEnds, ChainPlace
    <3>. QED BY <2>2, <3>1, <3>2
  <2>8. CASE NodeFails(c) \/ Push(c) \/ CreatePr(c)
    <3>1. UNCHANGED <<mine, lease, live>>
      BY <2>8 DEF NodeFails, Push, CreatePr
    <3>2. \/ \E from : Abort(c, from)
          \/ UNCHANGED left /\ \E from, to : to \in ChainPlace /\ Step(c, from, to)
      BY <2>8 DEF NodeFails, Push, CreatePr, ChainPlace
    <3>. QED BY <2>1, <2>2, <3>1, <3>2
  <2>9. CASE Accept(c) \/ Reject(c) \/ HandOver(c)
    <3>1. UNCHANGED <<mine, lease, live>>
      BY <2>9 DEF Accept, Reject, HandOver
    <3>2. \/ \E from : Abort(c, from)
          \/ UNCHANGED left /\ \E from, to : to \in ChainPlace /\ Step(c, from, to)
      BY <2>9 DEF Accept, Reject, HandOver, Swap, ChainPlace
    <3>. QED BY <2>1, <2>2, <3>1, <3>2
  <2>10. CASE AskFence(c)
    BY <2>a, <2>10 DEF AskFence, mine, Places
  <2>. QED BY <1>2, <2>3, <2>4, <2>5, <2>6, <2>7, <2>8, <2>9, <2>10 DEF Work
<1>3. ASSUME NEW c \in Chain, StartByHand(c) \/ KillChain(c) PROVE Places'
  BY <1>3 DEF StartByHand, KillChain, Step, mine, Places, ChainPlace, TrapWay
<1>4. CASE Lapse \/ UNCHANGED vars \/ \E d \in Deed : Do(d)
  BY <1>4 DEF Lapse, Do, vars, mine, theirs, Places
<1>. QED BY <1>1, <1>2, <1>3, <1>4 DEF Next

LEMMA CountsStep ==
  ASSUME Facts, [Next]_vars
  PROVE  /\ deeds' = deeds \/ (deeds < MaxHuman /\ deeds' = deeds + 1)
         /\ faults' = faults \/ (faults < MaxFaults /\ faults' = faults + 1)
         /\ \/ rejections' \in {rejections, 0}
            \/ rejections' \in {rejections, rejections + 1} /\ deeds' = deeds + 1
<1>0. rejections \in Nat
  BY DEF Facts
<1>1. ASSUME NEW m \in Machine, Round(m)
      PROVE  /\ UNCHANGED <<rejections, deeds>>
             /\ faults' = faults \/ (faults < MaxFaults /\ faults' = faults + 1)
  <2>1. CASE Begin(m) \/ SyncRead(m) \/ SyncEnd(m) \/ BatchList(m) \/ MergeList(m) \/ RefixList(m)
             \/ DrainList(m) \/ Await(m) \/ Spawn(m)
    BY <2>1 DEF Begin, SyncRead, SyncEnd, BatchList, MergeList, RefixList, DrainList, Await, Spawn, facts
  <2>2. CASE RefixCheck(m) \/ DrainCheck(m) \/ Unfix(m) \/ MergePr(m)
    BY <2>2 DEF RefixCheck, DrainCheck, InProgress, Unfix, TakeNeedsFix, MergePr, Merged,
                Answered, Fails, Happens, facts
  <2>3. CASE SyncWrite(m)
    BY <2>3 DEF SyncWrite, Apply, Answered, Fails, Happens, facts
  <2>4. CASE BatchJudge(m) \/ ClaimIssue(m)
    BY <2>4 DEF BatchJudge, ClaimIssue, Succeeds, Breaks, Relabel, Answered, Fails, Happens, facts
  <2>. QED BY <1>1, <2>1, <2>2, <2>3, <2>4 DEF Round
<1>2. ASSUME NEW c \in Chain, Work(c)
      PROVE  /\ rejections' \in {rejections, 0}
             /\ deeds' = deeds \/ (deeds < MaxHuman /\ deeds' = deeds + 1)
             /\ faults' = faults \/ (faults < MaxFaults /\ faults' = faults + 1)
  <2>1. CASE PrepFails(c) \/ ClaimLease(c) \/ AskFence(c) \/ InstallTrap(c) \/ NodeFails(c) \/ ZeroDiff(c)
             \/ Pass(c) \/ WayOutEnds(c) \/ Leave(c) \/ Push(c)
    BY <2>1 DEF PrepFails, ClaimLease, AskFence, InstallTrap, NodeFails, ZeroDiff, Pass, WayOutEnds, Leave, Push,
                Answered, Fails, Happens, facts
  <2>2. CASE Trip(c)
    BY <2>2 DEF Trip, Happens, Does, Relabel, facts
  <2>3. CASE MarkTriaging(c) \/ WayOut(c)
    BY <2>3 DEF MarkTriaging, WayOut, Succeeds, Breaks, Relabel, Answered, Fails, Happens, facts
  <2>4. CASE Accept(c) \/ Reject(c) \/ HandOver(c)
    BY <2>4 DEF Accept, Reject, HandOver, Swap, Succeeds, Breaks, Relabel, Answered, Fails, Happens, facts
  <2>5. CASE CreatePr(c)
    BY <2>5 DEF CreatePr, NewPr, Answered, Fails, Happens, facts
  <2>. QED BY <1>2, <2>1, <2>2, <2>3, <2>4, <2>5 DEF Work
<1>3. ASSUME NEW c \in Chain, StartByHand(c) \/ KillChain(c)
      PROVE  /\ UNCHANGED rejections
             /\ deeds' = deeds \/ (deeds < MaxHuman /\ deeds' = deeds + 1)
             /\ faults' = faults \/ (faults < MaxFaults /\ faults' = faults + 1)
  BY <1>3 DEF StartByHand, KillChain, Does, Happens, facts
<1>4. CASE Lapse \/ UNCHANGED vars
  BY <1>4 DEF Lapse, Happens, vars, facts
<1>5. ASSUME NEW d \in Deed, Do(d)
      PROVE  /\ rejections' \in {rejections, rejections + 1} /\ deeds < MaxHuman /\ deeds' = deeds + 1
             /\ faults' = faults
  BY <1>0, <1>5 DEF Do, Does, Review, Merged, SetIssue
<1>. QED BY <1>1, <1>2, <1>3, <1>4, <1>5 DEF Next

LEMMA CountsNext == Facts /\ Counts /\ [Next]_vars => Counts'
BY CountsStep, LifeAssumption DEF Facts, Counts

(* A chain at work stays so until it ends, and never starts but under the  *)
(* lock; what it has left to remove goes with its place.                   *)
Orderly(c) ==
  /\ \A d \in Chain \ {c} : chain'[d] = chain[d] /\ left'[d] = left[d]
  /\ chain[c] \in {"none", "tripped"} => chain'[c] \in {"none", "tripped"}
  /\ left'[c] # <<>> => chain'[c] \in {"trap", "tripped"}
  /\ chain'[c] = "trap" => left'[c] \in TrapWay
  /\ chain'[c] = "tripped" => chain[c] = "tripped" \/ faults' = faults + 1

LEMMA WorkOrderly ==
  ASSUME Places, Ways, NEW c \in Chain, Work(c)
  PROVE  Orderly(c) /\ UNCHANGED mine
<1>0. /\ left[c] # <<>> => chain[c] \in {"trap", "tripped"}
      /\ chain[c] = "trap" => left[c] \in TrapWay
  BY DEF Ways
<1>1. ASSUME NEW from, from \notin {"none", "tripped"}, Abort(c, from) PROVE Orderly(c)
  <2>1. <<"triaging", "accepted", "in-progress">> \in TrapWay
    BY DEF TrapWay
  <2>. QED BY <1>1, <2>1 DEF Abort, Step, Places, Orderly
<1>2. ASSUME NEW from, NEW to, from \notin {"none", "tripped", "trap"}, to \notin {"tripped", "trap"},
             Step(c, from, to), UNCHANGED left
      PROVE  Orderly(c)
  BY <1>0, <1>2 DEF Step, Places, Orderly
<1>3. CASE Trip(c)
  BY <1>3 DEF Trip, Happens, Step, Places, Orderly
<1>4. CASE PrepFails(c) \/ ClaimLease(c) \/ MarkTriaging(c) \/ InstallTrap(c) \/ ZeroDiff(c) \/ Pass(c)
           \/ Leave(c)
  <2>1. UNCHANGED <<mine, left>>
    BY <1>4 DEF PrepFails, ClaimLease, MarkTriaging, InstallTrap, ZeroDiff, Pass, Leave
  <2>2. \E from, to : /\ from \notin {"none", "tripped", "trap"} /\ to \notin {"tripped", "trap"}
                      /\ Step(c, from, to)
    BY <1>4 DEF PrepFails, ClaimLease, MarkTriaging, InstallTrap, ZeroDiff, Pass, Leave
  <2>. QED BY <1>2, <2>1, <2>2
<1>5. CASE NodeFails(c) \/ Push(c) \/ CreatePr(c) \/ Accept(c) \/ Reject(c) \/ HandOver(c)
  <2>1. UNCHANGED mine
    BY <1>5 DEF NodeFails, Push, CreatePr, Accept, Reject, HandOver
  <2>2. \/ \E from : from \notin {"none", "tripped"} /\ Abort(c, from)
        \/ /\ UNCHANGED left
           /\ \E from, to : /\ from \notin {"none", "tripped", "trap"} /\ to \notin {"tripped", "trap"}
                            /\ Step(c, from, to)
    BY <1>5 DEF NodeFails, Push, CreatePr, Accept, Reject, HandOver, Swap
  <2>. QED BY <1>1, <1>2, <2>1, <2>2
<1>6. CASE WayOut(c)
  <2>1. left[c] \in TrapWay \cup TripWay /\ left[c] # <<>>
    BY <1>6 DEF WayOut, Places
  <2>2. left[c] \in TrapWay => Tail(left[c]) \in TrapWay
    BY <2>1, WaySteps
  <2>. QED BY <1>0, <1>6, <2>1, <2>2 DEF WayOut, mine, Places, Orderly
<1>7. CASE WayOutEnds(c)
  BY <1>7 DEF WayOutEnds, Step, Places, Orderly
<1>8. CASE AskFence(c)
  BY <1>0, <1>8 DEF AskFence, Orderly, Ways
<1>. QED BY <1>3, <1>4, <1>5, <1>6, <1>7, <1>8 DEF Work

LEMMA WaysNext == Facts /\ Counts /\ Places /\ Ways /\ [Next]_vars => Ways'
<1> SUFFICES ASSUME Facts, Counts, Places, Ways, [Next]_vars PROVE Ways'
  OBVIOUS
<1>0. faults \in Nat /\ (faults' = faults \/ faults' = faults + 1)
  BY CountsStep DEF Counts
<1>1. CASE UNCHANGED <<chain, left>>
  BY <1>0, <1>1 DEF Ways
<1>2. ASSUME NEW c \in Chain, Orderly(c) PROVE Ways'
  BY <1>0, <1>2 DEF Ways, Orderly
<1>3. ASSUME NEW m \in Machine, Round(m) PROVE Ways'
  <2>1. CASE Spawn(m)
    <3>1. PICK c \in Chain : Step(c, "none", "start") /\ UNCHANGED left
      BY <2>1, ChainPairs DEF Spawn
    <3>. QED BY <1>0, <3>1 DEF Step, Places, Ways
  <2>2. CASE ~Spawn(m)
    <3>1. UNCHANGED <<chain, left>>
      BY <1>3, <2>2 DEF Round, Begin, SyncRead, SyncWrite, SyncEnd, BatchList, BatchJudge, MergeList, MergePr,
                 RefixList, RefixCheck, Unfix, DrainList, DrainCheck, ClaimIssue, Await, theirs
    <3>. QED BY <1>1, <3>1
  <2>. QED BY <2>1, <2>2
<1>4. ASSUME NEW c \in Chain, StartByHand(c) \/ KillChain(c) PROVE Ways'
  BY <1>0, <1>4 DEF StartByHand, KillChain, Step, Places, Ways
<1>5. CASE Lapse \/ UNCHANGED vars \/ \E d \in Deed : Do(d)
  BY <1>1, <1>5 DEF Lapse, Do, vars, theirs
<1>. QED BY <1>2, <1>3, <1>4, <1>5, WorkOrderly DEF Next

LEMMA QuietNext == Places /\ Ways /\ Quiet /\ [Next]_vars => Quiet'
<1> SUFFICES ASSUME Places, Ways, Quiet, [Next]_vars PROVE Quiet'
  OBVIOUS
<1>. DEFINE Rest == {"none", "tripped"}
            Open == {"idle", "drain", "check", "claim", "spawn", "wait"}
<1>1. CASE UNCHANGED <<chain, disp>>
  BY <1>1 DEF Quiet
<1>2. ASSUME NEW m \in Machine, Round(m) PROVE Quiet'
  <2>1. ASSUME UNCHANGED chain, \A n \in Machine \ {m} : disp'[n] = disp[n],
               disp[m] \in Open => \/ disp'[m] \in Open
                                   \/ \A c \in Chain : On(c) = m => chain[c] \in Rest
        PROVE  Quiet'
    BY <2>1, ChainPairs DEF Quiet
  <2>2. CASE Begin(m)
    BY <2>1, <2>2 DEF Begin, LockFree, theirs, Go, Places
  <2>3. CASE Await(m)
    BY <2>1, <2>3 DEF Await, theirs, Go, Places
  <2>4. CASE Spawn(m)
    <3>1. PICK s \in Slot : Step(<<m, s>>, "none", "start")
      BY <2>4 DEF Spawn
    <3>2. disp' = [disp EXCEPT ![m] = "drain"] \/ disp' = [disp EXCEPT ![m] = "wait"]
      BY <2>4 DEF Spawn, Go
    <3>. QED BY <3>1, <3>2, ChainPairs DEF Step, Places, Quiet
  <2>5. CASE SyncRead(m) \/ SyncWrite(m) \/ SyncEnd(m) \/ BatchList(m) \/ BatchJudge(m) \/ MergeList(m)
             \/ MergePr(m)
    BY <2>1, <2>5 DEF SyncRead, SyncWrite, SyncEnd, BatchList, BatchJudge, MergeList, MergePr, theirs, Go, Places
  <2>6. CASE RefixList(m) \/ RefixCheck(m) \/ Unfix(m) \/ DrainList(m) \/ DrainCheck(m) \/ ClaimIssue(m)
    BY <2>1, <2>6 DEF RefixList, RefixCheck, Unfix, DrainList, DrainCheck, ClaimIssue, InProgress, theirs,
                      Go, Places
  <2>. QED BY <1>2, <2>2, <2>3, <2>4, <2>5, <2>6 DEF Round
<1>3. ASSUME NEW c \in Chain, Work(c) PROVE Quiet'
  <2>1. Orderly(c) /\ UNCHANGED disp
    BY <1>3, WorkOrderly DEF mine
  <2>. QED BY <2>1 DEF Orderly, Quiet
<1>4. ASSUME NEW c \in Chain, StartByHand(c) \/ KillChain(c) PROVE Quiet'
  BY <1>4 DEF StartByHand, LockFree, KillChain, Step, mine, Places, Quiet
<1>5. CASE Lapse \/ UNCHANGED vars \/ \E d \in Deed : Do(d)
  BY <1>1, <1>5 DEF Lapse, Do, vars, mine, theirs
<1>. QED BY <1>2, <1>3, <1>4, <1>5 DEF Next

LEMMA SyncsNext == Places /\ Ways /\ Syncs /\ [Next]_vars => Syncs'
<1> SUFFICES ASSUME Places, Ways, Syncs, [Next]_vars PROVE Syncs'
  OBVIOUS
<1>1. CASE UNCHANGED mine
  BY <1>1 DEF mine, Syncs
<1>2. ASSUME NEW m \in Machine, Round(m) PROVE Syncs'
  <2>1. CASE SyncRead(m) \/ SyncWrite(m)
    BY <2>1 DEF SyncRead, SyncWrite, Go, Places, Syncs
  <2>2. CASE Begin(m) \/ SyncEnd(m) \/ BatchList(m) \/ BatchJudge(m) \/ MergeList(m) \/ MergePr(m)
    BY <2>2 DEF Begin, SyncEnd, BatchList, BatchJudge, MergeList, MergePr, Go, Places, Syncs
  <2>3. CASE RefixList(m) \/ RefixCheck(m) \/ Unfix(m) \/ DrainList(m) \/ DrainCheck(m)
    BY <2>3 DEF RefixList, RefixCheck, Unfix, DrainList, DrainCheck, InProgress, Go, Places, Syncs
  <2>4. CASE ClaimIssue(m) \/ Spawn(m) \/ Await(m)
    BY <2>4 DEF ClaimIssue, Spawn, Await, Go, Places, Syncs
  <2>. QED BY <1>2, <2>1, <2>2, <2>3, <2>4 DEF Round
<1>3. ASSUME NEW c \in Chain, Work(c) \/ StartByHand(c) \/ KillChain(c) PROVE Syncs'
  <2>1. UNCHANGED mine
    BY <1>3, WorkOrderly DEF StartByHand, KillChain
  <2>. QED BY <1>1, <2>1
<1>4. CASE Lapse \/ UNCHANGED vars \/ \E d \in Deed : Do(d)
  BY <1>1, <1>4 DEF Lapse, Do, vars, mine
<1>. QED BY <1>2, <1>3, <1>4 DEF Next

LEMMA BaseInit == Init => Base
<1> SUFFICES ASSUME Init PROVE Base
  OBVIOUS
<1>1. Facts
  BY DEF Init, Facts, Issue, Pr, NoPr
<1>2. Counts
  BY LifeAssumption DEF Init, Counts
<1>3. Places
  BY DEF Init, Places, Place, ChainPlace, TrapWay
<1>4. Ways /\ Quiet /\ Syncs
  BY DEF Init, Ways, Quiet, Syncs
<1>. QED BY <1>1, <1>2, <1>3, <1>4 DEF Base

LEMMA BaseNext == Base /\ [Next]_vars => Base'
BY FactsNext, CountsNext, PlacesNext, WaysNext, QuietNext, SyncsNext DEF Base

LEMMA BaseTyped == Base => TypeOK
<1> SUFFICES ASSUME Base PROVE TypeOK
  OBVIOUS
<1>1. TrapWay \cup TripWay \subseteq Seq(IssueLabel)
  BY DEF TrapWay, TripWay, IssueLabel, Locks
<1>2. PlanOp \subseteq Op
  BY DEF PlanOp, Op
<1>3. /\ ops \in [Machine -> SUBSET Op] /\ left \in [Chain -> Seq(IssueLabel)]
      /\ lease \subseteq Chain /\ live \in BOOLEAN /\ armed \subseteq Chain
  BY <1>1, <1>2 DEF Base, Places
<1>4. /\ issue \in Issue /\ pr \in Pr /\ adds \in Nat /\ fixes \in Nat /\ remote \in BOOLEAN
      /\ rejections \in 0 .. MaxHuman /\ deeds \in 0 .. MaxHuman /\ faults \in 0 .. MaxFaults
  BY LifeAssumption DEF Base, Facts, Counts
<1>. QED BY <1>3, <1>4 DEF Base, Places, Place, ChainPlace, TypeOK

(* Types, for every value of the constants.  The issue's and the PR's      *)
(* labels stay labels of their kind, no counter passes its bound, chains   *)
(* only run while their machine's dispatcher is idle, drains or waits, and *)
(* a plan is only pending in a sync.                                       *)
THEOREM LifeTypeCorrect == Spec => []TypeOK
<1>1. Spec => []Base
  BY BaseInit, BaseNext, PTL DEF Spec
<1>. QED BY <1>1, BaseTyped, PTL

-----------------------------------------------------------------------------
(* The rounds of a pull request, where one machine serves the repository.  *)

OneMachine == \A m, n \in Machine : m = n

(* A redispatch is paid for by a needs-fix event: the label is on the PR,  *)
(* or a dispatcher just took it off and is on its way to the spawn, or the *)
(* spawn is counted.                                                       *)
NeedsFix == IF "needs-fix" \in pr.labels THEN 1 ELSE 0
Underway(m) == IF disp[m] \in {"reclaim", "respawn"} THEN 1 ELSE 0
Paid(m) ==
  /\ fixes + NeedsFix + Underway(m) <= adds
  /\ AddFix \in ops[m] => adds < MaxFixRounds
  /\ disp[m] \in {"refix", "unfix"} => "needs-fix" \in pr.labels
Budget == adds <= MaxFixRounds /\ fixes + NeedsFix <= adds /\ \A m \in Machine : Paid(m)

Fixing == {"refix", "unfix", "reclaim", "respawn"}

LEMMA BudgetSame ==
  ASSUME Base, Budget, UNCHANGED <<adds, fixes>>, pr'.labels = pr.labels,
         \A m \in Machine : /\ ops'[m] \subseteq ops[m]
                            /\ disp'[m] = disp[m] \/ disp'[m] \notin Fixing
  PROVE  Budget'
BY DEF Base, Facts, Budget, Paid, NeedsFix, Underway, Fixing

LEMMA BudgetNext == OneMachine /\ Base /\ Budget /\ [Next]_vars => Budget'
<1> SUFFICES ASSUME OneMachine, Base, Budget, [Next]_vars PROVE Budget'
  OBVIOUS
<1>0. Facts /\ Places /\ adds \in Nat /\ fixes \in Nat /\ MaxFixRounds \in Nat
  BY PlanAssumption DEF Base, Facts
<1>1. ASSUME NEW m \in Machine, Round(m) PROVE Budget'
  <2>1. CASE SyncRead(m)
    <3>1. UNCHANGED <<pr, adds, fixes>>
      BY <2>1 DEF SyncRead, facts
    <3>2. disp'[m] \notin Fixing /\ (AddFix \in ops'[m] => adds < MaxFixRounds)
      <4>1. AddFix \in Plan(issue, pr, adds) => adds < MaxFixRounds
        BY <1>0, Planned DEF Facts
      <4>. QED BY <1>0, <2>1, <4>1 DEF SyncRead, Go, Places, Fixing
    <3>. QED BY <1>0, <3>1, <3>2 DEF OneMachine, Budget, Paid, NeedsFix, Underway, Fixing
  <2>2. CASE SyncWrite(m)
    <3>1. PICK o \in ops[m] : /\ ops' = [ops EXCEPT ![m] = @ \ {o}]
                              /\ Apply(o) \/ UNCHANGED facts
      BY <2>2 DEF SyncWrite
    <3>2. o \in PlanOp /\ UNCHANGED disp /\ disp[m] \in {"syncing", "finishing"}
      BY <1>0, <2>2 DEF SyncWrite, Places
    <3>3. /\ ops'[m] = ops[m] \ {o}
          /\ \A n \in Machine : ops'[n] \subseteq ops[n] /\ disp'[n] = disp[n]
      BY <1>0, <3>1, <3>2 DEF Places
    <3>4. CASE UNCHANGED facts
      BY <3>3, <3>4, BudgetSame DEF facts
    <3>5. CASE Apply(o)
      <4>1. /\ pr'.labels = Applied(pr.labels, {o}, "pr")
            /\ adds' = adds + AddEvents(pr, {o}) /\ UNCHANGED fixes
        BY <1>0, <3>5 DEF Apply, Facts, Pr
      <4>0. "needs-fix" \in Applied(pr.labels, {o}, "pr") <=>
              \/ "needs-fix" \in pr.labels /\ (o.target = "pr" /\ o.op = "remove" => o.label # "needs-fix")
              \/ o.target = "pr" /\ o.op = "add" /\ o.label = "needs-fix"
        BY <3>2, AppliedHas
      <4>2. CASE o = AddFix
        <5>1. "needs-fix" \in Applied(pr.labels, {o}, "pr")
          BY <4>0, <4>2 DEF AddFix
        <5>2. NeedsFix' = 1 /\ adds' = adds + 1 - NeedsFix
          BY <1>0, <4>1, <5>1 DEF AddEvents, NeedsFix
        <5>3. adds < MaxFixRounds /\ AddFix \notin ops'[m]
          BY <3>1, <3>3, <4>2 DEF Budget, Paid
        <5>4. Underway(m)' = 0 /\ Underway(m) = 0 /\ disp'[m] \notin {"refix", "unfix"}
          BY <3>2 DEF Underway
        <5>5. fixes + NeedsFix <= adds
          BY DEF Budget
        <5>6. NeedsFix \in {0, 1}
          BY DEF NeedsFix
        <5>7. adds' <= MaxFixRounds /\ fixes' + NeedsFix' + 0 <= adds' /\ fixes' + NeedsFix' <= adds'
          BY <1>0, <4>1, <5>2, <5>3, <5>5, <5>6
        <5>. QED BY <5>3, <5>4, <5>7 DEF OneMachine, Budget, Paid
      <4>3. CASE o # AddFix
        <5>1. ~(o.target = "pr" /\ o.op = "add" /\ o.label = "needs-fix")
          BY <3>2, <4>3 DEF PlanOp, AddFix
        <5>2. "needs-fix" \in Applied(pr.labels, {o}, "pr") => "needs-fix" \in pr.labels
          BY <4>0, <5>1
        <5>3. adds' = adds /\ NeedsFix' <= NeedsFix
          BY <1>0, <4>1, <5>2 DEF AddEvents, NeedsFix
        <5>4. NeedsFix \in {0, 1} /\ NeedsFix' \in {0, 1}
          BY DEF NeedsFix
        <5>5. Underway(m)' = 0 /\ Underway(m) = 0 /\ disp'[m] \notin {"refix", "unfix"}
          BY <3>2 DEF Underway
        <5>6. fixes' + NeedsFix' <= adds'
          BY <1>0, <4>1, <5>3, <5>4 DEF Budget
        <5>7. fixes' + NeedsFix' + 0 <= adds'
          BY <1>0, <4>1, <5>4, <5>6
        <5>8. AddFix \in ops'[m] => adds' < MaxFixRounds
          BY <3>3, <5>3 DEF Budget, Paid
        <5>. QED BY <5>3, <5>5, <5>6, <5>7, <5>8 DEF OneMachine, Budget, Paid
      <4>. QED BY <4>2, <4>3
    <3>. QED BY <3>1, <3>4, <3>5
  <2>3. CASE RefixList(m) \/ RefixCheck(m)
    <3>1. UNCHANGED <<pr, adds, fixes, ops>>
      BY <2>3 DEF RefixList, RefixCheck, facts
    <3>2. disp'[m] \notin {"reclaim", "respawn"} /\ (disp'[m] \in {"refix", "unfix"} => "needs-fix" \in pr.labels)
      BY <1>0, <2>3 DEF RefixList, RefixCheck, InProgress, Go, Places, Budget, Paid
    <3>. QED BY <1>0, <3>1, <3>2 DEF OneMachine, Budget, Paid, NeedsFix, Underway
  <2>4. CASE Unfix(m)
    <3>1. UNCHANGED <<adds, fixes, ops>> /\ disp[m] = "unfix" /\ "needs-fix" \in pr.labels
      BY <2>4 DEF Unfix, TakeNeedsFix, Go, facts, Budget, Paid
    <3>2. \/ disp'[m] = "reclaim" /\ pr'.labels = pr.labels \ {"needs-fix"}
          \/ disp'[m] = "drain" /\ (pr'.labels = pr.labels \ {"needs-fix"} \/ UNCHANGED pr)
      BY <1>0, <2>4 DEF Unfix, TakeNeedsFix, Go, Places, Facts, Pr, facts
    <3>. QED BY <1>0, <3>1, <3>2 DEF OneMachine, Budget, Paid, NeedsFix, Underway
  <2>5. CASE ClaimIssue(m)
    <3>1. UNCHANGED <<pr, adds, fixes, ops>>
      BY <2>5 DEF ClaimIssue, Succeeds, Breaks, Relabel, facts
    <3>2. \/ disp[m] = "reclaim" /\ disp'[m] = "respawn"
          \/ disp'[m] \notin Fixing
      BY <1>0, <2>5 DEF ClaimIssue, Go, Places, Fixing
    <3>. QED BY <1>0, <3>1, <3>2 DEF OneMachine, Budget, Paid, NeedsFix, Underway, Fixing
  <2>6. CASE Spawn(m)
    <3>1. UNCHANGED <<pr, adds, ops>>
      BY <2>6 DEF Spawn
    <3>2. disp'[m] \notin Fixing /\ (fixes' = fixes \/ (disp[m] = "respawn" /\ fixes' = fixes + 1))
      BY <1>0, <2>6 DEF Spawn, Go, Places, Fixing
    <3>. QED BY <1>0, <3>1, <3>2 DEF OneMachine, Budget, Paid, NeedsFix, Underway, Fixing
  <2>7. CASE Begin(m) \/ SyncEnd(m) \/ BatchList(m) \/ BatchJudge(m) \/ MergeList(m) \/ MergePr(m)
             \/ DrainList(m) \/ DrainCheck(m) \/ Await(m)
    <3>1. UNCHANGED <<adds, fixes, ops>> /\ pr'.labels = pr.labels
      BY <1>0, <2>7 DEF Begin, SyncEnd, BatchList, BatchJudge, MergeList, MergePr, Merged, DrainList, DrainCheck,
                        Await, Succeeds, Breaks, Relabel, facts, Facts, Pr
    <3>2. \A n \in Machine : disp'[n] = disp[n] \/ disp'[n] \notin Fixing
      BY <1>0, <2>7 DEF Begin, SyncEnd, BatchList, BatchJudge, MergeList, MergePr, DrainList, DrainCheck,
                        Await, InProgress, Go, Places, Fixing
    <3>. QED BY <3>1, <3>2, BudgetSame
  <2>. QED BY <1>1, <2>1, <2>2, <2>3, <2>4, <2>5, <2>6, <2>7 DEF Round
<1>2. ASSUME NEW c \in Chain, Work(c) PROVE Budget'
  <2>1. UNCHANGED <<disp, ops>>
    BY <1>2, WorkOrderly DEF mine, Base
  <2>2. CASE CreatePr(c) /\ NewPr
    <3>1. chain[c] = "pushed"
      BY <2>2 DEF CreatePr, Abort, Step
    <3>2. disp[On(c)] \in {"idle", "drain", "check", "claim", "spawn", "wait"} /\ ops[On(c)] = {}
      BY <3>1, ChainPairs DEF Base, Quiet, Syncs
    <3>3. adds' = 0 /\ fixes' = 0 /\ pr'.labels = {"needs-review"}
      BY <2>2 DEF NewPr
    <3>. QED BY <1>0, <2>1, <3>2, <3>3, ChainPairs DEF OneMachine, Budget, Paid, NeedsFix, Underway
  <2>3. CASE ~(CreatePr(c) /\ NewPr)
    <3>1. UNCHANGED <<adds, fixes, pr>>
      <4>1. CASE Trip(c) \/ PrepFails(c) \/ ClaimLease(c) \/ AskFence(c) \/ MarkTriaging(c) \/ InstallTrap(c)
                 \/ NodeFails(c)
        BY <4>1 DEF Trip, PrepFails, ClaimLease, AskFence, MarkTriaging, InstallTrap, NodeFails, Succeeds, Breaks, Relabel,
                    facts
      <4>2. CASE Accept(c) \/ Reject(c) \/ HandOver(c)
        BY <4>2 DEF Accept, Reject, HandOver, Swap, Succeeds, Breaks, Relabel, facts
      <4>3. CASE ZeroDiff(c) \/ Pass(c) \/ Push(c) \/ WayOut(c) \/ WayOutEnds(c) \/ Leave(c)
        BY <4>3 DEF ZeroDiff, Pass, Push, WayOut, WayOutEnds, Leave, Succeeds, Breaks, Relabel, facts
      <4>4. CASE CreatePr(c)
        BY <2>3, <4>4 DEF CreatePr, facts
      <4>. QED BY <1>2, <4>1, <4>2, <4>3, <4>4 DEF Work
    <3>. QED BY <2>1, <3>1, BudgetSame
  <2>. QED BY <2>2, <2>3
<1>3. ASSUME NEW c \in Chain, StartByHand(c) \/ KillChain(c) PROVE Budget'
  BY <1>3, BudgetSame DEF StartByHand, KillChain, mine, facts
<1>4. CASE Lapse \/ UNCHANGED vars
  BY <1>4, BudgetSame DEF Lapse, vars, mine, facts
<1>5. ASSUME NEW d \in Deed, Do(d) PROVE Budget'
  <2>1. UNCHANGED <<adds, fixes, mine>> /\ pr'.labels = pr.labels
    BY <1>0, <1>5 DEF Do, Review, Merged, SetIssue, Facts, Pr
  <2>. QED BY <2>1, BudgetSame DEF mine
<1>. QED BY <1>1, <1>2, <1>3, <1>4, <1>5 DEF Next

(* On one machine a pull request is sent back to a chain at most           *)
(* MAX_FIX_ROUNDS times, whatever calls fail, chains die and people do, in *)
(* any number of slots: every redispatch spends a needs-fix event, and a   *)
(* sync plans one only below the bound.                                    *)
THEOREM RoundsStayBounded ==
  ASSUME OneMachine
  PROVE  Spec => []RoundsBounded
<1>1. Init => Budget
  BY PlanAssumption DEF Init, NoPr, Budget, Paid, NeedsFix, Underway
<1>2. Base /\ Budget => RoundsBounded
  BY PlanAssumption DEF Base, Facts, Budget, NeedsFix, RoundsBounded
<1>3. Base /\ Budget /\ [Next]_vars => Budget'
  BY BudgetNext
<1>4. Spec => [](Base /\ Budget)
  BY <1>1, <1>3, BaseInit, BaseNext, PTL DEF Spec
<1>. QED BY <1>2, <1>4, PTL

-----------------------------------------------------------------------------
(* The mark on an issue that is worked on.                                 *)

(* Nobody closes the issue or marks it rejected, no breaker trips, and     *)
(* where a machine's claim renews its own lease it runs one chain.         *)
Undisturbed ==
  /\ Human \cap {"close", "merge", "mark"} = {} /\ ~AutoMerge
  /\ "exit" \notin Fault
  /\ Renews => \A s, t \in Slot : s = t

OneHolder == \A c, d \in lease : c = d
Steady ==
  /\ issue.open /\ ~issue.marker
  /\ \A m \in Machine : TakeLock \notin ops[m] /\ disp[m] # "merging"
  /\ \A c \in Chain : chain[c] # "tripped"
  /\ OneHolder

(* What a step may do to the mark and to the rest of the issue.            *)
MarkKept == "in-progress" \in Labels => "in-progress" \in Labels'
IssueKept == issue'.open = issue.open /\ issue'.marker = issue.marker

LEMMA KeepsMark ==
  ASSUME Facts, NEW remove, NEW add, "in-progress" \notin remove \/ "in-progress" \in add,
         Relabel(remove, add) \/ UNCHANGED facts
  PROVE  MarkKept /\ IssueKept
BY DEF Facts, Issue, Relabel, facts, Labels, MarkKept, IssueKept

LEMMA RelabelOnly ==
  ASSUME Facts, NEW remove, NEW add, Relabel(remove, add) \/ UNCHANGED facts
  PROVE  IssueKept
BY DEF Facts, Issue, Relabel, facts, IssueKept

LEMMA RoundSteady ==
  ASSUME Undisturbed, Base, Steady, NEW m \in Machine, Round(m)
  PROVE  Steady' /\ MarkKept
<1>0. Facts /\ Places /\ Ways
  BY DEF Base
<1>1. UNCHANGED lease
  BY DEF Round, Begin, SyncRead, SyncWrite, SyncEnd, BatchList, BatchJudge, MergeList, MergePr,
         RefixList, RefixCheck, Unfix, DrainList, DrainCheck, ClaimIssue, Spawn, Await, theirs
<1>2. \A c \in Chain : chain'[c] \in {chain[c], "start"}
  <2>1. CASE Spawn(m)
    BY <1>0, <2>1 DEF Spawn, Step, Places
  <2>2. CASE ~Spawn(m)
    BY <2>2 DEF Round, Begin, SyncRead, SyncWrite, SyncEnd, BatchList, BatchJudge, MergeList, MergePr,
                RefixList, RefixCheck, Unfix, DrainList, DrainCheck, ClaimIssue, Await, theirs
  <2>. QED BY <2>1, <2>2
<1>3. MarkKept /\ IssueKept
  <2>1. CASE SyncWrite(m)
    <3>1. PICK o \in ops[m] : Apply(o) \/ UNCHANGED facts
      BY <2>1 DEF SyncWrite
    <3>2. o \in PlanOp /\ o # TakeLock
      BY <1>0, <3>1 DEF Places, Steady
    <3>3. ~(o.target = "issue" /\ o.op = "remove" /\ o.label = "in-progress")
      BY <3>2 DEF PlanOp, TakeLock
    <3>4. "in-progress" \in Labels => "in-progress" \in Applied(issue.labels, {o}, "issue")
      BY <3>2, <3>3, AppliedHas DEF Labels
    <3>. QED BY <1>0, <3>1, <3>4 DEF Apply, Facts, Issue, facts, Labels, MarkKept, IssueKept
  <2>2. CASE BatchJudge(m)
    <3>1. \E add \in {{"accepted"}, {"rejected"}} : Relabel({}, add) \/ UNCHANGED facts
      BY <2>2 DEF BatchJudge, Succeeds, Breaks
    <3>. QED BY <1>0, <3>1, KeepsMark
  <2>3. CASE ClaimIssue(m)
    <3>1. Relabel({"accepted"}, {"in-progress"}) \/ UNCHANGED facts
      BY <2>3 DEF ClaimIssue, Succeeds, Breaks
    <3>. QED BY <1>0, <3>1, KeepsMark
  <2>4. CASE MergePr(m)
    BY <2>4 DEF MergePr, Go, Steady
  <2>5. CASE Begin(m) \/ SyncRead(m) \/ SyncEnd(m) \/ BatchList(m) \/ MergeList(m) \/ RefixList(m)
             \/ RefixCheck(m) \/ Unfix(m) \/ DrainList(m) \/ DrainCheck(m) \/ Spawn(m) \/ Await(m)
    <3>1. UNCHANGED issue
      BY <2>5 DEF Begin, SyncRead, SyncEnd, BatchList, MergeList, RefixList, RefixCheck, Unfix, TakeNeedsFix,
                  DrainList, DrainCheck, Spawn, Await, facts
    <3>. QED BY <3>1 DEF Labels, MarkKept, IssueKept
  <2>. QED BY <2>1, <2>2, <2>3, <2>4, <2>5 DEF Round
<1>4. \A n \in Machine : TakeLock \notin ops'[n]
  <2>1. CASE SyncRead(m)
    <3>1. TakeLock \notin Plan(issue, pr, adds)
      BY <1>0, Planned DEF Facts, Steady
    <3>. QED BY <1>0, <2>1, <3>1 DEF SyncRead, Places, Steady
  <2>2. CASE ~SyncRead(m)
    <3>1. \A n \in Machine : ops'[n] \subseteq ops[n]
      BY <1>0, <2>2 DEF Round, Begin, SyncWrite, SyncEnd, BatchList, BatchJudge, MergeList, MergePr,
              RefixList, RefixCheck, Unfix, DrainList, DrainCheck, ClaimIssue, Spawn, Await, Places
    <3>. QED BY <3>1 DEF Steady
  <2>. QED BY <2>1, <2>2
<1>5. \A n \in Machine : disp'[n] # "merging"
  BY <1>0 DEF Round, Begin, SyncRead, SyncWrite, SyncEnd, BatchList, BatchJudge, MergeList, MergePr,
              RefixList, RefixCheck, Unfix, DrainList, DrainCheck, ClaimIssue, Spawn, Await, InProgress, Go,
              Places, Steady, Undisturbed
<1>6. \A c \in Chain : chain'[c] # "tripped"
  BY <1>2 DEF Steady
<1>. QED BY <1>1, <1>3, <1>4, <1>5, <1>6 DEF Steady, OneHolder, IssueKept

(* Of the steps of a chain, only the calls the fence guards take the label *)
(* off.                                                                    *)
LEMMA WorkMark ==
  ASSUME Undisturbed, Base, Steady, NEW c \in Chain, Work(c)
  PROVE  /\ IssueKept
         /\ MarkKept \/ (Guarded(c) /\ chain[c] \in {"judging", "opened", "trap"})
<1>0. Facts /\ Places /\ Ways
  BY DEF Base
<1>1. ~Trip(c)
  BY DEF Trip, Happens, Undisturbed
<1>2. CASE Accept(c)
  <2>1. Relabel({"triaging", "rejected"}, {"accepted", "in-progress"}) \/ UNCHANGED facts
    BY <1>2 DEF Accept, Swap, Succeeds, Breaks
  <2>. QED BY <1>0, <2>1, KeepsMark
<1>3. CASE Reject(c) \/ HandOver(c)
  <2>1. \/ UNCHANGED facts
        \/ Guarded(c) /\ \E remove, add : Relabel(remove, add)
    BY <1>3 DEF Reject, HandOver, Swap, Succeeds, Breaks
  <2>2. chain[c] \in {"judging", "opened"}
    BY <1>3 DEF Reject, HandOver, Swap, Abort, Step
  <2>3. IssueKept
    BY <1>0, <2>1, RelabelOnly
  <2>. QED BY <2>1, <2>2, <2>3 DEF MarkKept, Labels, facts
<1>4. CASE MarkTriaging(c)
  <2>1. Relabel({}, {"triaging"}) \/ UNCHANGED facts
    BY <1>4 DEF MarkTriaging, Succeeds, Breaks
  <2>. QED BY <1>0, <2>1, KeepsMark
<1>5. CASE WayOut(c)
  <2>1. chain[c] = "trap"
    BY <1>0, <1>5 DEF WayOut, Ways, Steady
  <2>2. \/ UNCHANGED facts
        \/ Guarded(c) /\ \E remove, add : Relabel(remove, add)
    BY <1>5, <2>1 DEF WayOut, Succeeds, Breaks
  <2>3. IssueKept
    BY <1>0, <2>2, RelabelOnly
  <2>. QED BY <2>1, <2>2, <2>3 DEF MarkKept, Labels, facts
<1>6. CASE PrepFails(c) \/ ClaimLease(c) \/ AskFence(c) \/ InstallTrap(c) \/ NodeFails(c) \/ ZeroDiff(c)
           \/ Pass(c) \/ Push(c) \/ CreatePr(c) \/ WayOutEnds(c) \/ Leave(c)
  <2>1. UNCHANGED issue
    BY <1>6 DEF PrepFails, ClaimLease, AskFence, InstallTrap, NodeFails, ZeroDiff, Pass, Push, CreatePr, NewPr,
                WayOutEnds, Leave, facts
  <2>. QED BY <2>1 DEF Labels, MarkKept, IssueKept
<1>. QED BY <1>1, <1>2, <1>3, <1>4, <1>5, <1>6 DEF Work

LEMMA WorkSteady ==
  ASSUME Undisturbed, Base, Steady, NEW c \in Chain, Work(c)
  PROVE  Steady'
<1>0. Facts /\ Places /\ Ways
  BY DEF Base
<1>1. Orderly(c) /\ UNCHANGED mine
  BY <1>0, WorkOrderly
<1>2. ~Trip(c)
  BY DEF Trip, Happens, Undisturbed
<1>3. \A d \in Chain : chain'[d] # "tripped"
  <2>1. chain'[c] # "tripped"
    BY <1>0, <1>2 DEF Work, PrepFails, ClaimLease, AskFence, MarkTriaging, InstallTrap, NodeFails, Accept,
         Reject, Swap, ZeroDiff, Pass, Push, CreatePr, HandOver, WayOut, WayOutEnds, Leave, Abort, Step,
         Places, Steady
  <2>. QED BY <1>1, <2>1 DEF Orderly, Steady
<1>4. OneHolder'
  <2>1. CASE ClaimLease(c) /\ lease' = Token(c)
    <3>1. Token(c) = {c}
      <4>1. ASSUME Renews, SameMachine(c), NEW d \in lease PROVE d = c
        <5>1. d \in Chain /\ On(d) = On(c)
          BY <1>0, <4>1 DEF SameMachine, Places
        <5>2. d[2] = c[2]
          BY <4>1, <5>1, ChainPairs DEF Undisturbed
        <5>. QED BY <5>1, <5>2, ChainPairs
      <4>. QED BY <4>1 DEF Token, SameMachine
    <3>. QED BY <2>1, <3>1 DEF OneHolder
  <2>2. CASE UNCHANGED lease
    BY <2>2 DEF Steady, OneHolder
  <2>3. \/ ClaimLease(c) /\ lease' = Token(c)
        \/ UNCHANGED lease
    BY <1>2 DEF Work, PrepFails, ClaimLease, AskFence, MarkTriaging, InstallTrap, NodeFails, Accept, Reject,
                ZeroDiff, Pass, Push, CreatePr, HandOver, WayOut, WayOutEnds, Leave
  <2>. QED BY <2>1, <2>2, <2>3
<1>. QED BY <1>1, <1>3, <1>4, WorkMark DEF Steady, IssueKept, mine

LEMMA RestSteady ==
  ASSUME Undisturbed, Base, Steady, [Next]_vars,
         ~\E m \in Machine : Round(m), ~\E c \in Chain : Work(c)
  PROVE  Steady' /\ MarkKept
<1>0. Facts /\ Places /\ Ways
  BY DEF Base
<1>1. ASSUME NEW c \in Chain, StartByHand(c) \/ KillChain(c) PROVE Steady' /\ MarkKept
  <2>1. UNCHANGED <<issue, lease, mine>> /\ \A d \in Chain : chain'[d] \in {chain[d], "start", "none"}
    BY <1>0, <1>1 DEF StartByHand, KillChain, Step, Places, facts
  <2>. QED BY <2>1 DEF Steady, mine, OneHolder, MarkKept, Labels
<1>2. CASE Lapse \/ UNCHANGED vars
  <2>1. UNCHANGED <<issue, lease, mine, chain>>
    BY <1>2 DEF Lapse, vars, facts, mine
  <2>. QED BY <2>1 DEF Steady, mine, OneHolder, MarkKept, Labels
<1>3. ASSUME NEW d \in Deed, Do(d) PROVE Steady' /\ MarkKept
  <2>1. d \notin {"close", "merge", "mark"} /\ UNCHANGED <<mine, theirs>>
    BY <1>3 DEF Do, Does, Undisturbed
  <2>2. issue'.open = TRUE /\ issue'.marker = FALSE /\ MarkKept
    BY <1>0, <1>3, <2>1 DEF Do, Review, SetIssue, Facts, Issue, Labels, Steady, MarkKept
  <2>. QED BY <2>1, <2>2 DEF Steady, mine, theirs, OneHolder
<1>. QED BY <1>1, <1>2, <1>3 DEF Next

LEMMA SteadyNext == Undisturbed /\ Base /\ Steady /\ [Next]_vars => Steady'
BY RoundSteady, WorkSteady, RestSteady

(* One step keeps the mark on the work of whoever holds the lease, but for *)
(* a call that was let through before its chain lost the lease.            *)
MarkStep(c) ==
  AtWork(c) /\ AtWork(c)' /\ "in-progress" \in Labels =>
    "in-progress" \in Labels' \/ \E d \in Chain : Straying(d) /\ d \notin armed'

LEMMA StepKeepsMark ==
  ASSUME Undisturbed, Base, Steady, [Next]_vars, NEW c \in Chain
  PROVE  MarkStep(c)
<1>1. CASE MarkKept
  BY <1>1 DEF MarkKept, MarkStep
<1>2. CASE ~MarkKept
  <2>1. PICK d \in Chain : Work(d)
    BY <1>2, RoundSteady, RestSteady
  <2>2. Guarded(d) /\ chain[d] \in {"judging", "opened", "trap"}
    BY <1>2, <2>1, WorkMark
  <2>3. d \in armed /\ d \notin armed'
    BY <2>2 DEF Guarded
  <2>4. CASE Fence(d)
    <3>1. AtWork(c) => c = d
      BY <2>4 DEF Steady, OneHolder, AtWork, Fence
    <3>2. ~AtWork(d)
      BY <2>2 DEF AtWork
    <3>. QED BY <3>1, <3>2 DEF MarkStep
  <2>5. CASE ~Fence(d)
    BY <2>3, <2>5 DEF MarkStep, Straying
  <2>. QED BY <2>4, <2>5
<1>. QED BY <1>1, <1>2

(* While the chain that holds the lease works on the issue, no step takes  *)
(* in-progress off it, on any number of machines, whatever calls fail,     *)
(* leases lapse and chains are killed, but for the one call of a chain     *)
(* that lost its lease after the fence had let it through: a sync plans no *)
(* removal of the lock from an open issue, the other removals are fenced,  *)
(* and the holder does not take the label off its own work.                *)
THEOREM HolderKeepsMark ==
  ASSUME Undisturbed
  PROVE  Spec => WorkStaysMarked
<1>1. Init => Steady
  BY DEF Init, Steady, OneHolder
<1>2. Base /\ Steady /\ [Next]_vars => Steady'
  BY SteadyNext
<1>3. Spec => [](Base /\ Steady)
  BY <1>1, <1>2, BaseInit, BaseNext, PTL DEF Spec
<1>4. Base /\ Steady /\ [Next]_vars =>
        [\A c \in Chain : AtWork(c) /\ AtWork(c)' /\ "in-progress" \in Labels =>
           "in-progress" \in Labels' \/ \E d \in Chain : Straying(d) /\ d \notin armed']_vars
  BY StepKeepsMark DEF MarkStep
<1>. QED BY <1>3, <1>4, PTL DEF Spec, WorkStaysMarked

-----------------------------------------------------------------------------
(* The claim on an issue, where one machine runs one chain at a time.      *)

OneSlot == \A s, t \in Slot : s = t
Inside == {"claimed", "marked", "judging", "working", "passed", "pushed", "opened", "trap", "leave"}

(* The chain inside its lease holds it, and nobody else does.              *)
LeaseIsOurs == /\ \A c \in Chain : chain[c] \in Inside => Fence(c)
               /\ live => \E c \in Chain : chain[c] \in Inside

(* The lock goes with accepted, and no sync puts it on.                    *)
LockPlanned(m) ==
  /\ AddLock \notin ops[m]
  /\ "in-progress" \in Labels /\ TakeAccepted \in ops[m] => TakeLock \in ops[m]

(* Whose in-progress is: a dispatcher's on its way to the spawn, a sync's, *)
(* a chain's that has yet to decide, a trap's that has yet to take it off; *)
(* else the issue is accepted and in the queue.                            *)
Owned == \/ \E m \in Machine : disp[m] \in {"respawn", "spawn"} \/ TakeLock \in ops[m]
         \/ \E c \in Chain : \/ chain[c] \in {"start", "claimed", "marked", "judging"}
                             \/ chain[c] = "trap" /\ left[c] # <<>>
         \/ "accepted" \in Labels

Claims == faults = 0 => /\ LeaseIsOurs
                        /\ \A m \in Machine : LockPlanned(m)
                        /\ "in-progress" \in Labels => Owned

LEMMA OneChain ==
  ASSUME OneMachine, OneSlot, NEW c \in Chain, NEW d \in Chain
  PROVE  c = d
BY ChainPairs DEF OneMachine, OneSlot

(* A step of a round that touches neither these labels nor the plan, and   *)
(* of no dispatcher on its way to a spawn.                                 *)
LEMMA RoundKeepsClaims ==
  ASSUME Places, LeaseIsOurs, \A m \in Machine : LockPlanned(m), "in-progress" \in Labels => Owned,
         "in-progress" \in Labels' => "in-progress" \in Labels, "accepted" \in Labels => "accepted" \in Labels',
         UNCHANGED <<ops, chain, left, lease, live>>,
         \A m \in Machine : disp'[m] = disp[m] \/ disp[m] \notin {"respawn", "spawn"}
  PROVE  Claims'
<1>1. LeaseIsOurs'
  BY DEF LeaseIsOurs, Fence
<1>2. \A m \in Machine : LockPlanned(m)'
  BY DEF LockPlanned
<1>3. ("in-progress" \in Labels => Owned)'
  BY DEF Owned
<1>. QED BY <1>1, <1>2, <1>3 DEF Claims

LEMMA RoundClaims ==
  ASSUME OneMachine, OneSlot, Base, faults' = 0, faults = 0, Claims, NEW m \in Machine, Round(m)
  PROVE  Claims'
<1>0. /\ LeaseIsOurs /\ (\A n \in Machine : LockPlanned(n)) /\ ("in-progress" \in Labels => Owned)
      /\ Places /\ Facts /\ Syncs /\ ~Fails
  BY DEF Base, Claims, Fails, Happens
<1>1. CASE SyncRead(m)
  <2>1. UNCHANGED <<issue, chain, left, lease, live>>
    BY <1>1 DEF SyncRead, facts, theirs
  <2>2. ops[m] = {} /\ disp[m] \notin {"respawn", "spawn"}
    BY <1>0, <1>1 DEF SyncRead, Go, Syncs
  <2>3. \A o \in Plan(issue, pr, adds) :
          o # AddLock /\ (o = TakeAccepted /\ "in-progress" \in Labels => TakeLock \in Plan(issue, pr, adds))
    BY <1>0, Planned DEF Facts, Labels
  <2>4. ops'[m] = {} \/ ops'[m] = Plan(issue, pr, adds)
    BY <1>0, <1>1 DEF SyncRead, Places
  <2>5. \A n \in Machine : LockPlanned(n)'
    BY <2>1, <2>3, <2>4 DEF OneMachine, LockPlanned, Labels
  <2>6. LeaseIsOurs'
    BY <1>0, <2>1 DEF LeaseIsOurs, Fence
  <2>7. ("in-progress" \in Labels => Owned)'
    BY <1>0, <2>1, <2>2 DEF OneMachine, Owned, Labels
  <2>. QED BY <2>5, <2>6, <2>7 DEF Claims
<1>2. CASE SyncWrite(m)
  <2>1. PICK o \in ops[m] : ops' = [ops EXCEPT ![m] = @ \ {o}] /\ Apply(o)
    BY <1>0, <1>2 DEF SyncWrite
  <2>2. o \in PlanOp /\ o # AddLock
    BY <1>0 DEF Places, LockPlanned
  <2>3. /\ UNCHANGED <<disp, chain, left, lease, live>> /\ disp[m] \notin {"respawn", "spawn"}
        /\ ops'[m] = ops[m] \ {o}
    BY <1>0, <1>2, <2>1 DEF SyncWrite, theirs, Places
  <2>4. Labels' = Applied(issue.labels, {o}, "issue")
    BY <1>0, <2>1 DEF Apply, Facts, Issue, Labels
  <2>5. /\ (o.target = "issue" /\ o.op = "add" /\ o.label = "in-progress") => o = AddLock
        /\ (o.target = "issue" /\ o.op = "remove" /\ o.label = "in-progress") <=> o = TakeLock
        /\ (o.target = "issue" /\ o.op = "remove" /\ o.label = "accepted") <=> o = TakeAccepted
        /\ TakeLock # TakeAccepted
    BY <2>2 DEF PlanOp, AddLock, TakeLock, TakeAccepted
  <2>6. "in-progress" \in Labels' => "in-progress" \in Labels /\ o # TakeLock
    BY <2>2, <2>4, <2>5, AppliedHas DEF Labels
  <2>7. "accepted" \in Labels => "accepted" \in Labels' \/ o = TakeAccepted
    BY <2>2, <2>4, <2>5, AppliedHas DEF Labels
  <2>8. \A n \in Machine : LockPlanned(n)'
    BY <1>0, <2>3, <2>6 DEF OneMachine, LockPlanned
  <2>9. LeaseIsOurs'
    BY <1>0, <2>3 DEF LeaseIsOurs, Fence
  <2>10. ASSUME "in-progress" \in Labels' PROVE Owned'
    <3>1. CASE o = TakeAccepted
      BY <1>0, <2>3, <2>5, <2>6, <2>10, <3>1 DEF LockPlanned, Owned
    <3>2. CASE o # TakeAccepted
      <4>1. Owned /\ o # TakeLock
        BY <1>0, <2>6, <2>10
      <4>2. \A n \in Machine : TakeLock \in ops[n] => TakeLock \in ops'[n]
        BY <2>3, <4>1 DEF OneMachine
      <4>. QED BY <2>3, <2>7, <3>2, <4>1, <4>2 DEF Owned
    <3>. QED BY <3>1, <3>2
  <2>. QED BY <2>8, <2>9, <2>10 DEF Claims
<1>3. CASE BatchJudge(m)
  <2>1. UNCHANGED facts \/ \E v \in {"accepted", "rejected"} : Relabel({}, {v})
    BY <1>3 DEF BatchJudge, Succeeds, Breaks
  <2>2. /\ "in-progress" \in Labels' => "in-progress" \in Labels
        /\ "accepted" \in Labels => "accepted" \in Labels'
    BY <1>0, <2>1 DEF Relabel, Facts, Issue, facts, Labels
  <2>3. /\ UNCHANGED <<ops, chain, left, lease, live>>
        /\ \A n \in Machine : disp'[n] = disp[n] \/ disp[n] \notin {"respawn", "spawn"}
    BY <1>0, <1>3 DEF BatchJudge, Go, theirs, Places
  <2>. QED BY <1>0, <2>2, <2>3, RoundKeepsClaims
<1>4. CASE MergePr(m)
  <2>1. issue'.labels = issue.labels
    BY <1>0, <1>4 DEF MergePr, Merged, Facts, Issue, facts
  <2>2. /\ UNCHANGED <<ops, chain, left, lease, live>>
        /\ \A n \in Machine : disp'[n] = disp[n] \/ disp[n] \notin {"respawn", "spawn"}
    BY <1>0, <1>4 DEF MergePr, Go, theirs, Places
  <2>. QED BY <1>0, <2>1, <2>2, RoundKeepsClaims DEF Labels
<1>5. CASE ClaimIssue(m)
  <2>1. UNCHANGED <<ops, chain, left, lease, live>>
    BY <1>5 DEF ClaimIssue, theirs
  <2>2. disp'[m] \in {"respawn", "spawn"} /\ Relabel({"accepted"}, {"in-progress"})
    BY <1>0, <1>5 DEF ClaimIssue, Succeeds, Breaks, Go, Places
  <2>3. disp[m] \notin {"syncing", "finishing"}
    BY <1>5 DEF ClaimIssue, Go
  <2>4. \A n \in Machine : LockPlanned(n)'
    BY <1>0, <2>1, <2>3 DEF Syncs, OneMachine, LockPlanned
  <2>5. LeaseIsOurs'
    BY <1>0, <2>1 DEF LeaseIsOurs, Fence
  <2>. QED BY <2>2, <2>4, <2>5 DEF Owned, Claims
<1>6. CASE Spawn(m)
  <2>1. PICK c \in Chain : Step(c, "none", "start")
    BY <1>6, ChainPairs DEF Spawn
  <2>2. UNCHANGED <<issue, ops, left, lease, live>> /\ chain'[c] = "start"
    BY <1>0, <1>6, <2>1 DEF Spawn, Step, Places
  <2>3. LeaseIsOurs'
    BY <1>0, <2>1, <2>2, OneChain DEF LeaseIsOurs, Fence, Step, Inside
  <2>4. \A n \in Machine : LockPlanned(n)'
    BY <1>0, <2>2 DEF LockPlanned, Labels
  <2>. QED BY <2>2, <2>3, <2>4 DEF Owned, Claims
<1>7. CASE Begin(m) \/ SyncEnd(m) \/ BatchList(m) \/ MergeList(m) \/ RefixList(m) \/ RefixCheck(m) \/ Unfix(m)
           \/ DrainList(m) \/ DrainCheck(m) \/ Await(m)
  <2>1. UNCHANGED <<issue, ops, chain, left, lease, live>>
    BY <1>7 DEF Begin, SyncEnd, BatchList, MergeList, RefixList, RefixCheck, Unfix, TakeNeedsFix, DrainList,
                DrainCheck, Await, theirs, facts
  <2>2. \A n \in Machine : disp'[n] = disp[n] \/ disp[n] \notin {"respawn", "spawn"}
    BY <1>0, <1>7 DEF Begin, SyncEnd, BatchList, MergeList, RefixList, RefixCheck, Unfix, DrainList, DrainCheck,
                      Await, InProgress, Go, Places
  <2>. QED BY <1>0, <2>1, <2>2, RoundKeepsClaims DEF Labels
<1>. QED BY <1>1, <1>2, <1>3, <1>4, <1>5, <1>6, <1>7 DEF Round

(* A step of a chain inside its lease after which it is still there, or on *)
(* its way into it.                                                        *)
LEMMA WorkKeepsClaims ==
  ASSUME OneMachine, OneSlot, NEW c \in Chain, \A m \in Machine : LockPlanned(m), UNCHANGED mine,
         chain'[c] \in Inside => live' /\ c \in lease', live' => chain'[c] \in Inside,
         "in-progress" \in Labels' => \/ "in-progress" \in Labels
                                      \/ "accepted" \in Labels' /\ \A m \in Machine : ops[m] = {},
         "in-progress" \in Labels' => Owned'
  PROVE  Claims'
<1>1. LeaseIsOurs'
  BY OneChain DEF LeaseIsOurs, Fence
<1>2. \A m \in Machine : LockPlanned(m)'
  BY DEF LockPlanned, mine
<1>. QED BY <1>1, <1>2 DEF Claims

LEMMA WorkClaims ==
  ASSUME OneMachine, OneSlot, Base, faults' = 0, faults = 0, Claims, NEW c \in Chain, Work(c)
  PROVE  Claims'
<1>0. /\ LeaseIsOurs /\ (\A n \in Machine : LockPlanned(n)) /\ ("in-progress" \in Labels => Owned)
      /\ Places /\ Facts /\ Ways /\ Quiet /\ Syncs /\ (\A f : ~Happens(f)) /\ ~Fails
  BY DEF Base, Claims, Fails, Happens
<1>1. /\ chain[c] \in Inside => Fence(c)
      /\ live => chain[c] \in Inside
      /\ chain[c] # "tripped"
  BY <1>0, OneChain DEF LeaseIsOurs, Ways
<1>2. UNCHANGED mine
  BY <1>0, WorkOrderly
<1>3. ASSUME NEW to, UNCHANGED <<lease, live>>, chain[c] \in Inside, chain' = [chain EXCEPT ![c] = to],
             to \in Inside, "in-progress" \in Labels' => "in-progress" \in Labels,
             "in-progress" \in Labels' => Owned'
      PROVE  Claims'
  <2>1. chain'[c] \in Inside /\ Fence(c)
    BY <1>0, <1>1, <1>3 DEF Places
  <2>. QED BY <1>0, <1>2, <1>3, <2>1, WorkKeepsClaims DEF Fence
<1>4. ASSUME NEW from, from \in Inside, Abort(c, from), UNCHANGED <<lease, live, issue>> PROVE Claims'
  <2>1. chain[c] = from /\ chain' = [chain EXCEPT ![c] = "trap"] /\ left'[c] # <<>> /\ chain'[c] = "trap"
    BY <1>0, <1>4 DEF Abort, Step, Places
  <2>2. Owned'
    BY <2>1 DEF Owned
  <2>. QED BY <1>3, <1>4, <2>1, <2>2 DEF Inside, Labels
<1>5. ASSUME NEW from, NEW to, from \in Inside \ {"claimed", "marked", "judging", "trap"}, to \in Inside,
             Step(c, from, to), UNCHANGED <<left, lease, live, issue>>
      PROVE  Claims'
  <2>1. "in-progress" \in Labels => Owned'
    <3>1. ASSUME NEW d \in Chain, chain[d] \in {"start", "claimed", "marked", "judging", "trap"} PROVE FALSE
      BY <1>5, <3>1, OneChain DEF Step, Inside
    <3>. QED BY <1>0, <1>2, <1>5, <3>1 DEF Owned, mine, Labels
  <2>. QED BY <1>3, <1>5, <2>1 DEF Step, Labels
<1>6. CASE Trip(c) \/ PrepFails(c)
  BY <1>0, <1>6 DEF Trip, PrepFails
<1>7. CASE ClaimLease(c)
  <2>1. chain' = [chain EXCEPT ![c] = "claimed"] /\ lease' = Token(c) /\ live' = TRUE /\ UNCHANGED facts
    BY <1>0, <1>1, <1>7 DEF ClaimLease, Step, Inside
  <2>2. chain'[c] = "claimed" /\ c \in lease'
    BY <1>0, <2>1 DEF Token, Places
  <2>3. Owned'
    BY <2>2 DEF Owned
  <2>. QED BY <1>0, <1>2, <2>1, <2>2, <2>3, WorkKeepsClaims DEF Inside, facts, Labels
<1>8. CASE MarkTriaging(c) \/ InstallTrap(c)
  <2>1. UNCHANGED facts \/ Relabel({}, {"triaging"})
    BY <1>8 DEF MarkTriaging, InstallTrap, Succeeds, Breaks
  <2>2. "in-progress" \in Labels' => "in-progress" \in Labels
    BY <1>0, <2>1 DEF Relabel, Facts, Issue, facts, Labels
  <2>3. PICK to \in {"marked", "judging"} : chain' = [chain EXCEPT ![c] = to]
    BY <1>8 DEF MarkTriaging, InstallTrap, Step
  <2>4. chain[c] \in Inside /\ UNCHANGED <<lease, live>>
    BY <1>8 DEF MarkTriaging, InstallTrap, Step, Inside
  <2>5. Owned'
    BY <1>0, <2>3 DEF Places, Owned
  <2>. QED BY <1>3, <2>2, <2>3, <2>4, <2>5 DEF Inside
<1>9. CASE NodeFails(c)
  BY <1>4, <1>9 DEF NodeFails, Inside
<1>10. CASE Accept(c)
  <2>1. chain[c] = "judging"
    BY <1>10 DEF Accept, Swap, Abort, Step
  <2>2. /\ chain' = [chain EXCEPT ![c] = "working"] /\ UNCHANGED <<lease, live>>
        /\ Relabel({"triaging", "rejected"}, {"accepted", "in-progress"})
    BY <1>0, <1>1, <1>10, <2>1 DEF Accept, Swap, Refused, Succeeds, Breaks, Step, Inside
  <2>3. "accepted" \in Labels'
    BY <1>0, <2>2 DEF Relabel, Facts, Issue, Labels
  <2>4. \A m \in Machine : ops[m] = {}
    BY <1>0, <2>1, ChainPairs DEF OneMachine, Quiet, Syncs
  <2>5. chain'[c] \in Inside /\ Fence(c)
    BY <1>0, <1>1, <2>1, <2>2 DEF Places, Inside
  <2>. QED BY <1>0, <1>2, <2>2, <2>3, <2>4, <2>5, WorkKeepsClaims DEF Owned, Fence
<1>11. CASE Reject(c) \/ HandOver(c)
  <2>1. chain[c] \in Inside
    BY <1>11 DEF Reject, HandOver, Swap, Abort, Step, Inside
  <2>2. /\ chain' = [chain EXCEPT ![c] = "leave"] /\ UNCHANGED <<lease, live>>
        /\ \E remove, add : /\ "in-progress" \in remove /\ "in-progress" \notin add
                            /\ Relabel(remove, add)
    BY <1>0, <1>1, <1>11, <2>1 DEF Reject, HandOver, Swap, Refused, Succeeds, Breaks, Step
  <2>3. "in-progress" \notin Labels'
    BY <1>0, <2>2 DEF Relabel, Facts, Issue, Labels
  <2>. QED BY <1>3, <2>1, <2>2, <2>3 DEF Inside
<1>12. CASE ZeroDiff(c) \/ Pass(c)
  <2>1. UNCHANGED <<left, lease, live, issue>>
    BY <1>12 DEF ZeroDiff, Pass, facts
  <2>. QED BY <1>5, <1>12, <2>1 DEF ZeroDiff, Pass, Inside
<1>13. CASE Push(c) \/ CreatePr(c)
  <2>1. UNCHANGED <<lease, live, issue>>
    BY <1>13 DEF Push, CreatePr, NewPr, facts
  <2>2. \/ Abort(c, "passed") \/ Abort(c, "pushed")
        \/ UNCHANGED left /\ (Step(c, "passed", "pushed") \/ Step(c, "pushed", "opened"))
    BY <1>13 DEF Push, CreatePr
  <2>. QED BY <1>4, <1>5, <2>1, <2>2 DEF Inside
<1>14. CASE WayOut(c)
  <2>1. chain[c] = "trap" /\ left[c] # <<>> /\ left[c] \in TrapWay /\ Fence(c)
    BY <1>0, <1>1, <1>14 DEF WayOut, Ways, Inside
  <2>2. /\ UNCHANGED <<chain, lease, live>> /\ left'[c] = Tail(left[c])
        /\ Relabel({Head(left[c])}, {})
    BY <1>0, <1>14, <2>1 DEF WayOut, Refused, Succeeds, Breaks, Places
  <2>3. Labels' = Labels \ {Head(left[c])}
    BY <1>0, <2>2 DEF Relabel, Facts, Issue, Labels
  <2>4. "in-progress" \in Labels' => Tail(left[c]) # <<>>
    BY <2>1, <2>3, WaySteps
  <2>5. "in-progress" \in Labels' => Owned'
    BY <2>1, <2>2, <2>4 DEF Owned
  <2>. QED BY <1>0, <1>2, <2>1, <2>2, <2>3, <2>5, WorkKeepsClaims DEF Fence, Inside
<1>15. CASE WayOutEnds(c)
  <2>1. chain[c] = "trap" /\ left[c] = <<>> /\ UNCHANGED <<left, lease, live, issue>>
        /\ chain' = [chain EXCEPT ![c] = "leave"]
    BY <1>1, <1>15 DEF WayOutEnds, Step, facts
  <2>2. "in-progress" \in Labels => Owned'
    <3>1. ASSUME NEW d \in Chain PROVE chain[d] = "trap" /\ left[d] = <<>>
      BY <2>1, OneChain
    <3>. QED BY <1>0, <1>2, <2>1, <3>1 DEF Owned, mine, Labels
  <2>. QED BY <1>3, <2>1, <2>2 DEF Inside, Labels
<1>16. CASE Leave(c)
  <2>1. chain[c] = "leave" /\ chain' = [chain EXCEPT ![c] = "none"] /\ UNCHANGED <<left, lease, issue>>
        /\ live' = (live /\ c \notin lease)
    BY <1>16 DEF Leave, Step, facts
  <2>2. ~live' /\ chain'[c] = "none"
    BY <1>0, <1>1, <2>1 DEF Places, Fence, Inside
  <2>3. "in-progress" \in Labels => Owned'
    <3>1. ASSUME NEW d \in Chain PROVE chain[d] = "leave"
      BY <2>1, OneChain
    <3>. QED BY <1>0, <1>2, <2>1, <3>1 DEF Owned, mine, Labels
  <2>. QED BY <1>0, <1>2, <2>1, <2>2, <2>3, WorkKeepsClaims DEF Inside, Labels
<1>17. CASE AskFence(c)
  <2>1. UNCHANGED <<issue, mine, chain, left, lease, live>>
    BY <1>17 DEF AskFence, facts
  <2>. QED BY <1>0, <2>1, RoundKeepsClaims DEF mine, Labels
<1>. QED BY <1>6, <1>7, <1>8, <1>9, <1>10, <1>11, <1>12, <1>13, <1>14, <1>15, <1>16, <1>17 DEF Work

LEMMA ClaimsNext == ASSUME OneMachine, OneSlot PROVE Base /\ Claims /\ [Next]_vars => Claims'
<1> SUFFICES ASSUME Base, Claims, [Next]_vars PROVE Claims'
  OBVIOUS
<1>1. SUFFICES ASSUME faults' = 0 PROVE Claims'
  BY DEF Claims
<1>2. faults = 0
  BY <1>1, CountsStep DEF Base, Counts
<1>3. /\ LeaseIsOurs /\ (\A m \in Machine : LockPlanned(m)) /\ ("in-progress" \in Labels => Owned)
      /\ Places /\ Facts /\ \A f : ~Happens(f)
  BY <1>1, <1>2 DEF Claims, Base, Happens
<1>4. ASSUME UNCHANGED <<mine, theirs>>, issue'.labels \in {issue.labels, issue.labels \ {"rejected"}}
      PROVE  Claims'
  BY <1>3, <1>4, RoundKeepsClaims DEF mine, theirs, Labels
<1>5. ASSUME NEW c \in Chain, StartByHand(c) PROVE Claims'
  <2>1. chain[c] = "none" /\ UNCHANGED <<issue, mine, left, lease, live>> /\ chain'[c] = "start"
    BY <1>3, <1>5 DEF StartByHand, Step, Places, facts
  <2>2. ~live
    BY <1>3, <2>1, OneChain DEF LeaseIsOurs, Inside
  <2>3. Owned'
    BY <2>1 DEF Owned
  <2>. QED BY <1>3, <2>1, <2>2, <2>3, WorkKeepsClaims DEF Inside, Labels
<1>6. ASSUME NEW c \in Chain, KillChain(c) PROVE Claims'
  BY <1>3, <1>6 DEF KillChain
<1>7. CASE Lapse
  <2>1. live /\ \A c \in lease : chain[c] = "none"
    BY <1>3, <1>7 DEF Lapse
  <2>2. PICK c \in Chain : chain[c] \in Inside
    BY <1>3, <2>1 DEF LeaseIsOurs
  <2>. QED BY <1>3, <2>1, <2>2 DEF LeaseIsOurs, Fence, Inside
<1>8. ASSUME NEW d \in Deed, Do(d) PROVE Claims'
  <2>1. issue'.labels \in {issue.labels, issue.labels \ {"rejected"}} /\ UNCHANGED <<mine, theirs>>
    BY <1>3, <1>8 DEF Do, Review, Merged, SetIssue, Facts, Issue
  <2>. QED BY <1>4, <2>1
<1>9. CASE UNCHANGED vars
  <2>1. UNCHANGED <<mine, theirs, issue>>
    BY <1>9 DEF vars, facts, mine, theirs
  <2>. QED BY <1>4, <2>1
<1>. QED BY <1>1, <1>2, <1>5, <1>6, <1>7, <1>8, <1>9, RoundClaims, WorkClaims DEF Next

(* On one machine that runs one chain at a time, as long as no call fails, *)
(* nobody is killed and every chain comes as far as its trap, in-progress  *)
(* on an issue is always somebody's, whatever people do with the issue and *)
(* the pull request.  (With two slots it is not: the README has the case.) *)
THEOREM NoClaimIsAbandoned ==
  ASSUME OneMachine, OneSlot
  PROVE  Spec => []ClaimNotAbandoned
<1>1. Init => Claims
  BY DEF Init, Claims, LeaseIsOurs, LockPlanned, Labels, Inside
<1>2. Base /\ Claims => ClaimNotAbandoned
  <2> SUFFICES ASSUME Base, Claims, faults = 0, "in-progress" \in Labels
               PROVE  \/ \E m \in Machine : disp[m] \in {"respawn", "spawn"}
                      \/ \E m \in Machine : Removes("issue", {"in-progress"}) \subseteq ops[m]
                      \/ \E c \in Chain : chain[c] # "none"
                      \/ "accepted" \in Labels
    BY DEF ClaimNotAbandoned
  <2>1. \A m \in Machine : TakeLock \in ops[m] => Removes("issue", {"in-progress"}) \subseteq ops[m]
    BY RemovesAre DEF TakeLock
  <2>. QED BY <2>1 DEF Claims, Owned
<1>3. Base /\ Claims /\ [Next]_vars => Claims'
  BY ClaimsNext
<1>4. Spec => [](Base /\ Claims)
  BY <1>1, <1>3, BaseInit, BaseNext, PTL DEF Spec
<1>. QED BY <1>2, <1>4, PTL

-----------------------------------------------------------------------------
(* factory-state.sh sync as a whole, for every issue and pull request.     *)

LEMMA AppliedPlan ==
  ASSUME NEW L, NEW plan, NEW t, NEW l
  PROVE  l \in Applied(L, plan, t) <=>
           \/ l \in L /\ ~\E o \in plan : o.target = t /\ o.op = "remove" /\ o.label = l
           \/ \E o \in plan : o.target = t /\ o.op = "add" /\ o.label = l
BY DEF Applied

Both(t, A, l, L, other) == Removes(t, A) \cup Adds(t, l, L) \cup other

LEMMA AppliedBoth ==
  ASSUME NEW t, NEW L, NEW A, NEW l, l \notin A, NEW other, \A o \in other : o.target # t
  PROVE  Applied(L, Both(t, A, l, L, other), t) = (L \ A) \cup {l}
<1> DEFINE plan == Both(t, A, l, L, other)
<1>0. plan = Removes(t, A) \cup Adds(t, l, L) \cup other
  BY DEF Both
<1>. HIDE DEF plan
<1>1. \A k : (\E o \in plan : o.target = t /\ o.op = "remove" /\ o.label = k) <=> k \in A
  <2>1. ASSUME NEW k, NEW o \in plan, o.target = t, o.op = "remove", o.label = k PROVE k \in A
    BY <1>0, <2>1 DEF Removes, Adds
  <2>2. ASSUME NEW k \in A PROVE \E o \in plan : o.target = t /\ o.op = "remove" /\ o.label = k
    <3>1. [target |-> t, op |-> "remove", label |-> k] \in plan
      BY <1>0 DEF Removes
    <3>. QED BY <3>1
  <2>. QED BY <2>1, <2>2
<1>2. \A k : (\E o \in plan : o.target = t /\ o.op = "add" /\ o.label = k) <=> l \notin L /\ k = l
  <2>1. ASSUME NEW k, NEW o \in plan, o.target = t, o.op = "add", o.label = k PROVE l \notin L /\ k = l
    BY <1>0, <2>1 DEF Removes, Adds
  <2>2. ASSUME l \notin L PROVE \E o \in plan : o.target = t /\ o.op = "add" /\ o.label = l
    <3>1. [target |-> t, op |-> "add", label |-> l] \in plan
      BY <1>0, <2>2 DEF Adds
    <3>. QED BY <3>1
  <2>. QED BY <2>1, <2>2
<1>3. \A k : k \in Applied(L, plan, t) <=> k \in (L \ A) \cup {l}
  BY <1>1, <1>2, AppliedPlan
<1>4. Applied(L, plan, t) = (L \ A) \cup {l}
  BY <1>3
<1>. QED BY <1>4 DEF plan

(* plan_phase: no plan for an open issue without a rejection marker takes  *)
(* a lock from it, whatever labels and whatever pull request it has.       *)
THEOREM PlanSparesLocks ==
  \A i \in Issue, p \in Pr, n \in Nat :
    i.open /\ ~i.marker => Locks \cap i.labels \subseteq Applied(i.labels, Plan(i, p, n), "issue")
<1> SUFFICES ASSUME NEW i \in Issue, NEW p \in Pr, NEW n \in Nat, i.open, ~i.marker, NEW l \in Locks \cap i.labels
             PROVE  l \in Applied(i.labels, Plan(i, p, n), "issue")
  OBVIOUS
<1>1. ASSUME NEW o \in Plan(i, p, n), o.target = "issue", o.op = "remove" PROVE o.label # l
  <2>1. Plan(i, p, n) = {} \/ Plan(i, p, n) = ReviewPlan(i) \cup PrPlan(p, n)
    BY DEF Plan
  <2>2. \/ \E k \in i.labels \ (Locks \cup {"in-review", "accepted", "rejected"}) :
              o = [target |-> "issue", op |-> "remove", label |-> k]
        \/ o = [target |-> "issue", op |-> "add", label |-> "in-review"]
        \/ \E k \in p.labels \ PrSide : o = [target |-> "pr", op |-> "remove", label |-> k]
        \/ o = [target |-> "pr", op |-> "add", label |-> PrPhase(p, n)]
    BY <1>1, <2>1, RemovesAre, AddsAre DEF ReviewPlan, PrPlan
  <2>. QED BY <1>1, <2>2
<1>. QED BY <1>1, AppliedPlan

(* After a pass of sync, with the facts as they are: the next plan.        *)
NextPlan(i, p, n, m) ==
  Plan([i EXCEPT !.labels = Applied(i.labels, Plan(i, p, n), "issue")],
       [p EXCEPT !.labels = Applied(p.labels, Plan(i, p, n), "pr")], m)

(* factory-state.sh sync "converges idempotently": while the phase of the  *)
(* pull request stays what it is, the pass after a pass plans nothing.     *)
(* (The phase moves under sync's own hands when the needs-fix it adds is   *)
(* the last that MAX_FIX_ROUNDS allows.)                                   *)
THEOREM OnePassSettles ==
  \A i \in Issue, p \in Pr, n, m \in Nat :
    PrPhase(p, m) = PrPhase(p, n) => NextPlan(i, p, n, m) = {}
<1> SUFFICES ASSUME NEW i \in Issue, NEW p \in Pr, NEW n \in Nat, NEW m \in Nat, PrPhase(p, m) = PrPhase(p, n)
             PROVE  NextPlan(i, p, n, m) = {}
  OBVIOUS
<1> DEFINE L == Applied(i.labels, Plan(i, p, n), "issue")
           R == Applied(p.labels, Plan(i, p, n), "pr")
           j == [i EXCEPT !.labels = L]
           q == [p EXCEPT !.labels = R]
<1>1. /\ j.labels = L /\ j.open = i.open /\ j.marker = i.marker /\ i.open \in BOOLEAN /\ i.marker \in BOOLEAN
      /\ q.labels = R /\ q.state = p.state /\ q.review = p.review
  BY DEF Issue, Pr
<1>2. PrPhase(q, m) = PrPhase(p, n)
  BY <1>1 DEF PrPhase
<1>e. \A t, l : Removes(t, {}) = {} /\ \A S : l \in S => Adds(t, l, S) = {}
  BY DEF Removes, Adds
<1>. HIDE DEF L, R, j, q
<1>3. CASE i.marker
  <2>1. Plan(i, p, n) = Both("issue", i.labels \ {"rejected"}, "rejected", i.labels, {})
    BY <1>3 DEF Plan, Both
  <2>2. L = (i.labels \ (i.labels \ {"rejected"})) \cup {"rejected"}
    <3>1. "rejected" \notin i.labels \ {"rejected"} /\ \A o \in {} : o.target # "issue"
      OBVIOUS
    <3>. QED BY <2>1, <3>1, AppliedBoth DEF L
  <2>3. L \ {"rejected"} = {} /\ "rejected" \in L
    BY <2>2
  <2>4. Plan(j, q, m) = Removes("issue", L \ {"rejected"}) \cup Adds("issue", "rejected", L)
    BY <1>1, <1>3 DEF Plan
  <2>. QED BY <1>e, <2>3, <2>4 DEF NextPlan, L, R, j, q
<1>4. CASE ~i.marker /\ ~i.open
  <2>1. Plan(i, p, n) = Removes("issue", i.labels \ {"rejected"})
    BY <1>4 DEF Plan
  <2>2. \A l \in L : l \in {"rejected"}
    <3>1. ASSUME NEW l \in L, l # "rejected" PROVE FALSE
      <4>1. ~\E o \in Plan(i, p, n) : o.op = "add"
        BY <2>1, RemovesAre
      <4>2. l \in i.labels /\ ~\E o \in Plan(i, p, n) : o.target = "issue" /\ o.op = "remove" /\ o.label = l
        BY <3>1, <4>1, AppliedPlan DEF L
      <4>3. [target |-> "issue", op |-> "remove", label |-> l] \in Plan(i, p, n)
        BY <2>1, <3>1, <4>2 DEF Removes
      <4>. QED BY <4>2, <4>3
    <3>. QED BY <3>1
  <2>3. L \ {"rejected"} = {}
    BY <2>2
  <2>4. Plan(j, q, m) = Removes("issue", L \ {"rejected"})
    BY <1>1, <1>4 DEF Plan
  <2>. QED BY <1>e, <2>3, <2>4 DEF NextPlan, L, R, j, q
<1>5. CASE ~i.marker /\ i.open /\ p.state # "open"
  <2>1. Plan(j, q, m) = {}
    BY <1>1, <1>5 DEF Plan
  <2>. QED BY <2>1 DEF NextPlan, L, R, j, q
<1>6. CASE ~i.marker /\ i.open /\ p.state = "open"
  <2>. DEFINE Keep == Locks \cup {"in-review", "accepted", "rejected"}
              h == PrPhase(p, n)
  <2>1. Plan(i, p, n) = ReviewPlan(i) \cup PrPlan(p, n)
    BY <1>6 DEF Plan
  <2>h. h \in PrSide
    BY DEF PrPhase, PrSide
  <2>2. L = (i.labels \ (i.labels \ Keep)) \cup {"in-review"}
    <3>1. "in-review" \notin i.labels \ Keep /\ \A o \in PrPlan(p, n) : o.target # "issue"
      BY RemovesAre, AddsAre DEF PrPlan
    <3>2. Plan(i, p, n) = Both("issue", i.labels \ Keep, "in-review", i.labels, PrPlan(p, n))
      BY <2>1 DEF ReviewPlan, Both
    <3>. QED BY <3>1, <3>2, AppliedBoth DEF L
  <2>3. R = (p.labels \ (p.labels \ PrSide)) \cup {h}
    <3>1. h \notin p.labels \ PrSide /\ \A o \in ReviewPlan(i) : o.target # "pr"
      BY <2>h, RemovesAre, AddsAre DEF ReviewPlan
    <3>2. Plan(i, p, n) = Both("pr", p.labels \ PrSide, h, p.labels, ReviewPlan(i))
      BY <2>1 DEF PrPlan, Both
    <3>. HIDE DEF h
    <3>. QED BY <3>1, <3>2, AppliedBoth DEF R
  <2>4. L \ Keep = {} /\ "in-review" \in L
    BY <2>2
  <2>5. R \ PrSide = {} /\ h \in R
    BY <2>h, <2>3
  <2>6. Plan(j, q, m) = ReviewPlan(j) \cup PrPlan(q, m)
    BY <1>1, <1>6 DEF Plan
  <2>7. ReviewPlan(j) = {}
    BY <1>1, <1>e, <2>4 DEF ReviewPlan
  <2>8. PrPlan(q, m) = {}
    BY <1>1, <1>2, <1>e, <2>5 DEF PrPlan
  <2>. QED BY <2>6, <2>7, <2>8 DEF NextPlan, L, R, j, q
<1>. QED BY <1>1, <1>3, <1>4, <1>5, <1>6
=============================================================================
