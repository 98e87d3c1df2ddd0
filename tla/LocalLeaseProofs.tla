-------------------------- MODULE LocalLeaseProofs --------------------------
(***************************************************************************)
(* What holds of the lock file for any number of chains, any lease and any *)
(* number of crashes, as long as no operation straddles a tick and until   *)
(* one of the protocol's windows is hit.  Until then at most one party     *)
(* owns the lock's name: the claim that created it, or the chain whose     *)
(* token is in it; and it owns it until it lets go.                        *)
(***************************************************************************)
EXTENDS LocalLease, TLAPS

Place == {"idle", "scan", "link", "read", "stat", "take", "taken", "putback", "create", "count",
          "store", "write", "refused", "held", "verify", "bury", "buried", "clear", "done", "dead"}
Beat == {"off", "wait", "stat", "move", "touch", "orphan", "late", "lost"}

Active(x) == hb[x] \in {"move", "touch", "orphan"}
Creating(x) == pc[x] \in {"count", "store", "write"}
Holding == {"held", "verify", "bury"}

(* x's token is in the lock, or in one that is about to be put back, or a  *)
(* heartbeat is about to write it.                                         *)
Moved(d) == pc[d] = "taken" /\ Fresh(stale[d])
Kept(x) == \/ Active(x)
           \/ Mine(x, lock) /\ Fresh(lock)
           \/ \E d \in Chain : Moved(d) /\ Mine(x, stale[d])
Owner(x) == Creating(x) \/ (pc[x] \in Holding /\ Kept(x))

(* No claim can create the lock.                                           *)
Occupied == Fresh(lock) \/ \E d \in Chain : pc[d] \in {"taken", "dead"} /\ Fresh(stale[d])

OwnersOccupy == \A x \in Chain : Owner(x) => Occupied
SoleOwner == \A x, y \in Chain : Owner(x) /\ Owner(y) => x = y
OwnerIsLatest == \A x, y \in Chain : Owner(x) /\ pc[x] \in Holding => tok[y] <= tok[x]

(* So is the chain whose token lies in the lock, expired or not.           *)
MineIsLatest == \A x, y \in Chain : pc[x] \in Holding /\ Mine(x, lock) => tok[y] <= tok[x]

(* An expired lock has lain there since the tick, when everyone rested.    *)
Calm == {"idle", "scan", "link", "read", "stat", "take", "refused", "held", "verify", "bury", "done", "dead"}
CalmAt(x) == pc[x] \in Calm /\ ~Active(x) /\ hb[x] # "late"
ExpiredRests == lock # NoFile /\ ~Fresh(lock) => \A c \in Chain : CalmAt(c)

(* Where files and heartbeats go with a chain's place.                     *)
WaysOf(c) ==
  /\ stale[c] # NoFile => pc[c] \in {"taken", "putback", "dead"}
  /\ pc[c] = "taken" => stale[c] # NoFile
  /\ hb[c] # "off" => pc[c] \in {"held", "verify", "bury", "buried", "clear", "done", "dead"}
  /\ hb[c] \notin {"off", "orphan", "late"} => pc[c] \in {"held", "dead"}
  /\ (hb[c] # "off" \/ pc[c] \in {"held", "verify", "bury", "buried", "clear", "done"}) => tok[c] # 0
  /\ pc[c] = "buried" => tomb[c] = NoFile \/ Mine(c, tomb[c])
Ways == \A c \in Chain : WaysOf(c)

(* A tomb never holds the token of a chain that holds the lease.           *)
TombsAreDead ==
  \A c, x \in Chain : tomb[c] # NoFile /\ pc[x] \in Holding => tomb[c].epoch # tok[x]

(* The counter is ahead of every token and every file.                     *)
Below(f, n) == f # NoFile => f.epoch < n
AllBelow(n) == Below(lock, n) /\ \A d \in Chain : tok[d] < n /\ Below(stale[d], n) /\ Below(tomb[d], n)
CountedAt(c) == /\ held[c] <= ctr
                /\ pc[c] = "store" => new[c] = ctr + 1
                /\ pc[c] = "write" => new[c] = ctr /\ ctr # 0 /\ AllBelow(ctr)
Counted == TokensAreUnique /\ AllBelow(ctr + 1) /\ \A c \in Chain : CountedAt(c)

IInv == /\ TypeOK /\ Ways /\ ExpiredRests /\ TombsAreDead /\ Counted
        /\ OwnersOccupy /\ SoleOwner /\ OwnerIsLatest /\ MineIsLatest

-----------------------------------------------------------------------------
(* Types.                                                                  *)

LEMMA FileTypes ==
  ASSUME now \in Nat
  PROVE  /\ \A e \in Nat : File(e) \in FileType /\ File(e) # NoFile /\ File(e).epoch = e /\ File(e).mtime = now
         /\ \A e \in Nat : Fresh(File(e))
         /\ \A f \in FileType : f # NoFile => f.epoch \in Nat /\ f.mtime \in Nat
         /\ \A f \in FileType : f # NoFile => [f EXCEPT !.mtime = now] \in FileType
         /\ now \in Nat /\ LeaseSecs \in Nat /\ LeaseSecs > 0
<1>1. now \in Nat /\ LeaseSecs \in Nat /\ LeaseSecs > 0
  BY LocalAssumption
<1>2. \A e \in Nat : File(e) \in FileType /\ File(e) # NoFile /\ File(e).epoch = e /\ File(e).mtime = now
  BY <1>1, LocalAssumption DEF File, FileType
<1>3. \A e \in Nat : Fresh(File(e))
  BY <1>1, <1>2 DEF Fresh
<1>. QED BY <1>1, <1>2, <1>3 DEF FileType

(* TypeOK without the history.                                             *)
Types ==
  /\ lock \in FileType /\ ctr \in Nat /\ now \in Nat
  /\ tomb \in [Chain -> FileType] /\ stale \in [Chain -> FileType]
  /\ pc \in [Chain -> Place] /\ hb \in [Chain -> Beat]
  /\ tok \in [Chain -> Nat] /\ held \in [Chain -> Nat] /\ new \in [Chain -> Nat]
  /\ todo \in [Chain -> SUBSET Chain] /\ fence \in [Chain -> {"off", "stat"}]

LEMMA TypeInit == Init => TypeOK
<1> SUFFICES ASSUME Init PROVE TypeOK
  OBVIOUS
<1>1. crossed \in BOOLEAN
  BY DEF Init
<1>2. Types
  BY DEF Init, Types, FileType, Place, Beat
<1>. QED BY <1>1, <1>2 DEF TypeOK, Types, Place, Beat

LEMMA CrossedType ==
  ASSUME TypeOK, [Next]_vars
  PROVE  crossed' \in BOOLEAN
<1>0. crossed \in BOOLEAN
  BY DEF TypeOK
<1>1. ASSUME NEW c \in Chain, CreateLock(c) \/ HbStat(c) \/ Bury(c) \/ KillChain(c) PROVE crossed' \in BOOLEAN
  BY <1>0, <1>1, Zenon DEF CreateLock, HbStat, Bury, KillChain
<1>2. ASSUME NEW c \in Chain, Claim(c) \/ Heartbeat(c) \/ Fence(c) \/ Release(c) \/ KillHb(c),
             ~(CreateLock(c) \/ HbStat(c) \/ Bury(c))
      PROVE  crossed' = crossed
  BY <1>2 DEF Claim, Heartbeat, Fence, Release, StartClaim, ScanTomb, DropTomb, SeeLock, ReadLock, StatLock, TakeLock,
     RecheckTaken, DropTaken, ReadCounter, StoreCounter, WriteLock, HbRead, HbMove, HbTouch, FenceRead,
     FenceStat, StartRelease, VerifyRelease, RecheckTomb, ClearTomb, KillHb, locals
<1>3. CASE Tick \/ UNCHANGED vars
  BY <1>0, <1>3 DEF Tick, vars, locals
<1>. QED BY <1>0, <1>1, <1>2, <1>3 DEF Next

LEMMA TypesNext ==
  ASSUME Types, [Next]_vars
  PROVE  Types'
<1>0. /\ \A e \in Nat : File(e) \in FileType
      /\ \A f \in FileType : f # NoFile => f.epoch \in Nat /\ [f EXCEPT !.mtime = now] \in FileType
  BY FileTypes DEF Types
<1>1. ASSUME NEW c \in Chain, StartClaim(c) \/ \E d \in Chain : ScanTomb(c, d) \/ DropTomb(c, d) PROVE Types'
  BY <1>1 DEF Types, Place, Beat, StartClaim, ScanTomb, DropTomb, Linked, Goto, files, locals, FileType
<1>2. ASSUME NEW c \in Chain, SeeLock(c) \/ ReadLock(c) \/ StatLock(c) PROVE Types'
  <2>1. lock \in FileType /\ (lock # NoFile => lock.epoch \in Nat)
    BY <1>0 DEF Types
  <2>2. CASE SeeLock(c)
    BY <2>2 DEF Types, Place, SeeLock, Goto, files
  <2>3. CASE ReadLock(c)
    BY <2>1, <2>3 DEF Types, Place, ReadLock, Goto, files
  <2>4. CASE StatLock(c)
    BY <2>4 DEF Types, Place, StatLock, Goto, files, locals
  <2>. QED BY <1>2, <2>2, <2>3, <2>4
<1>3. ASSUME NEW c \in Chain, TakeLock(c) \/ RecheckTaken(c) \/ DropTaken(c) PROVE Types'
  BY <1>3 DEF Types, Place, Beat, TakeLock, RecheckTaken, DropTaken, Linked, Goto, locals, FileType
<1>4. ASSUME NEW c \in Chain, CreateLock(c) \/ ReadCounter(c) \/ StoreCounter(c) \/ WriteLock(c) PROVE Types'
  BY <1>0, <1>4 DEF Types, Place, Beat, CreateLock, ReadCounter, StoreCounter, WriteLock, Goto, files, locals
<1>5. ASSUME NEW c \in Chain, Heartbeat(c) PROVE Types'
  BY <1>0, <1>5 DEF Types, Place, Beat, Heartbeat, HbRead, HbStat, HbMove, HbTouch, files, locals
<1>6. ASSUME NEW c \in Chain, StartRelease(c) \/ VerifyRelease(c) \/ Bury(c) \/ RecheckTomb(c) \/ ClearTomb(c)
      PROVE  Types'
  BY <1>6 DEF Types, Place, Beat, StartRelease, VerifyRelease, Bury, RecheckTomb, ClearTomb, StopHb, Linked, Goto, files,
              locals, FileType
<1>7. ASSUME NEW c \in Chain, Fence(c) \/ KillChain(c) \/ KillHb(c) PROVE Types'
  BY <1>7 DEF Types, Place, Beat, Fence, FenceRead, FenceStat, KillChain, KillHb, StopHb, files, locals
<1>8. CASE Tick \/ UNCHANGED vars
  BY <1>8 DEF Types, Place, Beat, Tick, vars, files, locals
<1>. QED BY <1>1, <1>2, <1>3, <1>4, <1>5, <1>6, <1>7, <1>8 DEF Next, Claim, Release

LEMMA TypeNext == TypeOK /\ [Next]_vars => TypeOK'
<1> SUFFICES ASSUME TypeOK, [Next]_vars PROVE TypeOK'
  OBVIOUS
<1>1. Types
  BY DEF TypeOK, Types, Place, Beat
<1>2. Types' /\ crossed' \in BOOLEAN
  BY <1>1, TypesNext, CrossedType
<1>. QED BY <1>2 DEF TypeOK, Types, Place, Beat

(* The lock file, the tombs and the chains' places are of their types.     *)
THEOREM LocalTypeCorrect == Spec => []TypeOK
BY TypeInit, TypeNext, PTL DEF Spec

-----------------------------------------------------------------------------
(* The parts of the invariant, one by one.                                 *)

LEMMA WaysNext ==
  ASSUME Timely, IInv, [Next]_vars, ~crossed'
  PROVE  Ways'
<1>0. /\ TypeOK /\ Ways /\ TypeOK'
      /\ \A c \in Chain : pc[c] = "write" => new[c] # 0
  BY TypeNext DEF IInv, Counted, CountedAt
<1> SUFFICES ASSUME NEW x \in Chain PROVE WaysOf(x)'
  BY DEF Ways
<1>1. ASSUME NEW c \in Chain, StartClaim(c) \/ \E d \in Chain : ScanTomb(c, d) \/ DropTomb(c, d) PROVE WaysOf(x)'
  BY <1>0, <1>1 DEF TypeOK, Ways, WaysOf, Mine, StartClaim, ScanTomb, DropTomb, Goto, files, locals
<1>2. ASSUME NEW c \in Chain, SeeLock(c) \/ ReadLock(c) \/ StatLock(c) \/ TakeLock(c) \/ RecheckTaken(c) \/ DropTaken(c) PROVE WaysOf(x)'
  BY <1>0, <1>2 DEF TypeOK, Ways, WaysOf, Mine, SeeLock, ReadLock, StatLock, TakeLock, RecheckTaken, DropTaken, Goto, files, locals
<1>3. ASSUME NEW c \in Chain, CreateLock(c) \/ ReadCounter(c) \/ StoreCounter(c) \/ WriteLock(c) PROVE WaysOf(x)'
  BY <1>0, <1>3 DEF TypeOK, Ways, WaysOf, Mine, CreateLock, ReadCounter, StoreCounter, WriteLock, Goto, files, locals
<1>4. ASSUME NEW c \in Chain, Heartbeat(c) PROVE WaysOf(x)'
  BY <1>0, <1>4 DEF TypeOK, Ways, WaysOf, Mine, Heartbeat, HbRead, HbStat, HbMove, HbTouch, files, locals
<1>5. ASSUME NEW c \in Chain, StartRelease(c) \/ VerifyRelease(c) \/ Bury(c) PROVE WaysOf(x)'
  BY <1>0, <1>5 DEF TypeOK, Ways, WaysOf, Mine, StartRelease, VerifyRelease, Bury, StopHb, Goto, files, locals
<1>6. ASSUME NEW c \in Chain, RecheckTomb(c) \/ ClearTomb(c) \/ KillChain(c) \/ KillHb(c) PROVE WaysOf(x)'
  BY <1>0, <1>6 DEF TypeOK, Ways, WaysOf, Mine, RecheckTomb, ClearTomb, KillChain, KillHb, StopHb, Goto, files, locals
<1>7. ASSUME NEW c \in Chain, Fence(c) PROVE WaysOf(x)'
  BY <1>0, <1>7 DEF TypeOK, Ways, WaysOf, Mine, Fence, FenceRead, FenceStat, files
<1>8. CASE Tick \/ UNCHANGED vars
  BY <1>0, <1>8 DEF TypeOK, Ways, WaysOf, Mine, Tick, Resting, vars, files, locals
<1>. QED BY <1>1, <1>2, <1>3, <1>4, <1>5, <1>6, <1>7, <1>8 DEF Next, Claim, Release

Acts(c) == Claim(c) \/ Heartbeat(c) \/ Release(c) \/ Fence(c) \/ KillChain(c) \/ KillHb(c)

(* No step of a chain leaves an expired lock that was not there before.    *)
LEMMA LockMoves ==
  ASSUME IInv, NEW c \in Chain, Acts(c)
  PROVE  now' = now /\ (lock' = lock \/ lock' = NoFile \/ Fresh(lock)')
<1>0. TypeOK /\ Ways /\ LeaseSecs \in Nat /\ LeaseSecs > 0
  BY LocalAssumption DEF IInv
<1>f. /\ \A e \in Nat : Fresh(File(e))
      /\ now \in Nat /\ lock \in FileType
      /\ \A d \in Chain : tok[d] \in Nat /\ new[d] \in Nat
  BY <1>0, FileTypes DEF TypeOK
<1>1. ASSUME StartClaim(c) \/ \E d \in Chain : ScanTomb(c, d) \/ DropTomb(c, d)
      PROVE  now' = now /\ (lock' = lock \/ lock' = NoFile \/ Fresh(lock)')
  BY <1>0, <1>1 DEF Linked, Fresh, StartClaim, ScanTomb, DropTomb, files
<1>2. ASSUME SeeLock(c) \/ ReadLock(c) \/ StatLock(c) \/ TakeLock(c) \/ RecheckTaken(c) \/ DropTaken(c)
      PROVE  now' = now /\ (lock' = lock \/ lock' = NoFile \/ Fresh(lock)')
  BY <1>0, <1>2 DEF Linked, Fresh, SeeLock, ReadLock, StatLock, TakeLock, RecheckTaken, DropTaken, files
<1>3. ASSUME CreateLock(c) \/ ReadCounter(c) \/ StoreCounter(c) \/ WriteLock(c)
      PROVE  now' = now /\ (lock' = lock \/ lock' = NoFile \/ Fresh(lock)')
  BY <1>f, <1>3 DEF Fresh, CreateLock, ReadCounter, StoreCounter, WriteLock, files
<1>4. ASSUME HbRead(c) \/ HbStat(c) \/ HbMove(c)
      PROVE  now' = now /\ (lock' = lock \/ lock' = NoFile \/ Fresh(lock)')
  BY <1>f, <1>4 DEF Fresh, HbRead, HbStat, HbMove, files
<1>5. ASSUME HbTouch(c)
      PROVE  now' = now /\ (lock' = lock \/ lock' = NoFile \/ Fresh(lock)')
  <2>1. CASE lock = NoFile
    BY <1>f, <1>5, <2>1 DEF Fresh, HbTouch
  <2>2. CASE lock # NoFile
    <3>1. now' = now /\ lock' = [lock EXCEPT !.mtime = now] /\ lock \in [epoch : Nat, mtime : Nat]
      BY <1>f, <1>5, <2>2 DEF HbTouch, FileType
    <3>2. lock'.mtime = now
      BY <3>1
    <3>. QED BY <1>0, <1>f, <3>1, <3>2 DEF Fresh
  <2>. QED BY <2>1, <2>2
<1>6. ASSUME Release(c)
      PROVE  now' = now /\ (lock' = lock \/ lock' = NoFile \/ Fresh(lock)')
  <2>1. pc[c] = "buried" => tomb[c] = NoFile \/ Mine(c, tomb[c])
    BY <1>0 DEF Ways, WaysOf
  <2>. QED BY <2>1, <1>6 DEF Linked, Fresh, Readable, Release, StartRelease, VerifyRelease, Bury,
                             RecheckTomb, ClearTomb, Goto, files
<1>7. ASSUME Fence(c) \/ KillChain(c) \/ KillHb(c)
      PROVE  now' = now /\ (lock' = lock \/ lock' = NoFile \/ Fresh(lock)')
  BY <1>7 DEF Fence, FenceRead, FenceStat, KillChain, KillHb, files
<1>. QED BY <1>1, <1>2, <1>3, <1>4, <1>5, <1>6, <1>7 DEF Acts, Claim, Heartbeat

LEMMA ExpiredRestsNext ==
  ASSUME Timely, IInv, [Next]_vars, ~crossed'
  PROVE  ExpiredRests'
<1>0. TypeOK /\ Ways /\ ExpiredRests
  BY DEF IInv
<1> SUFFICES ASSUME lock' # NoFile, ~Fresh(lock)', NEW x \in Chain
             PROVE  CalmAt(x)'
  BY DEF ExpiredRests
<1>1. ASSUME NEW c \in Chain, Acts(c) PROVE CalmAt(x)'
  <2>1. lock' = lock /\ lock # NoFile /\ ~Fresh(lock) /\ \A y \in Chain : CalmAt(y)
    BY <1>0, <1>1, LockMoves DEF ExpiredRests, Fresh
  <2>2. pc[c] \in Calm
    BY <2>1 DEF CalmAt
  <2>3. ASSUME StartClaim(c) \/ \E d \in Chain : ScanTomb(c, d) \/ DropTomb(c, d) PROVE CalmAt(x)'
    BY <1>0, <2>1, <2>3 DEF TypeOK, CalmAt, Calm, Active, StartClaim, ScanTomb, DropTomb, Goto, files, locals
  <2>4. ASSUME SeeLock(c) \/ ReadLock(c) \/ StatLock(c) \/ TakeLock(c) \/ RecheckTaken(c) \/ DropTaken(c) PROVE CalmAt(x)'
    BY <1>0, <2>1, <2>2, <2>4 DEF TypeOK, CalmAt, Calm, Active, SeeLock, ReadLock, StatLock, TakeLock, RecheckTaken, DropTaken,
                                  Goto, files, locals
  <2>5. ASSUME CreateLock(c) \/ ReadCounter(c) \/ StoreCounter(c) \/ WriteLock(c) PROVE CalmAt(x)'
    BY <2>2, <2>5 DEF Calm, CreateLock, ReadCounter, StoreCounter, WriteLock, Goto
  <2>6. ASSUME Heartbeat(c) PROVE CalmAt(x)'
    <3>1. ~Active(c) /\ hb[c] # "late"
      BY <2>1 DEF CalmAt
    <3>. QED BY <1>0, <2>1, <2>6, <3>1 DEF TypeOK, CalmAt, Active, Heartbeat, HbRead, HbStat, HbMove, HbTouch,
                                            files, locals
  <2>7. ASSUME StartRelease(c) PROVE CalmAt(x)'
    BY <1>0, <2>1, <2>7 DEF TypeOK, CalmAt, Calm, Active, StartRelease, StopHb, Goto, files, locals
  <2>8. ASSUME VerifyRelease(c) \/ Bury(c) \/ RecheckTomb(c) \/ ClearTomb(c) PROVE CalmAt(x)'
    BY <1>0, <2>1, <2>2, <2>8 DEF TypeOK, CalmAt, Calm, Active, VerifyRelease, Bury, RecheckTomb, ClearTomb,
                                  Goto, files, locals
  <2>9. ASSUME Fence(c) \/ KillChain(c) \/ KillHb(c) PROVE CalmAt(x)'
    BY <1>0, <2>1, <2>9 DEF TypeOK, CalmAt, Calm, Active, Fence, FenceRead, FenceStat, KillChain, KillHb, StopHb, files, locals
  <2>. QED BY <1>1, <2>3, <2>4, <2>5, <2>6, <2>7, <2>8, <2>9 DEF Acts, Claim, Release
<1>2. CASE Tick
  BY <1>2 DEF CalmAt, Calm, Active, Tick, Resting
<1>3. CASE UNCHANGED vars
  BY <1>0, <1>3 DEF ExpiredRests, CalmAt, Calm, Active, Fresh, vars, files, locals
<1>. QED BY <1>1, <1>2, <1>3 DEF Next, Acts

(* Files are moved, or written with an epoch some claim counted.           *)
LEMMA StaysBelow ==
  ASSUME TypeOK, NEW n \in Nat, n > 0, AllBelow(n), NEW c \in Chain, Acts(c), WriteLock(c) => new[c] < n
  PROVE  AllBelow(n)'
<1>f. /\ \A e \in Nat : File(e) # NoFile /\ File(e).epoch = e
      /\ \A d \in Chain : tok[d] \in Nat /\ new[d] \in Nat
      /\ lock \in FileType
  BY FileTypes DEF TypeOK
<1>1. ASSUME StartClaim(c) \/ \E d \in Chain : ScanTomb(c, d) \/ DropTomb(c, d) PROVE AllBelow(n)'
  BY <1>1 DEF TypeOK, AllBelow, Below, Linked, StartClaim, ScanTomb, DropTomb, files, locals
<1>2. ASSUME SeeLock(c) \/ ReadLock(c) \/ StatLock(c) \/ TakeLock(c) \/ RecheckTaken(c) \/ DropTaken(c) PROVE AllBelow(n)'
  BY <1>2 DEF TypeOK, AllBelow, Below, Linked, SeeLock, ReadLock, StatLock, TakeLock, RecheckTaken, DropTaken, files, locals
<1>3. ASSUME CreateLock(c) \/ ReadCounter(c) \/ StoreCounter(c) PROVE AllBelow(n)'
  BY <1>f, <1>3 DEF TypeOK, AllBelow, Below, CreateLock, ReadCounter, StoreCounter, files, locals
<1>4. ASSUME WriteLock(c) PROVE AllBelow(n)'
  BY <1>f, <1>4 DEF TypeOK, AllBelow, Below, WriteLock
<1>5. ASSUME HbRead(c) \/ HbStat(c) \/ HbMove(c) PROVE AllBelow(n)'
  BY <1>f, <1>5 DEF TypeOK, AllBelow, Below, HbRead, HbStat, HbMove, files, locals
<1>6. ASSUME HbTouch(c) PROVE AllBelow(n)'
  <2>1. lock = NoFile => lock' = File(0)
    BY <1>6 DEF HbTouch
  <2>2. lock # NoFile => lock'.epoch = lock.epoch
    BY <1>f, <1>6 DEF HbTouch, FileType
  <2>. QED BY <1>f, <1>6, <2>1, <2>2 DEF AllBelow, Below, HbTouch, locals
<1>7. ASSUME Release(c) PROVE AllBelow(n)'
  BY <1>7 DEF TypeOK, AllBelow, Below, Linked, Release, StartRelease, VerifyRelease, Bury, RecheckTomb, ClearTomb,
              files, locals
<1>8. ASSUME Fence(c) \/ KillChain(c) \/ KillHb(c) PROVE AllBelow(n)'
  BY <1>8 DEF AllBelow, Fence, FenceRead, FenceStat, KillChain, KillHb, files, locals
<1>. QED BY <1>1, <1>2, <1>3, <1>4, <1>5, <1>6, <1>7, <1>8 DEF Acts, Claim, Heartbeat

LEMMA Plus == \A m, n \in Nat : (m < n + 1 <=> m <= n) /\ (m <= n => m + 1 <= n + 1) /\ n < n + 1
OBVIOUS

(* The counter is raised by one, by the only chain that creates the lock.  *)
LEMMA CounterSteps ==
  ASSUME IInv, NEW c \in Chain, Acts(c), ~crossed'
  PROVE  \/ StoreCounter(c) /\ ctr' = ctr + 1
         \/ ~StoreCounter(c) /\ ctr' = ctr
<1>1. pc[c] = "store" => new[c] = ctr + 1
  BY DEF IInv, Counted, CountedAt
<1>2. CASE StoreCounter(c)
  BY <1>1, <1>2 DEF StoreCounter, Goto
<1>3. CASE ~StoreCounter(c)
  BY <1>3 DEF Acts, Claim, Heartbeat, Release, StartClaim, ScanTomb, DropTomb, SeeLock, ReadLock, StatLock, TakeLock, RecheckTaken,
              DropTaken, CreateLock, ReadCounter, WriteLock, HbRead, HbStat, HbMove, HbTouch, StartRelease,
              VerifyRelease, Bury, RecheckTomb, ClearTomb, Fence, FenceRead, FenceStat, KillChain, KillHb, files
<1>. QED BY <1>2, <1>3

LEMMA TokenSteps ==
  ASSUME TypeOK, NEW c \in Chain, Acts(c)
  PROVE  \/ WriteLock(c) /\ tok' = [tok EXCEPT ![c] = new[c]]
         \/ ~WriteLock(c) /\ tok' = tok
<1>1. CASE WriteLock(c)
  BY <1>1 DEF WriteLock
<1>2. CASE ~WriteLock(c)
  BY <1>2 DEF Acts, Claim, Heartbeat, Release, StartClaim, ScanTomb, DropTomb, SeeLock, ReadLock, StatLock, TakeLock, RecheckTaken,
              DropTaken, CreateLock, ReadCounter, StoreCounter, HbRead, HbStat, HbMove, HbTouch, StartRelease,
              VerifyRelease, Bury, RecheckTomb, ClearTomb, Fence, FenceRead, FenceStat, KillChain, KillHb, files, locals
<1>. QED BY <1>1, <1>2

LEMMA HeldSteps ==
  ASSUME TypeOK, NEW c \in Chain, Acts(c), ~SeeLock(c), ~ReadLock(c)
  PROVE  held' = held
BY DEF Acts, Claim, Heartbeat, Release, StartClaim, ScanTomb, DropTomb, SeeLock, ReadLock, StatLock, TakeLock, RecheckTaken,
       DropTaken, CreateLock, ReadCounter, StoreCounter, WriteLock, HbRead, HbStat, HbMove, HbTouch, StartRelease,
       VerifyRelease, Bury, RecheckTomb, ClearTomb, Fence, FenceRead, FenceStat, KillChain, KillHb, files, locals

(* Only the chain that moves on changes its own place.                     *)
LEMMA PlaceSteps ==
  ASSUME TypeOK, NEW c \in Chain, Acts(c), NEW x \in Chain, x # c
  PROVE  pc'[x] = pc[x] /\ new'[x] = new[x] /\ tok'[x] = tok[x] /\ hb'[x] = hb[x]
BY DEF TypeOK, Acts, Claim, Heartbeat, Release, StartClaim, ScanTomb, DropTomb, SeeLock, ReadLock, StatLock, TakeLock, RecheckTaken,
       DropTaken, CreateLock, ReadCounter, StoreCounter, WriteLock, HbRead, HbStat, HbMove, HbTouch, StartRelease,
       VerifyRelease, Bury, RecheckTomb, ClearTomb, Fence, FenceRead, FenceStat, KillChain, KillHb, StopHb, Goto, files, locals

(* Between reading the counter and writing the lock a chain is the only    *)
(* one that does either.                                                   *)
LEMMA StoreSteps ==
  ASSUME IInv, NEW c \in Chain, Acts(c), NEW d \in Chain
  PROVE  /\ pc'[d] = "store" /\ ~(ReadCounter(c) /\ d = c)
              => pc[d] = "store" /\ new'[d] = new[d] /\ ~StoreCounter(c)
         /\ pc'[d] = "write" /\ ~(StoreCounter(c) /\ d = c)
              => pc[d] = "write" /\ new'[d] = new[d] /\ ~StoreCounter(c) /\ ~WriteLock(c)
<1>0. TypeOK /\ SoleOwner
  BY DEF IInv
<1>1. CASE d # c
  BY <1>0, <1>1, PlaceSteps DEF SoleOwner, Owner, Creating, StoreCounter, WriteLock, Goto
<1>2. CASE d = c
  BY <1>0, <1>2 DEF TypeOK, Acts, Claim, Heartbeat, Release, StartClaim, ScanTomb, DropTomb, SeeLock, ReadLock, StatLock, TakeLock,
       RecheckTaken, DropTaken, CreateLock, ReadCounter, StoreCounter, WriteLock, HbRead, HbStat, HbMove, HbTouch,
       StartRelease, VerifyRelease, Bury, RecheckTomb, ClearTomb, Fence, FenceRead, FenceStat, KillChain, KillHb, Goto, files, locals
<1>. QED BY <1>1, <1>2

LEMMA CountedNext ==
  ASSUME IInv, [Next]_vars, ~crossed'
  PROVE  Counted'
<1>0. TypeOK /\ Counted /\ ctr \in Nat
  BY DEF IInv, TypeOK
<1>1. ASSUME NEW c \in Chain, Acts(c) PROVE Counted'
  <2>1. ctr' \in Nat /\ ctr' >= ctr
    BY <1>0, <1>1, CounterSteps
  <2>2. WriteLock(c) => new[c] = ctr /\ ctr # 0 /\ \A d \in Chain : tok[d] < ctr
    BY <1>0, <1>1 DEF Counted, CountedAt, AllBelow, WriteLock, Goto
  <2>3. TokensAreUnique'
    <3>1. CASE WriteLock(c)
      BY <1>0, <1>1, <2>2, <3>1, TokenSteps DEF TypeOK, Counted, TokensAreUnique
    <3>2. CASE ~WriteLock(c)
      BY <1>0, <1>1, <3>2, TokenSteps DEF Counted, TokensAreUnique
    <3>. QED BY <3>1, <3>2
  <2>4. AllBelow(ctr + 1)'
    <3>1. PICK n \in Nat, m \in Nat : n = ctr /\ m = ctr'
      BY <1>0, <2>1
    <3>a. n <= m
      BY <2>1, <3>1
    <3>2. n + 1 \in Nat /\ n + 1 > 0 /\ n + 1 <= m + 1
      BY <3>a
    <3>3. AllBelow(n + 1)'
      BY <1>0, <1>1, <2>2, <3>1, <3>2, StaysBelow DEF Counted
    <3>4. /\ \A f \in FileType : f # NoFile => f.epoch \in Nat
          /\ lock' \in FileType /\ \A d \in Chain : tok'[d] \in Nat /\ stale'[d] \in FileType /\ tomb'[d] \in FileType
      <4>1. TypeOK'
        BY <1>0, TypeNext
      <4>2. \A f \in FileType : f # NoFile => f.epoch \in Nat
        BY DEF FileType
      <4>. QED BY <4>1, <4>2 DEF TypeOK
    <3>5. AllBelow(m + 1)'
      BY <3>2, <3>3, <3>4 DEF AllBelow, Below
    <3>. QED BY <3>1, <3>5
  <2>5. ASSUME NEW d \in Chain PROVE CountedAt(d)'
    <3>1. held'[d] <= ctr'
      <4>1. held[d] <= ctr /\ Below(lock, ctr + 1)
        BY <1>0 DEF Counted, CountedAt, AllBelow
      <4>2. lock # NoFile => lock.epoch \in Nat /\ lock.epoch <= ctr
        BY <1>0, <4>1, Plus DEF TypeOK, FileType, Below
      <4>3. held'[d] \in Nat /\ held'[d] <= ctr
        <5>1. CASE SeeLock(c) \/ ReadLock(c)
          BY <1>0, <4>1, <4>2, <5>1 DEF TypeOK, SeeLock, ReadLock
        <5>2. CASE ~SeeLock(c) /\ ~ReadLock(c)
          BY <1>0, <1>1, <4>1, <5>2, HeldSteps DEF TypeOK
        <5>. QED BY <5>1, <5>2
      <4>. QED BY <1>0, <2>1, <4>3
    <3>2. pc'[d] = "store" => new'[d] = ctr' + 1
      <4> SUFFICES ASSUME pc'[d] = "store" PROVE new'[d] = ctr' + 1
        OBVIOUS
      <4>1. CASE ReadCounter(c) /\ d = c
        BY <1>0, <4>1, <1>0 DEF TypeOK, Counted, CountedAt, ReadCounter, Goto, files
      <4>2. CASE ~(ReadCounter(c) /\ d = c)
        <5>1. pc[d] = "store" /\ ~StoreCounter(c) /\ new'[d] = new[d]
          BY <1>0, <1>1, <4>2, PlaceSteps, StoreSteps
        <5>. QED BY <1>0, <1>1, <5>1, CounterSteps DEF Counted, CountedAt
      <4>. QED BY <4>1, <4>2
    <3>3. pc'[d] = "write" => new'[d] = ctr' /\ ctr' # 0 /\ AllBelow(ctr)'
      <4> SUFFICES ASSUME pc'[d] = "write" PROVE new'[d] = ctr' /\ ctr' # 0 /\ AllBelow(ctr)'
        OBVIOUS
      <4>1. CASE StoreCounter(c) /\ d = c
        <5>1. ctr' = ctr + 1 /\ new'[d] = ctr' /\ ~WriteLock(c)
          BY <1>0, <1>1, <4>1, CounterSteps DEF TypeOK, StoreCounter, WriteLock, Goto, locals
        <5>2. PICK n \in Nat : n = ctr
          BY <1>0
        <5>3. n + 1 \in Nat /\ n + 1 > 0
          OBVIOUS
        <5>4. AllBelow(n + 1)'
          BY <1>0, <1>1, <5>1, <5>2, <5>3, StaysBelow DEF Counted
        <5>. QED BY <5>1, <5>2, <5>3, <5>4
      <4>2. CASE ~(StoreCounter(c) /\ d = c)
        <5>1. pc[d] = "write" /\ ~StoreCounter(c) /\ ~WriteLock(c) /\ new'[d] = new[d]
          BY <1>0, <1>1, <4>2, PlaceSteps, StoreSteps
        <5>2. PICK n \in Nat : n = ctr
          BY <1>0
        <5>3. n > 0 /\ AllBelow(n) /\ new[d] = ctr
          BY <1>0, <5>1, <5>2 DEF Counted, CountedAt
        <5>4. ctr' = ctr
          BY <1>1, <5>1, CounterSteps
        <5>5. AllBelow(n)'
          BY <1>0, <1>1, <5>1, <5>3, StaysBelow
        <5>. QED BY <5>1, <5>2, <5>3, <5>4, <5>5
      <4>. QED BY <4>1, <4>2
    <3>. QED BY <3>1, <3>2, <3>3 DEF CountedAt
  <2>. QED BY <2>3, <2>4, <2>5 DEF Counted
<1>2. CASE Tick \/ UNCHANGED vars
  BY <1>0, <1>2 DEF Counted, CountedAt, TokensAreUnique, AllBelow, Tick, vars, files, locals
<1>. QED BY <1>1, <1>2 DEF Next, Acts

-----------------------------------------------------------------------------
(* Whoever keeps the lease kept it before: no step but the claim's write   *)
(* gives it away, and nothing gives it back once it is lost.               *)

LEMMA HoldingSteps ==
  ASSUME TypeOK, NEW c \in Chain, Acts(c), ~WriteLock(c), NEW x \in Chain, pc'[x] \in Holding
  PROVE  pc[x] \in Holding /\ tok'[x] = tok[x] /\ (pc'[x] = "held" => pc[x] = "held")
<1>1. CASE x # c
  BY <1>1, PlaceSteps
<1>2. CASE x = c
  BY <1>2, TokenSteps DEF TypeOK, Holding, Acts, Claim, Heartbeat, Release, StartClaim, ScanTomb, DropTomb, SeeLock, ReadLock, StatLock,
       TakeLock, RecheckTaken, DropTaken, CreateLock, ReadCounter, StoreCounter, HbRead, HbStat, HbMove, HbTouch,
       StartRelease, VerifyRelease, Bury, RecheckTomb, ClearTomb, Fence, FenceRead, FenceStat, KillChain, KillHb, Goto, files, locals
<1>. QED BY <1>1, <1>2

LEMMA ActiveStays ==
  ASSUME TypeOK, NEW c \in Chain, Acts(c), ~WriteLock(c), ~crossed', NEW x \in Chain, Active(x)'
  PROVE  Active(x) \/ (Mine(x, lock) /\ Fresh(lock))
<1>1. CASE x # c
  BY <1>1, PlaceSteps DEF Active
<1>2. CASE x = c
  BY <1>2 DEF TypeOK, Active, Acts, Claim, Heartbeat, Release, StartClaim, ScanTomb, DropTomb, SeeLock, ReadLock, StatLock,
       TakeLock, RecheckTaken, DropTaken, CreateLock, ReadCounter, StoreCounter, HbRead, HbStat, HbMove, HbTouch,
       StartRelease, VerifyRelease, Bury, RecheckTomb, ClearTomb, Fence, FenceRead, FenceStat, KillChain, KillHb, StopHb, files, locals
<1>. QED BY <1>1, <1>2

LEMMA MovedStays ==
  ASSUME TypeOK, NEW c \in Chain, Acts(c), NEW d \in Chain, Moved(d)'
  PROVE  (stale'[d] = lock /\ Fresh(lock)) \/ (Moved(d) /\ stale'[d] = stale[d])
<1>1. CASE TakeLock(c) /\ d = c
  <2>1. pc'[d] = "taken" => stale'[d] = lock /\ now' = now
    BY <1>1 DEF TypeOK, TakeLock, Goto
  <2>. QED BY <2>1 DEF Moved, Fresh
<1>2. CASE ~(TakeLock(c) /\ d = c)
  <2>1. pc'[d] = "taken" => pc[d] = "taken" /\ stale'[d] = stale[d] /\ now' = now
    BY <1>2 DEF TypeOK, Acts, Claim, Heartbeat, Release, StartClaim, ScanTomb, DropTomb, SeeLock, ReadLock, StatLock,
       TakeLock, RecheckTaken, DropTaken, CreateLock, ReadCounter, StoreCounter, WriteLock, HbRead, HbStat, HbMove, HbTouch,
       StartRelease, VerifyRelease, Bury, RecheckTomb, ClearTomb, Fence, FenceRead, FenceStat, KillChain, KillHb, Goto, files
  <2>. QED BY <2>1 DEF Moved, Fresh
<1>. QED BY <1>1, <1>2

(* The lock carries x's token after a step: it did before, or it was moved *)
(* away for a moment, or x's heartbeat wrote it.                           *)
LEMMA MineStays ==
  ASSUME IInv, NEW c \in Chain, Acts(c), ~WriteLock(c), NEW x \in Chain, pc[x] \in Holding,
         Fresh(lock)', lock'.epoch = tok[x]
  PROVE  Kept(x)
<1>0. TypeOK /\ Ways /\ ExpiredRests /\ TombsAreDead /\ TokensAreUnique
  BY DEF IInv, Counted
<1>f. /\ tok[x] # 0 /\ tok[x] \in Nat
      /\ \A e \in Nat : File(e) # NoFile /\ File(e).epoch = e
      /\ \A d \in Chain : tomb[d] # NoFile => tomb[d].epoch # tok[x]
      /\ lock # NoFile /\ ~Fresh(lock) => pc[c] \in Calm /\ ~Active(c) /\ hb[c] # "late"
  BY <1>0, FileTypes DEF TypeOK, Ways, WaysOf, Holding, TombsAreDead, ExpiredRests, CalmAt
<1>a. ASSUME lock' = lock PROVE Kept(x)
  BY <1>a, LockMoves DEF Kept, Mine, Fresh
<1>b. lock' # NoFile
  BY DEF Fresh
<1>1. ASSUME StartClaim(c) \/ \E d \in Chain : ScanTomb(c, d) \/ DropTomb(c, d) PROVE Kept(x)
  BY <1>a, <1>b, <1>f, <1>1 DEF Linked, StartClaim, ScanTomb, DropTomb, files
<1>2. ASSUME SeeLock(c) \/ ReadLock(c) \/ StatLock(c) \/ TakeLock(c) \/ DropTaken(c) PROVE Kept(x)
  BY <1>a, <1>b, <1>2 DEF SeeLock, ReadLock, StatLock, TakeLock, DropTaken, files
<1>3. ASSUME RecheckTaken(c) PROVE Kept(x)
  BY <1>a, <1>b, <1>f, <1>3 DEF Linked, RecheckTaken, Goto, Kept, Moved, Mine, Fresh
<1>4. ASSUME CreateLock(c) \/ ReadCounter(c) \/ StoreCounter(c) PROVE Kept(x)
  BY <1>a, <1>b, <1>f, <1>4 DEF CreateLock, ReadCounter, StoreCounter, files
<1>5. ASSUME HbRead(c) \/ HbStat(c) PROVE Kept(x)
  BY <1>a, <1>b, <1>5 DEF HbRead, HbStat, files
<1>6. ASSUME HbMove(c) PROVE Kept(x)
  <2>1. tok[c] = tok[x]
    BY <1>0, <1>f, <1>6 DEF HbMove, TypeOK
  <2>2. c = x
    BY <1>0, <1>f, <2>1 DEF TokensAreUnique
  <2>. QED BY <2>2, <1>6 DEF HbMove, Kept, Active
<1>7. ASSUME HbTouch(c) PROVE Kept(x)
  <2>1. lock # NoFile
    BY <1>f, <1>7 DEF HbTouch
  <2>2. lock'.epoch = lock.epoch
    BY <1>0, <2>1, <1>7 DEF HbTouch, FileType, TypeOK
  <2>3. Fresh(lock)
    BY <1>f, <2>1, <1>7 DEF HbTouch, Active
  <2>. QED BY <2>1, <2>2, <2>3 DEF Kept, Mine
<1>8. ASSUME Release(c) PROVE Kept(x)
  BY <1>a, <1>b, <1>f, <1>8 DEF Linked, Release, StartRelease, VerifyRelease, Bury, RecheckTomb, ClearTomb, files
<1>9. ASSUME Fence(c) \/ KillChain(c) \/ KillHb(c) PROVE Kept(x)
  BY <1>a, <1>b, <1>9 DEF Fence, FenceRead, FenceStat, KillChain, KillHb, files
<1>. QED BY <1>1, <1>2, <1>3, <1>4, <1>5, <1>6, <1>7, <1>8, <1>9 DEF Acts, Claim, Heartbeat

LEMMA KeptStays ==
  ASSUME IInv, NEW c \in Chain, Acts(c), ~WriteLock(c), ~crossed', NEW x \in Chain, pc'[x] \in Holding, Kept(x)'
  PROVE  pc[x] \in Holding /\ Kept(x)
<1>0. TypeOK
  BY DEF IInv
<1>1. pc[x] \in Holding /\ tok'[x] = tok[x]
  BY <1>0, HoldingSteps
<1>2. CASE Active(x)'
  BY <1>0, <1>1, <1>2, ActiveStays DEF Kept
<1>3. CASE Mine(x, lock)' /\ Fresh(lock)'
  BY <1>1, <1>3, MineStays DEF Mine
<1>4. ASSUME NEW d \in Chain, Moved(d)', Mine(x, stale[d])' PROVE Kept(x)
  <2>1. Mine(x, stale[d])' => stale'[d] # NoFile /\ stale'[d].epoch = tok[x]
    BY <1>1 DEF Mine
  <2>. QED BY <1>0, <1>4, <2>1, MovedStays DEF Kept, Mine, Fresh
<1>. QED BY <1>1, <1>2, <1>3, <1>4 DEF Kept

(* Only a claim that creates the lock makes a new owner.                   *)
LEMMA OwnersStay ==
  ASSUME IInv, NEW c \in Chain, Acts(c), ~WriteLock(c), ~crossed', NEW x \in Chain, Owner(x)',
         ~(x = c /\ CreateLock(c) /\ lock = NoFile)
  PROVE  Owner(x) /\ (pc'[x] \in Holding => pc[x] \in Holding)
<1>0. TypeOK /\ ExpiredRests
  BY DEF IInv
<1>1. CASE pc'[x] \in Holding
  BY <1>1, KeptStays DEF Owner, Creating, Holding
<1>2. CASE pc'[x] \notin Holding
  <2>1. CASE x # c
    BY <1>0, <1>2, <2>1, PlaceSteps DEF Owner, Creating, Holding
  <2>2. CASE x = c
    BY <1>0, <1>2, <2>2 DEF TypeOK, Owner, Creating, Holding, Acts, Claim, Heartbeat, Release, StartClaim, ScanTomb,
       DropTomb, SeeLock, ReadLock, StatLock, TakeLock, RecheckTaken, DropTaken, CreateLock, ReadCounter, StoreCounter, WriteLock,
       HbRead, HbStat, HbMove, HbTouch, StartRelease, VerifyRelease, Bury, RecheckTomb, ClearTomb, Fence, FenceRead, FenceStat, KillChain, KillHb, Goto, files, locals
  <2>. QED BY <2>1, <2>2
<1>. QED BY <1>1, <1>2

(* What keeps others from creating the lock outlives every step but a      *)
(* release's.                                                              *)
LEMMA OccupiedStays ==
  ASSUME IInv, NEW c \in Chain, Acts(c), Occupied, ~(Bury(c) /\ Fresh(lock))
  PROVE  Occupied'
<1>0. TypeOK /\ ExpiredRests /\ Ways
  BY DEF IInv
<1>1. now' = now /\ (lock' = lock \/ lock' = NoFile \/ Fresh(lock)')
  BY LockMoves
<1>2. CASE TakeLock(c)
  <2>1. CASE Fresh(lock)
    <3>1. pc'[c] = "taken" /\ stale'[c] = lock
      BY <1>0, <1>2, <2>1 DEF TypeOK, Fresh, TakeLock, Goto
    <3>. QED BY <1>1, <2>1, <3>1 DEF Occupied, Fresh
  <2>2. ASSUME NEW d \in Chain, pc[d] \in {"taken", "dead"}, Fresh(stale[d]) PROVE Occupied'
    <3>1. pc'[d] = pc[d] /\ stale'[d] = stale[d]
      BY <1>0, <1>2, <2>2 DEF TypeOK, TakeLock, Goto
    <3>. QED BY <1>1, <2>2, <3>1 DEF Occupied, Fresh
  <2>. QED BY <2>1, <2>2 DEF Occupied
<1>3. CASE RecheckTaken(c)
  <2>1. lock = NoFile \/ Fresh(lock)
    BY <1>0, <1>3 DEF ExpiredRests, CalmAt, Calm, RecheckTaken, Goto
  <2>2. CASE Fresh(stale[c])
    BY <1>1, <1>3, <2>1, <2>2 DEF Occupied, Fresh, RecheckTaken, Linked
  <2>3. CASE ~Fresh(stale[c])
    <3>1. lock' = lock /\ \A d \in Chain : d # c => pc'[d] = pc[d] /\ stale'[d] = stale[d]
      BY <1>0, <1>3, <2>3 DEF TypeOK, RecheckTaken, Goto
    <3>. QED BY <1>1, <2>3, <3>1 DEF Occupied, Fresh
  <2>. QED BY <2>2, <2>3
<1>4. CASE ~TakeLock(c) /\ ~RecheckTaken(c)
  <2>1. Fresh(lock) => lock' # NoFile
    <3> SUFFICES ASSUME Fresh(lock), lock # NoFile, ~Bury(c) PROVE lock' # NoFile
      BY DEF Fresh
    <3>1. CASE CreateLock(c) \/ WriteLock(c) \/ HbMove(c)
      <4>1. new[c] \in Nat /\ tok[c] \in Nat /\ \A e \in Nat : File(e) # NoFile
        BY <1>0, FileTypes DEF TypeOK
      <4>. QED BY <3>1, <4>1 DEF CreateLock, WriteLock, HbMove
    <3>2. CASE HbTouch(c)
      <4>1. lock \in [epoch : Nat, mtime : Nat] /\ now \in Nat /\ lock' = [lock EXCEPT !.mtime = now]
        BY <1>0, <3>2 DEF TypeOK, FileType, HbTouch
      <4>2. lock' \in [epoch : Nat, mtime : Nat]
        BY <4>1
      <4>. QED BY <4>2, LocalAssumption
    <3>3. CASE ~(CreateLock(c) \/ WriteLock(c) \/ HbMove(c) \/ HbTouch(c))
      BY <1>4, <3>3 DEF Acts, Claim, Heartbeat, Release, StartClaim, ScanTomb, DropTomb, SeeLock, ReadLock, StatLock, DropTaken,
         ReadCounter, StoreCounter, HbRead, HbStat, StartRelease, VerifyRelease, RecheckTomb, ClearTomb, Fence, FenceRead, FenceStat, KillChain, KillHb,
         Linked, files
    <3>. QED BY <3>1, <3>2, <3>3
  <2>2. \A d \in Chain : pc[d] \in {"taken", "dead"} =>
          pc'[d] \in {"taken", "dead"} /\ stale'[d] = stale[d]
    BY <1>0, <1>4 DEF TypeOK, Acts, Claim, Heartbeat, Release, StartClaim, ScanTomb, DropTomb, SeeLock, ReadLock, StatLock,
       DropTaken, CreateLock, ReadCounter, StoreCounter, WriteLock, HbRead, HbStat, HbMove, HbTouch,
       StartRelease, VerifyRelease, Bury, RecheckTomb, ClearTomb, Fence, FenceRead, FenceStat, KillChain, KillHb, Goto, files
  <2>. QED BY <1>1, <2>1, <2>2 DEF Occupied, Fresh
<1>. QED BY <1>2, <1>3, <1>4

(* A claim that creates the lock finds nobody who owns it.                 *)
LEMMA CreatorIsAlone ==
  ASSUME IInv, NEW c \in Chain, CreateLock(c), lock = NoFile, ~crossed', NEW x \in Chain
  PROVE  ~Owner(x)
<1>1. ~Occupied
  <2>1. ~MovedAway
    BY DEF CreateLock
  <2>. QED BY <2>1 DEF MovedAway, Occupied, Fresh
<1>. QED BY <1>1 DEF IInv, OwnersOccupy

(* The claim that writes the lock is the only owner, before and after.     *)
LEMMA WriterIsAlone ==
  ASSUME IInv, NEW c \in Chain, WriteLock(c)
  PROVE  /\ \A x \in Chain : x # c => ~Owner(x) /\ ~Owner(x)'
         /\ tok' = [tok EXCEPT ![c] = ctr] /\ pc'[c] = "held" /\ lock' = File(ctr)
<1>0. TypeOK /\ SoleOwner /\ Counted
  BY DEF IInv
<1>1. Owner(c) /\ pc[c] = "write" /\ new[c] = ctr /\ \A x \in Chain : tok[x] < ctr
  BY <1>0 DEF WriteLock, Goto, Owner, Creating, Counted, CountedAt, AllBelow
<1>2. \A x \in Chain : x # c => ~Owner(x)
  BY <1>0, <1>1 DEF SoleOwner
<1>3. lock' = File(ctr) /\ tok' = [tok EXCEPT ![c] = ctr] /\ pc'[c] = "held" /\ stale' = stale /\ now' = now
  BY <1>0, <1>1 DEF TypeOK, WriteLock, Goto
<1>4. ASSUME NEW x \in Chain, x # c, Owner(x)' PROVE FALSE
  <2>1. pc'[x] = pc[x] /\ hb'[x] = hb[x] /\ tok'[x] = tok[x] /\ tok[x] < ctr /\ tok[x] \in Nat /\ ctr \in Nat
    BY <1>0, <1>1, <1>4 DEF TypeOK, WriteLock, Goto
  <2>2. ~Mine(x, lock)'
    BY <1>0, <1>3, <2>1, FileTypes DEF TypeOK, Mine
  <2>3. \A d \in Chain : Moved(d)' /\ Mine(x, stale[d])' => Moved(d) /\ Mine(x, stale[d])
    BY <1>0, <1>3, <2>1 DEF TypeOK, Moved, Mine, Fresh, WriteLock, Goto
  <2>4. Owner(x)
    BY <1>4, <2>1, <2>2, <2>3 DEF Owner, Creating, Kept, Active
  <2>. QED BY <1>2, <1>4, <2>4
<1>. QED BY <1>2, <1>3, <1>4

LEMMA OwnersNext ==
  ASSUME Timely, IInv, [Next]_vars, ~crossed'
  PROVE  (OwnersOccupy /\ SoleOwner /\ OwnerIsLatest)'
<1>0. TypeOK /\ OwnersOccupy /\ SoleOwner /\ OwnerIsLatest /\ Ways
  BY DEF IInv
<1> SUFFICES ASSUME NEW x \in Chain, Owner(x)'
             PROVE  /\ Occupied'
                    /\ \A y \in Chain : Owner(y)' => x = y
                    /\ pc'[x] \in Holding => \A y \in Chain : tok'[y] <= tok'[x]
  BY DEF OwnersOccupy, SoleOwner, OwnerIsLatest
<1> DEFINE Goal == /\ Occupied'
                   /\ \A y \in Chain : Owner(y)' => x = y
                   /\ pc'[x] \in Holding => \A y \in Chain : tok'[y] <= tok'[x]
<1>1. ASSUME NEW c \in Chain, WriteLock(c) PROVE Goal
  <2>1. x = c
    BY <1>1, WriterIsAlone
  <2>2. now' = now /\ lock' = File(ctr) /\ Fresh(File(ctr))
    BY <1>0, <1>1, WriterIsAlone, FileTypes DEF TypeOK, WriteLock
  <2>3. Occupied'
    BY <2>2 DEF Occupied, Fresh
  <2>4. \A y \in Chain : tok'[y] <= tok'[x]
    <3>1. \A y \in Chain : tok[y] < ctr /\ tok[y] \in Nat /\ ctr \in Nat
      BY <1>1 DEF IInv, TypeOK, Counted, CountedAt, AllBelow, WriteLock, Goto
    <3>2. tok' = [tok EXCEPT ![c] = ctr]
      BY <1>1, WriterIsAlone
    <3>. QED BY <1>0, <2>1, <3>1, <3>2 DEF TypeOK
  <2>. QED BY <1>1, <2>1, <2>3, <2>4, WriterIsAlone
<1>2. ASSUME NEW c \in Chain, CreateLock(c), lock = NoFile PROVE Goal
  <2>1. \A y \in Chain : ~Owner(y)
    BY <1>2, CreatorIsAlone
  <2>2. Acts(c) /\ ~WriteLock(c)
    BY <1>2 DEF Acts, Claim, CreateLock, WriteLock, Goto
  <2>3. \A y \in Chain : Owner(y)' => y = c
    BY <2>1, <2>2, OwnersStay
  <2>4. lock' = File(0) /\ now' = now /\ Fresh(File(0)) /\ pc'[c] = "count"
    BY <1>0, <1>2, FileTypes DEF TypeOK, CreateLock, Goto
  <2>. QED BY <2>3, <2>4 DEF Occupied, Fresh, Holding
<1>3. ASSUME NEW c \in Chain, Acts(c), ~WriteLock(c), ~(CreateLock(c) /\ lock = NoFile) PROVE Goal
  <2>1. \A y \in Chain : Owner(y)' => Owner(y) /\ (pc'[y] \in Holding => pc[y] \in Holding)
    BY <1>3, OwnersStay
  <2>2. tok' = tok
    BY <1>0, <1>3, TokenSteps
  <2>3. ~(Bury(c) /\ Fresh(lock))
    <3> SUFFICES ASSUME Bury(c), Fresh(lock) PROVE FALSE
      OBVIOUS
    <3>1. pc[c] = "bury" /\ pc'[c] = "buried" /\ Mine(c, lock)
      BY <1>0 DEF TypeOK, Bury, Goto, Fresh
    <3>2. Owner(c) /\ ~Owner(c)'
      BY <3>1 DEF Owner, Creating, Holding, Kept
    <3>. QED BY <1>0, <2>1, <3>2 DEF SoleOwner
  <2>4. Occupied'
    BY <1>0, <1>3, <2>1, <2>3, OccupiedStays DEF OwnersOccupy
  <2>. QED BY <1>0, <2>1, <2>2, <2>4 DEF SoleOwner, OwnerIsLatest
<1>4. CASE Tick
  <2>1. \A y \in Chain : Resting(y) /\ pc'[y] = pc[y] /\ hb'[y] = hb[y]
    BY <1>4 DEF Tick
  <2>2. tok' = tok /\ lock' = lock
    BY <1>4 DEF Tick, files, locals
  <2>3. Fresh(lock)' => Fresh(lock)
    <3>1. now \in Nat /\ now' = now + 1 /\ LeaseSecs \in Nat /\ (lock # NoFile => lock.mtime \in Nat) /\ lock' = lock
      BY <1>0, <1>4, <2>2, LocalAssumption DEF TypeOK, FileType, Tick
    <3>2. PICK n \in Nat : n = now
      BY <3>1
    <3>. QED BY <3>1, <3>2 DEF Fresh
  <2>4. \A y \in Chain : Owner(y)' => pc[y] \in Holding /\ Mine(y, lock) /\ Fresh(lock) /\ Fresh(lock)'
    BY <2>1, <2>2, <2>3 DEF Owner, Creating, Holding, Kept, Active, Moved, Mine, Resting
  <2>5. \A y \in Chain : Owner(y)' => Owner(y) /\ pc[y] \in Holding
    BY <2>4 DEF Owner, Kept
  <2>. QED BY <1>0, <2>2, <2>4, <2>5 DEF Occupied, SoleOwner, OwnerIsLatest
<1>5. CASE UNCHANGED vars
  BY <1>0, <1>5 DEF vars, files, locals, Owner, Creating, Holding, Kept, Active, Moved, Mine, Fresh, Occupied,
                    OwnersOccupy, SoleOwner, OwnerIsLatest
<1>. QED BY <1>1, <1>2, <1>3, <1>4, <1>5 DEF Next, Acts

LEMMA TombsAreDeadNext ==
  ASSUME Timely, IInv, [Next]_vars, ~crossed'
  PROVE  TombsAreDead'
<1>0. TypeOK /\ TombsAreDead /\ Ways /\ TokensAreUnique
  BY DEF IInv, Counted
<1> SUFFICES ASSUME NEW d \in Chain, NEW x \in Chain, tomb'[d] # NoFile, pc'[x] \in Holding
             PROVE  tomb'[d].epoch # tok'[x]
  BY DEF TombsAreDead
<1>1. ASSUME NEW c \in Chain, WriteLock(c) PROVE tomb'[d].epoch # tok'[x]
  <2>1. tomb' = tomb /\ tok' = [tok EXCEPT ![c] = ctr]
    BY <1>1, WriterIsAlone DEF WriteLock
  <2>2. CASE x = c
    <3>1. AllBelow(ctr) /\ ctr \in Nat /\ tomb[d] \in FileType
      BY <1>0, <1>1 DEF IInv, TypeOK, Counted, CountedAt, WriteLock, Goto
    <3>. QED BY <1>0, <2>1, <2>2, <3>1 DEF TypeOK, AllBelow, Below, FileType
  <2>3. CASE x # c
    BY <1>0, <1>1, <2>1, <2>3 DEF TypeOK, TombsAreDead, WriteLock, Goto
  <2>. QED BY <2>2, <2>3
<1>2. ASSUME NEW c \in Chain, Acts(c), ~WriteLock(c) PROVE tomb'[d].epoch # tok'[x]
  <2>1. pc[x] \in Holding /\ tok'[x] = tok[x]
    BY <1>0, <1>2, HoldingSteps
  <2>2. CASE Bury(c) /\ d = c /\ lock # NoFile
    <3>1. tomb'[d] = lock /\ pc[c] = "bury" /\ pc'[c] = "buried" /\ lock.epoch = tok[c]
      BY <1>0, <2>2 DEF TypeOK, Bury, Goto, Mine
    <3>2. x # c /\ tok[c] # 0
      BY <1>0, <3>1 DEF Holding, Ways, WaysOf
    <3>. QED BY <1>0, <2>1, <3>1, <3>2 DEF TokensAreUnique
  <2>3. CASE ~(Bury(c) /\ d = c /\ lock # NoFile)
    <3>1. tomb'[d] = NoFile \/ tomb'[d] = tomb[d]
      BY <1>0, <1>2, <2>3 DEF TypeOK, Acts, Claim, Heartbeat, Release, StartClaim, ScanTomb, DropTomb, SeeLock, ReadLock, StatLock,
         TakeLock, RecheckTaken, DropTaken, CreateLock, ReadCounter, StoreCounter, WriteLock, HbRead, HbStat, HbMove,
         HbTouch, StartRelease, VerifyRelease, Bury, RecheckTomb, ClearTomb, Fence, FenceRead, FenceStat, KillChain, KillHb, Goto, files
    <3>. QED BY <1>0, <2>1, <3>1 DEF TombsAreDead
  <2>. QED BY <2>2, <2>3
<1>3. CASE Tick \/ UNCHANGED vars
  BY <1>0, <1>3 DEF TombsAreDead, Tick, vars, files, locals
<1>. QED BY <1>1, <1>2, <1>3 DEF Next, Acts

LEMMA MineIsLatestNext ==
  ASSUME IInv, [Next]_vars, ~crossed'
  PROVE  MineIsLatest'
<1>0. TypeOK /\ MineIsLatest /\ OwnerIsLatest
  BY DEF IInv
<1> SUFFICES ASSUME NEW x \in Chain, NEW y \in Chain, pc'[x] \in Holding, Mine(x, lock)'
             PROVE  tok'[y] <= tok'[x]
  BY DEF MineIsLatest
<1>1. ASSUME NEW c \in Chain, WriteLock(c) PROVE tok'[y] <= tok'[x]
  <2>1. tok' = [tok EXCEPT ![c] = ctr] /\ lock' = File(ctr)
    BY <1>1, WriterIsAlone
  <2>2. \A z \in Chain : tok[z] < ctr /\ tok[z] \in Nat /\ ctr \in Nat
    BY <1>0, <1>1 DEF IInv, TypeOK, Counted, CountedAt, AllBelow, WriteLock, Goto
  <2>3. lock'.epoch = ctr /\ lock'.epoch = tok'[x]
    BY <1>0, <2>1, <2>2, FileTypes DEF TypeOK, Mine
  <2>. QED BY <1>0, <2>1, <2>2, <2>3 DEF TypeOK
<1>2. ASSUME NEW c \in Chain, Acts(c), ~WriteLock(c) PROVE tok'[y] <= tok'[x]
  <2>1. pc[x] \in Holding /\ tok' = tok
    BY <1>0, <1>2, HoldingSteps, TokenSteps
  <2>2. CASE lock' = lock
    BY <1>0, <2>1, <2>2 DEF MineIsLatest, Mine
  <2>3. CASE lock' # lock
    <3>1. Fresh(lock)' /\ lock'.epoch = tok[x]
      BY <1>2, <2>1, <2>3, LockMoves DEF Mine
    <3>2. Kept(x)
      BY <1>2, <2>1, <3>1, MineStays
    <3>. QED BY <1>0, <2>1, <3>2 DEF OwnerIsLatest, Owner
  <2>. QED BY <2>2, <2>3
<1>3. CASE Tick \/ UNCHANGED vars
  BY <1>0, <1>3 DEF MineIsLatest, Mine, Tick, vars, files, locals
<1>. QED BY <1>1, <1>2, <1>3 DEF Next, Acts

-----------------------------------------------------------------------------

LEMMA IInit == Init => IInv
<1> SUFFICES ASSUME Init PROVE IInv
  OBVIOUS
<1>1. TypeOK
  BY TypeInit
<1>2. Ways /\ ExpiredRests /\ TombsAreDead /\ MineIsLatest
  BY DEF Init, Ways, WaysOf, ExpiredRests, TombsAreDead, MineIsLatest, Holding
<1>3. Counted
  BY DEF Init, Counted, CountedAt, AllBelow, Below, TokensAreUnique
<1>4. \A x \in Chain : ~Owner(x)
  BY DEF Init, Owner, Creating, Holding
<1>. QED BY <1>1, <1>2, <1>3, <1>4 DEF IInv, OwnersOccupy, SoleOwner, OwnerIsLatest

LEMMA IInvNext ==
  ASSUME Timely, IInv, [Next]_vars, ~crossed'
  PROVE  IInv'
<1>1. TypeOK'
  BY TypeNext DEF IInv
<1>2. Ways' /\ ExpiredRests' /\ TombsAreDead' /\ Counted'
  BY WaysNext, ExpiredRestsNext, TombsAreDeadNext, CountedNext
<1>3. (OwnersOccupy /\ SoleOwner /\ OwnerIsLatest)' /\ MineIsLatest'
  BY OwnersNext, MineIsLatestNext
<1>. QED BY <1>1, <1>2, <1>3 DEF IInv

(* Once a window is hit it stays hit.                                      *)
LEMMA CrossedStays ==
  ASSUME [Next]_vars, crossed
  PROVE  crossed'
<1>1. ASSUME NEW c \in Chain, Acts(c) PROVE crossed'
  BY <1>1 DEF Acts, Claim, Heartbeat, Release, StartClaim, ScanTomb, DropTomb, SeeLock, ReadLock, StatLock, TakeLock,
     RecheckTaken, DropTaken, CreateLock, ReadCounter, StoreCounter, WriteLock, HbRead, HbStat, HbMove, HbTouch,
     Fence, FenceRead, FenceStat, StartRelease, VerifyRelease, Bury, RecheckTomb, ClearTomb, KillChain, KillHb,
     locals
<1>2. CASE Tick \/ UNCHANGED vars
  BY <1>2 DEF Tick, vars, locals
<1>. QED BY <1>1, <1>2 DEF Next, Acts

Sound == crossed \/ IInv

LEMMA LeaseInvariance ==
  ASSUME Timely
  PROVE  Spec => []Sound
<1>1. Init => Sound
  BY IInit DEF Sound
<1>2. Sound /\ [Next]_vars => Sound'
  BY CrossedStays, IInvNext DEF Sound
<1>. QED BY <1>1, <1>2, PTL DEF Spec

(* _lease_sw_claim: no two claims ever print the same fencing token, for   *)
(* any number of chains and whoever is killed, as long as no operation     *)
(* straddles a tick and until one of the protocol's windows is hit.        *)
THEOREM NoTokenIsPrintedTwice ==
  ASSUME Timely
  PROVE  Spec => []OneChainPerToken
<1>1. Sound => OneChainPerToken
  BY DEF Sound, IInv, Counted, TokensAreUnique, OneChainPerToken
<1>. QED BY <1>1, LeaseInvariance, PTL

(* _lease_sw_fence: a fence that begins after a larger token was printed   *)
(* does not pass, under the same conditions.                               *)
THEOREM DeadTokensStayDead ==
  ASSUME Timely
  PROVE  Spec => SupersededNeverPasses
<1> DEFINE Shut == \A c, d \in Chain : ~crossed' /\ fence[c] = "off" /\ fence'[c] = "stat" => tok[d] <= tok[c]
<1>1. Sound /\ [Next]_vars => [Shut]_vars
  <2> SUFFICES ASSUME Sound, [Next]_vars, NEW x \in Chain, NEW d \in Chain,
                      ~crossed', fence[x] = "off", fence'[x] = "stat"
               PROVE  tok[d] <= tok[x]
    OBVIOUS
  <2>1. IInv
    BY CrossedStays DEF Sound
  <2>2. ASSUME NEW c \in Chain, Acts(c) PROVE FenceRead(x)
    BY <2>1, <2>2 DEF IInv, TypeOK, Acts, Claim, Heartbeat, Release, StartClaim, ScanTomb, DropTomb, SeeLock, ReadLock,
       StatLock, TakeLock, RecheckTaken, DropTaken, CreateLock, ReadCounter, StoreCounter, WriteLock, HbRead, HbStat,
       HbMove, HbTouch, Fence, FenceRead, FenceStat, StartRelease, VerifyRelease, Bury, RecheckTomb, ClearTomb,
       KillChain, KillHb, locals
  <2>3. ASSUME Tick \/ UNCHANGED vars PROVE FALSE
    BY <2>3 DEF Tick, vars, locals
  <2>4. pc[x] \in Holding /\ Mine(x, lock)
    <3>1. PICK c \in Chain : Acts(c)
      BY <2>3 DEF Next, Acts
    <3>. QED BY <2>2, <3>1 DEF FenceRead, Holding
  <2>. QED BY <2>1, <2>4 DEF IInv, MineIsLatest
<1>2. Spec => []Sound
  BY LeaseInvariance
<1>. QED BY <1>1, <1>2, PTL DEF Spec, SupersededNeverPasses

(* <key>.epoch: no step of any chain lowers the counter, under the same    *)
(* conditions.                                                             *)
THEOREM CounterOnlyRises ==
  ASSUME Timely
  PROVE  Spec => CounterNeverFalls
<1>1. Sound /\ [Next]_vars => [crossed' \/ ctr' >= ctr]_vars
  <2> SUFFICES ASSUME Sound, [Next]_vars, ~crossed' PROVE ctr' >= ctr
    OBVIOUS
  <2>0. IInv /\ ctr \in Nat
    BY CrossedStays DEF Sound, IInv, TypeOK
  <2>1. ASSUME NEW c \in Chain, Acts(c) PROVE ctr' >= ctr
    BY <2>0, <2>1, CounterSteps
  <2>2. CASE Tick \/ UNCHANGED vars
    BY <2>0, <2>2 DEF Tick, vars, files
  <2>. QED BY <2>1, <2>2 DEF Next, Acts
<1>2. Spec => []Sound
  BY LeaseInvariance
<1>. QED BY <1>1, <1>2, PTL DEF Spec, CounterNeverFalls

-----------------------------------------------------------------------------
(* The lock file implements the fenced lease.                              *)

LEMMA OneOfOne == \A S : \A c \in S : (\A d \in S : d = c) => OneOf(S) = c
BY DEF OneOf

(* Whoever passes is the one with the latest token.                        *)
LEMMA PasserIsLatest ==
  ASSUME IInv, NEW c \in Chain, Passes(c)
  PROVE  c \in Latest /\ OneOf(Passing) = c /\ OneOf(Latest) = c
<1>1. \A d \in Chain : Passes(d) => Owner(d) /\ pc[d] \in Holding
  BY DEF Passes, Owner, Kept, Holding
<1>2. \A d \in Passing : d = c
  BY <1>1 DEF IInv, SoleOwner, Passing
<1>3. tok[c] # 0 /\ \A d \in Chain : tok[d] <= tok[c] /\ tok[d] \in Nat
  BY <1>1 DEF IInv, OwnerIsLatest, Ways, WaysOf, Passes, TypeOK
<1>4. c \in Latest /\ c \in Passing
  BY <1>3 DEF Latest, Passing
<1>5. ASSUME NEW d \in Latest PROVE d = c
  <2>1. d \in Chain /\ tok[d] = tok[c]
    BY <1>3, <1>5 DEF Latest
  <2>. QED BY <1>3, <2>1 DEF IInv, Counted, TokensAreUnique
<1>. QED BY <1>2, <1>4, <1>5, OneOfOne

PassersAreLatest == \A c \in Chain : Passes(c) => c \in Latest /\ OneOf(Passing) = c /\ OneOf(Latest) = c

LEMMA PassersNext ==
  ASSUME TRUE
  PROVE  IInv' => PassersAreLatest'
<1>1. IInv => PassersAreLatest
  BY PasserIsLatest DEF PassersAreLatest
<1>. QED BY <1>1, PTL

LEMMA LastTokenIsCounted ==
  ASSUME IInv
  PROVE  lastToken \in Nat /\ ctr \in Nat /\ lastToken <= ctr
<1>1. ctr \in Nat /\ \A c \in Chain : tok[c] \in Nat /\ tok[c] < ctr + 1
  BY DEF IInv, TypeOK, Counted, AllBelow
<1>2. \A c \in Chain : tok[c] <= ctr
  BY <1>1, Plus
<1>3. Latest # {} => OneOf(Latest) \in Chain
  BY DEF OneOf, Latest
<1>. QED BY <1>1, <1>2, <1>3 DEF lastToken

(* Values of the mapped variables that make a step of the fenced lease.    *)
LEMMA GrantStep ==
  ASSUME NEW c \in Chain, OneOf(Passing) \in {NoOne, c}, OneOf(Passing)' = c, OneOf(Latest)' = c,
         lastToken' \in Nat, lastToken' >= lastToken, OneOf(Latest) # c => lastToken' > lastToken
  PROVE  Fenced!Next
<1>1. Fenced!Grant("key", c)
  BY DEF Fenced!Grant, holderMap, lastMap, tokenMap
<1>. QED BY <1>1 DEF Fenced!Next

LEMMA LapseStep ==
  ASSUME OneOf(Passing)' = NoOne, OneOf(Latest)' = OneOf(Latest), lastToken' = lastToken, lastToken \in Nat
  PROVE  Fenced!Next
<1>1. Fenced!Lapse({"key"})
  BY DEF Fenced!Lapse, holderMap, lastMap, tokenMap
<1>. QED BY <1>1 DEF Fenced!Next

(* A step that prints no token: the lease is renewed by who had it last,   *)
(* or it is nobody's.                                                      *)
LEMMA PlainStep ==
  ASSUME IInv, IInv', tok' = tok, \A x \in Chain : Passes(x)' => Owner(x)
  PROVE  Fenced!Next
<1>1. Latest' = Latest /\ lastToken' = lastToken /\ OneOf(Latest)' = OneOf(Latest) /\ lastToken \in Nat
  BY LastTokenIsCounted DEF Latest, lastToken, OneOf
<1>2. ASSUME NEW x \in Chain, Passes(x)' PROVE Fenced!Next
  <2>1. OneOf(Passing)' = x /\ OneOf(Latest)' = x
    BY <1>2, PassersNext DEF PassersAreLatest
  <2>2. OneOf(Passing) \in {NoOne, x}
    <3>1. \A y \in Chain : Passes(y) => Owner(y)
      BY DEF Passes, Owner, Kept, Holding
    <3>. QED BY <1>2, <3>1 DEF IInv, SoleOwner, Passing, OneOf
  <2>. QED BY <1>1, <2>1, <2>2, GrantStep
<1>3. CASE \A x \in Chain : ~Passes(x)'
  <2>1. OneOf(Passing)' = NoOne
    BY <1>3 DEF OneOf, Passing
  <2>. QED BY <1>1, <2>1, LapseStep
<1>. QED BY <1>2, <1>3

LEMMA WriteIsGrant ==
  ASSUME IInv, IInv', NEW c \in Chain, WriteLock(c)
  PROVE  Fenced!Next
<1>0. TypeOK
  BY DEF IInv
<1>1. /\ pc[c] = "write" /\ pc'[c] = "held" /\ now' = now
      /\ tok' = [tok EXCEPT ![c] = ctr] /\ lock' = File(ctr)
      /\ ctr \in Nat /\ ctr # 0 /\ \A d \in Chain : tok[d] \in Nat /\ tok[d] < ctr
  BY <1>0, WriterIsAlone DEF IInv, TypeOK, Counted, CountedAt, AllBelow, WriteLock, Goto
<1>2. Passes(c)'
  <2>1. File(ctr) # NoFile /\ File(ctr).epoch = ctr /\ Fresh(File(ctr))
    BY <1>0, <1>1, FileTypes DEF TypeOK
  <2>2. tok'[c] = ctr
    BY <1>0, <1>1 DEF TypeOK
  <2>. QED BY <1>1, <2>1, <2>2 DEF Passes, Mine, Fresh
<1>3. c \in Latest' /\ OneOf(Passing)' = c /\ OneOf(Latest)' = c
  BY <1>2, PassersNext DEF PassersAreLatest
<1>4. lastToken' = ctr
  BY <1>0, <1>1, <1>3 DEF TypeOK, lastToken
<1>5. lastToken \in Nat /\ lastToken < ctr
  <2>1. Latest # {} => OneOf(Latest) \in Chain
    BY DEF OneOf, Latest
  <2>. QED BY <1>1, <2>1 DEF lastToken
<1>6. OneOf(Passing) = NoOne
  <2>1. \A x \in Chain : Passes(x) => Owner(x) /\ pc[x] = "held"
    BY DEF Passes, Owner, Kept, Holding
  <2>2. Passing = {}
    BY <1>1, <2>1, WriterIsAlone DEF Passing
  <2>. QED BY <2>2 DEF OneOf
<1>7. lastToken' \in Nat /\ lastToken' >= lastToken /\ lastToken' > lastToken
  BY <1>1, <1>4, <1>5
<1>. QED BY <1>3, <1>6, <1>7, GrantStep

(* What a step that prints no token leaves passing, owned the lock before. *)
LEMMA PassersOwned ==
  ASSUME Timely, IInv, [Next]_vars, ~crossed', ~\E c \in Chain : WriteLock(c), NEW x \in Chain, Passes(x)'
  PROVE  Owner(x)
<1>1. pc'[x] \in Holding /\ Kept(x)' /\ Owner(x)'
  BY DEF Passes, Kept, Owner, Holding
<1>2. ASSUME NEW c \in Chain, Acts(c) PROVE Owner(x)
  BY <1>1, <1>2, KeptStays DEF Owner
<1>3. CASE Tick
  <2>1. pc'[x] = pc[x] /\ Mine(x, lock) /\ lock' = lock
    BY <1>3 DEF Tick, Passes, Mine, files, locals
  <2>2. Fresh(lock)
    <3>1. now \in Nat /\ now' = now + 1 /\ LeaseSecs \in Nat /\ lock # NoFile /\ lock.mtime \in Nat /\ Fresh(lock)'
      BY <1>3, <2>1, LocalAssumption DEF IInv, TypeOK, FileType, Tick, Passes, Mine
    <3>2. PICK n \in Nat : n = now
      BY <3>1
    <3>. QED BY <2>1, <3>1, <3>2 DEF Fresh
  <2>. QED BY <1>1, <2>1, <2>2 DEF Owner, Kept
<1>4. CASE UNCHANGED vars
  BY <1>1, <1>4 DEF vars, files, locals, Owner, Creating, Holding, Kept, Active, Moved, Mine, Fresh
<1>. QED BY <1>2, <1>3, <1>4 DEF Next, Acts

LEMMA FencedInit == Init => Fenced!Init
<1> SUFFICES ASSUME Init PROVE Fenced!Init
  OBVIOUS
<1>1. Passing = {} /\ Latest = {}
  BY DEF Init, Passing, Passes, Latest
<1>. QED BY <1>1 DEF Fenced!Init, holderMap, lastMap, tokenMap, lastToken, OneOf

LEMMA FencedNext ==
  ASSUME Timely, IInv, IInv', [Next]_vars, ~crossed'
  PROVE  Fenced!Next
<1>1. CASE \E c \in Chain : WriteLock(c)
  BY <1>1, WriteIsGrant
<1>2. CASE ~\E c \in Chain : WriteLock(c)
  <2>1. tok' = tok
    <3>1. ASSUME NEW c \in Chain, Acts(c) PROVE tok' = tok
      BY <1>2, <3>1, TokenSteps DEF IInv
    <3>2. CASE Tick \/ UNCHANGED vars
      BY <3>2 DEF Tick, vars, locals
    <3>. QED BY <3>1, <3>2 DEF Next, Acts
  <2>. QED BY <1>2, <2>1, PassersOwned, PlainStep
<1>. QED BY <1>1, <1>2

(* The lock file is a fenced lease: a claim that prints its token is a     *)
(* grant with a larger one while nobody holds the key, and every other     *)
(* step renews the last grant or lets it lapse, as long as no operation    *)
(* straddles a tick and until one of the protocol's windows is hit.        *)
THEOREM LockFileIsFenced ==
  ASSUME Timely
  PROVE  Spec => ImplementsFencedLease
<1>1. Init => Fenced!Init
  BY FencedInit
<1>2. Sound /\ Sound' /\ [Next]_vars => [crossed' \/ Fenced!Next]_(Fenced!vars)
  <2> SUFFICES ASSUME Sound, Sound', [Next]_vars, ~crossed' PROVE Fenced!Next
    OBVIOUS
  <2>1. IInv /\ IInv'
    BY CrossedStays DEF Sound
  <2>. QED BY <2>1, FencedNext
<1>3. Spec => []Sound
  BY LeaseInvariance
<1>. QED BY <1>1, <1>2, <1>3, PTL DEF Spec, ImplementsFencedLease
=============================================================================
