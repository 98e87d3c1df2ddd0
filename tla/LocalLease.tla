----------------------------- MODULE LocalLease -----------------------------
(***************************************************************************)
(* The single-writer fallback of the lease: the lock file protocol of      *)
(* .factory/factory-lease.sh (_lease_sw_claim, _lease_sw_hb,               *)
(* _lease_sw_release, _lease_sw_fence) on one key, between chains of one   *)
(* machine.  A step is one file system operation on the lock: its content  *)
(* is read in one step and its mtime in another, whatever file has the     *)
(* name by then.  Operations that nobody can come between are merged: the  *)
(* [ -f ] before a read that fails on a missing file; reading, judging and *)
(* linking a tomb or a .stale file, which nobody writes and which has a    *)
(* name of its own; and truncating and writing a file, but for a kill      *)
(* between the two.  A chain claims once, beats, and releases once; its    *)
(* heartbeat is a second process that outlives a killed chain.             *)
(*                                                                         *)
(* The machine id is the same for all, so a token is its epoch.  A file is *)
(* its epoch (0: content that does not parse, such as the empty file of a  *)
(* claim under way) and its mtime; a hard link copies both.  Failures of   *)
(* the file system itself (full disk, permissions) are left out.           *)
(*                                                                         *)
(* The protocol has four windows in which one chain's operation lands on   *)
(* another's lock.  The history variable crossed says that one was hit:    *)
(*   - a heartbeat that read its own token judged the age of the lock that *)
(*     replaced it (HbStat);                                               *)
(*   - a claim created the lock while another one, still fresh, was moved  *)
(*     away and not put back (CreateLock);                                 *)
(*   - a release moved away a lock that was not its own (Bury);            *)
(*   - a claim was killed between truncating the counter and writing it    *)
(*     (KillChain).                                                        *)
(* The properties are about the behaviours before that.                    *)
(***************************************************************************)
EXTENDS Naturals, FiniteSets

CONSTANTS Chain,
          NoFile,      \* no file under that name
          LeaseSecs,   \* FACTORY_LEASE_SECS
          MaxTime,     \* bound on the clock
          Timely,      \* TRUE: no operation straddles a tick of the clock
          Crashes      \* TRUE: a chain or heartbeat may be killed (SIGKILL)

ASSUME LocalAssumption ==
  /\ LeaseSecs \in Nat \ {0} /\ MaxTime \in Nat
  /\ {Timely, Crashes} \subseteq BOOLEAN
  /\ NoFile \notin [epoch : Nat, mtime : Nat]

VARIABLES lock,    \* <key>.lock
          ctr,     \* <key>.epoch
          tomb,    \* tomb[c]: c's <key>.lock.rel.*
          stale,   \* stale[c]: c's <key>.lock.stale.*
          pc,      \* where c's claim or release stands
          hb,      \* where c's heartbeat stands
          fence,   \* where a fence check of c stands
          tok,     \* tok[c]: the epoch c's claim printed, 0 before
          held,    \* held[c]: the epoch c read from the lock it takes over
          new,     \* new[c]: the epoch c is about to write
          todo,    \* todo[c]: the tombs c's claim has yet to look at
          crossed, \* history: one of the windows above was hit
          now

files == <<lock, ctr, tomb, stale>>
locals == <<tok, held, new, todo, fence, crossed>>
vars == <<files, pc, hb, locals, now>>

Init == /\ lock = NoFile /\ ctr = 0 /\ now = 0
        /\ tomb = [c \in Chain |-> NoFile] /\ stale = [c \in Chain |-> NoFile]
        /\ pc = [c \in Chain |-> "idle"] /\ hb = [c \in Chain |-> "off"]
        /\ tok = [c \in Chain |-> 0] /\ held = [c \in Chain |-> 0]
        /\ new = [c \in Chain |-> 0] /\ todo = [c \in Chain |-> {}]
        /\ fence = [c \in Chain |-> "off"] /\ crossed = FALSE

File(e) == [epoch |-> e, mtime |-> now]
Fresh(f) == f # NoFile /\ f.mtime + LeaseSecs > now
Readable(f) == f # NoFile /\ f.epoch # 0
Mine(c, f) == f # NoFile /\ f.epoch = tok[c]

(* ln: puts a file back under the lock's name unless one is there.         *)
Linked(f) == IF lock = NoFile THEN f ELSE lock

Goto(c, from, to) == pc[c] = from /\ pc' = [pc EXCEPT ![c] = to]

-----------------------------------------------------------------------------
(* _lease_sw_claim: the tomb loop puts back a fresh lock a killed release  *)
(* left in its tomb, and removes what is expired or unreadable.            *)

StartClaim(c) ==
  /\ Goto(c, "idle", "scan")
  /\ todo' = [todo EXCEPT ![c] = {d \in Chain : tomb[d] # NoFile}]
  /\ UNCHANGED <<files, hb, tok, held, new, fence, crossed, now>>

ScanTomb(c, d) ==
  /\ d \in todo[c]
  /\ \/ /\ Readable(tomb[d]) /\ Fresh(tomb[d])
        /\ Goto(c, "scan", "link") /\ UNCHANGED <<tomb, todo>>
        /\ lock' = Linked(tomb[d])
     \/ /\ ~(Readable(tomb[d]) /\ Fresh(tomb[d]))
        /\ pc[c] = "scan" /\ UNCHANGED <<pc, lock>>
        /\ tomb' = [tomb EXCEPT ![d] = NoFile]
        /\ todo' = [todo EXCEPT ![c] = @ \ {d}]
  /\ UNCHANGED <<ctr, stale, hb, tok, held, new, fence, crossed, now>>

(* The rm that follows the ln of _lease_sw_restore.                        *)
DropTomb(c, d) ==
  /\ d \in todo[c] /\ Goto(c, "link", "scan")
  /\ tomb' = [tomb EXCEPT ![d] = NoFile]
  /\ todo' = [todo EXCEPT ![c] = @ \ {d}]
  /\ UNCHANGED <<lock, ctr, stale, hb, tok, held, new, fence, crossed, now>>

(* No lock: create one.                                                    *)
SeeLock(c) ==
  /\ todo[c] = {}
  /\ \/ lock = NoFile /\ Goto(c, "scan", "create") /\ held' = [held EXCEPT ![c] = 0]
     \/ lock # NoFile /\ Goto(c, "scan", "read") /\ UNCHANGED held
  /\ UNCHANGED <<files, hb, tok, new, todo, fence, crossed, now>>

(* Mutant: held is not reset to 0 where there is nothing to read.          *)
ReadLockNoReset(c) ==
  /\ Goto(c, "read", "stat")
  /\ held' = [held EXCEPT ![c] = IF lock = NoFile THEN NoFile ELSE lock.epoch]
  /\ UNCHANGED <<files, hb, tok, new, todo, fence, crossed, now>>

ReadLock(c) ==
  /\ Goto(c, "read", "stat")
  /\ held' = [held EXCEPT ![c] = IF lock = NoFile THEN 0 ELSE lock.epoch]
  /\ UNCHANGED <<files, hb, tok, new, todo, fence, crossed, now>>

(* The lock is fresh, or gone: refused.  Expired: take it over.            *)
StatLock(c) ==
  /\ \/ (lock = NoFile \/ Fresh(lock)) /\ Goto(c, "stat", "refused")
     \/ lock # NoFile /\ ~Fresh(lock) /\ Goto(c, "stat", "take")
  /\ UNCHANGED <<files, hb, locals, now>>

(* mv lock lock.stale.*: one of several claimers gets it.                  *)
TakeLock(c) ==
  /\ \/ lock = NoFile /\ Goto(c, "take", "refused") /\ UNCHANGED <<lock, stale>>
     \/ /\ lock # NoFile /\ Goto(c, "take", "taken")
        /\ stale' = [stale EXCEPT ![c] = lock] /\ lock' = NoFile
  /\ UNCHANGED <<ctr, tomb, hb, locals, now>>

(* What was moved may be a lock that is fresh by now: put it back.         *)
RecheckTaken(c) ==
  /\ \/ Fresh(stale[c]) /\ Goto(c, "taken", "putback") /\ lock' = Linked(stale[c])
        /\ UNCHANGED stale
     \/ ~Fresh(stale[c]) /\ Goto(c, "taken", "create") /\ UNCHANGED lock
        /\ stale' = [stale EXCEPT ![c] = NoFile]
  /\ UNCHANGED <<ctr, tomb, hb, locals, now>>

DropTaken(c) ==
  /\ Goto(c, "putback", "refused")
  /\ stale' = [stale EXCEPT ![c] = NoFile]
  /\ UNCHANGED <<lock, ctr, tomb, hb, locals, now>>

(* A fresh lock is under a .stale name and will not be, or is not yet, put *)
(* back.                                                                   *)
MovedAway == \E d \in Chain : Fresh(stale[d]) /\ pc[d] # "putback"

(* Mutant: without noclobber an existing lock is truncated.                *)
CreateLockClobber(c) ==
  /\ Goto(c, "create", "count") /\ lock' = File(0)
  /\ crossed' = (crossed \/ (lock = NoFile /\ MovedAway))
  /\ UNCHANGED <<ctr, tomb, stale, hb, tok, held, new, todo, fence, now>>

(* set -C; : > lock: an empty file, created by one claimer only.           *)
CreateLock(c) ==
  /\ \/ lock # NoFile /\ Goto(c, "create", "refused") /\ UNCHANGED <<lock, crossed>>
     \/ lock = NoFile /\ Goto(c, "create", "count") /\ lock' = File(0)
        /\ crossed' = (crossed \/ MovedAway)
  /\ UNCHANGED <<ctr, tomb, stale, hb, tok, held, new, todo, fence, now>>

(* Mutant: the epoch follows the lock taken over, not the counter.         *)
ReadCounterForgets(c) ==
  /\ Goto(c, "count", "store")
  /\ new' = [new EXCEPT ![c] = held[c] + 1]
  /\ UNCHANGED <<files, hb, tok, held, todo, fence, crossed, now>>

ReadCounter(c) ==
  /\ Goto(c, "count", "store")
  /\ new' = [new EXCEPT ![c] = (IF held[c] > ctr THEN held[c] ELSE ctr) + 1]
  /\ UNCHANGED <<files, hb, tok, held, todo, fence, crossed, now>>

StoreCounter(c) ==
  /\ Goto(c, "store", "write")
  /\ ctr' = new[c]
  /\ UNCHANGED <<lock, tomb, stale, hb, locals, now>>

(* The content goes to whatever file has the lock's name by now; the claim *)
(* prints its epoch and the chain starts its heartbeat.                    *)
WriteLock(c) ==
  /\ Goto(c, "write", "held")
  /\ lock' = File(new[c])
  /\ tok' = [tok EXCEPT ![c] = new[c]]
  /\ hb' = [hb EXCEPT ![c] = "wait"]
  /\ UNCHANGED <<ctr, tomb, stale, held, new, todo, fence, crossed, now>>

-----------------------------------------------------------------------------
(* _lease_sw_hb.                                                           *)

HbRead(c) ==
  /\ hb[c] = "wait"
  /\ hb' = [hb EXCEPT ![c] = IF Mine(c, lock) THEN "stat" ELSE "lost"]
  /\ UNCHANGED <<files, pc, locals, now>>

(* Mutant: an expired lease is renewed.                                    *)
HbStatExpired(c) ==
  /\ hb[c] = "stat"
  /\ hb' = [hb EXCEPT ![c] = IF lock # NoFile THEN "move" ELSE "lost"]
  /\ crossed' = (crossed \/ (Fresh(lock) /\ ~Mine(c, lock)))
  /\ UNCHANGED <<files, pc, tok, held, new, todo, fence, now>>

HbStat(c) ==
  /\ hb[c] = "stat"
  /\ hb' = [hb EXCEPT ![c] = IF Fresh(lock) THEN "move" ELSE "lost"]
  /\ crossed' = (crossed \/ (Fresh(lock) /\ ~Mine(c, lock)))
  /\ UNCHANGED <<files, pc, tok, held, new, todo, fence, now>>

(* mv -f tmp lock replaces whatever is there.  "orphan": the mv of a       *)
(* heartbeat that was killed after it started it.                          *)
HbMove(c) ==
  /\ hb[c] \in {"move", "orphan"}
  /\ lock' = File(tok[c])
  /\ hb' = [hb EXCEPT ![c] = IF @ = "move" THEN "touch" ELSE "off"]
  /\ UNCHANGED <<ctr, tomb, stale, pc, locals, now>>

(* touch creates a file that is not there.  "late": the touch of a killed  *)
(* heartbeat.                                                              *)
HbTouch(c) ==
  /\ hb[c] \in {"touch", "late"}
  /\ lock' = IF lock = NoFile THEN File(0) ELSE [lock EXCEPT !.mtime = now]
  /\ hb' = [hb EXCEPT ![c] = IF @ = "touch" THEN "wait" ELSE "off"]
  /\ UNCHANGED <<ctr, tomb, stale, pc, locals, now>>

-----------------------------------------------------------------------------
(* _lease_sw_fence of a chain that works: it passes when the age it judges *)
(* is that of a fresh lock.                                                *)

FenceRead(c) ==
  /\ pc[c] = "held" /\ fence[c] = "off" /\ Mine(c, lock)
  /\ fence' = [fence EXCEPT ![c] = "stat"]
  /\ UNCHANGED <<files, pc, hb, tok, held, new, todo, crossed, now>>

FenceStat(c) ==
  /\ fence[c] = "stat"
  /\ fence' = [fence EXCEPT ![c] = "off"]
  /\ UNCHANGED <<files, pc, hb, tok, held, new, todo, crossed, now>>

FencePasses(c) == FenceStat(c) /\ Fresh(lock)

-----------------------------------------------------------------------------
(* lease_cleanup and _lease_sw_release.                                    *)

(* A killed shell leaves the mv or touch it has started.                   *)
StopHb(c) ==
  \/ hb' = [hb EXCEPT ![c] = "off"]
  \/ hb[c] \in {"move", "orphan"} /\ hb' = [hb EXCEPT ![c] = "orphan"]
  \/ hb[c] \in {"touch", "late"} /\ hb' = [hb EXCEPT ![c] = "late"]

StartRelease(c) ==
  /\ Goto(c, "held", "verify")
  /\ StopHb(c)
  /\ fence' = [fence EXCEPT ![c] = "off"]
  /\ UNCHANGED <<files, tok, held, new, todo, crossed, now>>

VerifyRelease(c) ==
  /\ \/ Mine(c, lock) /\ Goto(c, "verify", "bury")
     \/ ~Mine(c, lock) /\ Goto(c, "verify", "done")
  /\ UNCHANGED <<files, hb, locals, now>>

(* mv lock lock.rel.*: nobody else can remove it under this name.          *)
Bury(c) ==
  /\ \/ lock = NoFile /\ Goto(c, "bury", "done") /\ UNCHANGED <<lock, tomb, crossed>>
     \/ /\ lock # NoFile /\ Goto(c, "bury", "buried")
        /\ tomb' = [tomb EXCEPT ![c] = lock] /\ lock' = NoFile
        /\ crossed' = (crossed \/ ~Mine(c, lock))
  /\ UNCHANGED <<ctr, stale, hb, tok, held, new, todo, fence, now>>

(* The tomb is read again: still mine, or unreadable, is removed; another  *)
(* chain's lock is put back.                                               *)
RecheckTomb(c) ==
  /\ Goto(c, "buried", "clear")
  /\ lock' = IF Readable(tomb[c]) /\ ~Mine(c, tomb[c]) THEN Linked(tomb[c]) ELSE lock
  /\ UNCHANGED <<ctr, tomb, stale, hb, locals, now>>

ClearTomb(c) ==
  /\ Goto(c, "clear", "done")
  /\ tomb' = [tomb EXCEPT ![c] = NoFile]
  /\ UNCHANGED <<lock, ctr, stale, hb, locals, now>>

-----------------------------------------------------------------------------

(* SIGKILL.  The heartbeat is a process of its own and stays.  A claim     *)
(* killed as it writes the counter may leave it empty, which counts as 0.  *)
KillChain(c) ==
  /\ Crashes /\ pc[c] \notin {"idle", "refused", "done", "dead"}
  /\ pc' = [pc EXCEPT ![c] = "dead"]
  /\ fence' = [fence EXCEPT ![c] = "off"]
  /\ \/ UNCHANGED <<ctr, crossed>>
     \/ pc[c] = "store" /\ ctr' = 0 /\ crossed' = TRUE
  /\ UNCHANGED <<lock, tomb, stale, hb, tok, held, new, todo, now>>

KillHb(c) ==
  /\ Crashes /\ hb[c] # "off"
  /\ StopHb(c)
  /\ UNCHANGED <<files, pc, locals, now>>

Resting(c) == /\ pc[c] \in {"idle", "refused", "held", "done", "dead"}
              /\ hb[c] \in {"off", "wait", "lost"} /\ fence[c] = "off"

Tick == /\ now < MaxTime
        /\ Timely => \A c \in Chain : Resting(c)
        /\ now' = now + 1
        /\ UNCHANGED <<files, pc, hb, locals>>

Claim(c) == \/ StartClaim(c)
            \/ \E d \in Chain : ScanTomb(c, d)
            \/ \E d \in Chain : DropTomb(c, d)
            \/ SeeLock(c)
            \/ ReadLock(c)
            \/ StatLock(c)
            \/ TakeLock(c)
            \/ RecheckTaken(c)
            \/ DropTaken(c)
            \/ CreateLock(c)
            \/ ReadCounter(c)
            \/ StoreCounter(c)
            \/ WriteLock(c)

Heartbeat(c) == HbRead(c) \/ HbStat(c) \/ HbMove(c) \/ HbTouch(c)

Fence(c) == FenceRead(c) \/ FenceStat(c)

Release(c) == \/ StartRelease(c)
              \/ VerifyRelease(c)
              \/ Bury(c)
              \/ RecheckTomb(c)
              \/ ClearTomb(c)

Next == \/ \E c \in Chain : \/ Claim(c) \/ Heartbeat(c) \/ Fence(c) \/ Release(c)
                            \/ KillChain(c) \/ KillHb(c)
        \/ Tick

Spec == Init /\ [][Next]_vars
-----------------------------------------------------------------------------

FileType == [epoch : Nat, mtime : Nat] \cup {NoFile}

TypeOK ==
  /\ lock \in FileType /\ ctr \in Nat /\ now \in Nat
  /\ tomb \in [Chain -> FileType] /\ stale \in [Chain -> FileType]
  /\ pc \in [Chain -> {"idle", "scan", "link", "read", "stat", "take", "taken", "putback", "create",
                       "count", "store", "write", "refused", "held", "verify",
                       "bury", "buried", "clear", "done", "dead"}]
  /\ hb \in [Chain -> {"off", "wait", "stat", "move", "touch", "orphan", "late", "lost"}]
  /\ tok \in [Chain -> Nat] /\ held \in [Chain -> Nat] /\ new \in [Chain -> Nat]
  /\ todo \in [Chain -> SUBSET Chain]
  /\ fence \in [Chain -> {"off", "stat"}] /\ crossed \in BOOLEAN

(* A fence that c begins now would pass.                                   *)
Passes(c) == pc[c] = "held" /\ Mine(c, lock) /\ Fresh(lock)

(* Until one of the windows is hit no two claims print the same epoch: the *)
(* counter outlives the lock file and O_EXCL lets one claimer at a time    *)
(* raise it.                                                               *)
OneChainPerToken == ~crossed => \A c, d \in Chain : tok[c] # 0 /\ tok[c] = tok[d] => c = d

(* A token is dead once a larger one was printed ("fencing token never     *)
(* comes back to life"): until one of the windows is hit, a fence that     *)
(* begins later does not pass, for it does not find the token in the lock. *)
SupersededNeverPasses ==
  [][\A c, d \in Chain : ~crossed' /\ fence[c] = "off" /\ fence'[c] = "stat" => tok[d] <= tok[c]]_vars

(* Until one of the windows is hit the counter never falls.                *)
CounterNeverFalls == [][crossed' \/ ctr' >= ctr]_vars

(* Until one of the windows is hit, the lock file is a FencedLease.        *)
NoOne == "no one"
OneOf(S) == IF S = {} THEN NoOne ELSE CHOOSE c \in S : TRUE
Passing == {c \in Chain : Passes(c)}
Latest == {c \in Chain : tok[c] # 0 /\ \A d \in Chain : tok[d] <= tok[c]}
lastToken == IF Latest = {} THEN 0 ELSE tok[OneOf(Latest)]
holderMap == [k \in {"key"} |-> OneOf(Passing)]
lastMap == [k \in {"key"} |-> OneOf(Latest)]
tokenMap == [k \in {"key"} |-> lastToken]
Fenced == INSTANCE FencedLease
  WITH Key <- {"key"}, Client <- Chain, holder <- holderMap, last <- lastMap, token <- tokenMap
ImplementsFencedLease == Fenced!Init /\ [][crossed' \/ Fenced!Next]_(Fenced!vars)

-----------------------------------------------------------------------------
(* What the comments of factory-lease.sh say and the code does not keep;   *)
(* no run lists these.                                                     *)

(* Line 176, fencing tokens are monotone: two claims never print one       *)
(* token, whatever happened before.                                        *)
TokensAreUnique == \A c, d \in Chain : tok[c] # 0 /\ tok[c] = tok[d] => c = d

(* Line 213, a fence answers 1 once the lease was taken: only the newest   *)
(* token passes.  The age judged may be that of the lock that replaced the *)
(* token's own.                                                            *)
OnlyNewestPasses == [][\A c, d \in Chain : FencePasses(c) => tok[d] <= tok[c]]_vars

(* Line 198, what ran out must not be revived: the token of a chain that   *)
(* works does not come back into the lock after a larger one was printed.  *)
OldTokenStaysAway ==
  [][\A c, d \in Chain : pc[c] = "held" /\ Mine(c, lock)' /\ ~Mine(c, lock) => tok[d] <= tok[c]]_vars
=============================================================================
