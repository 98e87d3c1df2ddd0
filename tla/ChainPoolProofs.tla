-------------------------- MODULE ChainPoolProofs --------------------------
(***************************************************************************)
(* What holds of a dispatcher's pool for any dispatchers, issues, slots    *)
(* and failing heartbeats, wherever signals fall: the slots are respected, *)
(* and the lock is released over a reaped pool.  The argument is one of    *)
(* book-keeping: every chain that runs is in its dispatcher's pool, or it  *)
(* was just started and is about to be appended.                           *)
(***************************************************************************)
EXTENDS ChainPool, FiniteSetTheorems, TLAPS

Kept(d) == pool[d] \cup fresh[d]

(* What runs is on the dispatcher's list.                                  *)
Recorded == \A c \in Chain : Running(c) => c[2] \in Kept(c[1])

(* Who works has the lock.                                                 *)
HolderWorks == \A d \in Dispatcher : Alive(d) => lock = d

(* How full the list is, by where the dispatcher stands.                   *)
Room(d) ==
  /\ disp[d] \in {"off", "locked"} => Kept(d) = {}
  /\ disp[d] \in {"up", "spawn", "drain"} => Cardinality(pool[d]) < MaxParallel
  /\ disp[d] \in {"up", "full", "drain"} => fresh[d] = {}
  /\ disp[d] = "spawn" => \E i \in Issue : fresh[d] = {i}
  /\ disp[d] = "release" => pool[d] = {}
  /\ IsFiniteSet(Kept(d)) /\ Cardinality(Kept(d)) <= MaxParallel

IInv == TypeOK /\ Recorded /\ HolderWorks /\ \A d \in Dispatcher : Room(d)

-----------------------------------------------------------------------------
(* Types.                                                                  *)

Place == {"off", "locked", "up", "spawn", "full", "drain", "term", "grace", "kill",
          "release", "dead"}

LEMMA ChainPairs ==
  /\ \A c \in Chain : c[1] \in Dispatcher /\ c[2] \in Issue /\ c = <<c[1], c[2]>>
  /\ \A d \in Dispatcher, i \in Issue : <<d, i>> \in Chain
BY DEF Chain

LEMMA TypeInit == Init => TypeOK
BY DEF Init, TypeOK

LEMMA TypeNext == TypeOK /\ [Next]_vars => TypeOK'
<1> SUFFICES ASSUME TypeOK, [Next]_vars PROVE TypeOK'
  OBVIOUS
<1> USE ChainPairs
<1>1. ASSUME NEW d \in Dispatcher, Acquire(d) \/ InstallHandlers(d) PROVE TypeOK'
  BY <1>1 DEF TypeOK, Acquire, InstallHandlers, Move
<1>2. ASSUME NEW d \in Dispatcher, NEW i \in Issue, Popen(d, i) PROVE TypeOK'
  BY <1>2 DEF TypeOK, Popen, Move, Set
<1>3. ASSUME NEW d \in Dispatcher, Append(d) PROVE TypeOK'
  <2>1. /\ pool' = [pool EXCEPT ![d] = @ \cup fresh[d]]
        /\ fresh' = [fresh EXCEPT ![d] = {}]
        /\ disp' = [disp EXCEPT ![d] = "full"] \/ disp' = [disp EXCEPT ![d] = "up"]
        /\ UNCHANGED <<lock, chain, term, hb>>
    BY <1>3 DEF Append, Move, AfterSpawn
  <2>. QED BY <2>1 DEF TypeOK
<1>4. ASSUME NEW d \in Dispatcher, Reap(d) \/ GraceEnds(d) PROVE TypeOK'
  BY <1>4 DEF TypeOK, Reap, GraceEnds, Move, Reaped
<1>5. ASSUME NEW d \in Dispatcher, Drain(d) \/ EndRound(d) PROVE TypeOK'
  BY <1>5 DEF TypeOK, Drain, EndRound, Move
<1>6. ASSUME NEW d \in Dispatcher, Terminate(d) \/ Release(d) PROVE TypeOK'
  BY <1>6 DEF TypeOK, Terminate, Release, Move
<1>7. ASSUME NEW d \in Dispatcher, Kill(d) PROVE TypeOK'
  <2>1. CASE \E i \in pool[d] :
               /\ disp[d] = "kill" /\ UNCHANGED disp
               /\ Set(<<d, i>>, IF Running(<<d, i>>) THEN "killed" ELSE chain[<<d, i>>])
               /\ pool' = [pool EXCEPT ![d] = @ \ {i}]
    <3>1. PICK i \in pool[d] :
            /\ chain' = [chain EXCEPT ![<<d, i>>] = "killed"] \/ UNCHANGED chain
            /\ pool' = [pool EXCEPT ![d] = pool[d] \ {i}]
      BY <2>1 DEF TypeOK, Set
    <3>2. UNCHANGED <<disp, lock, fresh, term, hb>>
      BY <1>7, <2>1 DEF Kill
    <3>. QED BY <3>1, <3>2 DEF TypeOK
  <2>2. CASE pool[d] = {} /\ Move(d, "kill", "release") /\ UNCHANGED <<chain, pool>>
    BY <1>7, <2>2 DEF TypeOK, Kill, Move
  <2>. QED BY <1>7, <2>1, <2>2 DEF Kill
<1>8. ASSUME NEW d \in Dispatcher, StopDispatcher(d) PROVE TypeOK'
  BY <1>8 DEF TypeOK, StopDispatcher, OnTerm
<1>9. ASSUME NEW c \in Chain, Work(c) \/ KillChain(c) \/ BeatParentless(c) PROVE TypeOK'
  BY <1>9 DEF TypeOK, Work, EarlyExit, ClaimLease, InstallTrap, Finish, CleanUp, TakeTerm,
              KillChain, BeatParentless, Set
<1>10. ASSUME NEW c \in Chain, BeatFails(c) PROVE TypeOK'
  <2>1. PICK to \in {"dead", "term"} : disp' = [disp EXCEPT ![c[1]] = to]
    BY <1>10 DEF BeatFails, OnTerm, Parent
  <2>2. hb' = [hb EXCEPT ![c] = "lost"] /\ UNCHANGED <<lock, pool, fresh, chain, term>>
    BY <1>10 DEF BeatFails
  <2>. QED BY <2>1, <2>2 DEF TypeOK
<1>11. CASE UNCHANGED vars
  BY <1>11 DEF TypeOK, vars
<1>. QED
  BY <1>1, <1>2, <1>3, <1>4, <1>5, <1>6, <1>7, <1>8, <1>9, <1>10, <1>11 DEF Next, Round, Shutdown

(* The variables keep their types.                                         *)
THEOREM PoolTypeCorrect == Spec => []TypeOK
BY TypeInit, TypeNext, PTL DEF Spec

-----------------------------------------------------------------------------
(* Steps that leave the dispatchers alone, and steps that only move one.   *)

(* A chain that runs after a step of a chain ran before it.                *)
LEMMA ChainSteps ==
  ASSUME TypeOK, NEW c \in Chain, Work(c) \/ KillChain(c) \/ BeatParentless(c)
  PROVE  /\ UNCHANGED <<disp, lock, pool, fresh>>
         /\ \A x \in Chain : Running(x)' => Running(x)
BY DEF TypeOK, Work, EarlyExit, ClaimLease, InstallTrap, Finish, CleanUp, TakeTerm, KillChain,
       BeatParentless, Set, Running

LEMMA PoolCounted ==
  ASSUME IInv, NEW d \in Dispatcher
  PROVE  IsFiniteSet(pool[d]) /\ Cardinality(pool[d]) \in Nat
<1>1. IsFiniteSet(Kept(d)) /\ pool[d] \in SUBSET Kept(d)
  BY DEF IInv, Room, Kept
<1>2. IsFiniteSet(pool[d])
  BY <1>1, FS_Subset
<1>. QED BY <1>2, FS_CardinalityType

(* A signal, or a step within the round, that changes no list.             *)
LEMMA Moves ==
  ASSUME IInv, NEW d \in Dispatcher, NEW to \in Place,
         disp' = [disp EXCEPT ![d] = to], UNCHANGED <<lock, pool, fresh, chain>>,
         disp[d] \notin {"off", "dead"},
         \/ to \in {"dead", "term", "grace"}
         \/ disp[d] = "locked" /\ to = "up"
         \/ disp[d] = "up" /\ to = "drain"
         \/ disp[d] = "drain" /\ to = "up"
         \/ disp[d] = "kill" /\ to = "release" /\ pool[d] = {}
  PROVE  Recorded' /\ HolderWorks' /\ \A e \in Dispatcher : Room(e)'
<1>1. Recorded'
  BY DEF IInv, Recorded, Running, Kept
<1>2. HolderWorks'
  BY DEF IInv, TypeOK, HolderWorks, Alive
<1>3. \A e \in Dispatcher : Kept(e)' = Kept(e)
  BY DEF Kept
<1>4. disp[d] = "locked" => Cardinality(pool[d]) < MaxParallel /\ fresh[d] = {}
  <2>1. disp[d] = "locked" => pool[d] = {} /\ fresh[d] = {}
    BY DEF IInv, Room, Kept
  <2>. QED BY <2>1, FS_EmptySet, PoolAssumption
<1>5. ASSUME NEW e \in Dispatcher PROVE Room(e)'
  <2>1. CASE e = d
    BY <1>3, <1>4, <2>1 DEF IInv, TypeOK, Room
  <2>2. CASE e # d
    BY <1>3, <2>2 DEF IInv, TypeOK, Room
  <2>. QED BY <2>1, <2>2
<1>. QED BY <1>1, <1>2, <1>5

(* The list of one dispatcher shrinks by chains that no longer run.        *)
LEMMA Shrinks ==
  ASSUME IInv, NEW d \in Dispatcher, NEW S \in SUBSET pool[d],
         pool' = [pool EXCEPT ![d] = S], UNCHANGED <<lock, fresh>>,
         \A c \in Chain : Running(c)' => Running(c) /\ (c[1] = d => c[2] \in S \cup fresh[d]),
         \/ UNCHANGED disp
         \/ disp[d] = "full" /\ disp' = [disp EXCEPT ![d] = "up"] /\ Cardinality(S) < MaxParallel
         \/ disp[d] = "grace" /\ disp' = [disp EXCEPT ![d] = "kill"],
         disp[d] \in {"full", "drain", "grace", "kill"}
  PROVE  Recorded' /\ HolderWorks' /\ \A e \in Dispatcher : Room(e)'
<1>1. Recorded'
  <2>1. SUFFICES ASSUME NEW c \in Chain, Running(c)' PROVE c[2] \in Kept(c[1])'
    BY DEF Recorded
  <2>2. CASE c[1] = d
    BY <2>1, <2>2 DEF IInv, TypeOK, Kept
  <2>3. CASE c[1] # d
    BY <2>1, <2>3, ChainPairs DEF IInv, TypeOK, Recorded, Kept
  <2>. QED BY <2>2, <2>3
<1>2. HolderWorks'
  BY DEF IInv, TypeOK, HolderWorks, Alive
<1>3. Kept(d)' = S \cup fresh[d] /\ Kept(d)' \subseteq Kept(d)
  BY DEF IInv, TypeOK, Kept
<1>4. IsFiniteSet(Kept(d)') /\ Cardinality(Kept(d)') <= MaxParallel
  <2>1. /\ IsFiniteSet(Kept(d)') /\ Cardinality(Kept(d)') <= Cardinality(Kept(d))
        /\ Cardinality(Kept(d)') \in Nat /\ Cardinality(Kept(d)) \in Nat
    BY <1>3, FS_Subset, FS_CardinalityType DEF IInv, Room
  <2>. QED BY <2>1, PoolAssumption DEF IInv, Room
<1>5. disp[d] = "drain" => Cardinality(S) < MaxParallel
  <2>1. IsFiniteSet(pool[d]) /\ Cardinality(pool[d]) \in Nat
    BY PoolCounted
  <2>2. IsFiniteSet(S) /\ Cardinality(S) <= Cardinality(pool[d])
    BY <2>1, FS_Subset
  <2>3. Cardinality(S) \in Nat
    BY <2>2, FS_CardinalityType
  <2>. QED BY <2>1, <2>2, <2>3, PoolAssumption DEF IInv, Room
<1>6. ASSUME NEW e \in Dispatcher PROVE Room(e)'
  <2>1. CASE e = d
    BY <1>3, <1>4, <1>5, <2>1 DEF IInv, TypeOK, Room
  <2>2. CASE e # d
    BY <2>2 DEF IInv, TypeOK, Room, Kept
  <2>. QED BY <2>1, <2>2
<1>. QED BY <1>1, <1>2, <1>6

-----------------------------------------------------------------------------

LEMMA InitIInv == Init => IInv
<1> SUFFICES ASSUME Init PROVE IInv
  OBVIOUS
<1>1. Recorded /\ HolderWorks
  BY DEF Init, Recorded, HolderWorks, Running, Alive
<1>2. \A d \in Dispatcher : Kept(d) = {} /\ pool[d] = {} /\ disp[d] = "off"
  BY DEF Init, Kept
<1>3. \A d \in Dispatcher : Room(d)
  BY <1>2, FS_EmptySet, PoolAssumption DEF Room
<1>. QED BY <1>1, <1>3, TypeInit DEF IInv

LEMMA NextIInv == IInv /\ [Next]_vars => IInv'
<1> SUFFICES ASSUME IInv, [Next]_vars PROVE Recorded' /\ HolderWorks' /\ \A e \in Dispatcher : Room(e)'
  BY TypeNext DEF IInv
<1> USE ChainPairs
<1>0. TypeOK
  BY DEF IInv
<1>1. ASSUME NEW d \in Dispatcher, Acquire(d)
      PROVE  Recorded' /\ HolderWorks' /\ \A e \in Dispatcher : Room(e)'
  <2>1. /\ disp[d] = "off" /\ disp' = [disp EXCEPT ![d] = "locked"]
        /\ lock # Free => ~Alive(lock)
        /\ lock' = d /\ UNCHANGED <<pool, fresh, chain>>
    BY <1>1 DEF Acquire, Move
  <2>2. Recorded'
    BY <2>1 DEF IInv, Recorded, Running, Kept
  <2>3. \A e \in Dispatcher : ~Alive(e)
    BY <2>1, PoolAssumption DEF IInv, HolderWorks
  <2>4. HolderWorks'
    BY <1>0, <2>1, <2>3 DEF TypeOK, HolderWorks, Alive
  <2>5. ASSUME NEW e \in Dispatcher PROVE Room(e)'
    BY <1>0, <2>1 DEF IInv, TypeOK, Room, Kept
  <2>. QED BY <2>2, <2>4, <2>5
<1>2. ASSUME NEW d \in Dispatcher, InstallHandlers(d) \/ Drain(d) \/ EndRound(d)
      PROVE  Recorded' /\ HolderWorks' /\ \A e \in Dispatcher : Room(e)'
  <2>1. PICK to \in {"up", "drain", "term"} :
          /\ disp' = [disp EXCEPT ![d] = to] /\ UNCHANGED <<lock, pool, fresh, chain>>
          /\ \/ disp[d] = "locked" /\ to = "up"
             \/ disp[d] = "up" /\ to = "drain"
             \/ disp[d] = "drain" /\ to \in {"up", "term"}
    BY <1>2 DEF InstallHandlers, Drain, EndRound, Move
  <2>. QED BY <2>1, Moves DEF Place
<1>3. ASSUME NEW d \in Dispatcher, NEW i \in Issue, Popen(d, i)
      PROVE  Recorded' /\ HolderWorks' /\ \A e \in Dispatcher : Room(e)'
  <2>1. /\ disp[d] = "up" /\ disp' = [disp EXCEPT ![d] = "spawn"]
        /\ chain' = [chain EXCEPT ![<<d, i>>] = "early"]
        /\ fresh' = [fresh EXCEPT ![d] = {i}] /\ UNCHANGED <<lock, pool>>
    BY <1>3 DEF Popen, Move, Set
  <2>2. fresh[d] = {} /\ Cardinality(pool[d]) < MaxParallel /\ IsFiniteSet(pool[d])
    BY <2>1, PoolCounted DEF IInv, Room
  <2>3. fresh'[d] = {i} /\ pool'[d] = pool[d]
    BY <1>0, <2>1 DEF TypeOK
  <2>4. Recorded'
    <3>1. SUFFICES ASSUME NEW c \in Chain, Running(c)' PROVE c[2] \in Kept(c[1])'
      BY DEF Recorded
    <3>2. CASE c = <<d, i>>
      BY <2>3, <3>2 DEF Kept
    <3>3. CASE c # <<d, i>>
      <4>1. c[2] \in Kept(c[1])
        BY <1>0, <2>1, <3>1, <3>3 DEF TypeOK, IInv, Recorded, Running
      <4>. QED BY <1>0, <2>1, <2>2, <2>3, <4>1 DEF TypeOK, Kept
    <3>. QED BY <3>2, <3>3
  <2>5. HolderWorks'
    BY <1>0, <2>1 DEF IInv, TypeOK, HolderWorks, Alive
  <2>6. IsFiniteSet(Kept(d)') /\ Cardinality(Kept(d)') <= MaxParallel
    <3>1. Kept(d)' = pool[d] \cup {i}
      BY <2>3 DEF Kept
    <3>2. /\ IsFiniteSet(pool[d] \cup {i})
          /\ Cardinality(pool[d] \cup {i})
               = IF i \in pool[d] THEN Cardinality(pool[d]) ELSE Cardinality(pool[d]) + 1
      BY <2>2, FS_AddElement
    <3>3. Cardinality(pool[d]) \in Nat
      BY <2>2, FS_CardinalityType
    <3>. QED BY <2>2, <3>1, <3>2, <3>3, PoolAssumption
  <2>7. ASSUME NEW e \in Dispatcher PROVE Room(e)'
    <3>1. CASE e = d
      BY <1>0, <2>1, <2>2, <2>3, <2>6, <3>1 DEF TypeOK, Room
    <3>2. CASE e # d
      BY <1>0, <2>1, <3>2 DEF IInv, TypeOK, Room, Kept
    <3>. QED BY <3>1, <3>2
  <2>. QED BY <2>4, <2>5, <2>7
<1>4. ASSUME NEW d \in Dispatcher, Append(d)
      PROVE  Recorded' /\ HolderWorks' /\ \A e \in Dispatcher : Room(e)'
  <2>1. /\ disp[d] = "spawn" /\ UNCHANGED <<lock, chain>>
        /\ pool' = [pool EXCEPT ![d] = @ \cup fresh[d]] /\ fresh' = [fresh EXCEPT ![d] = {}]
        /\ disp' = [disp EXCEPT ![d] = IF Cardinality(pool'[d]) >= MaxParallel THEN "full" ELSE "up"]
    BY <1>4 DEF Append, Move, AfterSpawn
  <2>2. fresh'[d] = {} /\ pool'[d] = Kept(d) /\ Kept(d)' = Kept(d)
    BY <1>0, <2>1 DEF TypeOK, Kept
  <2>3. \A e \in Dispatcher : Kept(e)' = Kept(e)
    BY <1>0, <2>1, <2>2 DEF TypeOK, Kept
  <2>4. Recorded'
    BY <2>1, <2>3 DEF IInv, Recorded, Running
  <2>5. HolderWorks'
    BY <1>0, <2>1 DEF IInv, TypeOK, HolderWorks, Alive
  <2>6. Cardinality(pool'[d]) \in Nat
    BY <2>2, FS_CardinalityType DEF IInv, Room
  <2>7. ASSUME NEW e \in Dispatcher PROVE Room(e)'
    <3>1. CASE e = d
      BY <1>0, <2>1, <2>2, <2>6, <3>1, PoolAssumption DEF IInv, TypeOK, Room
    <3>2. CASE e # d
      BY <1>0, <2>1, <2>3, <3>2 DEF IInv, TypeOK, Room
    <3>. QED BY <3>1, <3>2
  <2>. QED BY <2>4, <2>5, <2>7
<1>5. ASSUME NEW d \in Dispatcher, Reap(d) \/ GraceEnds(d)
      PROVE  Recorded' /\ HolderWorks' /\ \A e \in Dispatcher : Room(e)'
  <2>1. /\ Reaped(d) \in SUBSET pool[d]
        /\ pool' = [pool EXCEPT ![d] = Reaped(d)] /\ UNCHANGED <<lock, fresh, chain>>
        /\ \/ disp[d] = "drain" /\ UNCHANGED disp
           \/ disp[d] = "full" /\ disp' = [disp EXCEPT ![d] = "up"]
              /\ Cardinality(Reaped(d)) < MaxParallel
           \/ disp[d] = "grace" /\ disp' = [disp EXCEPT ![d] = "kill"]
    BY <1>5 DEF Reap, GraceEnds, Move, Reaped
  <2>2. \A c \in Chain : Running(c)' =>
          Running(c) /\ (c[1] = d => c[2] \in Reaped(d) \cup fresh[d])
    BY <2>1 DEF IInv, Recorded, Kept, Running, Reaped
  <2>. QED BY <2>1, <2>2, Shrinks
<1>6. ASSUME NEW d \in Dispatcher, Terminate(d)
      PROVE  Recorded' /\ HolderWorks' /\ \A e \in Dispatcher : Room(e)'
  <2>1. /\ disp[d] = "term" /\ disp' = [disp EXCEPT ![d] = "grace"]
        /\ UNCHANGED <<lock, pool, fresh, chain>>
    BY <1>6 DEF Terminate, Move
  <2>. QED BY <2>1, Moves DEF Place
<1>7. ASSUME NEW d \in Dispatcher, Kill(d)
      PROVE  Recorded' /\ HolderWorks' /\ \A e \in Dispatcher : Room(e)'
  <2>1. CASE \E i \in pool[d] :
               /\ disp[d] = "kill" /\ UNCHANGED disp
               /\ Set(<<d, i>>, IF Running(<<d, i>>) THEN "killed" ELSE chain[<<d, i>>])
               /\ pool' = [pool EXCEPT ![d] = @ \ {i}]
    <3>1. PICK i \in pool[d] :
            /\ disp[d] = "kill" /\ UNCHANGED disp
            /\ chain' = [chain EXCEPT ![<<d, i>>] = IF Running(<<d, i>>) THEN "killed" ELSE @]
            /\ pool' = [pool EXCEPT ![d] = pool[d] \ {i}]
      BY <1>0, <2>1 DEF Set, TypeOK
    <3>2. UNCHANGED <<lock, fresh>>
      BY <1>7 DEF Kill
    <3>3. <<d, i>> \in Chain /\ ~Running(<<d, i>>)'
      BY <1>0, <3>1 DEF TypeOK, Running
    <3>4. \A c \in Chain : Running(c)' =>
            Running(c) /\ (c[1] = d => c[2] \in (pool[d] \ {i}) \cup fresh[d])
      <4>1. SUFFICES ASSUME NEW c \in Chain, Running(c)'
                     PROVE  Running(c) /\ (c[1] = d => c[2] \in (pool[d] \ {i}) \cup fresh[d])
        OBVIOUS
      <4>2. c # <<d, i>>
        BY <3>3, <4>1
      <4>3. Running(c)
        BY <1>0, <3>1, <4>1, <4>2 DEF TypeOK, Running
      <4>. QED BY <4>2, <4>3 DEF IInv, Recorded, Kept
    <3>5. /\ disp[d] = "kill" /\ UNCHANGED <<disp, lock, fresh>>
          /\ pool' = [pool EXCEPT ![d] = pool[d] \ {i}]
      BY <3>1, <3>2
    <3> DEFINE S == pool[d] \ {i}
    <3>6. S \in SUBSET pool[d] /\ pool' = [pool EXCEPT ![d] = S]
      BY <3>5
    <3>7. \A c \in Chain : Running(c)' => Running(c) /\ (c[1] = d => c[2] \in S \cup fresh[d])
      BY <3>4
    <3> HIDE DEF S
    <3>. QED BY <3>5, <3>6, <3>7, Shrinks
  <2>2. CASE pool[d] = {} /\ Move(d, "kill", "release") /\ UNCHANGED <<chain, pool>>
    BY <1>7, <2>2, Moves DEF Kill, Move, Place
  <2>. QED BY <1>7, <2>1, <2>2 DEF Kill
<1>8. ASSUME NEW d \in Dispatcher, Release(d)
      PROVE  Recorded' /\ HolderWorks' /\ \A e \in Dispatcher : Room(e)'
  <2>1. /\ disp[d] = "release" /\ disp' = [disp EXCEPT ![d] = "dead"] /\ lock' = Free
        /\ UNCHANGED <<pool, fresh, chain>>
    BY <1>8 DEF Release, Move
  <2>2. Recorded'
    BY <2>1 DEF IInv, Recorded, Running, Kept
  <2>3. \A e \in Dispatcher : Alive(e) => e = d
    BY <2>1 DEF IInv, HolderWorks, Alive
  <2>4. HolderWorks'
    BY <1>0, <2>1, <2>3 DEF TypeOK, HolderWorks, Alive
  <2>5. ASSUME NEW e \in Dispatcher PROVE Room(e)'
    BY <1>0, <2>1 DEF IInv, TypeOK, Room, Kept
  <2>. QED BY <2>2, <2>4, <2>5
<1>9. ASSUME NEW d \in Dispatcher, StopDispatcher(d)
      PROVE  Recorded' /\ HolderWorks' /\ \A e \in Dispatcher : Room(e)'
  <2>1. PICK to \in {"dead", "term"} : disp' = [disp EXCEPT ![d] = to]
    BY <1>9 DEF StopDispatcher, OnTerm
  <2>2. disp[d] \notin {"off", "dead"} /\ UNCHANGED <<lock, pool, fresh, chain>>
    BY <1>9 DEF StopDispatcher, Alive
  <2>. QED BY <2>1, <2>2, Moves DEF Place
<1>10. ASSUME NEW c \in Chain, Work(c) \/ KillChain(c) \/ BeatParentless(c)
       PROVE  Recorded' /\ HolderWorks' /\ \A e \in Dispatcher : Room(e)'
  <2>1. /\ UNCHANGED <<disp, lock, pool, fresh>>
        /\ \A x \in Chain : Running(x)' => Running(x)
    BY <1>0, <1>10, ChainSteps
  <2>. QED BY <2>1 DEF IInv, Recorded, HolderWorks, Alive, Room, Kept
<1>11. ASSUME NEW c \in Chain, BeatFails(c)
       PROVE  Recorded' /\ HolderWorks' /\ \A e \in Dispatcher : Room(e)'
  <2>1. PICK to \in {"dead", "term"} : disp' = [disp EXCEPT ![c[1]] = to]
    BY <1>11 DEF BeatFails, OnTerm, Parent
  <2>2. /\ disp[c[1]] \notin {"off", "dead"} /\ UNCHANGED <<lock, pool, fresh, chain>>
        /\ c[1] \in Dispatcher
    BY <1>11 DEF BeatFails, Alive, Parent
  <2>. QED BY <2>1, <2>2, Moves DEF Place
<1>12. CASE UNCHANGED vars
  BY <1>12 DEF vars, IInv, Recorded, HolderWorks, Alive, Room, Kept, Running
<1>. QED
  BY <1>1, <1>2, <1>3, <1>4, <1>5, <1>6, <1>7, <1>8, <1>9, <1>10, <1>11, <1>12
  DEF Next, Round, Shutdown

(* The invariant of the pool: every running chain is on its dispatcher's   *)
(* list or just started, who works has the lock, and the list has room     *)
(* where the code starts a chain.                                          *)
THEOREM PoolInvariance == Spec => []IInv
BY InitIInv, NextIInv, PTL DEF Spec

(* Never more chains of a dispatcher run than MAX_PARALLEL, whichever of   *)
(* them it has recorded and wherever a signal interrupted it.              *)
THEOREM SlotsHold == Spec => []SlotsRespected
<1>1. IInv => SlotsRespected
  <2>1. SUFFICES ASSUME IInv, NEW d \in Dispatcher
                 PROVE  Cardinality({c \in Chain : Parent(c) = d /\ Running(c)}) <= MaxParallel
    BY DEF SlotsRespected
  <2> DEFINE R == {c \in Chain : Parent(c) = d /\ Running(c)}
             f == [c \in R |-> c[2]]
  <2>2. f \in Injection(R, Kept(d))
    <3>1. \A c \in R : c[1] = d /\ c[2] \in Kept(d) /\ c = <<d, c[2]>>
      BY <2>1, ChainPairs DEF IInv, Recorded, Parent
    <3>. QED BY <3>1 DEF Injection, IsInjective
  <2>3. IsFiniteSet(Kept(d)) /\ Cardinality(Kept(d)) <= MaxParallel
    BY <2>1 DEF IInv, Room
  <2>4. IsFiniteSet(R) /\ Cardinality(R) <= Cardinality(Kept(d))
    BY <2>2, <2>3, FS_Injection
  <2>5. Cardinality(R) \in Nat /\ Cardinality(Kept(d)) \in Nat
    BY <2>3, <2>4, FS_CardinalityType
  <2>. QED BY <2>3, <2>4, <2>5, PoolAssumption
<1>. QED BY <1>1, PoolInvariance, PTL

(* "Reap first, then release the lock", for every way a dispatcher ends:   *)
(* only a chain it had no time to record may be left.                      *)
THEOREM LockOutlivesChains == Spec => ReapedBeforeRelease
<1>1. ASSUME IInv, [Next]_vars
      PROVE  [\A d \in Dispatcher : lock = d /\ lock' = Free =>
                \A c \in Chain : Parent(c) = d /\ Running(c) => c[2] \in fresh[d]]_vars
  <2>1. SUFFICES ASSUME NEW d \in Dispatcher, lock = d, lock' = Free, Next,
                        NEW c \in Chain, Parent(c) = d, Running(c)
                 PROVE  c[2] \in fresh[d]
    BY <1>1
  <2>2. PICK e \in Dispatcher : Release(e)
    <3>1. lock' # lock
      BY <2>1, PoolAssumption
    <3>2. ASSUME NEW e \in Dispatcher, ~Release(e) PROVE ~(Round(e) \/ Shutdown(e))
      BY <3>1, <3>2 DEF Round, Popen, Append, Reap, Drain, EndRound, Shutdown, Terminate,
                        GraceEnds, Kill
    <3>3. ASSUME NEW e \in Dispatcher
          PROVE  ~(Acquire(e) \/ InstallHandlers(e) \/ StopDispatcher(e))
      BY <2>1, <3>1, PoolAssumption DEF Acquire, InstallHandlers, StopDispatcher
    <3>4. ASSUME NEW x \in Chain
          PROVE  ~(Work(x) \/ KillChain(x) \/ BeatParentless(x) \/ BeatFails(x))
      BY <3>1 DEF Work, EarlyExit, ClaimLease, InstallTrap, Finish, CleanUp, TakeTerm,
                  KillChain, BeatParentless, BeatFails
    <3>. QED BY <2>1, <3>2, <3>3, <3>4 DEF Next
  <2>3. e = d /\ pool[d] = {}
    BY <1>1, <2>1, <2>2 DEF Release, Move, IInv, HolderWorks, Alive, Room
  <2>. QED BY <1>1, <2>1, <2>3 DEF IInv, Recorded, Kept, Parent
<1>. QED BY <1>1, PoolInvariance, PTL DEF Spec, ReapedBeforeRelease

=============================================================================
