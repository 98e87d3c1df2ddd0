------------------------- MODULE LeaseArbiterProofs -------------------------
(***************************************************************************)
(* What holds of the arbiter for any tenants, machines, keys, quotas,      *)
(* lease lengths, clock bound and transaction lag; and, in the last part,  *)
(* what needs now() to be the time a statement runs.                       *)
(***************************************************************************)
EXTENDS LeaseArbiter, FiniteSetTheorems, TLAPS

(* A start time is a time not after the clock.                             *)
LEMMA StartTimesBounded ==
  ASSUME now \in Nat, NEW ts \in StartTimes
  PROVE  ts \in Nat /\ ts <= now
BY ArbiterAssumption DEF StartTimes

(* Every key audited has a row, and the row's epoch is the largest audited.*)
EventsBelowRow == \A e \in events : HasRow(e.key) /\ e.epoch <= lease[e.key].epoch

(* A grant with the row's epoch went to the row's machine.                 *)
GrantsOfRow ==
  \A g \in Granted : g.epoch = lease[g.key].epoch => g.machine = lease[g.key].machine

RowsRegistered == \A k \in Key : HasRow(k) => machineStatus[lease[k].machine] # "absent"

IInv == /\ TypeOK
        /\ EventsBelowRow
        /\ GrantsOfRow
        /\ OneMachinePerToken
        /\ RowsRegistered
        /\ MaxLag = 0 => DisabledHoldNothing

-----------------------------------------------------------------------------

(* Types: statuses are statuses, rows are rows, every audit record is well *)
(* formed and the clock a natural number, in every reachable state.        *)
LEMMA InitType == Init => TypeOK
BY DEF Init, TypeOK, Status

LEMMA ClaimType ==
  ASSUME TypeOK, NEW t \in Tenant, NEW m \in Machine, NEW k \in Key,
         NEW s \in Secs, NEW ts \in StartTimes, Claim(t, m, k, s, ts)
  PROVE  TypeOK'
<1>1. ts \in Nat /\ s \in Nat
  BY StartTimesBounded, ArbiterAssumption DEF TypeOK
<1>2. machineStatus' \in [Machine -> Status \cup {"absent"}]
  BY DEF Claim, TypeOK, Status
<1>3. tenantStatus' \in [Tenant -> Status] /\ beats' \subseteq Beat /\ now' \in Nat
  BY DEF Claim, TypeOK
<1>4. lease' \in [Key -> Row \cup {NoRow}] /\ events' \subseteq Event
  <2>1. CASE Insert(t, m, k, s, ts)
    <3>1. [tenant |-> t, machine |-> m, epoch |-> 1, expires |-> ts + s] \in Row
      BY <1>1 DEF Row
    <3>2. Record(k, t, m, 1, "claim") \in Event
      BY DEF Record, Event
    <3>. QED BY <2>1, <3>1, <3>2 DEF Insert, TypeOK
  <2>2. CASE Reclaim(t, m, k, s, ts)
    <3>1. NextEpoch(k, m) \in Nat \ {0}
      BY <2>2 DEF Reclaim, HasRow, NextEpoch, TypeOK, Row
    <3>2. [tenant |-> t, machine |-> m, epoch |-> NextEpoch(k, m), expires |-> ts + s] \in Row
      BY <1>1, <3>1 DEF Row
    <3>3. Record(k, t, m, NextEpoch(k, m), "reclaim") \in Event
      BY <3>1 DEF Record, Event
    <3>. QED BY <2>2, <3>2, <3>3 DEF Reclaim, TypeOK
  <2>3. CASE UNCHANGED <<lease, events>>
    BY <2>3 DEF TypeOK
  <2>. QED BY <2>1, <2>2, <2>3 DEF Claim
<1>. QED BY <1>2, <1>3, <1>4 DEF TypeOK

LEMMA KillType ==
  ASSUME TypeOK, NEW K \in SUBSET Key, NEW ts \in StartTimes, Kill(K, ts),
         \A k \in K : HasRow(k)
  PROVE  lease' \in [Key -> Row \cup {NoRow}] /\ events' \subseteq Event
<1>1. ts \in Nat
  BY StartTimesBounded DEF TypeOK
<1>2. \A k \in K : lease[k] \in Row
  BY DEF HasRow, TypeOK
<1>3. \A k \in K : KilledRow(k, ts) \in Row
  BY <1>1, <1>2 DEF Row, KilledRow
<1>4. \A k \in K : Record(k, lease[k].tenant, lease[k].machine, lease[k].epoch + 1, "revoke")
                      \in Event
  BY <1>2 DEF Record, Event, Row
<1>. QED BY <1>3, <1>4 DEF Kill, TypeOK

LEMMA NextType == TypeOK /\ [Next]_vars => TypeOK'
<1> SUFFICES ASSUME TypeOK, [Next]_vars PROVE TypeOK'
  OBVIOUS
<1>1. CASE ClaimAny
  BY <1>1, ClaimType DEF ClaimAny
<1>2. ASSUME NEW g \in Granted, NEW s \in Secs, NEW ts \in StartTimes, Heartbeat(g, s, ts)
      PROVE  TypeOK'
  <2>1. ts + s \in Nat
    BY StartTimesBounded, ArbiterAssumption DEF TypeOK
  <2>2. g.key \in Key /\ lease[g.key] \in Row
    BY <1>2 DEF Heartbeat, Owns, HasRow, Granted, TypeOK, Event
  <2>3. [lease[g.key] EXCEPT !.expires = ts + s] \in Row
    BY <2>1, <2>2 DEF Row
  <2>. QED BY <1>2, <2>2, <2>3 DEF Heartbeat, Finished, TypeOK
<1>3. ASSUME NEW g \in Granted, NEW ts \in StartTimes, Release(g, ts)
      PROVE  TypeOK'
  <2>1. ts \in Nat
    BY StartTimesBounded DEF TypeOK
  <2>2. g \in Event /\ lease[g.key] \in Row
    BY <1>3 DEF Release, Owns, HasRow, Granted, TypeOK, Event
  <2>3. [lease[g.key] EXCEPT !.expires = ts] \in Row
    BY <2>1, <2>2 DEF Row
  <2>4. Record(g.key, g.tenant, g.machine, g.epoch, "release") \in Event
    BY <2>2 DEF Record, Event
  <2>. QED BY <1>3, <2>2, <2>3, <2>4 DEF Release, TypeOK, Event
<1>4. ASSUME NEW t \in Tenant, NEW ts \in StartTimes, Revoke(t, ts)
      PROVE  TypeOK'
  <2> DEFINE K == LeasesOfTenant(t, ts)
  <2>1. K \in SUBSET Key /\ \A k \in K : HasRow(k)
    BY DEF LeasesOfTenant, Active
  <2>2. Kill(K, ts)
    BY <1>4 DEF Revoke
  <2> HIDE DEF K
  <2>3. lease' \in [Key -> Row \cup {NoRow}] /\ events' \subseteq Event
    BY <2>1, <2>2, KillType
  <2>. QED BY <1>4, <2>3 DEF Revoke, TypeOK, Status
<1>5. ASSUME NEW m \in Machine, NEW ts \in StartTimes, MachineDisable(m, ts)
      PROVE  TypeOK'
  <2> DEFINE K == LeasesOfMachine(m, ts)
  <2>1. K \in SUBSET Key /\ \A k \in K : HasRow(k)
    BY DEF LeasesOfMachine, Active
  <2>2. Kill(K, ts)
    BY <1>5 DEF MachineDisable
  <2> HIDE DEF K
  <2>3. lease' \in [Key -> Row \cup {NoRow}] /\ events' \subseteq Event
    BY <2>1, <2>2, KillType
  <2>. QED BY <1>5, <2>3 DEF MachineDisable, TypeOK, Status
<1>6. CASE Reinstate
  BY <1>6 DEF Reinstate, TypeOK, Status
<1>7. CASE Tick
  BY <1>7 DEF Tick, TypeOK
<1>8. CASE UNCHANGED vars
  BY <1>8 DEF vars, TypeOK
<1>9. ASSUME NEW g \in Granted, NEW s \in Secs, CheckHeartbeat(g, s)
      PROVE  TypeOK'
  <2>1. [grant |-> g, secs |-> s, start |-> now] \in Beat
    BY DEF Beat, Granted, TypeOK
  <2>. QED BY <1>9, <2>1 DEF CheckHeartbeat, TypeOK
<1>10. ASSUME NEW g \in Granted, NEW s \in Secs, NEW ts \in StartTimes,
              HeartbeatFails(g, s, ts)
       PROVE  TypeOK'
  BY <1>10 DEF HeartbeatFails, Finished, TypeOK
<1>. QED BY <1>1, <1>2, <1>3, <1>4, <1>5, <1>6, <1>7, <1>8, <1>9, <1>10
     DEF Next, CheckAny, HeartbeatAny, ReleaseAny, RevokeAny, DisableAny

(* The arbiter's state keeps its types for every value of the constants.   *)
THEOREM TypeCorrect == Spec => []TypeOK
BY InitType, NextType, PTL DEF Spec
-----------------------------------------------------------------------------

(* The part of the invariant about tokens: how rows and the audit trail    *)
(* bound every token ever handed out.                                      *)
Tokens == EventsBelowRow /\ GrantsOfRow /\ OneMachinePerToken

LEMMA ClaimTokens ==
  ASSUME TypeOK, Tokens, NEW t \in Tenant, NEW m \in Machine, NEW k \in Key,
         NEW s \in Secs, NEW ts \in StartTimes, Claim(t, m, k, s, ts)
  PROVE  Tokens'
<1>1. CASE Insert(t, m, k, s, ts)
  <2>1. events' = events \cup {Record(k, t, m, 1, "claim")}
    BY <1>1 DEF Insert
  <2>2. \A e \in events : e.key # k
    BY <1>1 DEF Insert, Tokens, EventsBelowRow
  <2>3. \A q \in Key : q # k => lease'[q] = lease[q]
    BY <1>1 DEF Insert, TypeOK
  <2>4. lease'[k].machine = m /\ lease'[k].epoch = 1 /\ lease'[k] # NoRow
    <3>1. lease'[k] = [tenant |-> t, machine |-> m, epoch |-> 1, expires |-> ts + s]
      BY <1>1 DEF Insert, TypeOK
    <3>2. lease'[k] \in Row
      BY <3>1, StartTimesBounded, ArbiterAssumption DEF Row, TypeOK
    <3>. QED BY <3>1, <3>2, ArbiterAssumption
  <2>5. \A e \in events : e.key \in Key /\ e.key # k
    BY <2>2 DEF TypeOK, Event
  <2>. QED BY <2>1, <2>3, <2>4, <2>5
       DEF Tokens, EventsBelowRow, GrantsOfRow, OneMachinePerToken, Granted, Record, HasRow
<1>2. CASE Reclaim(t, m, k, s, ts)
  <2> DEFINE e1 == NextEpoch(k, m)
             r == Record(k, t, m, e1, "reclaim")
  <2>1. events' = events \cup {r}
    BY <1>2 DEF Reclaim
  <2>2. \A q \in Key : q # k => lease'[q] = lease[q]
    BY <1>2 DEF Reclaim, TypeOK
  <2>3. lease[k].epoch \in Nat /\ e1 \in Nat \ {0} /\ lease[k].epoch <= e1
        /\ (e1 = lease[k].epoch => lease[k].machine = m)
    BY <1>2 DEF Reclaim, HasRow, NextEpoch, TypeOK, Row
  <2>4. lease'[k].machine = m /\ lease'[k].epoch = e1 /\ lease'[k] # NoRow
    <3>1. lease'[k] = [tenant |-> t, machine |-> m, epoch |-> e1, expires |-> ts + s]
      BY <1>2 DEF Reclaim, TypeOK
    <3>2. lease'[k] \in Row
      BY <3>1, <2>3, StartTimesBounded, ArbiterAssumption DEF Row, TypeOK
    <3>. QED BY <3>1, <3>2, ArbiterAssumption
  <2>5. r.key = k /\ r.machine = m /\ r.epoch = e1
    BY DEF Record
  <2>6. \A e \in events : e.key \in Key /\ e.epoch \in Nat
    BY DEF TypeOK, Event
  <2>7. EventsBelowRow'
    BY <2>1, <2>2, <2>3, <2>4, <2>5, <2>6 DEF Tokens, EventsBelowRow, HasRow
  <2>8. \A g \in Granted : g.key = k /\ g.epoch = e1 => g.machine = m
    BY <2>3, <2>6 DEF Tokens, EventsBelowRow, GrantsOfRow, Granted
  <2>9. Granted' = Granted \cup {r}
    BY <2>1 DEF Granted, Record
  <2>10. GrantsOfRow'
    BY <2>2, <2>4, <2>5, <2>6, <2>8, <2>9 DEF Tokens, GrantsOfRow, Granted
  <2>11. OneMachinePerToken'
    BY <2>5, <2>8, <2>9 DEF Tokens, OneMachinePerToken
  <2>. QED BY <2>7, <2>10, <2>11 DEF Tokens
<1>3. CASE UNCHANGED <<lease, events>>
  BY <1>3 DEF Tokens, EventsBelowRow, GrantsOfRow, OneMachinePerToken, Granted, HasRow
<1>. QED BY <1>1, <1>2, <1>3 DEF Claim

LEMMA KillTokens ==
  ASSUME TypeOK, Tokens, NEW K \in SUBSET Key, NEW ts \in StartTimes, Kill(K, ts),
         \A k \in K : HasRow(k)
  PROVE  Tokens'
<1>1. ts \in Nat
  BY StartTimesBounded DEF TypeOK
<1>2. \A k \in K : /\ lease'[k].epoch = lease[k].epoch + 1
                   /\ lease'[k] # NoRow
                   /\ lease[k].epoch \in Nat
  <2> SUFFICES ASSUME NEW k \in K
               PROVE  /\ lease'[k].epoch = lease[k].epoch + 1
                      /\ lease'[k] # NoRow
                      /\ lease[k].epoch \in Nat
    OBVIOUS
  <2>1. lease[k] \in Row
    BY DEF HasRow, TypeOK
  <2>2. lease'[k] = KilledRow(k, ts)
    BY DEF Kill
  <2>3. KilledRow(k, ts) \in Row
    BY <1>1, <2>1 DEF KilledRow, Row
  <2>. QED BY <2>1, <2>2, <2>3, ArbiterAssumption DEF KilledRow, Row
<1>3. \A q \in Key \ K : lease'[q] = lease[q]
  BY DEF Kill
<1>4. \A e \in events : e.key \in Key /\ e.epoch \in Nat
  BY DEF TypeOK, Event
<1>5. EventsBelowRow'
  <2>1. ASSUME NEW e \in events
        PROVE  HasRow(e.key)' /\ e.epoch <= lease'[e.key].epoch
    <3>1. HasRow(e.key) /\ e.epoch <= lease[e.key].epoch
      BY DEF Tokens, EventsBelowRow
    <3>2. CASE e.key \in K
      BY <1>2, <1>4, <3>1, <3>2 DEF HasRow
    <3>3. CASE e.key \notin K
      BY <1>3, <1>4, <3>1, <3>3 DEF HasRow
    <3>. QED BY <3>2, <3>3
  <2>2. ASSUME NEW e \in events', e \notin events
        PROVE  HasRow(e.key)' /\ e.epoch <= lease'[e.key].epoch
    <3>1. PICK k \in K : e = Record(k, lease[k].tenant, lease[k].machine,
                                    lease[k].epoch + 1, "revoke")
      BY <2>2 DEF Kill
    <3>2. e.key = k /\ e.epoch = lease[k].epoch + 1
      BY <3>1 DEF Record
    <3>. QED BY <1>2, <3>2 DEF HasRow
  <2>. QED BY <2>1, <2>2 DEF EventsBelowRow
<1>6. Granted' = Granted
  BY DEF Kill, Granted, Record
<1>7. GrantsOfRow'
  BY <1>2, <1>3, <1>4, <1>6 DEF Tokens, EventsBelowRow, GrantsOfRow, Granted
<1>. QED BY <1>5, <1>6, <1>7 DEF Tokens, OneMachinePerToken

-----------------------------------------------------------------------------

(* The part about administration: who may hold a live lease.               *)
Holders == RowsRegistered /\ (MaxLag = 0 => DisabledHoldNothing)

LEMMA ClaimHolders ==
  ASSUME TypeOK, Holders, NEW t \in Tenant, NEW m \in Machine, NEW k \in Key,
         NEW s \in Secs, NEW ts \in StartTimes, Claim(t, m, k, s, ts)
  PROVE  Holders'
<1>1. \A x \in Machine : /\ machineStatus[x] # "absent" => machineStatus'[x] = machineStatus[x]
                         /\ x # m => machineStatus'[x] = machineStatus[x]
  BY DEF Claim, TypeOK
<1>2. machineStatus'[m] # "absent"
  BY DEF Claim, TypeOK
<1>3. CASE /\ machineStatus[m] # "disabled"
           /\ Insert(t, m, k, s, ts) \/ Reclaim(t, m, k, s, ts)
  <2>1. machineStatus'[m] = "active"
    BY <1>3 DEF Claim, TypeOK, Status
  <2>2. lease'[k].tenant = t /\ lease'[k].machine = m
    BY <1>3 DEF Insert, Reclaim, TypeOK
  <2>3. \A q \in Key : q # k => lease'[q] = lease[q]
    BY <1>3 DEF Insert, Reclaim, TypeOK
  <2>4. tenantStatus'[t] = "active" /\ tenantStatus' = tenantStatus /\ now' = now
    BY DEF Claim
  <2>5. \A q \in Key : HasRow(q) => lease[q].machine \in Machine
    BY DEF HasRow, TypeOK, Row
  <2>. QED BY <1>1, <2>1, <2>2, <2>3, <2>4, <2>5
       DEF Holders, RowsRegistered, DisabledHoldNothing, HasRow, Active
<1>4. CASE UNCHANGED <<lease, events>>
  <2>1. \A q \in Key : HasRow(q) => lease[q].machine \in Machine
    BY DEF HasRow, TypeOK, Row
  <2>. QED BY <1>1, <1>4, <2>1
       DEF Claim, Holders, RowsRegistered, DisabledHoldNothing, HasRow, Active
<1>. QED BY <1>3, <1>4 DEF Claim

LEMMA KillRows ==
  ASSUME TypeOK, NEW K \in SUBSET Key, NEW ts \in StartTimes, Kill(K, ts),
         \A k \in K : HasRow(k), now' = now, NEW k \in Key
  PROVE  /\ HasRow(k)' <=> HasRow(k)
         /\ HasRow(k) => /\ lease[k] \in Row
                         /\ lease'[k].machine = lease[k].machine
                         /\ lease'[k].tenant = lease[k].tenant
         /\ Active(k, now)' => k \notin K /\ lease'[k] = lease[k]
<1>1. ts \in Nat /\ ts <= now /\ now \in Nat
  BY StartTimesBounded DEF TypeOK
<1>2. CASE k \in K
  <2>1. lease[k] \in Row
    BY <1>2 DEF HasRow, TypeOK
  <2>2. lease'[k] = KilledRow(k, ts)
    BY <1>2 DEF Kill
  <2>3. KilledRow(k, ts) \in Row
    BY <1>1, <2>1 DEF KilledRow, Row
  <2>4. HasRow(k) /\ HasRow(k)'
    BY <1>2, <2>2, <2>3, ArbiterAssumption DEF HasRow
  <2>5. lease'[k].expires = ts /\ lease'[k].machine = lease[k].machine
        /\ lease'[k].tenant = lease[k].tenant
    BY <2>2 DEF KilledRow
  <2>. QED BY <1>1, <2>1, <2>4, <2>5 DEF Active
<1>3. CASE k \notin K
  BY <1>3 DEF Kill, HasRow, TypeOK
<1>. QED BY <1>2, <1>3

LEMMA RevokeHolders ==
  ASSUME TypeOK, Holders, NEW t \in Tenant, NEW ts \in StartTimes, Revoke(t, ts)
  PROVE  Holders'
<1> DEFINE K == LeasesOfTenant(t, ts)
<1>1. ts \in Nat /\ ts <= now /\ now \in Nat
  BY StartTimesBounded DEF TypeOK
<1>2. Kill(K, ts) /\ now' = now /\ machineStatus' = machineStatus
  BY DEF Revoke
<1>3. K \subseteq Key /\ \A k \in K : HasRow(k)
  BY DEF LeasesOfTenant, Active
<1>4. \A k \in Key : /\ HasRow(k)' <=> HasRow(k)
                     /\ HasRow(k) => /\ lease[k] \in Row
                                     /\ lease'[k].machine = lease[k].machine
                     /\ Active(k, now)' => k \notin K /\ lease'[k] = lease[k]
  BY <1>2, <1>3, KillRows
<1>5. RowsRegistered'
  BY <1>2, <1>4 DEF Holders, RowsRegistered
<1>6. ASSUME MaxLag = 0, NEW k \in Key, Active(k, now)'
      PROVE  /\ tenantStatus'[lease'[k].tenant] = "active"
             /\ machineStatus'[lease'[k].machine] = "active"
  <2>1. k \notin K /\ lease'[k] = lease[k] /\ HasRow(k) /\ lease[k] \in Row
    BY <1>4, <1>6 DEF Active
  <2>2. lease[k].expires > now /\ Active(k, now)
    BY <1>2, <1>6, <2>1 DEF Active
  <2>3. Active(k, ts)
    BY <1>1, <2>1, <2>2 DEF Active, Row
  <2>4. lease[k].tenant # t
    BY <2>1, <2>3 DEF LeasesOfTenant
  <2>5. tenantStatus'[lease[k].tenant] = tenantStatus[lease[k].tenant]
    BY <2>1, <2>4 DEF Revoke, TypeOK, Row
  <2>. QED BY <1>2, <1>6, <2>1, <2>2, <2>5 DEF Holders, DisabledHoldNothing
<1>. QED BY <1>5, <1>6 DEF Holders, DisabledHoldNothing

LEMMA DisableHolders ==
  ASSUME TypeOK, Holders, NEW m \in Machine, NEW ts \in StartTimes, MachineDisable(m, ts)
  PROVE  Holders'
<1> DEFINE K == LeasesOfMachine(m, ts)
<1>1. ts \in Nat /\ ts <= now /\ now \in Nat
  BY StartTimesBounded DEF TypeOK
<1>2. Kill(K, ts) /\ now' = now /\ tenantStatus' = tenantStatus
  BY DEF MachineDisable
<1>3. K \subseteq Key /\ \A k \in K : HasRow(k)
  BY DEF LeasesOfMachine, Active
<1>4. \A k \in Key : /\ HasRow(k)' <=> HasRow(k)
                     /\ HasRow(k) => /\ lease[k] \in Row
                                     /\ lease'[k].machine = lease[k].machine
                     /\ Active(k, now)' => k \notin K /\ lease'[k] = lease[k]
  BY <1>2, <1>3, KillRows
<1>5. RowsRegistered'
  <2>1. \A x \in Machine : machineStatus[x] # "absent" => machineStatus'[x] # "absent"
    BY DEF MachineDisable, TypeOK
  <2>. QED BY <1>4, <2>1 DEF Holders, RowsRegistered, Row
<1>6. ASSUME MaxLag = 0, NEW k \in Key, Active(k, now)'
      PROVE  /\ tenantStatus'[lease'[k].tenant] = "active"
             /\ machineStatus'[lease'[k].machine] = "active"
  <2>1. k \notin K /\ lease'[k] = lease[k] /\ HasRow(k) /\ lease[k] \in Row
    BY <1>4, <1>6 DEF Active
  <2>2. lease[k].expires > now /\ Active(k, now)
    BY <1>2, <1>6, <2>1 DEF Active
  <2>3. Active(k, ts)
    BY <1>1, <2>1, <2>2 DEF Active, Row
  <2>4. lease[k].machine # m
    BY <2>1, <2>3 DEF LeasesOfMachine
  <2>5. machineStatus'[lease[k].machine] = machineStatus[lease[k].machine]
    BY <2>1, <2>4 DEF MachineDisable, TypeOK, Row
  <2>. QED BY <1>2, <1>6, <2>1, <2>2, <2>5 DEF Holders, DisabledHoldNothing
<1>. QED BY <1>5, <1>6 DEF Holders, DisabledHoldNothing

-----------------------------------------------------------------------------

LEMMA InitInv == Init => IInv
BY InitType DEF Init, IInv, EventsBelowRow, GrantsOfRow, OneMachinePerToken,
                RowsRegistered, DisabledHoldNothing, Granted, HasRow, Active

(* A heartbeat and a release change one row's expiry and nothing a token   *)
(* is compared with.                                                       *)
LEMMA ExpiryOnly ==
  ASSUME TypeOK, Tokens, NEW g \in Granted, NEW x \in Nat, Owns(g),
         lease' = [lease EXCEPT ![g.key].expires = x],
         Granted' = Granted,
         \A e \in events' : e \in events \/ (e.key = g.key /\ e.epoch = g.epoch)
  PROVE  /\ Tokens'
         /\ \A k \in Key : /\ HasRow(k)' <=> HasRow(k)
                           /\ HasRow(k) => /\ lease[k] \in Row
                                           /\ lease'[k].machine = lease[k].machine
                                           /\ lease'[k].tenant = lease[k].tenant
                                           /\ lease'[k].epoch = lease[k].epoch
                           /\ k # g.key => lease'[k] = lease[k]
                           /\ k = g.key => lease'[k].expires = x
<1>1. g.key \in Key /\ lease[g.key] \in Row
  BY DEF Owns, HasRow, Granted, TypeOK, Event
<1>2. lease'[g.key] = [lease[g.key] EXCEPT !.expires = x]
  BY <1>1 DEF TypeOK
<1>3. lease'[g.key] \in Row
  BY <1>1, <1>2 DEF Row
<1>4. \A k \in Key : /\ HasRow(k)' <=> HasRow(k)
                     /\ HasRow(k) => /\ lease[k] \in Row
                                     /\ lease'[k].machine = lease[k].machine
                                     /\ lease'[k].tenant = lease[k].tenant
                                     /\ lease'[k].epoch = lease[k].epoch
                     /\ k # g.key => lease'[k] = lease[k]
                     /\ k = g.key => lease'[k].expires = x
  <2> SUFFICES ASSUME NEW k \in Key
               PROVE  /\ HasRow(k)' <=> HasRow(k)
                      /\ HasRow(k) => /\ lease[k] \in Row
                                      /\ lease'[k].machine = lease[k].machine
                                      /\ lease'[k].tenant = lease[k].tenant
                                      /\ lease'[k].epoch = lease[k].epoch
                      /\ k # g.key => lease'[k] = lease[k]
                      /\ k = g.key => lease'[k].expires = x
    OBVIOUS
  <2>1. CASE k = g.key
    BY <1>1, <1>2, <1>3, <2>1, ArbiterAssumption DEF HasRow, Row
  <2>2. CASE k # g.key
    BY <1>1, <2>2 DEF HasRow, TypeOK
  <2>. QED BY <2>1, <2>2
<1>5. \A e \in events : e.key \in Key /\ e.epoch \in Nat
  BY DEF TypeOK, Event
<1>6. EventsBelowRow'
  BY <1>1, <1>4, <1>5 DEF Tokens, EventsBelowRow, Owns, Granted, Row
<1>7. GrantsOfRow'
  BY <1>4, <1>5 DEF Tokens, EventsBelowRow, GrantsOfRow, Granted
<1>. QED BY <1>4, <1>6, <1>7 DEF Tokens, OneMachinePerToken

LEMMA NextInv == IInv /\ [Next]_vars => IInv'
<1> SUFFICES ASSUME IInv, [Next]_vars PROVE IInv'
  OBVIOUS
<1> TypeOK /\ Tokens /\ Holders
  BY DEF IInv, Tokens, Holders
<1>1. TypeOK'
  BY NextType
<1>2. SUFFICES Tokens' /\ Holders'
  BY <1>1 DEF IInv, Tokens, Holders
<1>3. CASE ClaimAny
  BY <1>3, ClaimTokens, ClaimHolders DEF ClaimAny
<1>4. ASSUME NEW g \in Granted, NEW s \in Secs, NEW ts \in StartTimes, Heartbeat(g, s, ts)
      PROVE  Tokens' /\ Holders'
  <2>1. ts + s \in Nat /\ Owns(g) /\ lease' = [lease EXCEPT ![g.key].expires = ts + s]
    BY <1>4, StartTimesBounded, ArbiterAssumption DEF Heartbeat, TypeOK
  <2>2. Granted' = Granted /\ events' = events
    BY <1>4 DEF Heartbeat, Granted
  <2>3. Tokens' /\ \A k \in Key : /\ HasRow(k)' <=> HasRow(k)
                                  /\ HasRow(k) => /\ lease'[k].machine = lease[k].machine
                                                  /\ lease'[k].tenant = lease[k].tenant
                                  /\ k # g.key => lease'[k] = lease[k]
    BY <2>1, <2>2, ExpiryOnly
  <2>4. g.key \in Key /\ HasRow(g.key) /\ lease[g.key].machine = g.machine
        /\ lease[g.key].tenant = g.tenant /\ g.machine \in Machine
    BY <1>4 DEF Heartbeat, Owns, Granted, TypeOK, Event
  <2>5. ASSUME MaxLag = 0
        PROVE  tenantStatus[g.tenant] = "active" /\ machineStatus[g.machine] = "active"
    <3>1. ts = now
      BY <2>5 DEF StartTimes, TypeOK
    <3>2. Active(g.key, now)
      BY <1>4, <3>1 DEF Heartbeat
    <3>. QED BY <2>4, <2>5, <3>2 DEF Holders, DisabledHoldNothing
  <2>6. tenantStatus' = tenantStatus /\ machineStatus' = machineStatus /\ now' = now
    BY <1>4 DEF Heartbeat
  <2>. QED BY <2>3, <2>4, <2>5, <2>6 DEF Holders, RowsRegistered, DisabledHoldNothing, Active
<1>5. ASSUME NEW g \in Granted, NEW ts \in StartTimes, Release(g, ts)
      PROVE  Tokens' /\ Holders'
  <2>1. ts \in Nat /\ ts <= now /\ now \in Nat /\ Owns(g)
        /\ lease' = [lease EXCEPT ![g.key].expires = ts]
    BY <1>5, StartTimesBounded DEF Release, TypeOK
  <2>2. Granted' = Granted
    BY <1>5 DEF Release, Granted, Record
  <2>3. \A e \in events' : e \in events \/ (e.key = g.key /\ e.epoch = g.epoch)
    BY <1>5 DEF Release, Record
  <2>4. Tokens' /\ \A k \in Key : /\ HasRow(k)' <=> HasRow(k)
                                  /\ HasRow(k) => /\ lease'[k].machine = lease[k].machine
                                                  /\ lease'[k].tenant = lease[k].tenant
                                  /\ k # g.key => lease'[k] = lease[k]
                                  /\ k = g.key => lease'[k].expires = ts
    BY <2>1, <2>2, <2>3, ExpiryOnly, ZenonT(60)
  <2>5. tenantStatus' = tenantStatus /\ machineStatus' = machineStatus /\ now' = now
    BY <1>5 DEF Release
  <2>. QED BY <2>1, <2>4, <2>5 DEF Holders, RowsRegistered, DisabledHoldNothing, Active
<1>6. ASSUME NEW t \in Tenant, NEW ts \in StartTimes, Revoke(t, ts)
      PROVE  Tokens' /\ Holders'
  <2>1. LeasesOfTenant(t, ts) \in SUBSET Key /\ \A k \in LeasesOfTenant(t, ts) : HasRow(k)
    BY DEF LeasesOfTenant, Active
  <2>2. Kill(LeasesOfTenant(t, ts), ts)
    BY <1>6 DEF Revoke
  <2>3. Tokens'
    BY <2>1, <2>2, KillTokens
  <2>. QED BY <1>6, <2>3, RevokeHolders
<1>7. ASSUME NEW m \in Machine, NEW ts \in StartTimes, MachineDisable(m, ts)
      PROVE  Tokens' /\ Holders'
  <2>1. LeasesOfMachine(m, ts) \in SUBSET Key /\ \A k \in LeasesOfMachine(m, ts) : HasRow(k)
    BY DEF LeasesOfMachine, Active
  <2>2. Kill(LeasesOfMachine(m, ts), ts)
    BY <1>7 DEF MachineDisable
  <2>3. Tokens'
    BY <2>1, <2>2, KillTokens
  <2>. QED BY <1>7, <2>3, DisableHolders
<1>8. CASE Reinstate
  <2>1. Tokens'
    BY <1>8 DEF Reinstate, Tokens, EventsBelowRow, GrantsOfRow, OneMachinePerToken,
                Granted, HasRow
  <2>2. \A k \in Key : HasRow(k) => lease[k] \in Row
    BY DEF HasRow, TypeOK
  <2>3. /\ \A t \in Tenant : tenantStatus[t] = "active" => tenantStatus'[t] = "active"
        /\ \A m \in Machine : /\ machineStatus[m] = "active" => machineStatus'[m] = "active"
                              /\ machineStatus[m] # "absent" => machineStatus'[m] # "absent"
    BY <1>8 DEF Reinstate, TypeOK
  <2>4. lease' = lease /\ now' = now
    BY <1>8 DEF Reinstate
  <2>. QED BY <2>1, <2>2, <2>3, <2>4
       DEF Holders, RowsRegistered, DisabledHoldNothing, HasRow, Active, Row
<1>9. CASE Tick
  <2>1. Tokens'
    BY <1>9 DEF Tick, Tokens, EventsBelowRow, GrantsOfRow, OneMachinePerToken,
                Granted, HasRow
  <2>2. \A k \in Key : Active(k, now)' => Active(k, now)
    BY <1>9 DEF Tick, Active, HasRow, TypeOK, Row
  <2>. QED BY <1>9, <2>1, <2>2 DEF Tick, Holders, RowsRegistered, DisabledHoldNothing, HasRow
<1>10. CASE UNCHANGED vars
  BY <1>10 DEF vars, Tokens, EventsBelowRow, GrantsOfRow, OneMachinePerToken, Granted,
               Holders, RowsRegistered, DisabledHoldNothing, HasRow, Active
<1>11. ASSUME UNCHANGED <<tenantStatus, machineStatus, lease, events, now>>
       PROVE  Tokens' /\ Holders'
  BY <1>11 DEF Tokens, EventsBelowRow, GrantsOfRow, OneMachinePerToken, Granted,
               Holders, RowsRegistered, DisabledHoldNothing, HasRow, Active
<1>12. CheckAny => UNCHANGED <<tenantStatus, machineStatus, lease, events, now>>
  BY DEF CheckAny, CheckHeartbeat
<1>13. \A g \in Granted, s \in Secs, ts \in StartTimes :
         HeartbeatFails(g, s, ts) => UNCHANGED <<tenantStatus, machineStatus, lease, events, now>>
  BY DEF HeartbeatFails
<1>. QED BY <1>3, <1>4, <1>5, <1>6, <1>7, <1>8, <1>9, <1>10, <1>11, <1>12, <1>13
     DEF Next, HeartbeatAny, ReleaseAny, RevokeAny, DisableAny

(* The inductive invariant holds in every reachable state.                 *)
THEOREM Invariance == Spec => []IInv
BY InitInv, NextInv, PTL DEF Spec

(* An epoch of a key is told to one machine only, however claims, expiry,  *)
(* release, revocation and late callers of factory_claim interleave.       *)
THEOREM TokensIdentifyMachines == Spec => []OneMachinePerToken
<1>1. IInv => OneMachinePerToken
  BY DEF IInv
<1>. QED BY <1>1, Invariance, PTL

(* When transactions start and run within a tick, a revoked tenant or      *)
(* disabled machine holds no live lease (factory_revoke,                   *)
(* factory_machine_disable).                                               *)
THEOREM RevocationIsImmediate ==
  ASSUME MaxLag = 0
  PROVE  Spec => []DisabledHoldNothing
<1>1. IInv => DisabledHoldNothing
  BY DEF IInv
<1>. QED BY <1>1, Invariance, PTL

(* Once its key was granted, released or revoked with a larger epoch, a    *)
(* token never passes factory_fence_ok again.                              *)
THEOREM StaleTokensStayDead == Spec => []StaleTokenNeverPasses
<1>1. IInv => StaleTokenNeverPasses
  <2> SUFFICES ASSUME IInv, NEW g \in Granted, NEW e \in events,
                      g.key = e.key, g.epoch < e.epoch, Passes(g)
               PROVE  FALSE
    BY DEF StaleTokenNeverPasses
  <2>1. lease[g.key].epoch = g.epoch
    BY DEF Passes, FenceOk, Owns
  <2>2. e.epoch <= lease[g.key].epoch
    BY DEF IInv, EventsBelowRow
  <2>3. g.epoch \in Nat /\ e.epoch \in Nat
    BY DEF IInv, TypeOK, Event, Granted
  <2>. QED BY <2>1, <2>2, <2>3
<1>. QED BY <1>1, Invariance, PTL

-----------------------------------------------------------------------------

LEMMA ClaimGrants ==
  ASSUME TypeOK, NEW t \in Tenant, NEW m \in Machine, NEW k \in Key,
         NEW s \in Secs, NEW ts \in StartTimes,
         Insert(t, m, k, s, ts) \/ Reclaim(t, m, k, s, ts), now' = now
  PROVE  Fenced!Grant(k, m)
<1>1. ts \in Nat /\ ts <= now /\ now \in Nat /\ ts + s \in Nat
  BY StartTimesBounded, ArbiterAssumption DEF TypeOK
<1>2. lease'[k] \in Row /\ lease'[k].machine = m
  <2>1. CASE Insert(t, m, k, s, ts)
    BY <1>1, <2>1 DEF Insert, Row, TypeOK
  <2>2. CASE Reclaim(t, m, k, s, ts)
    <3>1. NextEpoch(k, m) \in Nat \ {0}
      BY <2>2 DEF Reclaim, HasRow, NextEpoch, TypeOK, Row
    <3>. QED BY <1>1, <2>2, <3>1 DEF Reclaim, Row, TypeOK
  <2>. QED BY <2>1, <2>2
<1>3. \A q \in Key : q # k => lease'[q] = lease[q]
  BY DEF Insert, Reclaim, TypeOK
<1>4. HasRow(k)' /\ lease'[k].epoch \in Nat \ {0}
  BY <1>2, ArbiterAssumption DEF HasRow, Row
<1>5. holderMap[k] \in {NoOne, m}
  <2>1. CASE Insert(t, m, k, s, ts)
    BY <2>1 DEF Insert, holderMap, Active
  <2>2. CASE Reclaim(t, m, k, s, ts)
    <3>1. lease[k] \in Row
      BY <2>2 DEF Reclaim, HasRow, TypeOK
    <3>2. ~Active(k, ts) => ~Active(k, now)
      BY <1>1, <3>1 DEF Active, Row
    <3>. QED BY <2>2, <3>2 DEF Reclaim, Takeable, holderMap
  <2>. QED BY <2>1, <2>2
<1>6. lastMap' = [lastMap EXCEPT ![k] = m]
  BY <1>2, <1>3, <1>4 DEF lastMap, HasRow
<1>7. \/ holderMap' = [holderMap EXCEPT ![k] = m]
      \/ holderMap' = [holderMap EXCEPT ![k] = NoOne]
  <2>1. CASE Active(k, now)'
    BY <1>2, <1>3, <2>1 DEF holderMap, Active, HasRow
  <2>2. CASE ~Active(k, now)'
    BY <1>2, <1>3, <2>2 DEF holderMap, Active, HasRow
  <2>. QED BY <2>1, <2>2
<1>8. tokenMap' = [tokenMap EXCEPT ![k] = tokenMap'[k]]
  BY <1>3 DEF tokenMap, HasRow
<1>9. /\ tokenMap'[k] \in Nat /\ tokenMap'[k] >= tokenMap[k]
      /\ lastMap[k] # m => tokenMap'[k] > tokenMap[k]
  <2>1. tokenMap'[k] = lease'[k].epoch
    BY <1>4 DEF tokenMap
  <2>2. CASE Insert(t, m, k, s, ts)
    BY <1>4, <2>1, <2>2 DEF Insert, tokenMap
  <2>3. CASE Reclaim(t, m, k, s, ts)
    <3>1. lease[k].epoch \in Nat
      BY <2>3 DEF Reclaim, HasRow, TypeOK, Row
    <3>2. lease'[k].epoch = NextEpoch(k, m)
      BY <2>3 DEF Reclaim, TypeOK
    <3>. QED BY <2>1, <2>3, <3>1, <3>2 DEF Reclaim, NextEpoch, tokenMap, lastMap
  <2>. QED BY <2>2, <2>3
<1>. QED BY <1>5, <1>6, <1>7, <1>8, <1>9 DEF Fenced!Grant

LEMMA KillLapses ==
  ASSUME TypeOK, NEW K \in SUBSET Key, NEW ts \in StartTimes, Kill(K, ts),
         \A k \in K : HasRow(k), now' = now
  PROVE  Fenced!Lapse(K)
<1>1. ts \in Nat /\ ts <= now /\ now \in Nat
  BY StartTimesBounded DEF TypeOK
<1>2. ASSUME NEW k \in K
      PROVE  /\ HasRow(k)' /\ HasRow(k)
             /\ lease'[k].machine = lease[k].machine
             /\ lease[k].epoch \in Nat /\ lease'[k].epoch = lease[k].epoch + 1
             /\ ~Active(k, now)'
  <2>1. lease[k] \in Row
    BY DEF HasRow, TypeOK
  <2>2. lease'[k] = KilledRow(k, ts)
    BY DEF Kill
  <2>3. KilledRow(k, ts) \in Row
    BY <1>1, <2>1 DEF KilledRow, Row
  <2>4. HasRow(k)'
    BY <2>2, <2>3, ArbiterAssumption DEF HasRow
  <2>5. lease'[k].expires = ts /\ lease'[k].machine = lease[k].machine
        /\ lease'[k].epoch = lease[k].epoch + 1
    BY <2>2 DEF KilledRow
  <2>. QED BY <1>1, <2>1, <2>4, <2>5 DEF Active, Row
<1>3. \A k \in Key \ K : lease'[k] = lease[k]
  BY DEF Kill
<1>4. holderMap' = [k \in Key |-> IF k \in K THEN NoOne ELSE holderMap[k]]
  BY <1>2, <1>3 DEF holderMap, Active, HasRow
<1>5. lastMap' = lastMap
  BY <1>2, <1>3 DEF lastMap, HasRow
<1>6. tokenMap' = [k \in Key |-> IF k \in K THEN tokenMap'[k] ELSE tokenMap[k]]
  BY <1>3 DEF tokenMap, HasRow
<1>7. \A k \in K : tokenMap'[k] \in Nat /\ tokenMap'[k] >= tokenMap[k]
  BY <1>2 DEF tokenMap
<1>. QED BY <1>4, <1>5, <1>6, <1>7 DEF Fenced!Lapse

LEMMA HeartbeatGrants ==
  ASSUME TypeOK, Tokens, NEW g \in Granted, NEW s \in Secs, NEW ts \in StartTimes,
         Heartbeat(g, s, ts)
  PROVE  Fenced!Grant(g.key, g.machine)
<1>1. ts \in Nat /\ ts <= now /\ now \in Nat /\ ts + s \in Nat
  BY StartTimesBounded, ArbiterAssumption DEF TypeOK
<1>2. Owns(g) /\ lease' = [lease EXCEPT ![g.key].expires = ts + s]
      /\ Granted' = Granted /\ events' = events /\ now' = now
  BY DEF Heartbeat, Granted
<1>3. \A k \in Key : /\ HasRow(k)' <=> HasRow(k)
                     /\ HasRow(k) => /\ lease[k] \in Row
                                     /\ lease'[k].machine = lease[k].machine
                                     /\ lease'[k].epoch = lease[k].epoch
                     /\ k # g.key => lease'[k] = lease[k]
  BY <1>1, <1>2, ExpiryOnly
<1>4. g.key \in Key /\ g.machine \in Machine /\ HasRow(g.key)
      /\ lease[g.key].machine = g.machine /\ lease[g.key].epoch \in Nat
  BY <1>2 DEF Owns, HasRow, Granted, TypeOK, Event, Row
<1>5. holderMap[g.key] \in {NoOne, g.machine}
  BY <1>4 DEF holderMap
<1>6. lastMap' = [lastMap EXCEPT ![g.key] = g.machine]
  BY <1>3, <1>4 DEF lastMap
<1>7. \/ holderMap' = [holderMap EXCEPT ![g.key] = g.machine]
      \/ holderMap' = [holderMap EXCEPT ![g.key] = NoOne]
  <2>1. \A q \in Key : q # g.key => holderMap'[q] = holderMap[q]
    BY <1>2, <1>3 DEF holderMap, Active, HasRow
  <2>2. holderMap'[g.key] = g.machine \/ holderMap'[g.key] = NoOne
    BY <1>3, <1>4 DEF holderMap
  <2>3. DOMAIN holderMap = Key /\ DOMAIN holderMap' = Key
        /\ holderMap = [q \in Key |-> holderMap[q]]
        /\ holderMap' = [q \in Key |-> holderMap'[q]]
    BY DEF holderMap
  <2> HIDE DEF holderMap
  <2>. QED BY <2>1, <2>2, <2>3
<1>8. tokenMap' = tokenMap /\ tokenMap[g.key] \in Nat
  BY <1>3, <1>4 DEF tokenMap
<1>9. tokenMap' = [tokenMap EXCEPT ![g.key] = tokenMap'[g.key]]
  BY <1>8 DEF tokenMap
<1>10. lastMap[g.key] = g.machine
  BY <1>4 DEF lastMap
<1>. QED BY <1>4, <1>5, <1>6, <1>7, <1>8, <1>9, <1>10 DEF Fenced!Grant

LEMMA ReleaseLapses ==
  ASSUME TypeOK, Tokens, NEW g \in Granted, NEW ts \in StartTimes, Release(g, ts)
  PROVE  Fenced!Lapse({g.key}) /\ g.key \in Key
<1>1. ts \in Nat /\ ts <= now /\ now \in Nat
  BY StartTimesBounded DEF TypeOK
<1>2. Owns(g) /\ lease' = [lease EXCEPT ![g.key].expires = ts] /\ now' = now
  BY DEF Release
<1>3. Granted' = Granted
  BY DEF Release, Granted, Record
<1>4. \A e \in events' : e \in events \/ (e.key = g.key /\ e.epoch = g.epoch)
  BY DEF Release, Record
<1>5. \A k \in Key : /\ HasRow(k)' <=> HasRow(k)
                     /\ HasRow(k) => /\ lease[k] \in Row
                                     /\ lease'[k].machine = lease[k].machine
                                     /\ lease'[k].epoch = lease[k].epoch
                     /\ k # g.key => lease'[k] = lease[k]
                     /\ k = g.key => lease'[k].expires = ts
  BY <1>1, <1>2, <1>3, <1>4, ExpiryOnly, ZenonT(60)
<1>6. g.key \in Key
  BY DEF Granted, TypeOK, Event
<1>7. ~Active(g.key, now)'
  BY <1>1, <1>2, <1>5, <1>6 DEF Active
<1>8. holderMap' = [k \in Key |-> IF k \in {g.key} THEN NoOne ELSE holderMap[k]]
  BY <1>2, <1>5, <1>7 DEF holderMap, Active
<1>9. lastMap' = lastMap /\ tokenMap' = tokenMap
  BY <1>5 DEF lastMap, tokenMap
<1>10. tokenMap[g.key] \in Nat
  BY <1>5, <1>6 DEF tokenMap, Row
<1>11. tokenMap' = [k \in Key |-> IF k \in {g.key} THEN tokenMap'[k] ELSE tokenMap[k]]
  BY <1>9 DEF tokenMap
<1>. QED BY <1>6, <1>8, <1>9, <1>10, <1>11 DEF Fenced!Lapse

LEMMA TickLapses ==
  ASSUME TypeOK, Tick
  PROVE  \E K \in SUBSET Key : Fenced!Lapse(K)
<1> DEFINE K == {k \in Key : ~Active(k, now)'}
<1>1. lease' = lease /\ now' = now + 1 /\ now \in Nat
  BY DEF Tick, TypeOK
<1>2. \A k \in Key : HasRow(k) => lease[k] \in Row
  BY DEF HasRow, TypeOK
<1>3. \A k \in Key : HasRow(k)' <=> HasRow(k)
  BY <1>1 DEF HasRow
<1>4. \A k \in Key \ K : Active(k, now) /\ Active(k, now)'
  BY <1>1, <1>2, <1>3 DEF Active, Row
<1>5. holderMap' = [k \in Key |-> IF k \in K THEN NoOne ELSE holderMap[k]]
  BY <1>1, <1>4 DEF holderMap
<1>6. lastMap' = lastMap /\ tokenMap' = tokenMap
  BY <1>1, <1>3 DEF lastMap, tokenMap
<1>7. \A k \in Key : tokenMap[k] \in Nat
  BY <1>2 DEF tokenMap, Row
<1>8. tokenMap' = [k \in Key |-> IF k \in K THEN tokenMap'[k] ELSE tokenMap[k]]
  BY <1>6 DEF tokenMap
<1>9. Fenced!Lapse(K)
  BY <1>5, <1>6, <1>7, <1>8 DEF Fenced!Lapse
<1>. QED BY <1>9

LEMMA StepRefines == IInv /\ [Next]_vars => [Fenced!Next]_Fenced!vars
<1> SUFFICES ASSUME IInv, [Next]_vars PROVE [Fenced!Next]_Fenced!vars
  OBVIOUS
<1> TypeOK /\ Tokens
  BY DEF IInv, Tokens
<1>1. ASSUME NEW t \in Tenant, NEW m \in Machine, NEW k \in Key,
             NEW s \in Secs, NEW ts \in StartTimes, Claim(t, m, k, s, ts)
      PROVE  [Fenced!Next]_Fenced!vars
  <2>1. CASE Insert(t, m, k, s, ts) \/ Reclaim(t, m, k, s, ts)
    <3>1. now' = now
      BY <1>1 DEF Claim
    <3>2. Fenced!Grant(k, m)
      BY <2>1, <3>1, ClaimGrants
    <3>. QED BY <3>2 DEF Fenced!Next
  <2>2. CASE UNCHANGED <<lease, events>>
    <3>1. lease' = lease /\ now' = now
      BY <1>1, <2>2 DEF Claim
    <3>. QED BY <3>1 DEF Fenced!vars, holderMap, lastMap, tokenMap, HasRow, Active
  <2>. QED BY <1>1, <2>1, <2>2 DEF Claim
<1>2. ASSUME NEW g \in Granted, NEW s \in Secs, NEW ts \in StartTimes, Heartbeat(g, s, ts)
      PROVE  [Fenced!Next]_Fenced!vars
  <2>1. Fenced!Grant(g.key, g.machine) /\ g.key \in Key /\ g.machine \in Machine
    BY <1>2, HeartbeatGrants DEF Granted, TypeOK, Event
  <2>. QED BY <2>1 DEF Fenced!Next
<1>3. ASSUME NEW g \in Granted, NEW ts \in StartTimes, Release(g, ts)
      PROVE  [Fenced!Next]_Fenced!vars
  <2>1. Fenced!Lapse({g.key}) /\ {g.key} \in SUBSET Key
    BY <1>3, ReleaseLapses
  <2>. QED BY <2>1 DEF Fenced!Next
<1>4. ASSUME NEW t \in Tenant, NEW ts \in StartTimes, Revoke(t, ts)
      PROVE  [Fenced!Next]_Fenced!vars
  <2>1. LeasesOfTenant(t, ts) \in SUBSET Key /\ \A k \in LeasesOfTenant(t, ts) : HasRow(k)
    BY DEF LeasesOfTenant, Active
  <2>2. Fenced!Lapse(LeasesOfTenant(t, ts))
    <3>1. Kill(LeasesOfTenant(t, ts), ts) /\ now' = now
      BY <1>4 DEF Revoke
    <3>. QED BY <2>1, <3>1, KillLapses
  <2>. QED BY <2>1, <2>2 DEF Fenced!Next
<1>5. ASSUME NEW m \in Machine, NEW ts \in StartTimes, MachineDisable(m, ts)
      PROVE  [Fenced!Next]_Fenced!vars
  <2>1. LeasesOfMachine(m, ts) \in SUBSET Key /\ \A k \in LeasesOfMachine(m, ts) : HasRow(k)
    BY DEF LeasesOfMachine, Active
  <2>2. Fenced!Lapse(LeasesOfMachine(m, ts))
    <3>1. Kill(LeasesOfMachine(m, ts), ts) /\ now' = now
      BY <1>5 DEF MachineDisable
    <3>. QED BY <2>1, <3>1, KillLapses
  <2>. QED BY <2>1, <2>2 DEF Fenced!Next
<1>6. CASE Tick
  BY <1>6, TickLapses DEF Fenced!Next
<1>7. ASSUME lease' = lease, now' = now
      PROVE  [Fenced!Next]_Fenced!vars
  BY <1>7 DEF Fenced!vars, holderMap, lastMap, tokenMap, HasRow, Active
<1>8. Reinstate \/ CheckAny \/ UNCHANGED vars => lease' = lease /\ now' = now
  BY DEF Reinstate, CheckAny, CheckHeartbeat, vars
<1>9. \A g \in Granted, s \in Secs, ts \in StartTimes :
        HeartbeatFails(g, s, ts) => lease' = lease /\ now' = now
  BY DEF HeartbeatFails
<1>. QED BY <1>1, <1>2, <1>3, <1>4, <1>5, <1>6, <1>7, <1>8, <1>9
     DEF Next, ClaimAny, HeartbeatAny, ReleaseAny, RevokeAny, DisableAny

(* The arbiter implements the abstract lease: every transaction is a grant *)
(* to a free key or to its holder, a lapse, or nothing, and the token of a *)
(* key grows with every change of machine.                                 *)
THEOREM ArbiterImplementsLease == Spec => ImplementsFencedLease
<1>1. Init => Fenced!Init
  BY DEF Init, Fenced!Init, holderMap, lastMap, tokenMap, HasRow, Active
<1>. QED BY <1>1, StepRefines, Invariance, PTL DEF Spec, Fenced!Spec, ImplementsFencedLease

-----------------------------------------------------------------------------
(* MaxLag = 0: the quota, and that only a new claim revives a token.  Both *)
(* fail with a lag of one tick.                                            *)

(* The live leases of a tenant, and the quota with what Cardinality needs: *)
(* Key may be infinite, the live leases are not.                           *)
LiveOf(t) == {k \in Key : Active(k, now) /\ lease[k].tenant = t}

Quota == \A t \in Tenant : /\ IsFiniteSet(LiveOf(t))
                           /\ Cardinality(LiveOf(t)) <= MaxParallel[t]

LEMMA NoLag ==
  ASSUME MaxLag = 0, TypeOK, NEW ts \in StartTimes
  PROVE  ts = now /\ now \in Nat
BY DEF StartTimes, TypeOK

(* A step after which no tenant has a lease it did not have before.        *)
LEMMA FewerLeases ==
  ASSUME Quota, \A t \in Tenant : LiveOf(t)' \subseteq LiveOf(t)
  PROVE  Quota'
<1> SUFFICES ASSUME NEW t \in Tenant
             PROVE  IsFiniteSet(LiveOf(t)') /\ Cardinality(LiveOf(t)') <= MaxParallel[t]
  BY DEF Quota
<1>1. IsFiniteSet(LiveOf(t)) /\ Cardinality(LiveOf(t)) <= MaxParallel[t]
  BY DEF Quota
<1>2. IsFiniteSet(LiveOf(t)') /\ Cardinality(LiveOf(t)') <= Cardinality(LiveOf(t))
  BY <1>1, FS_Subset
<1>3. MaxParallel[t] \in Nat
  BY ArbiterAssumption
<1>4. Cardinality(LiveOf(t)') \in Nat /\ Cardinality(LiveOf(t)) \in Nat
  BY <1>1, <1>2, FS_CardinalityType
<1>. QED BY <1>1, <1>2, <1>3, <1>4

(* A row that is live after the step was live before, for the same tenant. *)
LEMMA LiveBefore ==
  ASSUME Quota,
         \A k \in Key : Active(k, now)' => Active(k, now) /\ lease'[k].tenant = lease[k].tenant
  PROVE  Quota'
<1>1. \A t \in Tenant : LiveOf(t)' \subseteq LiveOf(t)
  BY DEF LiveOf
<1>. QED BY <1>1, FewerLeases

(* A granted claim changes the row of its key alone, which is the caller's *)
(* from then on.                                                           *)
LEMMA GrantedRow ==
  ASSUME TypeOK, NEW t \in Tenant, NEW m \in Machine, NEW k \in Key, NEW s, NEW ts,
         Insert(t, m, k, s, ts) \/ Reclaim(t, m, k, s, ts)
  PROVE  /\ lease'[k].tenant = t /\ lease'[k].machine = m
         /\ \A q \in Key \ {k} : lease'[q] = lease[q]
BY DEF Insert, Reclaim, TypeOK

(* The claim was let through because the caller's OTHER leases are fewer   *)
(* than max_parallel.                                                      *)
LEMMA ClaimQuota ==
  ASSUME MaxLag = 0, TypeOK, Quota, NEW t \in Tenant, NEW m \in Machine, NEW k \in Key,
         NEW s \in Secs, NEW ts \in StartTimes, Claim(t, m, k, s, ts)
  PROVE  Quota'
<1>1. ts = now /\ now \in Nat /\ now' = now
  BY NoLag DEF Claim
<1>2. CASE UNCHANGED lease
  BY <1>1, <1>2, LiveBefore DEF Active, HasRow
<1>3. CASE /\ ~QuotaFull(t, k, ts)
           /\ Insert(t, m, k, s, ts) \/ Reclaim(t, m, k, s, ts)
  <2>1. /\ lease'[k].tenant = t
        /\ \A q \in Key \ {k} : lease'[q] = lease[q]
    BY <1>3, GrantedRow
  <2> DEFINE Others == OtherActive(t, k, now)
  <2>2. Others \subseteq LiveOf(t)
    BY DEF OtherActive, LiveOf
  <2>3. IsFiniteSet(Others)
    BY <2>2, FS_Subset DEF Quota
  <2>4. Cardinality(Others) < MaxParallel[t] /\ Cardinality(Others) \in Nat
        /\ MaxParallel[t] \in Nat
    BY <1>1, <1>3, <2>3, FS_CardinalityType, ArbiterAssumption DEF QuotaFull
  <2>5. LiveOf(t)' \subseteq Others \cup {k}
    BY <1>1, <2>1 DEF LiveOf, OtherActive, Active, HasRow
  <2> HIDE DEF Others
  <2>6. /\ IsFiniteSet(Others \cup {k})
        /\ Cardinality(Others \cup {k}) <= MaxParallel[t]
        /\ Cardinality(Others \cup {k}) \in Nat
    <3>1. /\ IsFiniteSet(Others \cup {k})
          /\ \/ Cardinality(Others \cup {k}) = Cardinality(Others)
             \/ Cardinality(Others \cup {k}) = Cardinality(Others) + 1
      BY <2>3, FS_AddElement
    <3>. QED BY <2>4, <3>1
  <2>7. /\ IsFiniteSet(LiveOf(t)')
        /\ Cardinality(LiveOf(t)') <= Cardinality(Others \cup {k})
        /\ Cardinality(LiveOf(t)') \in Nat
    <3>1. /\ IsFiniteSet(LiveOf(t)')
          /\ Cardinality(LiveOf(t)') <= Cardinality(Others \cup {k})
      BY <2>5, <2>6, FS_Subset
    <3>. QED BY <3>1, FS_CardinalityType
  <2>8. ASSUME NEW u \in Tenant, u # t
        PROVE  IsFiniteSet(LiveOf(u)') /\ Cardinality(LiveOf(u)') <= MaxParallel[u]
    <3>1. LiveOf(u)' \subseteq LiveOf(u)
      BY <1>1, <2>1, <2>8 DEF LiveOf, Active, HasRow
    <3>2. IsFiniteSet(LiveOf(u)) /\ Cardinality(LiveOf(u)) <= MaxParallel[u]
      BY DEF Quota
    <3>3. IsFiniteSet(LiveOf(u)') /\ Cardinality(LiveOf(u)') <= Cardinality(LiveOf(u))
      BY <3>1, <3>2, FS_Subset
    <3>4. Cardinality(LiveOf(u)') \in Nat /\ Cardinality(LiveOf(u)) \in Nat
          /\ MaxParallel[u] \in Nat
      BY <3>2, <3>3, FS_CardinalityType, ArbiterAssumption
    <3>. QED BY <3>2, <3>3, <3>4
  <2>9. Cardinality(LiveOf(t)') <= MaxParallel[t]
    BY <2>4, <2>6, <2>7
  <2>. QED BY <2>7, <2>8, <2>9 DEF Quota
<1>. QED BY <1>2, <1>3 DEF Claim

(* Ends of leases leave every row that stays live as it was.               *)
LEMMA KillQuota ==
  ASSUME TypeOK, Quota, NEW K \in SUBSET Key, NEW ts \in StartTimes, Kill(K, ts),
         \A k \in K : HasRow(k), now' = now
  PROVE  Quota'
<1>1. \A k \in Key : Active(k, now)' => lease'[k] = lease[k]
  BY KillRows
<1>2. \A k \in Key : Active(k, now)' => Active(k, now) /\ lease'[k].tenant = lease[k].tenant
  BY <1>1 DEF Active, HasRow
<1>. QED BY <1>2, LiveBefore

LEMMA NextQuota ==
  ASSUME MaxLag = 0, IInv, Quota, [Next]_vars
  PROVE  Quota'
<1> TypeOK /\ Tokens
  BY DEF IInv, Tokens
<1>1. CASE ClaimAny
  BY <1>1, ClaimQuota DEF ClaimAny
<1>2. ASSUME NEW g \in Granted, NEW s \in Secs, NEW ts \in StartTimes, Heartbeat(g, s, ts)
      PROVE  Quota'
  <2>1. ts = now /\ now' = now /\ Active(g.key, now) /\ ts + s \in Nat
    BY <1>2, NoLag, ArbiterAssumption DEF Heartbeat
  <2>2. \A k \in Key : /\ k # g.key => lease'[k] = lease[k]
                       /\ HasRow(k)' => HasRow(k) /\ lease'[k].tenant = lease[k].tenant
    <3>1. /\ Owns(g) /\ lease' = [lease EXCEPT ![g.key].expires = ts + s]
          /\ Granted' = Granted /\ events' = events
      BY <1>2 DEF Heartbeat, Granted
    <3>2. \A k \in Key : /\ HasRow(k)' <=> HasRow(k)
                         /\ HasRow(k) => /\ lease[k] \in Row
                                         /\ lease'[k].machine = lease[k].machine
                                         /\ lease'[k].tenant = lease[k].tenant
                                         /\ lease'[k].epoch = lease[k].epoch
                         /\ k # g.key => lease'[k] = lease[k]
                         /\ k = g.key => lease'[k].expires = ts + s
      BY <2>1, <3>1, ExpiryOnly
    <3>. QED BY <3>2
  <2>3. \A k \in Key : Active(k, now)' => Active(k, now) /\ lease'[k].tenant = lease[k].tenant
    BY <2>1, <2>2 DEF Active
  <2>. QED BY <2>3, LiveBefore
<1>3. ASSUME NEW g \in Granted, NEW ts \in StartTimes, Release(g, ts)
      PROVE  Quota'
  <2>1. ts = now /\ now \in Nat /\ now' = now
    BY <1>3, NoLag DEF Release
  <2>2. g.key \in Key /\ lease[g.key] \in Row
    BY <1>3 DEF Release, Owns, HasRow, Granted, TypeOK, Event
  <2>3. /\ \A k \in Key \ {g.key} : lease'[k] = lease[k]
        /\ lease'[g.key].expires = now
    BY <1>3, <2>1, <2>2 DEF Release, TypeOK, Row
  <2>4. \A k \in Key : Active(k, now)' => Active(k, now) /\ lease'[k].tenant = lease[k].tenant
    BY <2>1, <2>3 DEF Active, HasRow
  <2>. QED BY <2>4, LiveBefore
<1>4. ASSUME NEW t \in Tenant, NEW ts \in StartTimes, Revoke(t, ts)
      PROVE  Quota'
  <2>1. LeasesOfTenant(t, ts) \in SUBSET Key /\ \A k \in LeasesOfTenant(t, ts) : HasRow(k)
    BY DEF LeasesOfTenant, Active
  <2>2. Kill(LeasesOfTenant(t, ts), ts) /\ now' = now
    BY <1>4 DEF Revoke
  <2>. QED BY <2>1, <2>2, KillQuota
<1>5. ASSUME NEW m \in Machine, NEW ts \in StartTimes, MachineDisable(m, ts)
      PROVE  Quota'
  <2>1. LeasesOfMachine(m, ts) \in SUBSET Key /\ \A k \in LeasesOfMachine(m, ts) : HasRow(k)
    BY DEF LeasesOfMachine, Active
  <2>2. Kill(LeasesOfMachine(m, ts), ts) /\ now' = now
    BY <1>5 DEF MachineDisable
  <2>. QED BY <2>1, <2>2, KillQuota
<1>6. CASE Tick
  <2>1. \A k \in Key : Active(k, now)' => Active(k, now)
    BY <1>6 DEF Tick, Active, HasRow, TypeOK, Row
  <2>. QED BY <1>6, <2>1, LiveBefore DEF Tick
<1>7. ASSUME lease' = lease, now' = now
      PROVE  Quota'
  BY <1>7, LiveBefore DEF Active, HasRow
<1>8. Reinstate \/ CheckAny \/ UNCHANGED vars => lease' = lease /\ now' = now
  BY DEF Reinstate, CheckAny, CheckHeartbeat, vars
<1>9. \A g \in Granted, s \in Secs, ts \in StartTimes :
        HeartbeatFails(g, s, ts) => lease' = lease /\ now' = now
  BY DEF HeartbeatFails
<1>. QED BY <1>1, <1>2, <1>3, <1>4, <1>5, <1>6, <1>7, <1>8, <1>9
     DEF Next, HeartbeatAny, ReleaseAny, RevokeAny, DisableAny

(* No tenant ever has more live leases than max_parallel, for any number   *)
(* of keys and machines: claims count the tenant's leases, renewals add    *)
(* none, and nothing that expired comes back.                              *)
THEOREM QuotaHolds ==
  ASSUME MaxLag = 0
  PROVE  Spec => []QuotaRespected
<1>1. Init => Quota
  <2> SUFFICES ASSUME Init PROVE Quota
    OBVIOUS
  <2>1. \A t \in Tenant : LiveOf(t) = {}
    BY DEF Init, LiveOf, Active, HasRow
  <2>2. IsFiniteSet({}) /\ Cardinality({}) = 0
    BY FS_EmptySet
  <2>3. \A t \in Tenant : MaxParallel[t] \in Nat
    BY ArbiterAssumption
  <2>. QED BY <2>1, <2>2, <2>3 DEF Quota
<1>2. IInv /\ Quota /\ [Next]_vars => Quota'
  BY NextQuota
<1>3. Quota => QuotaRespected
  BY DEF Quota, QuotaRespected, LiveOf
<1>. QED BY <1>1, <1>2, <1>3, Invariance, PTL DEF Spec

-----------------------------------------------------------------------------

(* The fence of a chain depends on its key's row, the clock and two        *)
(* statuses.                                                               *)
LEMMA FenceNow ==
  ASSUME MaxLag = 0, now \in Nat, NEW g
  PROVE  Passes(g) <=> FenceOk(g, now)
BY ArbiterAssumption DEF Passes, StartTimes

(* What keeps the fence of g shut: its row is as it was or less alive, and *)
(* whatever status is active was active already, or belongs to nobody who  *)
(* holds a live lease.                                                     *)
LEMMA StaysShut ==
  ASSUME IInv, MaxLag = 0, now' \in Nat, NEW g \in Granted,
         Owns(g)' /\ Active(g.key, now)' => Owns(g) /\ Active(g.key, now),
         Passes(g)'
  PROVE  Passes(g)
<1>1. now \in Nat /\ g.key \in Key
  BY DEF IInv, TypeOK, Granted, Event
<1>2. FenceOk(g, now)'
  BY ArbiterAssumption DEF Passes, StartTimes, FenceOk, Owns, Active, HasRow
<1>3. Owns(g) /\ Active(g.key, now)
  BY <1>2 DEF FenceOk
<1>4. tenantStatus[g.tenant] = "active" /\ machineStatus[g.machine] = "active"
  BY <1>1, <1>3 DEF IInv, DisabledHoldNothing, Owns
<1>. QED BY <1>1, <1>3, <1>4, FenceNow DEF FenceOk

(* A row that is live after the step was live before, with the same owner. *)
LEMMA SameOwner ==
  ASSUME IInv, MaxLag = 0, now' \in Nat, NEW g \in Granted,
         \A k \in Key : Active(k, now)' =>
            /\ Active(k, now)
            /\ lease'[k].tenant = lease[k].tenant
            /\ lease'[k].machine = lease[k].machine
            /\ lease'[k].epoch = lease[k].epoch,
         Passes(g)'
  PROVE  Passes(g)
<1>1. g.key \in Key
  BY DEF IInv, TypeOK, Granted, Event
<1>2. Owns(g)' /\ Active(g.key, now)' => Owns(g) /\ Active(g.key, now)
  BY <1>1 DEF Owns, Active
<1>. QED BY <1>2, StaysShut

LEMMA NextRevival ==
  ASSUME MaxLag = 0, IInv, Next, NEW g \in Granted, ~Passes(g), Passes(g)'
  PROVE  \E s \in Secs, ts \in StartTimes : Claim(g.tenant, g.machine, g.key, s, ts)
<1> TypeOK /\ TypeOK' /\ Tokens
  BY NextType DEF IInv, Tokens
<1>0. now \in Nat /\ now' \in Nat /\ g.key \in Key
  BY DEF TypeOK, Granted, Event
<1> DEFINE Same == \A k \in Key : Active(k, now)' =>
                     /\ Active(k, now)
                     /\ lease'[k].tenant = lease[k].tenant
                     /\ lease'[k].machine = lease[k].machine
                     /\ lease'[k].epoch = lease[k].epoch
<1>1. ~Same
  BY <1>0, SameOwner
<1> HIDE DEF Same
<1>2. ASSUME NEW t \in Tenant, NEW m \in Machine, NEW k \in Key, NEW s \in Secs,
             NEW ts \in StartTimes, Claim(t, m, k, s, ts)
      PROVE  t = g.tenant /\ m = g.machine /\ k = g.key
  <2>1. now' = now
    BY <1>2 DEF Claim
  <2>2. CASE UNCHANGED lease
    BY <1>1, <2>1, <2>2 DEF Same, Active, HasRow
  <2>3. CASE Insert(t, m, k, s, ts) \/ Reclaim(t, m, k, s, ts)
    <3>1. /\ lease'[k].tenant = t /\ lease'[k].machine = m
          /\ \A q \in Key \ {k} : lease'[q] = lease[q]
      BY <2>3, GrantedRow
    <3>2. CASE k = g.key
      <4>1. Owns(g)'
        BY DEF Passes, FenceOk, Owns, HasRow
      <4>. QED BY <3>1, <3>2, <4>1 DEF Owns
    <3>3. CASE k # g.key
      <4>1. lease'[g.key] = lease[g.key]
        BY <1>0, <3>1, <3>3
      <4>2. Owns(g)' /\ Active(g.key, now)' => Owns(g) /\ Active(g.key, now)
        BY <2>1, <4>1 DEF Owns, Active, HasRow
      <4>. QED BY <1>0, <4>2, StaysShut
    <3>. QED BY <3>2, <3>3
  <2>. QED BY <1>2, <2>2, <2>3 DEF Claim
<1>3. ASSUME NEW h \in Granted, NEW s \in Secs, NEW ts \in StartTimes, Heartbeat(h, s, ts)
      PROVE  Same
  <2>1. ts = now /\ now' = now /\ Active(h.key, now) /\ ts + s \in Nat
    BY <1>3, NoLag, ArbiterAssumption DEF Heartbeat
  <2>2. /\ Owns(h) /\ lease' = [lease EXCEPT ![h.key].expires = ts + s]
        /\ Granted' = Granted /\ events' = events
    BY <1>3 DEF Heartbeat, Granted
  <2>3. \A k \in Key : /\ HasRow(k)' <=> HasRow(k)
                       /\ HasRow(k) => /\ lease[k] \in Row
                                       /\ lease'[k].machine = lease[k].machine
                                       /\ lease'[k].tenant = lease[k].tenant
                                       /\ lease'[k].epoch = lease[k].epoch
                       /\ k # h.key => lease'[k] = lease[k]
                       /\ k = h.key => lease'[k].expires = ts + s
    BY <2>1, <2>2, ExpiryOnly
  <2>. QED BY <2>1, <2>3 DEF Same, Active
<1>4. ASSUME NEW h \in Granted, NEW ts \in StartTimes, Release(h, ts)
      PROVE  Same
  <2>1. ts = now /\ now' = now
    BY <1>4, NoLag DEF Release
  <2>2. h.key \in Key /\ lease[h.key] \in Row
    BY <1>4 DEF Release, Owns, HasRow, Granted, TypeOK, Event
  <2>3. /\ \A k \in Key \ {h.key} : lease'[k] = lease[k]
        /\ lease'[h.key].expires = now
    BY <1>4, <2>1, <2>2 DEF Release, TypeOK, Row
  <2>. QED BY <1>0, <2>1, <2>3 DEF Same, Active, HasRow
<1>5. ASSUME NEW K \in SUBSET Key, NEW ts \in StartTimes, Kill(K, ts),
             \A k \in K : HasRow(k), now' = now
      PROVE  Same
  <2>1. \A k \in Key : Active(k, now)' => lease'[k] = lease[k]
    BY <1>5, KillRows
  <2>. QED BY <1>5, <2>1 DEF Same, Active, HasRow
<1>6. ~RevokeAny
  <2> SUFFICES ASSUME NEW t \in Tenant, NEW ts \in StartTimes, Revoke(t, ts) PROVE Same
    BY <1>1 DEF RevokeAny
  <2>1. LeasesOfTenant(t, ts) \in SUBSET Key /\ \A k \in LeasesOfTenant(t, ts) : HasRow(k)
    BY DEF LeasesOfTenant, Active
  <2>2. Kill(LeasesOfTenant(t, ts), ts) /\ now' = now
    BY DEF Revoke
  <2>. QED BY <1>5, <2>1, <2>2
<1>7. ~DisableAny
  <2> SUFFICES ASSUME NEW m \in Machine, NEW ts \in StartTimes, MachineDisable(m, ts)
               PROVE  Same
    BY <1>1 DEF DisableAny
  <2>1. LeasesOfMachine(m, ts) \in SUBSET Key /\ \A k \in LeasesOfMachine(m, ts) : HasRow(k)
    BY DEF LeasesOfMachine, Active
  <2>2. Kill(LeasesOfMachine(m, ts), ts) /\ now' = now
    BY DEF MachineDisable
  <2>. QED BY <1>5, <2>1, <2>2
<1>8. ~Tick
  <2>1. Tick => Same
    BY DEF Tick, Same, Active, HasRow, TypeOK, Row
  <2>. QED BY <1>1, <2>1
<1>9. ~(lease' = lease /\ now' = now)
  BY <1>1 DEF Same, Active, HasRow
<1>10. Reinstate \/ CheckAny => lease' = lease /\ now' = now
  BY DEF Reinstate, CheckAny, CheckHeartbeat
<1>11. \A h \in Granted, s \in Secs, ts \in StartTimes :
         HeartbeatFails(h, s, ts) => lease' = lease /\ now' = now
  BY DEF HeartbeatFails
<1>12. ClaimAny
  BY <1>1, <1>3, <1>4, <1>6, <1>7, <1>8, <1>9, <1>10, <1>11
     DEF Next, HeartbeatAny, ReleaseAny
<1>. QED BY <1>2, <1>12 DEF ClaimAny

(* Once a token has stopped passing the fence, only a claim of its own     *)
(* tenant and machine makes it pass again: neither a late heartbeat, nor   *)
(* the reinstatement of a tenant or machine, nor time.                     *)
THEOREM RevivalNeedsClaim ==
  ASSUME MaxLag = 0
  PROVE  Spec => RevivalOnlyByReclaim
<1>1. IInv /\ [Next]_vars =>
        [\A g \in Granted :
           ~Passes(g) /\ Passes(g)' =>
             \E s \in Secs, ts \in StartTimes : Claim(g.tenant, g.machine, g.key, s, ts)]_vars
  BY NextRevival
<1>. QED BY <1>1, Invariance, PTL DEF Spec, RevivalOnlyByReclaim

=============================================================================
