---------------------------- MODULE LeaseArbiter ----------------------------
(***************************************************************************)
(* The arbitration layer of the maintenance factory: the stored functions  *)
(* of .factory/db/schema.sql.  Each function is one transaction at read     *)
(* committed; one whose row locks order it against the others is one       *)
(* action.  The heartbeat reads the statuses without a lock, so its check  *)
(* and its update are two.  now() inside a transaction is the time it      *)
(* STARTED, which may lie before the time its statements run (a row lock   *)
(* to wait for, a slow backend): the argument ts is that start time, at    *)
(* most MaxLag behind the clock.  MaxLag = 0 is the idealisation in which  *)
(* both coincide.                                                          *)
(*                                                                         *)
(* Callers are not modelled here: any pair (machine, epoch) a claim ever   *)
(* returned may be presented at any later time, which is what a paused,    *)
(* partitioned or forgotten chain does.                                    *)
(*                                                                         *)
(* Left out: the columns nothing reads (first_seen, last_seen,             *)
(* heartbeat_at, factory_machines.tenant), the permission statements, and  *)
(* login roles without a tenant row, which every worker function refuses.  *)
(***************************************************************************)
EXTENDS Naturals, FiniteSets

CONSTANTS Tenant, Machine, Key,
          MaxParallel,   \* MaxParallel[t]: factory_tenants.max_parallel
          Secs,          \* the lease lengths callers ask for
          NoRow,         \* lease[k] when factory_leases has no row for k
          MaxLag,        \* how far now() may lie behind the clock
          MaxTime,       \* bound on the clock
          MaxEpoch,      \* bound on the epochs
          MaxBeats       \* bound on the heartbeats under way at once

Status == {"active", "disabled"}
Row == [tenant : Tenant, machine : Machine, epoch : Nat \ {0}, expires : Nat]
Event == [key : Key, tenant : Tenant, machine : Machine, epoch : Nat \ {0},
          action : {"claim", "reclaim", "release", "revoke"}]
Beat == [grant : Event, secs : Secs, start : Nat]

ASSUME ArbiterAssumption ==
  /\ MaxParallel \in [Tenant -> Nat]
  /\ Secs \subseteq Nat
  /\ NoRow \notin Row
  /\ MaxLag \in Nat /\ MaxTime \in Nat /\ MaxEpoch \in Nat /\ MaxBeats \in Nat

VARIABLES tenantStatus,    \* factory_tenants.status
          machineStatus,   \* factory_machines.status, "absent" if no row
          lease,           \* factory_leases
          events,          \* factory_events, as a set
          beats,           \* heartbeats between their checks and their update
          now              \* the clock of the database server

vars == <<tenantStatus, machineStatus, lease, events, beats, now>>

Init ==
  /\ tenantStatus = [t \in Tenant |-> "active"]
  /\ machineStatus = [m \in Machine |-> "absent"]
  /\ lease = [k \in Key |-> NoRow]
  /\ events = {}
  /\ beats = {}
  /\ now = 0

-----------------------------------------------------------------------------

(* The values now() can have in a transaction whose statements run now.    *)
StartTimes == {ts \in 0 .. now : now <= ts + MaxLag}

HasRow(k) == lease[k] # NoRow
Active(k, ts) == HasRow(k) /\ lease[k].expires > ts

(* The quota counts the tenant's other active leases: a renewal is never   *)
(* blocked by the lease it renews.                                         *)
OtherActive(t, k, ts) == {q \in Key \ {k} : Active(q, ts) /\ lease[q].tenant = t}
(* Mutant: the comparison lets one lease too many through.                 *)
QuotaOffByOne(t, k, ts) == Cardinality(OtherActive(t, k, ts)) > MaxParallel[t]

QuotaFull(t, k, ts) == Cardinality(OtherActive(t, k, ts)) >= MaxParallel[t]

(* Mutant: a tenant may take over from its own machines without waiting.   *)
TakeableWithinTenant(t, m, k, ts) == ~Active(k, ts) \/ lease[k].tenant = t

(* The row of k is (t, m)'s to take: it expired, or it is their own.       *)
Takeable(t, m, k, ts) ==
  \/ ~Active(k, ts)
  \/ lease[k].machine = m /\ lease[k].tenant = t

(* Mutant: a takeover forgets to raise the token.                          *)
NextEpochUnchanged(k, m) == lease[k].epoch

(* The fencing token only moves when the machine changes.                  *)
NextEpoch(k, m) == lease[k].epoch + (IF lease[k].machine = m THEN 0 ELSE 1)

Record(k, t, m, e, a) ==
  [key |-> k, tenant |-> t, machine |-> m, epoch |-> e, action |-> a]

(* Mutant: the row gets the column default, epoch 0.                       *)
InsertDefaultEpoch(t, m, k, s, ts) ==
  /\ ~HasRow(k)
  /\ lease' = [lease EXCEPT ![k] = [tenant |-> t, machine |-> m, epoch |-> 0,
                                    expires |-> ts + s]]
  /\ events' = events \cup {Record(k, t, m, 0, "claim")}

Insert(t, m, k, s, ts) ==
  /\ ~HasRow(k)
  /\ lease' = [lease EXCEPT ![k] = [tenant |-> t, machine |-> m, epoch |-> 1,
                                    expires |-> ts + s]]
  /\ events' = events \cup {Record(k, t, m, 1, "claim")}

Reclaim(t, m, k, s, ts) ==
  /\ HasRow(k) /\ Takeable(t, m, k, ts)
  /\ NextEpoch(k, m) <= MaxEpoch
  /\ lease' = [lease EXCEPT ![k] = [tenant |-> t, machine |-> m,
                                    epoch |-> NextEpoch(k, m), expires |-> ts + s]]
  /\ events' = events \cup {Record(k, t, m, NextEpoch(k, m), "reclaim")}

(* factory_claim: a refusal for quota or for a foreign lease still leaves  *)
(* the machine registered, the transaction commits.                        *)
Claim(t, m, k, s, ts) ==
  /\ tenantStatus[t] = "active"
  /\ machineStatus' = [machineStatus EXCEPT ![m] = IF @ = "absent" THEN "active" ELSE @]
  /\ \/ /\ machineStatus[m] # "disabled" /\ ~QuotaFull(t, k, ts)
        /\ Insert(t, m, k, s, ts) \/ Reclaim(t, m, k, s, ts)
     \/ /\ \/ machineStatus[m] = "disabled"
           \/ QuotaFull(t, k, ts)
           \/ ~Takeable(t, m, k, ts)
        /\ UNCHANGED <<lease, events>>
  /\ UNCHANGED <<tenantStatus, beats, now>>

-----------------------------------------------------------------------------

(* What chains were told they hold, live or not: every granted claim.      *)
Granted == {e \in events : e.action \in {"claim", "reclaim"}}

Owns(g) ==
  /\ HasRow(g.key)
  /\ lease[g.key].tenant = g.tenant
  /\ lease[g.key].machine = g.machine
  /\ lease[g.key].epoch = g.epoch

(* factory_heartbeat, first half: the statuses, read without a lock.       *)
CheckHeartbeat(g, s) ==
  /\ tenantStatus[g.tenant] = "active"
  /\ machineStatus[g.machine] # "disabled"
  /\ Cardinality(beats) < MaxBeats
  /\ beats' = beats \cup {[grant |-> g, secs |-> s, start |-> now]}
  /\ UNCHANGED <<tenantStatus, machineStatus, lease, events, now>>

Finished(g, s, ts) == beats' = beats \ {[grant |-> g, secs |-> s, start |-> ts]}

(* Mutant: the heartbeat extends whatever row matches, expired or not.     *)
HeartbeatRevives(g, s, ts) ==
  /\ [grant |-> g, secs |-> s, start |-> ts] \in beats
  /\ Finished(g, s, ts)
  /\ Owns(g)
  /\ lease' = [lease EXCEPT ![g.key].expires = ts + s]
  /\ UNCHANGED <<tenantStatus, machineStatus, events, now>>

(* Second half: an expired lease is not revived, a lease that is not the   *)
(* caller's is not touched.                                                *)
Heartbeat(g, s, ts) ==
  /\ [grant |-> g, secs |-> s, start |-> ts] \in beats
  /\ Finished(g, s, ts)
  /\ Owns(g) /\ Active(g.key, ts)
  /\ lease' = [lease EXCEPT ![g.key].expires = ts + s]
  /\ UNCHANGED <<tenantStatus, machineStatus, events, now>>

HeartbeatFails(g, s, ts) ==
  /\ [grant |-> g, secs |-> s, start |-> ts] \in beats
  /\ Finished(g, s, ts)
  /\ ~(Owns(g) /\ Active(g.key, ts))
  /\ UNCHANGED <<tenantStatus, machineStatus, lease, events, now>>

(* factory_fence_ok, read by the chain before each outward effect.         *)
FenceOk(g, ts) ==
  /\ Owns(g) /\ Active(g.key, ts)
  /\ tenantStatus[g.tenant] = "active"
  /\ machineStatus[g.machine] = "active"

(* Mutant: the release deletes the row, and the epoch with it.             *)
ReleaseDeletes(g, ts) ==
  /\ Owns(g)
  /\ lease' = [lease EXCEPT ![g.key] = NoRow]
  /\ events' = events \cup {Record(g.key, g.tenant, g.machine, g.epoch, "release")}
  /\ UNCHANGED <<tenantStatus, machineStatus, beats, now>>

(* factory_release: no status is looked at and no epoch is raised.         *)
Release(g, ts) ==
  /\ Owns(g)
  /\ lease' = [lease EXCEPT ![g.key].expires = ts]
  /\ events' = events \cup {Record(g.key, g.tenant, g.machine, g.epoch, "release")}
  /\ UNCHANGED <<tenantStatus, machineStatus, beats, now>>

LeasesOfTenant(t, ts) == {k \in Key : Active(k, ts) /\ lease[k].tenant = t}
LeasesOfMachine(m, ts) == {k \in Key : Active(k, ts) /\ lease[k].machine = m}

(* The leases of the keys in K end and their tokens die with them.         *)
KilledRow(k, ts) == [tenant |-> lease[k].tenant, machine |-> lease[k].machine,
                     epoch |-> lease[k].epoch + 1, expires |-> ts]
Kill(K, ts) ==
  /\ \A k \in K : lease[k].epoch < MaxEpoch
  /\ lease' = [k \in Key |-> IF k \in K THEN KilledRow(k, ts) ELSE lease[k]]
  /\ events' = events \cup {Record(k, lease[k].tenant, lease[k].machine,
                                   lease[k].epoch + 1, "revoke") : k \in K}

(* Mutant: the tenant is disabled and its leases are left to run out.      *)
RevokeStatusOnly(t, ts) ==
  /\ tenantStatus' = [tenantStatus EXCEPT ![t] = "disabled"]
  /\ UNCHANGED <<machineStatus, lease, events, beats, now>>

(* factory_revoke: the tenant and all its active leases.                   *)
Revoke(t, ts) ==
  /\ tenantStatus' = [tenantStatus EXCEPT ![t] = "disabled"]
  /\ Kill(LeasesOfTenant(t, ts), ts)
  /\ UNCHANGED <<machineStatus, beats, now>>

(* factory_machine_disable: a machine without a row has no lease either.   *)
MachineDisable(m, ts) ==
  /\ machineStatus' = [machineStatus EXCEPT ![m] = IF @ = "absent" THEN @ ELSE "disabled"]
  /\ Kill(LeasesOfMachine(m, ts), ts)
  /\ UNCHANGED <<tenantStatus, beats, now>>

(* The administrator undoes either by hand: there is no function for it.   *)
Reinstate ==
  /\ \/ \E t \in Tenant : /\ tenantStatus' = [tenantStatus EXCEPT ![t] = "active"]
                          /\ UNCHANGED machineStatus
     \/ \E m \in Machine : /\ machineStatus[m] = "disabled"
                           /\ machineStatus' = [machineStatus EXCEPT ![m] = "active"]
                           /\ UNCHANGED tenantStatus
  /\ UNCHANGED <<lease, events, beats, now>>

(* A heartbeat under way ends before it is MaxLag old.                     *)
Tick ==
  /\ now < MaxTime
  /\ \A b \in beats : now < b.start + MaxLag
  /\ now' = now + 1
  /\ UNCHANGED <<tenantStatus, machineStatus, lease, events, beats>>

ClaimAny == \E t \in Tenant, m \in Machine, k \in Key, s \in Secs, ts \in StartTimes :
              Claim(t, m, k, s, ts)
CheckAny == \E g \in Granted, s \in Secs : CheckHeartbeat(g, s)
HeartbeatAny == \E g \in Granted, s \in Secs, ts \in StartTimes :
                  Heartbeat(g, s, ts) \/ HeartbeatFails(g, s, ts)
ReleaseAny == \E g \in Granted, ts \in StartTimes : Release(g, ts)
RevokeAny == \E t \in Tenant, ts \in StartTimes : Revoke(t, ts)
DisableAny == \E m \in Machine, ts \in StartTimes : MachineDisable(m, ts)

Next == \/ ClaimAny
        \/ CheckAny
        \/ HeartbeatAny
        \/ ReleaseAny
        \/ RevokeAny
        \/ DisableAny
        \/ Reinstate
        \/ Tick

Spec == Init /\ [][Next]_vars

-----------------------------------------------------------------------------

TypeOK ==
  /\ tenantStatus \in [Tenant -> Status]
  /\ machineStatus \in [Machine -> Status \cup {"absent"}]
  /\ lease \in [Key -> Row \cup {NoRow}]
  /\ events \subseteq Event
  /\ beats \subseteq Beat
  /\ now \in Nat

(* The outward effects of g's chain would be let through.                  *)
Passes(g) == \E ts \in StartTimes : FenceOk(g, ts)

(* Two machines are never told the same epoch of a key, however claims,    *)
(* expiries, releases, revocations and late callers interleave: the epoch  *)
(* identifies the machine, as factory_claim's "epoch + 1 on takeover" says.*)
OneMachinePerToken ==
  \A g, h \in Granted : g.key = h.key /\ g.epoch = h.epoch => g.machine = h.machine

(* A token older than any later grant, release or revocation of its key    *)
(* never passes factory_fence_ok again, not after the tenant or machine is *)
(* reinstated, nor with a fence check that started before the takeover.    *)
StaleTokenNeverPasses ==
  \A g \in Granted, e \in events :
    g.key = e.key /\ g.epoch < e.epoch => ~Passes(g)

(* A revoked tenant or a disabled machine holds no lease: its keys are     *)
(* free for others at once (factory_revoke, factory_machine_disable).  For *)
(* MaxLag = 0: a heartbeat older than the expiry of its lease can extend   *)
(* it after a revocation that found it expired.                            *)
DisabledHoldNothing ==
  \A k \in Key : Active(k, now) => /\ tenantStatus[lease[k].tenant] = "active"
                                  /\ machineStatus[lease[k].machine] = "active"

(* No tenant ever has more live leases than max_parallel.                  *)
QuotaRespected ==
  \A t \in Tenant :
    Cardinality({k \in Key : Active(k, now) /\ lease[k].tenant = t}) <= MaxParallel[t]

(* A token that has stopped passing the fence starts again only when its   *)
(* own machine and tenant claim the key anew ("expired leases do not come  *)
(* back to life, claim again"): no heartbeat of a late chain, no           *)
(* reinstatement and no passing of time does it.                           *)
RevivalOnlyByReclaim ==
  [][\A g \in Granted :
       ~Passes(g) /\ Passes(g)' =>
         \E s \in Secs, ts \in StartTimes : Claim(g.tenant, g.machine, g.key, s, ts)]_vars

(* The abstract lease: its client is the machine.  The chains of a machine *)
(* share its lease, and tenants that share a machine are told apart by the *)
(* fence, not by the epoch.                                                *)
NoOne == "no one"
holderMap == [k \in Key |-> IF Active(k, now) THEN lease[k].machine ELSE NoOne]
lastMap == [k \in Key |-> IF HasRow(k) THEN lease[k].machine ELSE NoOne]
tokenMap == [k \in Key |-> IF HasRow(k) THEN lease[k].epoch ELSE 0]

Fenced == INSTANCE FencedLease
  WITH Client <- Machine, holder <- holderMap, last <- lastMap, token <- tokenMap

(* The arbiter keeps the promise of FencedLease.                           *)
ImplementsFencedLease == Fenced!Spec
=============================================================================
