\* One key, two tenants on two shared machines, transactions that may start a tick late.
CONSTANTS
  NoRow = NoRow
  Tenant = {t1, t2}
  Machine = {m1, m2}
  Key = {k1}
  MaxParallel <- MCParallel
  Secs = {1}
  MaxLag = 1
  MaxTime = 2
  MaxEpoch = 2
  MaxBeats = 1
SPECIFICATION Spec
SYMMETRY MCSymmetry
INVARIANTS TypeOK OneMachinePerToken StaleTokenNeverPasses
PROPERTIES ImplementsFencedLease
