\* Two keys, one tenant with room for one lease, two machines, no lag.
CONSTANTS
  Tenant = {t1}
  Machine = {m1, m2}
  Key = {k1, k2}
  NoRow = NoRow
  MaxParallel <- MCParallel
  Secs = {1, 2}
  MaxLag = 0
  MaxTime = 2
  MaxEpoch = 2
  MaxBeats = 1
SPECIFICATION Spec
SYMMETRY MCKeySymmetry
INVARIANTS DisabledHoldNothing QuotaRespected
PROPERTIES RevivalOnlyByReclaim
