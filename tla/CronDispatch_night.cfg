\* The wrapper, one chain by hand and two issues of which one
\* is worked on at a time, over two days, one mishap.
CONSTANTS
  Cron = {cron}
  Hand = {hand}
  Issue = {i1, i2}
  MaxParallel = 1
  NoDir = NoDir
  NoPid = NoPid
  NoFile = NoFile
  Nobody = Nobody
  MaxRuns = 1
  MaxFails = 2
  Zone = "utc"
  PgMode = FALSE
  LastDay = 1
  MaxMishaps = 1
SPECIFICATION Spec
INVARIANTS TypeOK BreakerHolds OneDispatcher
PROPERTIES RoundsGoOn TripIsFinal
