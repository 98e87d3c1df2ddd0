\* Three chains whose operations never straddle a tick, crashes at any step.
CONSTANTS
  Chain = {c1, c2, c3}
  NoFile = NoFile
  LeaseSecs = 1
  MaxTime = 2
  Timely = TRUE
  Crashes = TRUE
SPECIFICATION Spec
SYMMETRY MCSymmetry
CONSTRAINT MCUncrossed
CHECK_DEADLOCK FALSE
INVARIANTS TypeOK OneChainPerToken
PROPERTIES SupersededNeverPasses CounterNeverFalls ImplementsFencedLease
