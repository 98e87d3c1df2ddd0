\* Two slots for three issues, one heartbeat may fail, kills at any step.
CONSTANTS
  Dispatcher = {d1}
  Issue = {i1, i2, i3}
  Free = Free
  MaxParallel = 2
  MaxLost = 1
  Crashes = TRUE
SPECIFICATION FairSpec
CHECK_DEADLOCK FALSE
INVARIANTS TypeOK SlotsRespected
PROPERTIES ReapedBeforeRelease ShutdownEnds BeatsEndWithDispatcher
