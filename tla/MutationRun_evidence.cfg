\* Two defects at a time out of four, two runs, two segments, one worker; in version 2 the
\* gate for tests is a parallel one.
CONSTANTS
  Segment = {g1, g2}
  Workers = 1
  Tests = {t1, t2}
  Guarded = {p1}
  Documented = {d1}
  Expected = {t1, p1}
  Broken = {t2}
  Version = {0, 1, 2}
  Unusable = {1}
  Adrift = {2}
  Undocumented = {2}
  Split = {2}
  Protected = TRUE
  NoDefect = NoDefect
  NoStamp = NoStamp
  NoFile = NoFile
  Cut = Cut
  Whole = Whole
  MaxSelected = 2
  MaxRuns = 2
  MaxMishaps = 2
SPECIFICATION Spec
INVARIANTS TypeOK GateSound NothingLeftBehind
PROPERTIES StampIsEvidence RunEnds
CHECK_DEADLOCK FALSE
