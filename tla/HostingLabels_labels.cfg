\* Two slots of two calls each, the last of the second slot at another site: a
\* dead owner and two that take over from it, and two that do not share a lock.
CONSTANTS
  c1 = c1
  c2 = c2
  m1 = m1
  m2 = m2
  Client = {c1, c2}
  Label = {l1}
  Site = {m1, m2}
  SiteOf <- MCSiteOf
  NoDir = NoDir
  NoPid = NoPid
  MaxCalls = 2
  Faults = {"kill", "refused", "lost"}
  MaxFaults = 1
SPECIFICATION Spec
INVARIANTS TypeOK AnswersAreTrue HistoryNeverShort
PROPERTIES ImplementsLabelStore CallsEnd
CHECK_DEADLOCK FALSE
