\* One machine; what people do, and what goes wrong.
CONSTANTS
  Machine = {m1}
  Slot = {s1}
  MaxFixRounds = 2
  Renews = FALSE
  AutoMerge = TRUE
  Human = {"approve", "reject", "merge", "close", "reopen", "mark", "unmark", "retry", "start"}
  MaxHuman = 3
  Fault = {"call", "exit", "kill", "lapse"}
  MaxFaults = 1
SPECIFICATION FairSpec
INVARIANTS ClaimNotAbandoned RoundsBounded
PROPERTIES QueueServed
