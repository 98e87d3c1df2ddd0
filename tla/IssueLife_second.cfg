\* A second round after a failed one.
CONSTANTS
  Machine = {m1}
  Slot = {s1}
  MaxFixRounds = 2
  Renews = TRUE
  AutoMerge = FALSE
  Human = {}
  MaxHuman = 0
  Fault = {}
  MaxFaults = 0
SPECIFICATION Spec
PROPERTIES PassOpensPr
