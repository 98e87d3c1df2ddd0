\* Two machines whose leases may lapse while their chains run.
CONSTANTS
  Machine = {m1, m2}
  Slot = {s1}
  MaxFixRounds = 2
  Renews = TRUE
  AutoMerge = FALSE
  Human = {"reject", "start"}
  MaxHuman = 2
  Fault = {"lapse"}
  MaxFaults = 1
SPECIFICATION Spec
SYMMETRY MCSymmetry
PROPERTIES WorkStaysMarked
