CONSTANTS
    Asset = {a, b}
    MaxCommits = 2
    MaxRewrites = 1
    MaxDeaths = 1
SPECIFICATION Spec
INVARIANTS
    FedOnce
    Accounted
CHECK_DEADLOCK FALSE
