\* Every combination of issue labels; MAX_FIX_ROUNDS as in the code.
CONSTANTS
  MaxFixRounds = 2
  MaxReviews = 3
SPECIFICATION Spec
PROPERTIES LocksSpared Settles
