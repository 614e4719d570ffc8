SPECIFICATION FairSpec
CONSTANTS
  Workers = {w1, w2}
  None = none
  Keep = 1
  MaxTotal = 2
  MaxRounds = 3
  MaxCrashes = 1
  Faults = {}
PROPERTIES
  JobsGetResults
CHECK_DEADLOCK FALSE
