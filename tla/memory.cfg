SPECIFICATION Spec
CONSTANTS
  Workers = {w1}
  None = none
  Keep = 1
  MaxTotal = 2
  MaxRounds = 4
  MaxCrashes = 1
  Faults = {"redis", "model", "expiry"}
INVARIANTS
  QueuedJobsExist
  RecentRoundsStayWhole
PROPERTIES
  ForgetsOldestFirst
CHECK_DEADLOCK FALSE
