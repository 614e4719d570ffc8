SPECIFICATION FairSpec
CONSTANTS
  Ids <- MCIds
  Plans <- MCPlans
  AllowedAgents = {"realtime_agent", "general_agent"}
  Realtime = "realtime_agent"
  MaxSteps = 3
  MaxAttempts = 2
  MaxLate = 1
  Faults = 1
INVARIANTS
  ValidPlansAreOrderable
  DependenciesFirst
  EveryAttemptIsTraced
  TraceIsClosed
  SummaryReferencesExist
  CriticalPathIsLongest
PROPERTIES
  ResultsAreFinal
  PlansFinish
CHECK_DEADLOCK FALSE
