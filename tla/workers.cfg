SPECIFICATION FairSpec
CONSTANTS
  Workers = {w1, w2}
  None = none
  Keep = 1
  MaxTotal = 1
  MaxRounds = 3
  MaxCrashes = 1
  Faults = {"redis", "model"}
PROPERTIES
  PendingJobsAreTaken
  JobsGetResultsIfWorkersLive
CHECK_DEADLOCK FALSE
