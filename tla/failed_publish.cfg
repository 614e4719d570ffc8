SPECIFICATION Spec
CONSTANTS
  Drafts = {d1}
  Sources = {s1}
  Builds = {b1}
  Worker = worker
  Operators = {}
  Orphan = orphan
  None = none
  MaxJobs = 2
  MaxCrashes = 0
  Faults = {"redis"}
PROPERTY FailedPublishStaysInvisible
CHECK_DEADLOCK FALSE
