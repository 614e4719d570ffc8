SPECIFICATION ProgressSpec
CONSTANTS
  Drafts = {d1, d2}
  Sources = {s1, s2}
  Builds = {b1, b2}
  Worker = worker
  Operators = {op1}
  Orphan = orphan
  None = none
PROPERTIES
  QueuedJobsAreClaimed
  DraftsSettle
CHECK_DEADLOCK FALSE
