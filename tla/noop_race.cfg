SPECIFICATION Spec
CONSTANTS
  Drafts = {d1}
  Sources = {s1, s2}
  Builds = {b1, b2}
  Worker = worker
  Operators = {op1}
  Orphan = orphan
  None = none
  MaxJobs = 2
  MaxCrashes = 0
  Faults = {}
SYMMETRY Symmetry
INVARIANT ReleaseHasItsDraftsContent
CHECK_DEADLOCK FALSE
