SPECIFICATION Spec
CONSTANTS
  Drafts = {d1, d2}
  Sources = {s1, s2}
  Builds = {b1, b2, b3}
  Worker = worker
  Operators = {}
  Orphan = orphan
  None = none
  MaxJobs = 5
  MaxCrashes = 1
  Faults = {"database", "redis", "chroma", "files", "stall"}
SYMMETRY Symmetry
INVARIANTS
  DraftsAndJobsAgree
  OneCurrentRelease
  PublishedDraftsHaveTheirRelease
PROPERTY SuccessIsVisible
CHECK_DEADLOCK FALSE
