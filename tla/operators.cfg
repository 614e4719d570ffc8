SPECIFICATION Spec
CONSTANTS
  Drafts = {d1}
  Sources = {s1, s2}
  Builds = {b1, b2, b3}
  Worker = worker
  Operators = {op1}
  Orphan = orphan
  None = none
  MaxJobs = 3
  MaxCrashes = 1
  Faults = {"redis", "chroma", "files"}
SYMMETRY Symmetry
INVARIANT PointerNamesValidated
PROPERTIES
  PointerMovesUnderLease
  RegisterSpec
  ReportsAreOfTheVisibleRelease
CHECK_DEADLOCK FALSE
