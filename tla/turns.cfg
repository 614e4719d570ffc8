SPECIFICATION Spec
CONSTANTS
  Users = {u1, u2}
  Changes <- MCChanges
  MaxSessions = 2
  MaxRequests = 1
  Threads = {t1}
  MaxTurns = 2
SYMMETRY Symmetry
INVARIANTS
  AdminRemains
  TurnsApartDoNotMix
  RoundsReachTheirOwner
PROPERTIES
  EndedSessionsStayOut
CHECK_DEADLOCK FALSE
