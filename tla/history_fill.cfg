SPECIFICATION ServicesSpec
CONSTANTS
  Builds = {b1, b2}
  None = none
  Clients = {x1, x2}
  Profiles <- MCProfiles
  Keep = 2
  QueryRounds = 2
  MaxItems = 1
  MaxResult = 4
  Heading = 1
  Sizes = {1, 5}
  MaxRounds = 4
  MaxCalls = 2
  Goldens <- MCGoldens
  Responses <- MCResponses
  Outputs = {"poor", "none"}
  IndexBuilds = {"old", "new"}
  Published = {"old"}
  ChunksOf <- MCChunksOf
  RunIds = {x1, x2}
  MaxCommands = 3
  Cases = {"a1", "a2"}
  Expectations <- MCExpectations
  Evidences <- MCEvidences
  Judgements <- MCJudgements
  Users = {b1, b2}
  Categories = {plan, goal}
  Kinds = {"plain", "sensitive"}
  Contents = {0, 2}
  Duplicate = 1
  SearchLimit = 1
  Turns = {x1, x2}
  MaxMemories = 3
  MaxCandidates = 1
  Names = {b1, b2}
  Ips = {x1, x2}
  PairLimit = 2
  UserLimit = 2
  IpLimit = 2
  Window = 2
  Ticks = 2
  MaxKeys = 5
  MaxAttempts = 3
  MaxTime = 6
SYMMETRY Symmetry
INVARIANT FillingStopsAtFirstMisfit
CHECK_DEADLOCK FALSE
