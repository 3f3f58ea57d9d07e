CONSTANTS
  d1 = d1
  d2 = d2
  NoDigest = NoDigest
  Digests = {d1, d2}
  FromUpstream = TRUE
  RecordsRequired = FALSE
  MaxConcluded = 3
  Asks <- People
  StartLevel = 3
  StartPointer = d1
  Workers = 1
  OpLag = FALSE
  StageLag = FALSE
  Squatters = TRUE
  SpecEdits = FALSE
  MaxRequests = 1
  MaxRaised = 1
  MaxEdits = 0
  MaxAborts = 0
SPECIFICATION Spec
CHECK_DEADLOCK FALSE
INVARIANTS TypeOK FailureAttended
