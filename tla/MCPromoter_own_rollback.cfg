CONSTANTS
  d1 = d1
  d2 = d2
  NoDigest = NoDigest
  Digests = {d1, d2}
  FromUpstream = FALSE
  RecordsRequired = FALSE
  MaxConcluded = 3
  Asks <- Nobody
  StartLevel = 3
  StartPointer = d1
  Workers = 2
  OpLag = FALSE
  StageLag = FALSE
  Squatters = FALSE
  SpecEdits = FALSE
  MaxRequests = 0
  MaxRaised = 1
  MaxEdits = 0
  MaxAborts = 0
SPECIFICATION Spec
CHECK_DEADLOCK FALSE
INVARIANTS FailureRemembered
