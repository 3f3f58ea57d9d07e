CONSTANTS
  d1 = d1
  d2 = d2
  NoDigest = NoDigest
  Digests = {d1, d2}
  FromUpstream = FALSE
  RecordsRequired = FALSE
  MaxConcluded = 3
  Asks <- People
  StartLevel = 1
  StartPointer = d1
  Workers = 1
  OpLag = FALSE
  StageLag = FALSE
  Squatters = FALSE
  SpecEdits = FALSE
  MaxRequests = 3
  MaxRaised = 0
  MaxEdits = 0
  MaxAborts = 0
SPECIFICATION Spec
CHECK_DEADLOCK FALSE
CONSTRAINT Straight
PROPERTIES FailedNotTriedAgain
