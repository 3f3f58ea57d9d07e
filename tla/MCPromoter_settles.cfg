CONSTANTS
  d1 = d1
  d2 = d2
  NoDigest = NoDigest
  Digests = {d1, d2}
  FromUpstream = FALSE
  RecordsRequired = FALSE
  MaxConcluded = 3
  Asks <- Promotes
  StartLevel = 1
  StartPointer = d1
  Workers = 1
  OpLag = FALSE
  StageLag = FALSE
  Squatters = FALSE
  SpecEdits = FALSE
  MaxRequests = 1
  MaxRaised = 1
  MaxEdits = 1
  MaxAborts = 1
SPECIFICATION FairSpec
CHECK_DEADLOCK FALSE
PROPERTIES EveryOperationEnds FailureIsLeft EditIsWitnessed
