CONSTANTS
  d1 = d1
  d2 = d2
  NoDigest = NoDigest
  Digests = {d1, d2}
  FromUpstream = TRUE
  RecordsRequired = FALSE
  MaxConcluded = 2
  Asks <- Nobody
  StartLevel = 3
  StartPointer = d1
  Workers = 2
  OpLag = TRUE
  StageLag = FALSE
  Squatters = FALSE
  SpecEdits = FALSE
  MaxRequests = 0
  MaxRaised = 1
  MaxEdits = 0
  MaxAborts = 1
SPECIFICATION Spec
CHECK_DEADLOCK FALSE
INVARIANTS OneConclusion ConclusionAgrees FailureAttended PatchUnderLock
PROPERTIES StepDownRaisedFirst ImplementsStream
