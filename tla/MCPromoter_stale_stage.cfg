CONSTANTS
  d1 = d1
  d2 = d2
  NoDigest = NoDigest
  Digests = {d1, d2}
  FromUpstream = FALSE
  RecordsRequired = FALSE
  MaxConcluded = 3
  Asks <- Promotes
  StartLevel = 1
  StartPointer = d1
  Workers = 2
  OpLag = FALSE
  StageLag = TRUE
  Squatters = FALSE
  SpecEdits = TRUE
  MaxRequests = 1
  MaxRaised = 0
  MaxEdits = 0
  MaxAborts = 2
SPECIFICATION Spec
CHECK_DEADLOCK FALSE
INVARIANTS HolderOwnsPointer
PROPERTIES VerifiedWhileHeld RollbackRaisedFirst
