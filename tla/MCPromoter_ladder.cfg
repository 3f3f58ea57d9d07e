CONSTANTS
  d1 = d1
  d2 = d2
  NoDigest = NoDigest
  Digests = {d1, d2}
  FromUpstream = FALSE
  RecordsRequired = FALSE
  MaxConcluded = 3
  Asks <- LevelChanges
  StartLevel = 0
  StartPointer = d1
  Workers = 2
  OpLag = FALSE
  StageLag = FALSE
  Squatters = FALSE
  SpecEdits = FALSE
  MaxRequests = 2
  MaxRaised = 0
  MaxEdits = 1
  MaxAborts = 0
SPECIFICATION Spec
CHECK_DEADLOCK FALSE
INVARIANTS HolderOwnsPointer PatchUnderLock
PROPERTIES PointerMovesAsPlanned LevelsClimbByPeople
