CONSTANTS
  Artifacts = 2
  Deploy = 2
  WithSBOM = {1}
  Repeatable = {0}
  Revisions = {1, 2, 3}
  ContractOf <- Directories
  MaxRuns = 3
  MaxAtOnce = 2
SPECIFICATION Spec
CHECK_DEADLOCK FALSE
INVARIANTS CommitPoint TaggedIsComplete VersionIsOne RerunFinishes
