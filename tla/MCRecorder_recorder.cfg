CONSTANTS
  Operations <- Two
  MaxConcluded = 1
  FaultPlans = {{"pass", "reconcile", "recreate"}, {"pass", "strip", "record"}, {"restore"}}
  MaxFaults = 2
SPECIFICATION FairSpec
CHECK_DEADLOCK FALSE
INVARIANTS ChainHolds RecordedOnce LetGoOnceRecorded RecordedSeqEarned
PROPERTIES GapIsGone HeadFastForwards CatchesUp
