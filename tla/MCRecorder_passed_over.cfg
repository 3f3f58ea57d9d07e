CONSTANTS
  Operations <- Two
  MaxConcluded = 3
  FaultPlans = {{}}
  MaxFaults = 2
SPECIFICATION Spec
CHECK_DEADLOCK FALSE
INVARIANTS InSeqOrder
