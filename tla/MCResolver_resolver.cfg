CONSTANTS
  a = a
  b = b
  c = c
  root = root
  Refs = {a, b, c}
  Root = root
  Graphs <- SmallGraphs
  MaxFailures = 1
SPECIFICATION Spec
CHECK_DEADLOCK FALSE
INVARIANTS ResolvedOnce NeverLost EverythingResolved CyclesAreFound
PROPERTIES GraphIsBuilt
