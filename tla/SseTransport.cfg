SPECIFICATION Spec
CONSTANTS
  c1 = c1
  c2 = c2
  Client = {c1, c2}
  MaxEvents = 2
  MaxRuns = 2
  MaxConnections = 2
CHECK_DEADLOCK FALSE
INVARIANTS
  PageTellsRun
PROPERTIES
  CatchesUp
