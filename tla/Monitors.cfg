SPECIFICATION MonitorsSpec
CONSTANTS
  Setups <- MCSetups
  MaxTraffic = 1
  MaxWarnings = 2
CHECK_DEADLOCK FALSE
INVARIANTS
  RunIsTold
PROPERTIES
  SpansAreNested
  FailuresDoNotMultiply
