SPECIFICATION Spec
CONSTANTS
  Plans <- MCPlans
  Options <- MCOptions
  MaxReruns = 1
CHECK_DEADLOCK FALSE
INVARIANTS
  TypeOK
  ScenarioVarsConfined
  NextFeatureStartsFresh
  FailureIsTold
PROPERTIES
  HooksAreNested
  ExhaustionHalts
  StartedFeatureEnds
