SPECIFICATION Spec
CONSTANTS
  p = p
  q = q
  Fact = {p, q}
  Programs <- MCPrograms
  Arriving = {q}
  MaxAttempts = 2
  MaxLoops = 1
  MaxPolls = 2
  MaxDepth = 7
CHECK_DEADLOCK FALSE
INVARIANTS
  VerdictIsTruth
  RecordsAreSound
PROPERTIES
  EnsureProves
  FeatureEnds
