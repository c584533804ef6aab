SPECIFICATION ActivitiesSpec
CONSTANTS
  a = a
  b = b
  sa = sa
  sb = sb
  bg = bg
  common = common
  f1 = f1
  f2 = f2
  NoPath = NoPath
  Outcome = {a, b}
  Statement = {sa, sb}
  Matches <- MCMatches
  Backgrounds <- MCBackgrounds
  Features <- MCFeatures
  Projects <- MCProjects
CHECK_DEADLOCK FALSE
INVARIANTS
  ActivitiesTypeOK
  ResolvedWithOwn
  ExecutesWhatWasResolved
  BackgroundsStay
