SPECIFICATION Spec
CONSTANTS
  Setups <- MCSetups
  MaxTab = 4
  Url = {"a", "b"}
  File = {"x", "y"}
INVARIANTS
  PagesAreSound
  NothingLeftBehind
PROPERTIES
  SettledCopiesAreKept
