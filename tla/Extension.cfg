SPECIFICATION ExtensionSpec
CONSTANTS
  Settings <- MCSettings
  NoToken = "none"
  BaseName <- MCBaseName
  Place <- MCPlace
  Inside = {"a/tests", "c"}
  Changing = {"b1", "c1"}
  Tools = {"tool"}
  MAX_RETRIES = 1
  MaxServers = 3
  MaxDisturbances = 1
CHECK_DEADLOCK FALSE
INVARIANTS
  PanelIsSound
PROPERTIES
  PanelCatchesUp
