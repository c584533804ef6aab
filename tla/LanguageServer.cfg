SPECIFICATION ServerSpec
CONSTANTS
  Features = {"f1", "f2"}
  Alone = {"f2"}
  Backgrounds = {"b1", "b2"}
  Kireji = {"k"}
  Builtin = {"set"}
  Drafts <- MCDrafts
  OnDisk <- MCOnDisk
  MAX_RETRIES = 1
  MaxEdits = 3
  MaxCrashes = 2
CHECK_DEADLOCK FALSE
INVARIANTS
  ServerIsCurrent
PROPERTIES
  DocumentsCatchUp
