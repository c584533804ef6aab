SPECIFICATION Spec
CONSTANTS
  Setups <- MCSetups
  Client = {"c1", "c2"}
  Anonymous = {"anon"}
  Stepper = {"A", "B"}
  Path = {"/", "/a", "/a/b"}
  Folder = {"F", "G"}
  Beneath <- MCBeneath
INVARIANTS
  ServersAreSound
  ClientsAreApart
