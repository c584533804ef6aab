SPECIFICATION Spec
CONSTANTS
  MaxPrompts = 2
  MaxOpen = 2
  MaxReconnects = 1
  Terminals = {TRUE, FALSE}
CHECK_DEADLOCK FALSE
INVARIANTS
  AnswersAreTrue
PROPERTIES
  PromptReturns
