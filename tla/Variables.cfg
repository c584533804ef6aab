SPECIFICATION Spec
CONSTANTS
  x = x
  password = password
  currentURI = currentURI
  HOME = HOME
  size = size
  wide = wide
  zero = zero
  one = one
  low = low
  mid = mid
  high = high
  Unset = Unset
  Name = {x, password, currentURI, HOME}
  Dotted = {currentURI}
  Sensitive = {password}
  Value = {zero, one, low, mid, high}
  Numerals <- MCNumerals
  Env <- MCEnv
  Declarable = {size, wide}
  Vocabulary <- MCVocabulary
  MaxSteps = 4
INVARIANTS
  TypeOK
  ValuesAreSafe
  StoreAgrees
PROPERTIES
  StepsRespectValues
