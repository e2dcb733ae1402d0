SPECIFICATION Spec
CONSTANTS
  None = None
  Torn = Torn
  Worker = {w1}
  Handle = {h1}
  MaxEdits = 2
  IsOAuth = TRUE
SYMMETRY Symmetry
CHECK_DEADLOCK FALSE
INVARIANT
  FreshHandle
