SPECIFICATION Spec
CONSTANTS
  None = None
  Torn = Torn
  Worker = {w1, w2, w3}
  Handle = {h1, h2, h3}
  MaxEdits = 2
  IsOAuth = FALSE
SYMMETRY Symmetry
CHECK_DEADLOCK FALSE
INVARIANTS
  TypeOK
  FlagMatchesHandle
  Watched
  FreshHandle
  LeakOnlyByWatcher
  PanicTakesTwoLosses
PROPERTIES
  NeverReplaced
  ImplementsCell
