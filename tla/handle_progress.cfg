SPECIFICATION FairSpec
CONSTANTS
  None = None
  Torn = Torn
  Worker = {w1, w2}
  Handle = {h1, h2}
  MaxEdits = 2
  IsOAuth = TRUE
CHECK_DEADLOCK FALSE
PROPERTIES
  CallsReturn
  WatchersEnd
