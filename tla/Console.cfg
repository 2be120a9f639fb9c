SPECIFICATION MCSpec
CONSTANTS
  Calls = {c1, c2}
  Ids = {s1, s2}
  Maximum = 1
  TTL = 0
  MaxSteps = 1
  LastTick = 1
  NoHandler = NoHandler
  NoSession = NoSession
INVARIANTS
  QuietPage
  ForgottenStaysForgotten
  NoneLeftBehind
SYMMETRY Symmetry
CHECK_DEADLOCK FALSE
