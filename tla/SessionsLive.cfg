SPECIFICATION Spec
CONSTANTS
  Handlers = {h1, h2}
  Ids = {s1}
  Maximum = 1
  TTL = 1
  MaxSteps = 2
  LastTick = 2
  NoHandler = NoHandler
PROPERTIES
  RequestsAnswered
CHECK_DEADLOCK FALSE
