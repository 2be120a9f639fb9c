SPECIFICATION UseSpec
CONSTANTS
  Handlers = {h1, h2}
  Ids = {s1, s2}
  Maximum = 1
  TTL = 1
  MaxSteps = 2
  LastTick = 2
  NoHandler = NoHandler
INVARIANTS
  CapacityRespected
  GoneStaysGone
  PausesDiffer
PROPERTIES
  NotFoundIsFinal
  UseDecides
  MachinesObeyed
SYMMETRY Symmetry
CHECK_DEADLOCK FALSE
