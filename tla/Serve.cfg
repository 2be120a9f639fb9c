SPECIFICATION Spec
CONSTANTS
  Settings <- SomeSettings
  Default <- Defaults
  Unset = Unset
  NotANumber = NotANumber
  Requests = {r1, r2}
  MaxSignals = 2
INVARIANTS
  LimitsInForce
  ExitTells
PROPERTIES
  SignalStops
CHECK_DEADLOCK FALSE
