SPECIFICATION Spec
CONSTANTS
  Symbols <- AllSymbols
  Programs <- RawPrograms
  LimitsSet <- RawLimits
  TextSizes = {1, 2}
  ClockReadings = {7}
  RawLength = 3
INVARIANTS
  DecodesCleanly
  DoneIsClean
  LimitsRespected
  TraceNamesCalls
  DisciplineSuffices
PROPERTIES
  StepsAsDecoded
  ImplementsMachine
  DisciplineKeepsVariables
CHECK_DEADLOCK FALSE
