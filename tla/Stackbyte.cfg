SPECIFICATION AllSpec
CONSTANTS
  Symbols <- AllSymbols
  Jobs <- ManyJobs
  Unreadable = Unreadable
  Malformed = Malformed
  MaxDigits = 2
  ByteSize = 256
  ShortSize = 65536
  LimitsSet <- AllLimits
  TextSizes = {2}
  ClockReadings = {7}
INVARIANTS
  MeansWhatItSays
  CompiledMeansSource
  NoInternalError
  OpenIsExact
PROPERTIES
  CallerSlotsKept
CHECK_DEADLOCK FALSE
