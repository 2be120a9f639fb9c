SPECIFICATION Spec
CONSTANTS
  Symbols <- AllSymbols
  Sources <- LimitSources
  ByteSize = 4
  ShortSize = 24
  WordLength = 0
  ExpressionLength = 0
  PieceLength = 0
INVARIANTS
  LimitsExact
CHECK_DEADLOCK FALSE
