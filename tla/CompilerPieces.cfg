SPECIFICATION Spec
CONSTANTS
  Symbols <- AllSymbols
  Sources <- PieceSources
  ByteSize = 256
  ShortSize = 65536
  WordLength = 0
  ExpressionLength = 0
  PieceLength = 4
INVARIANTS
  SlotsMatchStack
  CompiledIsSafe
  OutputValid
  AcceptsLanguage
CHECK_DEADLOCK FALSE
