SPECIFICATION Spec
CONSTANTS
  Symbols <- AllSymbols
  Sources <- ShortSources
  ByteSize = 256
  ShortSize = 65536
  WordLength = 3
  ExpressionLength = 5
  PieceLength = 0
INVARIANTS
  TypeOK
  AcceptsLanguage
PROPERTIES
  Terminates
CHECK_DEADLOCK FALSE
