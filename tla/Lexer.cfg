SPECIFICATION Spec
CONSTANTS
  Length = 4
  Texts <- ShortTexts
  MaxDigits = 2
INVARIANTS
  ScansLongestMatch
  PositionsExact
CHECK_DEADLOCK FALSE
