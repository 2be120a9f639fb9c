SPECIFICATION ListSpec
CONSTANTS
  MaxLen = 5
  Alphabet = {0, 1, 4, 23, 25, 29, 255}
  Chunks <- MCChunks
INVARIANTS
  AcceptedIsWellFormed
  RejectedIsIllFormed
  NeverFaulty
  ListsWhatRuns
CHECK_DEADLOCK FALSE
