SPECIFICATION ListSpec
CONSTANTS
  MaxLen = 3
  Alphabet = {1, 6, 29}
  Chunks <- MCChunks
INVARIANT AcceptedEndsWithReturn
CHECK_DEADLOCK FALSE
