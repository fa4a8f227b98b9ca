CONSTANTS
  BufferSize = 2
  IntWidth = 2
  LongWidth = 4
  MaxLength = 4
  MaxTransitions = 2
  MaskChar = "_"
  Alphabet <- MCAlphabet
  Files <- MCFiles
  ClockWidth = 8
SPECIFICATION Spec
INVARIANT NoMatchLost
\* The program exits once the buffer is flushed.
CHECK_DEADLOCK FALSE
