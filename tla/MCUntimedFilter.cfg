CONSTANTS
  BufferSize = 3
  IntWidth = 1
  LongWidth = 1
  MaxLength = 5
  MaxTransitions = 3
  MaskChar = "_"
  Alphabet <- MCAlphabet
  Files <- MCFiles
  ClockWidth = 8
SPECIFICATION Spec
INVARIANTS TypeOK StateIsRuns NoMatchLost ShownForARun
PROPERTY Promises
\* The program exits once the buffer is flushed.
CHECK_DEADLOCK FALSE
