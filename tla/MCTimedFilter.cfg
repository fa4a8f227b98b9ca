CONSTANTS
  Infinity = 99
  Clocks = 1
  ClockWidth = 8
  Parts = 2
  BufferSize = 2
  IntWidth = 32
  LongWidth = 64
  Mask = "_"
  MaxStates = 11
  MaxLength = 3
  MinDuration = 1
  MaxDuration = 3
  Letters <- MCLetters
  Files <- MCFiles
SPECIFICATION Spec
INVARIANTS TypeOK SweepsIntervals StateCoversRuns CountsRuns NoMatchLost
PROPERTY Promises
\* The program exits once the buffer is flushed, or the machine has
\* MaxStates states.
CHECK_DEADLOCK FALSE
