CONSTANTS
  Infinity = 99
  Clocks = 1
  ClockWidth = 8
  Parts = 2
  BufferSize = 2
  IntWidth = 32
  LongWidth = 64
  Mask = "_"
  MaxStates = 11
  MaxLength = 3
  MinDuration = 0
  MaxDuration = 2
  Letters <- MCLetters
  Files <- MCFiles
SPECIFICATION Spec
INVARIANT NoMatchLost
CHECK_DEADLOCK FALSE
