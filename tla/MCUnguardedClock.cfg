CONSTANTS
  Infinity = 99
  Clocks = 1
  ClockWidth = 8
  Parts = 2
  BufferSize = 2
  IntWidth = 32
  LongWidth = 64
  Mask = "_"
  MaxStates = 11
  MaxLength = 0
  MinDuration = 1
  MaxDuration = 3
  Letters <- MCLetters
  Files <- MCResetOnly
SPECIFICATION Spec
INVARIANT ResetsHaveRows
CHECK_DEADLOCK FALSE
