CONSTANTS
  Infinity = 99
  Clocks = 1
  Parts = 2
  BufferSize = 2
  MaxTransitions = 2
  MaxConstant = 1
  MaxStates = 8
  Counted <- MCCounted
SPECIFICATION Spec
INVARIANT OneStateEach
CHECK_DEADLOCK FALSE
