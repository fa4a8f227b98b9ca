CONSTANTS
  BufferSize = 2
  WordLength = 5
  Counted <- MCCounted
SPECIFICATION Spec
INVARIANTS TypeOK OneStateEach Determinizes ReadsSuffixes
PROPERTY Terminates
\* The construction returns.
CHECK_DEADLOCK FALSE
