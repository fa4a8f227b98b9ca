CONSTANTS
  Infinity = 99
  MaxIntervals = 3
  MaxEnd = 2
  Initials <- MCInitials
  Vectors <- MCVectors
SPECIFICATION Spec
INVARIANTS TypeOK EndAhead Sorted LooksUpIntervals
PROPERTY Terminates
\* The function returns.
CHECK_DEADLOCK FALSE
