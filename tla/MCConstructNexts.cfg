CONSTANTS
  Infinity = 99
  Clocks = 2
  MaxConstant = 1
  MaxSteps = 2
  Parts = 6
  Horizon = 2
  Guards <- MCGuards
SPECIFICATION PathSpec
INVARIANTS DurationsExact ZoneExact NoneLeftOut CornerIgnored GuardByIntersection
\* The paths are bounded.
CHECK_DEADLOCK FALSE
