CONSTANTS
  BufferSize = 3
  WordLength = 5
  Automata <- MCAutomata
SPECIFICATION Spec
INVARIANTS TypeOK OneCopyEach NeverBackToZero Unfolds FollowsRuns
PROPERTY Terminates
\* The construction returns.
CHECK_DEADLOCK FALSE
