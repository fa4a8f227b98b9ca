CONSTANTS
  Characters <- MCCharacters
  MaskChar = "_"
  MaxTime = 3
  MaxLength = 5
SPECIFICATION Spec
INVARIANTS PrintsSpans ReadsDurations TimesKept
\* The word is bounded.
CHECK_DEADLOCK FALSE
