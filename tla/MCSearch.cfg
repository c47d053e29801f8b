CONSTANTS
  MaxLen = 6
  MaxKey = 4
  Descending = TRUE
  Ranges <- MCRanges
  Values <- MCValues
SPECIFICATION Spec
CHECK_DEADLOCK FALSE
INVARIANTS TypeOK ReturnsLowerBound
PROPERTY Terminates
