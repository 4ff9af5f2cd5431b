SPECIFICATION Spec
CONSTANTS
  w1 = w1
  w2 = w2
  Words <- TwoWords
  Empty = Empty
  MaxVsrs = 2
INVARIANTS
  RoundTrip
CHECK_DEADLOCK FALSE
