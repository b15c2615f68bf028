SPECIFICATION LimiterSpec
CONSTANTS
  IP = {a, b}
  limit = 2
  Window = 2
  MaxTime = 6
  MaxCount = 3
SYMMETRY Symmetry
INVARIANTS LimiterTypeOK SlidingBound
PROPERTIES TableIsInvisible
