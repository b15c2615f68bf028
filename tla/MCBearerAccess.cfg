SPECIFICATION Spec
CONSTANTS
  Session = {s1, s2}
  Request = {r1, r2, r3}
  AccessTTL = 1
  RefreshTTL = 2
  StepUpTTL = 1
  MaxTime = 2
  MaxPairs = 3
CHECK_DEADLOCK FALSE
SYMMETRY MCSymmetry
INVARIANTS
  TypeOK
  LogoutGrace
