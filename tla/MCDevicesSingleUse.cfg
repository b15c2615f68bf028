SPECIFICATION Spec
CONSTANTS
  User = {u1, u2}
  Device = {d1}
  Request = {r1, r2}
  None = None
  MaxRecords = 2
  MaxChallenges = 2
SYMMETRY Symmetry
INVARIANTS ChallengeSingleUse
CHECK_DEADLOCK FALSE
