SPECIFICATION Spec
CONSTANTS
  MaxSessions = 1
  MaxPairs = 3
  User = {u1}
  Device = {d1}
  Request = {r1, r2}
  None = None
  MaxExpiries = 0
INVARIANTS SingleUseRotation
