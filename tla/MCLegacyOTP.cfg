SPECIFICATION Spec
CONSTANTS
  Request = {r1, r2}
  Recipient = {u1, u2}
  Limit = 2
  Window = 3
  Expiry = 1
  None = None
  MaxTime = 4
  MaxSends = 2
SYMMETRY Symmetry
CHECK_DEADLOCK FALSE
INVARIANTS
  TypeOK
  
  NewestCodeStands
