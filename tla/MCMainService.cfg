SPECIFICATION Spec
CONSTANTS
  Request = {r1, r2}
  e1 = e1
  e2 = e2
  u1 = u1
  Email = {e1, e2}
  UserID = {u1}
  Password = {w1, w2}
  IdOf <- MCIdOf
  Challenge = {c1}
  Key = {k1}
  None = None
  Provider = TRUE
  TTL = 2
  LockTTL = 1
  CodeTTL = 1
  AskedTTL = {0, 2}
  AccessTTL = 1
  RefreshTTL = 2
  MaxTime = 2
  CodeCost = 3
  OtherCost = 4
  MaxCost = 12
  MaxBoots = 1
CHECK_DEADLOCK FALSE
SYMMETRY MCSymmetry
INVARIANTS
  TypeOK
  KeyedOnce
  ProvedForItsEmail
  VerifiedOnce
