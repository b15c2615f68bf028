SPECIFICATION Spec
CONSTANTS
  Request = {r1, r2}
  User = {u1}
  Tenant = {t1}
  Role = {o1}
  Permission = {p1, star}
  Wildcard = star
  MaxRequests = 3
INVARIANTS
  TypeOK
  ToldWasWritten
  SubscribersAgree
PROPERTIES
  PermissionRefinement
  ShutdownEnds
