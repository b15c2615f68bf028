SPECIFICATION Spec
CONSTANTS
  Request = {r1, r2}
  Session = {s1, s2}
  Code = {c1}
  AdminStatus = {"suspended"}
  SessionMaxDevices = 1
  MaxLoginAttempts = 2
  LockoutDuration = 1
  None = None
  MaxTime = 1
  MaxWrong = 3
  MaxResets = 1
  MaxRequests = 3
SYMMETRY Symmetry
CHECK_DEADLOCK FALSE
INVARIANTS
  TypeOK
  DecisionsHold
  SessionLimit
  WrongAnswersBound
  GateHasSecret
  CodeReuseNeedsARace
  OldSessionsNeedARace
