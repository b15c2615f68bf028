SPECIFICATION Spec
CONSTANTS
  Request = {r1, r2, r3}
  MaxLoginAttempts = 2
  LockoutDuration = 2
  None = None
  MaxTime = 3
  MaxGuesses = 11
SYMMETRY Symmetry
INVARIANTS TypeOK NoFalseLock GuessBound
CHECK_DEADLOCK FALSE
