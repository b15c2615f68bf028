SPECIFICATION FairSpec
CONSTANTS
  MaxSessions = 2
  MaxPairs = 3
  User = {u1}
  Device = {d1}
  Request = {r1, r2}
  None = None
  MaxExpiries = 1
INVARIANTS TypeOK CurrentIsOwnToken NoFalseAlarm
PROPERTIES SessionsRefinement NoTokenResurrection ReplayEndsSession
