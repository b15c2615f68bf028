----------------------------- MODULE LoginLockout -----------------------------
(***************************************************************************)
(* The lockout of an account in biometric-auth (service/auth.go: Login and *)
(* handleFailedLogin), for concurrent logins to one account; accounts      *)
(* share nothing.                                                          *)
(*                                                                         *)
(* The user repository hands out the pointer to the one record, so every   *)
(* login reads and writes FailedAttempts and LockedUntil in place with no  *)
(* lock held.  A login is several steps: the lockout test, the password    *)
(* check (slow: argon2), and then either the increment of FailedAttempts,  *)
(* which is a read and a later write, and the test of the limit, or the    *)
(* two writes of the reset.                                                *)
(*                                                                         *)
(* The password is the client's choice at VerifyPassword.  A refused login *)
(* (unknown identifier, disabled or locked account) changes nothing.  What *)
(* a successful login does next, device and session, is in Devices and     *)
(* Sessions.                                                               *)
(***************************************************************************)
EXTENDS Naturals, FiniteSets, Clock

CONSTANTS
  Request,            \* goroutines that can be inside Login at once
  MaxLoginAttempts,   \* configuration: MAX_LOGIN_ATTEMPTS
  LockoutDuration,    \* configuration: LOCKOUT_DURATION, in clock ticks
  None,               \* Go's nil
  MaxGuesses          \* bound: how many wrong passwords are tried

ASSUME NoneAssumption == None \notin Nat

ASSUME RequestAssumption == IsFiniteSet(Request)

ASSUME ConfigAssumption ==
  MaxLoginAttempts \in Nat \ {0} /\ LockoutDuration \in Nat \ {0}

ASSUME BoundAssumption == MaxGuesses \in Nat

VARIABLES
  status,             \* User.Status
  failedAttempts,     \* User.FailedAttempts
  lockedUntil,        \* User.LockedUntil
  req,                \* the logins in flight
  guesses,            \* history: wrong passwords tried
  streak              \* history: wrong passwords since the last lock or reset

record == <<status, failedAttempts, lockedUntil>>
history == <<guesses, streak>>
vars == <<now, record, req, history>>

-----------------------------------------------------------------------------
\* read is the value of FailedAttempts from which the increment is computed.
ReqState == [pc : {"idle", "verifying", "counting", "counted", "resetting"},
             read : Nat]

Idle == [pc |-> "idle", read |-> 0]

TypeOK ==
  /\ now \in Nat
  /\ status \in {"active", "locked"}
  /\ failedAttempts \in Nat
  /\ lockedUntil \in Nat \union {None}
  /\ req \in [Request -> ReqState]
  /\ guesses \in Nat /\ streak \in Nat

Init ==
  /\ now = 0
  /\ status = "active"
  /\ failedAttempts = 0
  /\ lockedUntil = None
  /\ req = [r \in Request |-> Idle]
  /\ guesses = 0 /\ streak = 0

-----------------------------------------------------------------------------
Locked == lockedUntil # None /\ now < lockedUntil

\* The tests of FailedAttempts against the limit that a slip would give.
AtLimitPlusOne == failedAttempts > MaxLoginAttempts
AtLimitMinusOne == failedAttempts + 1 >= MaxLoginAttempts

AtLimit == failedAttempts >= MaxLoginAttempts

Tick ==
  /\ Advance
  /\ UNCHANGED <<record, req, history>>

\* Login up to the password check: the account is not locked now.
LoginCheck(r) ==
  /\ req[r].pc = "idle"
  /\ ~Locked
  /\ req' = [req EXCEPT ![r].pc = "verifying"]
  /\ UNCHANGED <<now, record, history>>

\* VerifyPassword fails; handleFailedLogin reads FailedAttempts ...
WrongPassword(r) ==
  /\ req[r].pc = "verifying"
  /\ guesses < MaxGuesses
  /\ req' = [req EXCEPT ![r] = [pc |-> "counting", read |-> failedAttempts]]
  /\ guesses' = guesses + 1
  /\ streak' = streak + 1
  /\ UNCHANGED <<now, record>>

\* ... writes the incremented value ...
CountFailure(r) ==
  /\ req[r].pc = "counting"
  /\ failedAttempts' = req[r].read + 1
  /\ req' = [req EXCEPT ![r].pc = "counted"]
  /\ UNCHANGED <<now, status, lockedUntil, guesses, streak>>

\* A slip: the account is disabled instead of locked.
DisableAtLimit(r) ==
  /\ req[r].pc = "counted"
  /\ AtLimit
  /\ status' = "disabled"
  /\ req' = [req EXCEPT ![r] = Idle]
  /\ UNCHANGED <<now, failedAttempts, lockedUntil, history>>

\* ... and reads it again: from the limit on the account is locked.
LockAtLimit(r) ==
  /\ req[r].pc = "counted"
  /\ AtLimit
  /\ lockedUntil' = now + LockoutDuration
  /\ status' = "locked"
  /\ streak' = 0
  /\ req' = [req EXCEPT ![r] = Idle]
  /\ UNCHANGED <<now, failedAttempts, guesses>>

BelowLimit(r) ==
  /\ req[r].pc = "counted"
  /\ ~AtLimit
  /\ req' = [req EXCEPT ![r] = Idle]
  /\ UNCHANGED <<now, record, history>>

\* VerifyPassword succeeds: FailedAttempts is reset ...
RightPassword(r) ==
  /\ req[r].pc = "verifying"
  /\ failedAttempts' = 0
  /\ streak' = 0
  /\ req' = [req EXCEPT ![r].pc = "resetting"]
  /\ UNCHANGED <<now, status, lockedUntil, guesses>>

\* ... and then LockedUntil, whatever it has become.  Status stays.
ResetLock(r) ==
  /\ req[r].pc = "resetting"
  /\ lockedUntil' = None
  /\ req' = [req EXCEPT ![r] = Idle]
  /\ UNCHANGED <<now, status, failedAttempts, history>>

Login(r) ==
  \/ LoginCheck(r)
  \/ WrongPassword(r)
  \/ CountFailure(r)
  \/ LockAtLimit(r)
  \/ BelowLimit(r)
  \/ RightPassword(r)
  \/ ResetLock(r)

Next == Tick \/ \E r \in Request : Login(r)

Spec == Init /\ [][Next]_vars

-----------------------------------------------------------------------------
(***************************************************************************)
(* No false lock: handleFailedLogin locks an account only after            *)
(* MaxLoginAttempts wrong passwords or more, however the unguarded         *)
(* increments of FailedAttempts interleave with each other and with the    *)
(* resets of successful logins.                                            *)
(***************************************************************************)
NoFalseLock ==
  status = "locked" \/ lockedUntil # None => guesses >= MaxLoginAttempts

\* How logins can be held up between the read and the write of FailedAttempts:
\* for each value below the limit, how many hold a read of at most that.  With n
\* logins these are C(MaxLoginAttempts + n, n) staircases.
HeldUp ==
  {h \in [0 .. MaxLoginAttempts - 1 -> 0 .. Cardinality(Request)] :
     \A v, w \in 0 .. MaxLoginAttempts - 1 : v <= w => h[v] <= h[w]}

(***************************************************************************)
(* How much the lost updates of FailedAttempts++ can stretch the limit:    *)
(* each wrong password finds the logins held up in another way, so that n  *)
(* concurrent logins try at most C(MaxLoginAttempts + n, n) - 1 of them    *)
(* before the account is locked or a right one resets the count.  For one  *)
(* login at a time that is MaxLoginAttempts.                               *)
(***************************************************************************)
GuessBound == streak < Cardinality(HeldUp)

=============================================================================
