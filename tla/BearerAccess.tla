------------------------------ MODULE BearerAccess ------------------------------
(***************************************************************************)
(* Tokens of biometric-auth and the clock: for how long does the holder of *)
(* a session's tokens get in once the session has ended?                   *)
(*                                                                         *)
(* Login and refresh are public.  Every other route is behind middlewares  *)
(* that look at the access token and at the device's record, and not at    *)
(* the session; payment is behind a third one, RequireStepUp.  A request   *)
(* is served in steps, and the clock runs between them: a refresh tests    *)
(* the session's status, compares the stored hash, issues the pair and     *)
(* writes the new hash; a bearer is let in by the middlewares and its      *)
(* handler runs later.  The session repository files a record once and     *)
(* hands out pointers to it, so each write goes into the one record.       *)
(*                                                                         *)
(* What the device middleware, Authenticate and the enrolment decide is    *)
(* the subject of Devices: here they may let any request pass or refuse    *)
(* it.  There is one user, the one NewUserRepository seeds; the lockout of *)
(* its login is LoginLockout's.  The audit log is written and never read.  *)
(***************************************************************************)
EXTENDS Naturals, FiniteSets

CONSTANTS
  Session,
  Request,                           \* goroutines serving requests at once
  AccessTTL, RefreshTTL, StepUpTTL,  \* configuration
  MaxTime,                           \* bound: how far the clock runs
  MaxPairs                           \* bound: tokens issued

ASSUME ConfigAssumption == {AccessTTL, RefreshTTL, StepUpTTL} \subseteq Nat \ {0}

ASSUME BoundAssumption == {MaxTime, MaxPairs} \subseteq Nat

ASSUME RequestAssumption == IsFiniteSet(Request)

VARIABLES
  now,         \* the clock
  session,     \* the session records
  access,      \* access tokens that clients hold
  refresh,     \* refresh tokens that clients hold
  serial,      \* how many pairs and step-up tokens were issued
  req,         \* the requests being served
  ended,       \* history: when a session left the status active
  overtaken,   \* history: the refreshes past the test of the status at that time
  renewed      \* history: ended sessions that a biometric exchange renewed

tokens == <<access, refresh, serial>>
history == <<ended, overtaken, renewed>>
vars == <<now, session, tokens, req, history>>

-----------------------------------------------------------------------------
\* current: the serial of the refresh token whose hash is stored.
SessionRecord == [status : {"none", "active", "revoked", "replayed"}, current : Nat]

\* A token names its session, a serial for its jti, and when it was issued.
Pair == [sid : Session, serial : Nat, iat : Nat]

AccessToken == [pair : Pair, stepUp : BOOLEAN]

\* tok: the token presented, or the pair that has been issued.
ReqState ==
  [pc : {"idle"}]
  \union [pc : {"admitted"}, tok : AccessToken]
  \union [pc : {"checked", "matched", "mismatch", "rotated", "exchanged"}, tok : Pair]

Idle == [pc |-> "idle"]

TypeOK ==
  /\ now \in Nat /\ serial \in Nat
  /\ session \in [Session -> SessionRecord]
  /\ access \in SUBSET AccessToken /\ refresh \in SUBSET Pair
  /\ req \in [Request -> ReqState]
  /\ ended \in [Session -> Nat] /\ overtaken \in [Session -> Nat]
  /\ renewed \in SUBSET Session

Init ==
  /\ now = 0 /\ serial = 0
  /\ session = [s \in Session |-> [status |-> "none", current |-> 0]]
  /\ access = {} /\ refresh = {}
  /\ req = [r \in Request |-> Idle]
  /\ ended = [s \in Session |-> 0] /\ overtaken = [s \in Session |-> 0]
  /\ renewed = {}

-----------------------------------------------------------------------------
\* verify accepts a token in the second it expires.
Unexpired(p, ttl) == now <= p.iat + ttl

\* IssueTokenPair: a fresh pair of session s, with the time it is.
IssueTokenPair(s) == [sid |-> s, serial |-> serial + 1, iat |-> now]

\* The answer: the client holds the pair.
Deliver(p) ==
  /\ access' = access \union {[pair |-> p, stepUp |-> FALSE]}
  /\ refresh' = refresh \union {p}

\* The right password, on an account that is not locked.
Login(s) ==
  /\ session[s].status = "none"
  /\ serial < MaxPairs
  /\ serial' = serial + 1
  /\ session' = [session EXCEPT ![s] = [status |-> "active", current |-> serial + 1]]
  /\ Deliver(IssueTokenPair(s))
  /\ UNCHANGED <<now, req, history>>

-----------------------------------------------------------------------------
(* POST /auth/token/refresh, which is not behind the device's middleware.  *)

\* The refreshes of session s past the test of its status, with no pair yet.
Racing(s) == {r \in Request : req[r].pc \in {"checked", "matched"} /\ req[r].tok.sid = s}

\* The sessions in S leave the status active, or already have.
End(S, status) ==
  LET leaves(s) == s \in S /\ session[s].status = "active"
  IN  /\ session' = [s \in Session |-> IF s \in S THEN [session[s] EXCEPT !.status = status]
                                       ELSE session[s]]
      /\ ended' = [s \in Session |-> IF leaves(s) THEN now ELSE ended[s]]
      /\ overtaken' = [s \in Session |-> IF leaves(s) THEN Cardinality(Racing(s))
                                         ELSE overtaken[s]]

\* A slip: the status of the session is not looked at.
RotateCheckUntested(r, p) ==
  /\ req[r].pc = "idle"
  /\ Unexpired(p, RefreshTTL)
  /\ req' = [req EXCEPT ![r] = [pc |-> "checked", tok |-> p]]
  /\ UNCHANGED <<now, session, tokens, history>>

\* RotateRefreshToken: the token verifies and its session is active ...
RotateCheck(r, p) ==
  /\ req[r].pc = "idle"
  /\ Unexpired(p, RefreshTTL)
  /\ session[p.sid].status = "active"
  /\ req' = [req EXCEPT ![r] = [pc |-> "checked", tok |-> p]]
  /\ UNCHANGED <<now, session, tokens, history>>

\* ... its hash is, or is not, the one that is stored ...
RotateCompare(r) ==
  /\ req[r].pc = "checked"
  /\ req' = [req EXCEPT ![r].pc =
               IF session[req[r].tok.sid].current = req[r].tok.serial THEN "matched"
               ELSE "mismatch"]
  /\ UNCHANGED <<now, session, tokens, history>>

\* ... a pair is issued, with the time it is then ...
RotateIssue(r) ==
  /\ req[r].pc = "matched"
  /\ serial < MaxPairs
  /\ serial' = serial + 1
  /\ req' = [req EXCEPT ![r] = [pc |-> "rotated", tok |-> IssueTokenPair(req[r].tok.sid)]]
  /\ UNCHANGED <<now, session, access, refresh, history>>

\* ... and its hash written.  The status is neither read again nor written.
\* ExchangeBiometricToken ends in the same way.
Store(r) ==
  /\ req[r].pc \in {"rotated", "exchanged"}
  /\ session' = [session EXCEPT ![req[r].tok.sid].current = req[r].tok.serial]
  /\ Deliver(req[r].tok)
  /\ req' = [req EXCEPT ![r] = Idle]
  /\ UNCHANGED <<now, serial, history>>

\* Or else RevokeFamily: a family is one session's.
RotateRevokeFamily(r) ==
  /\ req[r].pc = "mismatch"
  /\ End({req[r].tok.sid}, "replayed")
  /\ req' = [req EXCEPT ![r] = Idle]
  /\ UNCHANGED <<now, tokens, renewed>>

-----------------------------------------------------------------------------
(* The routes behind the middlewares.                                      *)

\* The signature and the expiry, which is that of an access token also for a
\* step-up token.
VerifyAccessToken(t) == Unexpired(t.pair, AccessTTL)

\* A device that passes, and a token that verifies.  The session is not looked at.
Authenticate(r, t) ==
  /\ req[r].pc = "idle"
  /\ VerifyAccessToken(t)
  /\ req' = [req EXCEPT ![r] = [pc |-> "admitted", tok |-> t]]
  /\ UNCHANGED <<now, session, tokens, history>>

\* A slip: the session is said to have expired, a status nothing else writes.
LogoutAsExpired(r) ==
  /\ req[r].pc = "admitted"
  /\ End({req[r].tok.pair.sid}, "expired")
  /\ req' = [req EXCEPT ![r] = Idle]
  /\ UNCHANGED <<now, tokens, renewed>>

Logout(r) ==
  /\ req[r].pc = "admitted"
  /\ End({req[r].tok.pair.sid}, "revoked")
  /\ req' = [req EXCEPT ![r] = Idle]
  /\ UNCHANGED <<now, tokens, renewed>>

LogoutAll(r) ==
  /\ req[r].pc = "admitted"
  /\ End({s \in Session : session[s].status # "none"}, "revoked")
  /\ req' = [req EXCEPT ![r] = Idle]
  /\ UNCHANGED <<now, tokens, renewed>>

\* ExchangeBiometricToken, once the biometric proof is accepted: a pair for the
\* session the body names, whatever its status.  Store writes the hash.
ExchangeBiometricToken(r, s) ==
  /\ req[r].pc = "admitted"
  /\ session[s].status # "none"
  /\ serial < MaxPairs
  /\ serial' = serial + 1
  /\ req' = [req EXCEPT ![r] = [pc |-> "exchanged", tok |-> IssueTokenPair(s)]]
  /\ renewed' = IF session[s].status = "active" THEN renewed ELSE renewed \union {s}
  /\ UNCHANGED <<now, session, access, refresh, ended, overtaken>>

\* Only a step-up token, and not for longer than StepUpTTL after its issue.
RequireStepUp(t) == t.stepUp /\ Unexpired(t.pair, StepUpTTL)

IssueStepUpToken(s) == [pair |-> IssueTokenPair(s), stepUp |-> TRUE]

\* AuthorizePayment, once StepUp's biometric proof is accepted: a step-up token
\* of the caller's session.
AuthorizePayment(t) ==
  /\ serial < MaxPairs
  /\ serial' = serial + 1
  /\ access' = access \union {IssueStepUpToken(t.pair.sid)}

\* POST /payment/authorize: refused, or a step-up token.
PostPayment(r) ==
  /\ req[r].pc = "admitted"
  /\ IF RequireStepUp(req[r].tok) THEN AuthorizePayment(req[r].tok)
     ELSE UNCHANGED <<access, serial>>
  /\ req' = [req EXCEPT ![r] = Idle]
  /\ UNCHANGED <<now, session, refresh, history>>

\* A handler that changes no session or token: a proof that is not accepted, a
\* session that is not there, a pair that cannot be drawn, any other route.
Answer(r) ==
  /\ req[r].pc \in {"admitted", "matched"}
  /\ req' = [req EXCEPT ![r] = Idle]
  /\ UNCHANGED <<now, session, tokens, history>>

-----------------------------------------------------------------------------
Tick ==
  /\ now < MaxTime
  /\ now' = now + 1
  /\ UNCHANGED <<session, tokens, req, history>>

RotateRefreshToken(r) ==
  \/ \E p \in refresh : RotateCheck(r, p)
  \/ RotateCompare(r) \/ RotateIssue(r) \/ RotateRevokeFamily(r)

Bearer(r) ==
  \/ \E t \in access : Authenticate(r, t)
  \/ Logout(r) \/ LogoutAll(r) \/ PostPayment(r)
  \/ \E s \in Session : ExchangeBiometricToken(r, s)

Next ==
  \/ Tick
  \/ \E s \in Session : Login(s)
  \/ \E r \in Request : RotateRefreshToken(r) \/ Bearer(r) \/ Store(r) \/ Answer(r)

Spec == Init /\ [][Next]_vars

-----------------------------------------------------------------------------
\* The access tokens of session s that outlive the end of it by more than
\* AccessTTL.
Late(s) ==
  {t \in access : t.pair.sid = s /\ t.pair.iat + AccessTTL > ended[s] + AccessTTL}

(***************************************************************************)
(* What a logout or a replay alarm is worth, when the middlewares do not   *)
(* look at the session and a refresh tests its status only once: the       *)
(* access tokens of an ended session die within AccessTTL, but for one     *)
(* token of each refresh that had passed the test of the status            *)
(* (token.go:119) when the session ended and issued its pair (token.go:130)*)
(* later.  The other way on is the biometric exchange, which renews an     *)
(* ended session.                                                          *)
(***************************************************************************)
LogoutGrace ==
  \A s \in Session :
    session[s].status \in {"revoked", "replayed"} /\ s \notin renewed =>
      Cardinality(Late(s)) <= overtaken[s]

=============================================================================
