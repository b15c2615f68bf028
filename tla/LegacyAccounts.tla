---------------------------- MODULE LegacyAccounts ----------------------------
(***************************************************************************)
(* An account of the legacy engine and its sessions: auth/service.go and   *)
(* the administrator's handlers over the rows of users and sessions.  One  *)
(* account, with the unique email it is registered under; accounts share   *)
(* nothing else.                                                           *)
(*                                                                         *)
(* A request loads the user row into a struct of its own (copy) and works  *)
(* on it for a while.  Some of its writes are single columns; Update, the  *)
(* gorm Save, writes EVERY column of the copy back, whatever the row has   *)
(* become.  Each database statement is one step; what a request computes   *)
(* in between is nobody else's business and is part of the step.           *)
(*                                                                         *)
(* Any statement can fail.  Mostly the request ends with the error; where  *)
(* the code drops it, the request goes on as if nothing had happened.  A   *)
(* request can also end between any two steps: its client hangs up, or the *)
(* process dies.  Passwords are versions (0: none set), and the client     *)
(* chooses what it presents.  One-time codes are checked elsewhere.        *)
(***************************************************************************)
EXTENDS Naturals, FiniteSets

CONSTANTS
  Request,            \* requests that can be under way at once
  Session,            \* session ids
  Code,               \* the backup codes handed out by EnableMFA
  AdminStatus,        \* the statuses an administrator sets: any strings
  SessionMaxDevices,  \* configuration; 0 is no limit
  MaxLoginAttempts,   \* configuration
  LockoutDuration,    \* configuration, in clock ticks
  None,               \* Go's nil
  MaxTime,            \* bound: how far the clock runs
  MaxWrong,           \* bound: value of FailedLoginCount
  MaxResets,          \* bound: password resets
  MaxRequests         \* bound: requests made

ASSUME SetsAssumption ==
  IsFiniteSet(Request) /\ Request # {} /\ IsFiniteSet(Session)

ASSUME ConfigAssumption ==
  /\ SessionMaxDevices \in Nat
  /\ MaxLoginAttempts \in Nat \ {0}
  /\ LockoutDuration \in Nat \ {0}

ASSUME BoundAssumption == MaxTime \in Nat /\ MaxWrong \in Nat /\ MaxResets \in Nat
                             /\ MaxRequests \in Nat

ASSUME NoneAssumption == None \notin Nat \union {"pending", "active"} \union AdminStatus

VARIABLES
  now,       \* the clock
  row,       \* the row of users, or NoRow
  linked,    \* is there a row of oauth_providers for the identity?
  sess,      \* the rows of sessions
  req,       \* the requests under way
  made,      \* history: how many requests were made
  decided,   \* history: what the last change of each column set
  cut,       \* history: did a request end before it revoked the sessions?
  stale,     \* history: has a Save overwritten what another request wrote?
  wrong,     \* history: wrong passwords counted and answered since the last lock,
             \* reset or rewrite of the count
  accepted   \* history: how often each backup code was accepted and its removal saved

history == <<decided, cut, stale, wrong, accepted>>
vars == <<now, row, linked, sess, req, made, history>>

-----------------------------------------------------------------------------
Status == {None, "pending", "active"} \union AdminStatus

Row == [failed : Nat, lockedUntil : Nat \union {None}, status : Status,
        pw : Nat, secret : BOOLEAN, mfa : BOOLEAN, codes : SUBSET Code,
        deleted : BOOLEAN]

NewRow(status, pw) ==
  [failed |-> 0, lockedUntil |-> None, status |-> status, pw |-> pw,
   secret |-> FALSE, mfa |-> FALSE, codes |-> {}, deleted |-> FALSE]

\* No row; a record all the same, so that copies have one type.
NoRow == [NewRow(None, 0) EXCEPT !.deleted = TRUE]

PC == {"idle", "registering", "creating oauth", "linking", "checking",
       "locking", "issuing", "creating", "saving", "revoking", "expiring"}

Op == {"none", "login", "spend", "enable", "mfa", "status", "unlock", "reset"}

\* fresh: no other request has written the row since copy was loaded.  counted: its
\* CountActive was answered.
ReqState == [pc : PC, op : Op, copy : Row, fresh : BOOLEAN, counted : BOOLEAN,
             sid : Session \union {None}, code : Code \union {None}]

Idle == [pc |-> "idle", op |-> "none", copy |-> NoRow, fresh |-> TRUE,
         counted |-> FALSE, sid |-> None, code |-> None]

\* pw and late: the password version its login loaded, and whether that copy
\* was no longer fresh when the session was created.  counted: as its login.
SessState == [state : {"unused", "active", "revoked", "deleted"},
              expired : BOOLEAN, pw : Nat, late : BOOLEAN, counted : BOOLEAN]

Unused == [state |-> "unused", expired |-> FALSE, pw |-> 0, late |-> FALSE,
           counted |-> FALSE]

WithSecret(u) == [u EXCEPT !.secret = TRUE, !.codes = Code]
WithMFA(u) == [u EXCEPT !.mfa = TRUE]

Decision(u) == [status |-> u.status, pw |-> u.pw, mfa |-> u.mfa, deleted |-> u.deleted]

TypeOK ==
  /\ now \in Nat /\ made \in Nat /\ linked \in BOOLEAN
  /\ row \in Row
  /\ sess \in [Session -> SessState]
  /\ req \in [Request -> ReqState]
  /\ decided \in [status : Status, pw : Nat, mfa : BOOLEAN, deleted : BOOLEAN]
  /\ cut \in BOOLEAN /\ stale \in BOOLEAN /\ wrong \in Nat /\ accepted \in [Code -> Nat]

\* The account may have been registered long ago.
Init ==
  /\ now = 0 /\ made = 0
  /\ row \in {NoRow, NewRow("pending", 1), WithMFA(WithSecret(NewRow("pending", 1)))}
  /\ linked = FALSE
  /\ sess = [s \in Session |-> Unused]
  /\ req = [r \in Request |-> Idle]
  /\ decided = Decision(row)
  /\ cut = FALSE /\ stale = FALSE /\ wrong = 0 /\ accepted = [c \in Code |-> 0]

-----------------------------------------------------------------------------
(* Rows and requests.                                                      *)

\* UNIQUE(email) counts deleted rows too; a lookup skips them.
Exists == row.status # None
GetUser == Exists /\ ~row.deleted

Locked == row.lockedUntil # None /\ now < row.lockedUntil

Active(s) == sess[s].state = "active"
CountActive == Cardinality({s \in Session : Active(s) /\ ~sess[s].expired})

At(r, pc) == req[r].pc = pc

\* A request starts with what it loaded, goes on as q, and ends.
Start(r, pc, op, copy) ==
  /\ At(r, "idle")
  /\ req' = [req EXCEPT ![r] = [Idle EXCEPT !.pc = pc, !.op = op, !.copy = copy]]

Becomes(r, q) == req' = [req EXCEPT ![r] = q]
Goto(r, pc) == req' = [req EXCEPT ![r].pc = pc]
End(r) == Becomes(r, Idle)

\* r writes the row and becomes q: every other copy is out of date.
Wrote(r, q) ==
  req' = [x \in Request |->
            IF x = r THEN q
            ELSE [req[x] EXCEPT !.fresh = @ /\ req[x].pc = "idle"]]

Tick ==
  /\ now < MaxTime
  /\ now' = now + 1
  /\ UNCHANGED <<row, linked, sess, req, history>>

\* The client hangs up, the process dies, or the next statement fails and none
\* follows: its error is returned, or dropped where nothing is left to do.
Abandon(r) ==
  /\ ~At(r, "idle")
  /\ End(r)
  /\ cut' = (cut \/ At(r, "revoking"))
  /\ UNCHANGED <<now, row, linked, sess, decided, stale, wrong, accepted>>

-----------------------------------------------------------------------------
(* Register and OAuthLogin: how the row comes to be.                       *)

\* No user has the email or the phone ...  A lookup that fails is taken for that,
\* and Create then refuses what exists: the request ends without a trace.
RegisterCheck(r) ==
  /\ ~GetUser
  /\ Start(r, "registering", "none", NewRow("pending", 1))
  /\ UNCHANGED <<now, row, linked, sess, history>>

\* The row of r is inserted and r becomes q, or UNIQUE(email) refuses it.
CreateRow(r, q) ==
  /\ IF Exists
       THEN End(r) /\ UNCHANGED <<row, history>>
       ELSE /\ row' = req[r].copy
            /\ Wrote(r, q)
            /\ decided' = Decision(row')
            /\ UNCHANGED <<cut, stale, wrong, accepted>>
  /\ UNCHANGED <<now, linked, sess>>

\* ... yet; a code is sent when the row is there.
RegisterCreate(r) == At(r, "registering") /\ CreateRow(r, Idle)

Register(r) == RegisterCheck(r) \/ RegisterCreate(r)

\* The identity has a row of oauth_providers.
GetByProvider == linked

\* The provider vouches for the identity; an identity with a link logs in to its
\* account.  Without one an account is created; a lookup that fails is taken for
\* that, and refused as in Register.
OAuthFind(r) ==
  /\ \/ GetByProvider /\ GetUser /\ row.status # "suspended" /\ Start(r, "issuing", "login", row)
     \/ ~GetByProvider /\ Start(r, "creating oauth", "login", NewRow("active", 0))
  /\ UNCHANGED <<now, row, linked, sess, history>>

OAuthCreate(r) ==
  At(r, "creating oauth") /\ CreateRow(r, [req[r] EXCEPT !.pc = "linking"])

\* UNIQUE(provider, provider_uid); a new row is not suspended.
OAuthLink(r) ==
  /\ At(r, "linking")
  /\ IF linked THEN End(r) /\ UNCHANGED linked
               ELSE linked' = TRUE /\ Goto(r, "issuing")
  /\ UNCHANGED <<now, row, sess, history>>

OAuthLogin(r) == OAuthFind(r) \/ OAuthCreate(r) \/ OAuthLink(r)

-----------------------------------------------------------------------------
(* Login.                                                                  *)

LoginLoad(r) ==
  /\ GetUser
  /\ ~Locked
  /\ row.status # "suspended"
  /\ Start(r, "checking", "login", row)
  /\ UNCHANGED <<now, row, linked, sess, history>>

\* The limit is tested on the copy, not on the count just incremented; a slip
\* tests it with > .
AtLimitPlusOne(r) == req[r].copy.failed + 1 > MaxLoginAttempts
AtLimit(r) == req[r].copy.failed + 1 >= MaxLoginAttempts

\* Below the limit the client is answered, at the limit the account is locked.
AfterWrong(r) == IF AtLimit(r) THEN [req[r] EXCEPT !.pc = "locking"] ELSE Idle

\* IncrFailedLogin is atomic in the database.
LoginWrong(r) ==
  /\ At(r, "checking")
  /\ row.failed < MaxWrong
  /\ row' = [row EXCEPT !.failed = @ + 1]
  /\ Wrote(r, AfterWrong(r))
  /\ wrong' = IF AtLimit(r) THEN wrong ELSE wrong + 1
  /\ UNCHANGED <<now, linked, sess, decided, cut, stale, accepted>>

LoginLock(r) ==
  /\ At(r, "locking")
  /\ row' = [row EXCEPT !.lockedUntil = now + LockoutDuration]
  /\ Wrote(r, Idle)
  /\ wrong' = 0
  /\ UNCHANGED <<now, linked, sess, decided, cut, stale, accepted>>

\* verifyBackupCode takes the code out of the copy; a slip leaves it in.
SpentKept(codes, c) == codes
Spent(codes, c) == codes \ {c}

\* The MFA gate.  A code from the authenticator never passes it, because it is
\* compared with the secret as stored, encrypted; a backup code of the copy does.
MFAGate(r) ==
  LET u == req[r].copy
  IN  IF u.mfa /\ u.secret
        THEN {Idle} \union {[req[r] EXCEPT !.pc = "saving", !.op = "spend",
                                          !.copy.codes = Spent(@, c), !.code = c]
                             : c \in u.codes}
        ELSE {[req[r] EXCEPT !.pc = "issuing"]}

\* ResetFailedLogin, then the gate.
LoginRight(r) ==
  /\ At(r, "checking")
  /\ req[r].copy.pw # 0
  /\ row' = [row EXCEPT !.failed = 0, !.lockedUntil = None]
  /\ \E q \in MFAGate(r) : Wrote(r, q)
  /\ wrong' = 0
  /\ UNCHANGED <<now, linked, sess, decided, cut, stale, accepted>>

\* A request that goes on to create its session, having counted the others or not.
ToCreate(r, counted) == [req[r] EXCEPT !.pc = "creating", !.counted = counted]

\* A slip: the session about to be created is not counted.
IssueCountPlusOne(r) ==
  /\ At(r, "issuing")
  /\ IF SessionMaxDevices > 0 /\ CountActive > SessionMaxDevices
       THEN End(r) ELSE Becomes(r, ToCreate(r, TRUE))
  /\ UNCHANGED <<now, row, linked, sess, history>>

\* issueTokens: the sessions are counted ...
IssueCount(r) ==
  /\ At(r, "issuing")
  /\ IF SessionMaxDevices > 0 /\ CountActive >= SessionMaxDevices
       THEN End(r) ELSE Becomes(r, ToCreate(r, TRUE))
  /\ UNCHANGED <<now, row, linked, sess, history>>

\* The two tokens name the session, by a new ID; nothing else they claim matters.
GenerateTokenPair(s) == sess[s].state = "unused"

\* ... one is created ...
IssueCreate(r) ==
  /\ At(r, "creating")
  /\ \E s \in Session :
       /\ GenerateTokenPair(s)
       /\ sess' = [sess EXCEPT ![s] =
            [state |-> "active", expired |-> FALSE,
             pw |-> req[r].copy.pw, late |-> ~req[r].fresh, counted |-> req[r].counted]]
  /\ Becomes(r, [req[r] EXCEPT !.pc = "saving", !.counted = FALSE])
  /\ UNCHANGED <<now, row, linked, history>>

issueTokens(r) == IssueCount(r) \/ IssueCreate(r)

Login(r) ==
  LoginLoad(r) \/ LoginWrong(r) \/ LoginLock(r) \/ LoginRight(r) \/ issueTokens(r)

-----------------------------------------------------------------------------
(* Update: every column of the copy is written.                            *)

\* What a Save decides is what its operation is for.
SaveDecides(r) ==
  LET u == req[r].copy
  IN  CASE req[r].op = "status" -> [decided EXCEPT !.status = u.status]
        [] req[r].op = "reset"  -> [decided EXCEPT !.pw = u.pw]
        [] req[r].op = "mfa"    -> [decided EXCEPT !.mfa = u.mfa]
        [] OTHER                -> decided

\* A slip: a reset that ends with its Save.
AfterSaveKeepsSessions(r) ==
  CASE req[r].op = "spend" -> [req[r] EXCEPT !.pc = "issuing", !.op = "login"]
    [] OTHER               -> Idle

\* A login that spent a code goes on to issueTokens, a reset to RevokeAll.
AfterSave(r) ==
  CASE req[r].op = "spend" -> [req[r] EXCEPT !.pc = "issuing", !.op = "login"]
    [] req[r].op = "reset" -> [req[r] EXCEPT !.pc = "revoking"]
    [] OTHER               -> Idle

Save(r) ==
  /\ At(r, "saving")
  /\ row' = req[r].copy
  /\ Wrote(r, AfterSave(r))
  /\ decided' = SaveDecides(r)
  /\ stale' = (stale \/ ~req[r].fresh)
  /\ wrong' = 0
  /\ accepted' = [c \in Code |->
       IF req[r].op = "spend" /\ req[r].code = c THEN accepted[c] + 1
       ELSE IF req[r].op = "enable" THEN 0 ELSE accepted[c]]
  /\ UNCHANGED <<now, linked, sess, cut>>

\* Statements that fail and are not missed: the request goes on as if they had
\* not.  In this order: IncrFailedLogin, LockAccount, ResetFailedLogin, the Update
\* of a spent backup code, and CountActive, which is taken for 0.
ErrorDropped(r) ==
  /\ \/ At(r, "checking") /\ Becomes(r, AfterWrong(r))
     \/ At(r, "locking") /\ End(r)
     \/ /\ At(r, "checking") /\ req[r].copy.pw # 0
        /\ \E q \in MFAGate(r) : Becomes(r, q)
     \/ At(r, "saving") /\ req[r].op = "spend" /\ Becomes(r, AfterSave(r))
     \/ At(r, "issuing") /\ Becomes(r, ToCreate(r, FALSE))
  /\ UNCHANGED <<now, row, linked, sess, history>>

-----------------------------------------------------------------------------
(* RefreshToken and the ends of sessions.                                  *)

\* A token names a session that was created.  JWTAuth asks for no more.
parseToken(s) == sess[s].state # "unused"
JWTAuth(s) == parseToken(s)

\* The stored refresh token is neither compared nor replaced: a refresh of an
\* active, unexpired session reads two rows and changes none that matter.
RefreshLoad(r, s) ==
  /\ parseToken(s)
  /\ Active(s) /\ sess[s].expired
  /\ At(r, "idle")
  /\ req' = [req EXCEPT ![r] = [Idle EXCEPT !.pc = "expiring", !.sid = s]]
  /\ UNCHANGED <<now, row, linked, sess, history>>

\* An expired one is revoked in a statement of its own.
RefreshRevoke(r) ==
  /\ At(r, "expiring")
  /\ sess' = [sess EXCEPT ![req[r].sid].state =
                IF @ = "active" THEN "revoked" ELSE @]
  /\ End(r)
  /\ UNCHANGED <<now, row, linked, history>>

RefreshToken(r) == (\E s \in Session : RefreshLoad(r, s)) \/ RefreshRevoke(r)

Expire(s) ==
  /\ Active(s) /\ ~sess[s].expired
  /\ sess' = [sess EXCEPT ![s].expired = TRUE]
  /\ UNCHANGED <<now, row, linked, req, history>>

\* A slip: the status of a user written to a session.
RevokeAsSuspended(s) ==
  /\ Active(s)
  /\ sess' = [sess EXCEPT ![s].state = "suspended"]
  /\ UNCHANGED <<now, row, linked, req, history>>

Revoke(s) ==
  /\ Active(s)
  /\ sess' = [sess EXCEPT ![s].state = "revoked"]
  /\ UNCHANGED <<now, row, linked, req, history>>

RevokeAll ==
  sess' = [s \in Session |->
             IF Active(s) THEN [sess[s] EXCEPT !.state = "revoked"] ELSE sess[s]]

Logout(s) == JWTAuth(s) /\ Revoke(s)

\* LogoutAll and the administrator's RevokeUserSessions.
LogoutAll ==
  /\ RevokeAll
  /\ UNCHANGED <<now, row, linked, req, history>>

\* What expired a day ago is deleted, and what is inactive.
CleanupExpired(old) ==
  sess' = [s \in Session |->
             IF s \in old \/ sess[s].state = "revoked"
             THEN [Unused EXCEPT !.state = "deleted"] ELSE sess[s]]

\* The worker, every hour.
cleanSessions ==
  /\ \E old \in SUBSET {s \in Session : Active(s) /\ sess[s].expired} :
       CleanupExpired(old)
  /\ UNCHANGED <<now, row, linked, req, history>>

\* The second statement of ResetPassword, LockUser and DeleteUser.
RevokeAfter(r) ==
  /\ At(r, "revoking")
  /\ RevokeAll
  /\ End(r)
  /\ UNCHANGED <<now, row, linked, history>>

-----------------------------------------------------------------------------
(* MFA and passwords: load, change the copy, Save.  The caller of the MFA   *)
(* operations holds an access token, which outlives its session, and knows *)
(* the password or the authenticator's code.                               *)

LoadToSave(r, op, copy) ==
  /\ GetUser
  /\ Start(r, "saving", op, copy)
  /\ UNCHANGED <<now, row, linked, sess, history>>

WithPassword(u, v) == [u EXCEPT !.pw = v]

\* A slip: the secret goes and MFA stays on.
WithFlagLeft(u) == [u EXCEPT !.secret = FALSE, !.codes = {}]
WithoutMFA(u) == [u EXCEPT !.mfa = FALSE, !.secret = FALSE, !.codes = {}]

EnableMFA(r) == LoadToSave(r, "enable", WithSecret(row))

ConfirmMFA(r) == row.secret /\ LoadToSave(r, "mfa", WithMFA(row))

DisableMFA(r) == row.mfa /\ row.secret /\ LoadToSave(r, "mfa", WithoutMFA(row))

\* The one-time code was right; each new password is another one.
ResetPassword(r) ==
  \E v \in 2..MaxResets + 1 :
    /\ v \notin {row.pw, decided.pw} \union {req[x].copy.pw : x \in Request}
    /\ LoadToSave(r, "reset", WithPassword(row, v))

-----------------------------------------------------------------------------
(* The administrator.                                                      *)

UpdateUserStatus(r) ==
  \E st \in AdminStatus : LoadToSave(r, "status", [row EXCEPT !.status = st])

\* A slip: an unlocked account is made active as well.
UnlockUserActivates(r) ==
  LoadToSave(r, "unlock", [row EXCEPT !.lockedUntil = None, !.failed = 0,
                                      !.status = "active"])

UnlockUser(r) ==
  LoadToSave(r, "unlock", [row EXCEPT !.lockedUntil = None, !.failed = 0])

\* "permanent" outlives every clock.
LockUser(r) ==
  /\ Exists /\ At(r, "idle")
  /\ row' = [row EXCEPT !.lockedUntil = MaxTime + 1]
  /\ Wrote(r, [Idle EXCEPT !.pc = "revoking"])
  /\ UNCHANGED <<now, linked, sess, history>>

\* SoftDelete, then RevokeAll.
DeleteUser(r) ==
  /\ Exists /\ At(r, "idle")
  /\ row' = [row EXCEPT !.deleted = TRUE]
  /\ Wrote(r, [Idle EXCEPT !.pc = "revoking"])
  /\ decided' = [decided EXCEPT !.deleted = TRUE]
  /\ UNCHANGED <<now, linked, sess, cut, stale, wrong, accepted>>

Admin(r) == UpdateUserStatus(r) \/ UnlockUser(r) \/ LockUser(r) \/ DeleteUser(r)

\* A request that starts is counted.
Count(r) ==
  /\ At(r, "idle") => made < MaxRequests
  /\ made' = IF At(r, "idle") THEN made + 1 ELSE made

Next ==
  \/ /\ \/ Tick \/ LogoutAll \/ cleanSessions
        \/ \E s \in Session : Expire(s) \/ Logout(s)
     /\ UNCHANGED made
  \/ \E r \in Request :
       /\ Count(r)
       /\ \/ Register(r) \/ OAuthLogin(r) \/ Login(r) \/ Save(r) \/ RefreshToken(r)
          \/ EnableMFA(r) \/ ConfirmMFA(r) \/ DisableMFA(r) \/ ResetPassword(r)
          \/ Admin(r) \/ RevokeAfter(r) \/ ErrorDropped(r) \/ Abandon(r)

Spec == Init /\ [][Next]_vars

-----------------------------------------------------------------------------
(***************************************************************************)
(* What was decided about the account stays in its row: the status an      *)
(* administrator set, the password a reset set, MFA as confirmed or        *)
(* disabled, a deletion.  The one thing that can undo them is a Save by a  *)
(* request that loaded the row before another request wrote it.            *)
(***************************************************************************)
DecisionsHold == ~stale => Decision(row) = decided

\* What holds an unexpired session whose login had counted, or will.
Counted == {s \in Session : Active(s) /\ ~sess[s].expired /\ sess[s].counted}
AboutToCreate == {r \in Request : At(r, "creating") /\ req[r].counted}

(***************************************************************************)
(* issueTokens counts the sessions and creates one two statements later,   *)
(* and takes a count that fails for 0.  However logins interleave, with    *)
(* each other, logouts, expiry and the cleanup, of the sessions whose      *)
(* login got its count there are at most SessionMaxDevices - 1 + n, n the  *)
(* logins at once, those still about to be created included.  Every        *)
(* failing count can add one more: that is what the code allows.           *)
(***************************************************************************)
SessionLimit ==
  SessionMaxDevices > 0 =>
    Cardinality(Counted) + Cardinality(AboutToCreate)
      <= SessionMaxDevices - 1 + Cardinality(Request)

(***************************************************************************)
(* The lockout by a count read before the increment, with the errors of    *)
(* the increment, the lock and the reset dropped: of n concurrent logins   *)
(* at most MaxLoginAttempts - 2 + n are told that their password is wrong, *)
(* with their increment in the row, before the account is locked, the      *)
(* count is reset or a Save rewrites it.  An answer whose increment or     *)
(* lock fails comes on top: a database that refuses these statements and   *)
(* nothing else leaves the guesses unbounded.                              *)
(***************************************************************************)
WrongAnswersBound == wrong < MaxLoginAttempts - 1 + Cardinality(Request)

(***************************************************************************)
(* Login skips the MFA gate when MFA is on without a secret.  No order of  *)
(* enabling, confirming and disabling, each saving an old copy over the    *)
(* others' work, leaves the row or a copy of it in that state.             *)
(***************************************************************************)
GateHasSecret ==
  \A u \in {row} \union {req[r].copy : r \in Request} : u.mfa => u.secret

(***************************************************************************)
(* verifyBackupCode accepts a code whether or not its removal is saved.    *)
(* The removal of one code is saved twice only if a Save overwrote what    *)
(* another request had written: otherwise a code is accepted at most once  *)
(* more than the Saves of its removal failed.                              *)
(***************************************************************************)
CodeReuseNeedsARace == ~stale => \A c \in Code : accepted[c] <= 1

\* No password reset is between its Save and its RevokeAll.
NoResetUnderWay == \A r \in Request : ~(At(r, "revoking") /\ req[r].op = "reset")

(***************************************************************************)
(* After a password reset an active session was opened with the password   *)
(* in force, unless its login was already under way when the row was       *)
(* written, a stale Save brought the old password back, or the reset was   *)
(* cut short before its RevokeAll.                                         *)
(***************************************************************************)
OldSessionsNeedARace ==
  NoResetUnderWay =>
    \A s \in Session :
      Active(s) /\ sess[s].pw # decided.pw => sess[s].late \/ stale \/ cut

=============================================================================
