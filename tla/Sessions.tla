------------------------------- MODULE Sessions -------------------------------
(***************************************************************************)
(* Sessions and rotating refresh tokens of biometric-auth                  *)
(* (service/token.go, the session half of service/auth.go and the session  *)
(* repository).                                                            *)
(*                                                                         *)
(* The repository hands out POINTERS to the stored records and holds its   *)
(* lock only inside each call, so the goroutines that serve requests read  *)
(* and write the same record field by field.  RotateRefreshToken is        *)
(* therefore four steps: it reads Status, then reads RefreshToken, then    *)
(* either writes the new RefreshToken or revokes the family.  Every other  *)
(* handler changes the record with a single field write or under one hold  *)
(* of the lock, and is one step.                                           *)
(*                                                                         *)
(* A token is named by its jti: secureHex draws it afresh for every token, *)
(* so the hash of a refresh token is equal to a stored one only for the    *)
(* same jti.  A pair is named by the jti of its refresh token.  The random *)
(* ids of pairs and sessions are numbered in the order in which they are   *)
(* drawn: nothing in the code depends on their value.  A family is drawn   *)
(* afresh for every session and every later token of the session carries   *)
(* it on, so the session names its family.  Session.DeviceID, UseCount,    *)
(* LastUsedAt and ExpiresAt are written and never read; they are left out. *)
(*                                                                         *)
(* A fresh pair is known to nobody before its handler returns, so drawing  *)
(* it and storing its hash are one step, at the time of the store.         *)
(*                                                                         *)
(* A request that is refused (token expired or forged, other device,       *)
(* session not active, device middleware) changes nothing: it is a         *)
(* stuttering step.  Which devices the middleware lets through is the      *)
(* subject of Devices.                                                     *)
(***************************************************************************)
EXTENDS Naturals, FiniteSets

CONSTANTS
  MaxSessions,    \* bound: how many sessions are created
  MaxPairs,       \* bound: how many token pairs are issued
  User,
  Device,
  Request,        \* goroutines that can be inside RotateRefreshToken at once
  None,           \* Go's nil or the empty string
  MaxExpiries     \* bound: how many tokens may expire

ASSUME NoneAssumption == None \notin Nat \union User

ASSUME BoundAssumption == MaxSessions \in Nat /\ MaxPairs \in Nat

SessionId == 1 .. MaxSessions
Jti == 1 .. MaxPairs

VARIABLES
  status,         \* Session.Status; "none" until the session is stored
  owner,          \* Session.UserID
  current,        \* Session.RefreshToken: the jti whose hash is stored
  pair,           \* the claims of the pair of every jti issued so far
  expired,        \* the tokens past their Exp
  req,            \* the refresh requests in flight
  presented,      \* history: how often a jti got past the status check (0, 1, many)
  exchanged       \* history: the sessions a biometric exchange has re-keyed

store == <<status, owner, current>>
history == <<presented, exchanged>>
vars == <<store, pair, expired, req, history>>

-----------------------------------------------------------------------------
Status == {"none", "active", "revoked", "replayed"}

Claims == [sub : User, did : Device, sid : SessionId, parent : Jti \union {None}]

NoPair == [sub |-> None]

Token == Jti \X {"access", "refresh"}

\* "checked" follows the test of Status, "matched" the successful comparison of
\* the hashes, "mismatch" the failed one.
ReqState == [pc : {"idle", "checked", "matched", "mismatch"}, tok : Jti \union {None}]

Idle == [pc |-> "idle", tok |-> None]

TypeOK ==
  /\ status \in [SessionId -> Status]
  /\ owner \in [SessionId -> User \union {None}]
  /\ current \in [SessionId -> Jti \union {None}]
  /\ pair \in [Jti -> Claims \union {NoPair}]
  /\ expired \subseteq Token
  /\ req \in [Request -> ReqState]
  /\ presented \in [Jti -> 0 .. 2]
  /\ exchanged \subseteq SessionId

Init ==
  /\ status = [s \in SessionId |-> "none"]
  /\ owner = [s \in SessionId |-> None]
  /\ current = [s \in SessionId |-> None]
  /\ pair = [j \in Jti |-> NoPair]
  /\ expired = {}
  /\ req = [r \in Request |-> Idle]
  /\ presented = [j \in Jti |-> 0]
  /\ exchanged = {}

-----------------------------------------------------------------------------
Issued(j) == pair[j] # NoPair

\* verify: the signature is the service's own and Exp has not passed.
verify(j, kind) == Issued(j) /\ <<j, kind>> \notin expired

\* IssueTokenPair: a pair under a fresh jti; parent is the token it replaces.
IssueTokenPair(j, sub, did, sid, parent) ==
  /\ ~Issued(j)
  /\ \A i \in Jti : i < j => Issued(i)
  /\ pair' = [pair EXCEPT ![j] =
                [sub |-> sub, did |-> did, sid |-> sid, parent |-> parent]]

\* Time passes: a token reaches its Exp.
Expire(t) ==
  /\ Issued(t[1])
  /\ t \notin expired
  /\ Cardinality(expired) < MaxExpiries
  /\ expired' = expired \union {t}
  /\ UNCHANGED <<store, pair, req, history>>

-----------------------------------------------------------------------------
\* createSession, at the end of a successful Login of user u on device d.
createSession(s, u, d, j) ==
  /\ status[s] = "none"
  /\ \A x \in SessionId : x < s => status[x] # "none"
  /\ IssueTokenPair(j, u, d, s, None)
  /\ status' = [status EXCEPT ![s] = "active"]
  /\ owner' = [owner EXCEPT ![s] = u]
  /\ current' = [current EXCEPT ![s] = j]
  /\ UNCHANGED <<expired, req, history>>

\* RotateRefreshToken up to the test of Status: verify, token type, device,
\* GetByID.
RotateCheck(r, j, d) ==
  /\ req[r].pc = "idle"
  /\ verify(j, "refresh")
  /\ pair[j].did = d
  /\ status[pair[j].sid] = "active"
  /\ req' = [req EXCEPT ![r] = [pc |-> "checked", tok |-> j]]
  /\ presented' = [presented EXCEPT ![j] = IF @ = 0 THEN 1 ELSE 2]
  /\ UNCHANGED <<store, pair, expired, exchanged>>

\* The comparison of the presented token's hash with the stored one.
RotateCompare(r) ==
  /\ req[r].pc = "checked"
  /\ LET j == req[r].tok
         match == current[pair[j].sid] = j
     IN  req' = [req EXCEPT ![r] = [pc |-> IF match THEN "matched" ELSE "mismatch",
                                    tok |-> j]]
  /\ UNCHANGED <<store, pair, expired, history>>

\* Two slips of RotateCommit: the session record is written back as it was when
\* Status was tested, or the new hash is not stored.
RotateCommitReactivates(r, j) ==
  LET old == req[r].tok
      sid == pair[old].sid
  IN  /\ req[r].pc = "matched"
      /\ IssueTokenPair(j, pair[old].sub, pair[old].did, sid, old)
      /\ current' = [current EXCEPT ![sid] = j]
      /\ status' = [status EXCEPT ![sid] = "active"]
      /\ req' = [req EXCEPT ![r] = Idle]
      /\ UNCHANGED <<owner, expired, history>>

RotateCommitForgetsHash(r, j) ==
  LET old == req[r].tok
  IN  /\ req[r].pc = "matched"
      /\ IssueTokenPair(j, pair[old].sub, pair[old].did, pair[old].sid, old)
      /\ req' = [req EXCEPT ![r] = Idle]
      /\ UNCHANGED <<store, expired, history>>

\* A fresh pair is issued and its hash written into the shared record.  Status
\* is neither read again nor written.
RotateCommit(r, j) ==
  LET old == req[r].tok
      sid == pair[old].sid
  IN  /\ req[r].pc = "matched"
      /\ IssueTokenPair(j, pair[old].sub, pair[old].did, sid, old)
      /\ current' = [current EXCEPT ![sid] = j]
      /\ req' = [req EXCEPT ![r] = Idle]
      /\ UNCHANGED <<status, owner, expired, history>>

\* A slip: the failed rotation puts the presented token back.
RotateFailRestores(r) ==
  /\ req[r].pc = "matched"
  /\ current' = [current EXCEPT ![pair[req[r].tok].sid] = req[r].tok]
  /\ req' = [req EXCEPT ![r] = Idle]
  /\ UNCHANGED <<status, owner, pair, expired, history>>

\* IssueTokenPair fails (no randomness): the request ends with nothing written.
RotateFail(r) ==
  /\ req[r].pc = "matched"
  /\ req' = [req EXCEPT ![r] = Idle]
  /\ UNCHANGED <<store, pair, expired, history>>

\* RevokeFamily(payload.Family, replayed), whatever the status has become.
RotateRevokeFamily(r) ==
  /\ req[r].pc = "mismatch"
  /\ status' = [status EXCEPT ![pair[req[r].tok].sid] = "replayed"]
  /\ req' = [req EXCEPT ![r] = Idle]
  /\ UNCHANGED <<owner, current, pair, expired, history>>

\* A slip: the pair is issued for the session of the access token.
ExchangeForClaims(c, s, j) ==
  /\ verify(c, "access")
  /\ status[s] # "none"
  /\ IssueTokenPair(j, pair[c].sub, pair[c].did, pair[c].sid, None)
  /\ current' = [current EXCEPT ![s] = j]
  /\ exchanged' = exchanged \union {s}
  /\ UNCHANGED <<status, owner, expired, req, presented>>

\* ExchangeBiometricToken after a successful Authenticate: the session comes
\* from the request body; neither its status nor its owner is looked at.
ExchangeBiometricToken(c, s, j) ==
  /\ verify(c, "access")
  /\ status[s] # "none"
  /\ IssueTokenPair(j, pair[c].sub, pair[c].did, s, None)
  /\ current' = [current EXCEPT ![s] = j]
  /\ exchanged' = exchanged \union {s}
  /\ UNCHANGED <<status, owner, expired, req, presented>>

\* A slip: the session is marked expired, a status Session also has.
LogoutAsExpired(c) ==
  /\ verify(c, "access")
  /\ status' = [status EXCEPT ![pair[c].sid] = "expired"]
  /\ UNCHANGED <<owner, current, pair, expired, req, history>>

\* Logout: RevokeSession of the session in the access token's claims, whatever
\* its status.
Logout(c) ==
  /\ verify(c, "access")
  /\ status' = [status EXCEPT ![pair[c].sid] = "revoked"]
  /\ UNCHANGED <<owner, current, pair, expired, req, history>>

\* LogoutAll: RevokeAllByUser, under one hold of the repository's lock.
LogoutAll(c) ==
  /\ verify(c, "access")
  /\ status' = [s \in SessionId |->
                  IF owner[s] = pair[c].sub THEN "revoked" ELSE status[s]]
  /\ UNCHANGED <<owner, current, pair, expired, req, history>>

-----------------------------------------------------------------------------
Rotate(r) ==
  \/ RotateCompare(r)
  \/ \E j \in Jti : RotateCommit(r, j)
  \/ RotateFail(r)
  \/ RotateRevokeFamily(r)

Next ==
  \/ \E t \in Token : Expire(t)
  \/ \E s \in SessionId, u \in User, d \in Device, j \in Jti : createSession(s, u, d, j)
  \/ \E r \in Request, j \in Jti, d \in Device : RotateCheck(r, j, d)
  \/ \E r \in Request : Rotate(r)
  \/ \E c \in Jti, s \in SessionId, j \in Jti : ExchangeBiometricToken(c, s, j)
  \/ \E c \in Jti : Logout(c) \/ LogoutAll(c)

Spec == Init /\ [][Next]_vars

\* A goroutine that has started to serve a refresh goes on to its end; nothing
\* obliges a client to call, or a token to expire.
FairSpec == Spec /\ \A r \in Request : WF_vars(Rotate(r))

-----------------------------------------------------------------------------
Ended(s) == status[s] \in {"revoked", "replayed"}

(***************************************************************************)
(* The hash a session stores is that of a token issued for this very       *)
(* session, from its creation on (createSession, RotateRefreshToken and    *)
(* ExchangeBiometricToken all write it): no interleaving files one         *)
(* session's token under another.                                          *)
(***************************************************************************)
CurrentIsOwnToken ==
  \A s \in SessionId :
    status[s] # "none" => /\ current[s] \in Jti
                          /\ Issued(current[s])
                          /\ pair[current[s]].sid = s

(***************************************************************************)
(* No false alarm: RotateRefreshToken condemns a family as replayed only   *)
(* if one of its tokens really was presented twice, or a biometric         *)
(* exchange replaced the token a client still held.                        *)
(***************************************************************************)
NoFalseAlarm ==
  \A s \in SessionId :
    status[s] = "replayed" =>
      \/ s \in exchanged
      \/ \E j \in Jti : Issued(j) /\ pair[j].sid = s /\ presented[j] = 2

(***************************************************************************)
(* A refresh token that has been replaced never comes back: RefreshToken   *)
(* only ever changes to a token issued by that very step, however late a   *)
(* racing RotateRefreshToken writes.                                       *)
(***************************************************************************)
NoTokenResurrection ==
  [][\A s \in SessionId :
       current'[s] # current[s] => /\ current'[s] \in Jti
                                   /\ ~Issued(current'[s])]_vars

(***************************************************************************)
(* Once RotateRefreshToken has seen a mismatch, the session ends and stays *)
(* ended, whatever the logins, refreshes and exchanges in flight do.       *)
(***************************************************************************)
ReplayEndsSession ==
  \A r \in Request, s \in SessionId :
    (req[r].pc = "mismatch" /\ pair[req[r].tok].sid = s) ~> []Ended(s)

(***************************************************************************)
(* token.go:101: "single-use token rotation": at most one pair is ever     *)
(* issued in exchange for a refresh token.                                 *)
(***************************************************************************)
SingleUseRotation ==
  \A i, j \in Jti :
    (Issued(i) /\ Issued(j) /\ i # j /\ pair[i].parent # None)
      => pair[i].parent # pair[j].parent

Lifecycle == INSTANCE SessionLifecycle

(***************************************************************************)
(* The session records, field by field writes and all, implement the       *)
(* abstract life cycle: created once, ended at most once for good.         *)
(***************************************************************************)
SessionsRefinement == Lifecycle!Spec

=============================================================================
