------------------------- MODULE LegacyAccountsProofs -------------------------
(***************************************************************************)
(* Proofs about LegacyAccounts, for any number of concurrent requests,     *)
(* sessions and backup codes and any limits.                               *)
(***************************************************************************)
EXTENDS LegacyAccounts, FiniteSetTheorems, TLAPS

-----------------------------------------------------------------------------
(* Types.                                                                  *)

\* The rows the code makes are rows.
LEMMA RowsTyped ==
  /\ NoRow \in Row /\ NewRow("pending", 1) \in Row /\ NewRow("active", 0) \in Row
  /\ WithMFA(WithSecret(NewRow("pending", 1))) \in Row
  /\ Idle \in ReqState /\ Unused \in SessState
BY NoneAssumption DEF NoRow, NewRow, WithMFA, WithSecret, Row, Status, Idle, ReqState, PC, Op, Unused, SessState

\* The account and the requests start with their types.
LEMMA InitTyped == Init => TypeOK
<1> SUFFICES ASSUME Init PROVE TypeOK
    OBVIOUS
<1>1. row \in Row
      BY RowsTyped DEF Init
<1>2. decided \in [status : Status, pw : Nat, mfa : BOOLEAN, deleted : BOOLEAN]
      BY <1>1 DEF Init, Decision, Row
<1>3. req \in [Request -> ReqState] /\ sess \in [Session -> SessState]
      BY RowsTyped DEF Init
<1> QED
    BY <1>1, <1>2, <1>3 DEF Init, TypeOK

\* A request that starts has its type.
LEMMA StartTyped ==
  ASSUME TypeOK, NEW r \in Request, NEW pc \in PC, NEW op \in Op, NEW copy \in Row,
         Start(r, pc, op, copy)
  PROVE  req' \in [Request -> ReqState]
<1>1. [Idle EXCEPT !.pc = pc, !.op = op, !.copy = copy] \in ReqState
      BY RowsTyped DEF Idle, ReqState
<1> QED
    BY <1>1 DEF TypeOK, Start

\* So does one that goes on or ends ...
LEMMA GotoTyped ==
  ASSUME TypeOK, NEW r \in Request, NEW pc \in PC, Goto(r, pc) \/ End(r)
  PROVE  req' \in [Request -> ReqState]
BY RowsTyped DEF TypeOK, Goto, End, Becomes, ReqState

\* ... one that becomes another ...
LEMMA BecomesTyped ==
  ASSUME TypeOK, NEW r \in Request, NEW q \in ReqState, Becomes(r, q)
  PROVE  req' \in [Request -> ReqState]
BY DEF TypeOK, Becomes

\* ... and one that writes, or whose copy is made out of date by a write.
LEMMA WroteTyped ==
  ASSUME TypeOK, NEW r \in Request, NEW q \in ReqState, Wrote(r, q)
  PROVE  req' \in [Request -> ReqState]
BY DEF TypeOK, Wrote, ReqState

\* The fields of a request.
LEMMA RequestFields ==
  ASSUME TypeOK, NEW r \in Request
  PROVE  /\ req[r].pc \in PC /\ req[r].op \in Op /\ req[r].copy \in Row
         /\ req[r].fresh \in BOOLEAN /\ req[r].counted \in BOOLEAN /\ req[r] \in ReqState
BY DEF TypeOK, ReqState

\* What the operations make of a row is a row.
LEMMA ChangedRows ==
  ASSUME NEW u \in Row
  PROVE  /\ WithSecret(u) \in Row /\ WithMFA(u) \in Row /\ WithoutMFA(u) \in Row
         /\ \A v \in Nat : WithPassword(u, v) \in Row
         /\ \A st \in AdminStatus : [u EXCEPT !.status = st] \in Row
         /\ [u EXCEPT !.lockedUntil = None, !.failed = 0] \in Row
         /\ [u EXCEPT !.failed = 0, !.lockedUntil = None] \in Row
         /\ [u EXCEPT !.failed = @ + 1] \in Row
         /\ \A t \in Nat : [u EXCEPT !.lockedUntil = t] \in Row
         /\ [u EXCEPT !.deleted = TRUE] \in Row
         /\ \A c \in Code : [u EXCEPT !.codes = Spent(@, c)] \in Row
<1> USE DEF Row
<1>1. WithSecret(u) \in Row /\ WithMFA(u) \in Row /\ WithoutMFA(u) \in Row
      BY DEF WithSecret, WithMFA, WithoutMFA
<1>2. ASSUME NEW v \in Nat PROVE WithPassword(u, v) \in Row
      BY DEF WithPassword
<1>3. ASSUME NEW st \in AdminStatus PROVE [u EXCEPT !.status = st] \in Row
      BY DEF Status
<1>4. /\ [u EXCEPT !.lockedUntil = None, !.failed = 0] \in Row
      /\ [u EXCEPT !.failed = 0, !.lockedUntil = None] \in Row
      OBVIOUS
<1>5. [u EXCEPT !.failed = @ + 1] \in Row
      OBVIOUS
<1>6. ASSUME NEW t \in Nat PROVE [u EXCEPT !.lockedUntil = t] \in Row
      OBVIOUS
<1>7. [u EXCEPT !.deleted = TRUE] \in Row
      OBVIOUS
<1>8. ASSUME NEW c \in Code PROVE [u EXCEPT !.codes = Spent(@, c)] \in Row
      BY DEF Spent
<1> QED
    BY <1>1, <1>2, <1>3, <1>4, <1>5, <1>6, <1>7, <1>8

\* What a change of the row decides is a decision.
LEMMA DecisionTyped ==
  ASSUME NEW u \in Row
  PROVE  Decision(u) \in [status : Status, pw : Nat, mfa : BOOLEAN, deleted : BOOLEAN]
BY DEF Decision, Row

\* What a login becomes is a request: after a wrong password, past the gate, when
\* it is about to create a session.
LEMMA LoginTyped ==
  ASSUME TypeOK, NEW r \in Request
  PROVE  /\ AfterWrong(r) \in ReqState
         /\ \A q \in MFAGate(r) : q \in ReqState
         /\ \A b \in BOOLEAN : ToCreate(r, b) \in ReqState
<1>0. req[r] \in ReqState /\ req[r].copy \in Row
      BY RequestFields
<1>1. AfterWrong(r) \in ReqState
      BY <1>0, RowsTyped DEF AfterWrong, ReqState, PC
<1>2. [req[r] EXCEPT !.pc = "issuing"] \in ReqState
      BY <1>0 DEF ReqState, PC
<1>3. ASSUME NEW c \in req[r].copy.codes
      PROVE  [req[r] EXCEPT !.pc = "saving", !.op = "spend",
                            !.copy.codes = Spent(@, c), !.code = c] \in ReqState
      <2>1. c \in Code
            BY <1>0 DEF Row
      <2>2. [req[r].copy EXCEPT !.codes = Spent(@, c)] \in Row
            BY <1>0, <2>1, ChangedRows
      <2> QED
          BY <1>0, <2>1, <2>2 DEF ReqState, PC, Op
<1>4. \A q \in MFAGate(r) : q \in ReqState
      BY <1>2, <1>3, RowsTyped DEF MFAGate
<1>5. ASSUME NEW b \in BOOLEAN PROVE ToCreate(r, b) \in ReqState
      BY <1>0 DEF ToCreate, ReqState, PC
<1> QED
    BY <1>1, <1>4, <1>5

\* What a Save decides is a decision, and what follows it a request.
LEMMA SaveTyped ==
  ASSUME TypeOK, NEW r \in Request
  PROVE  /\ SaveDecides(r) \in [status : Status, pw : Nat, mfa : BOOLEAN, deleted : BOOLEAN]
         /\ AfterSave(r) \in ReqState
<1>1. req[r].copy \in Row /\ req[r] \in ReqState
      BY RequestFields
<1>2. SaveDecides(r) \in [status : Status, pw : Nat, mfa : BOOLEAN, deleted : BOOLEAN]
      BY <1>1 DEF SaveDecides, TypeOK, Row
<1>3. AfterSave(r) \in ReqState
      BY <1>1, RowsTyped DEF AfterSave, ReqState, PC, Op
<1> QED
    BY <1>2, <1>3

\* Versions of passwords are numbers.
LEMMA Versions == \A v \in 2..MaxResets + 1 : v \in Nat
BY BoundAssumption

\* TypeOK but for the count of requests.
Typed ==
  /\ now \in Nat /\ linked \in BOOLEAN
  /\ row \in Row
  /\ sess \in [Session -> SessState]
  /\ req \in [Request -> ReqState]
  /\ decided \in [status : Status, pw : Nat, mfa : BOOLEAN, deleted : BOOLEAN]
  /\ cut \in BOOLEAN /\ stale \in BOOLEAN /\ wrong \in Nat /\ accepted \in [Code -> Nat]

\* Steps that only load a row.
LEMMA LoadTyped ==
  ASSUME TypeOK, NEW r \in Request,
         \/ RegisterCheck(r) \/ OAuthFind(r) \/ LoginLoad(r)
         \/ EnableMFA(r) \/ ConfirmMFA(r) \/ DisableMFA(r) \/ ResetPassword(r)
         \/ UpdateUserStatus(r) \/ UnlockUser(r)
  PROVE  Typed'
<1>1. UNCHANGED <<now, row, linked, sess, history>>
      BY DEF RegisterCheck, OAuthFind, LoginLoad, EnableMFA, ConfirmMFA, DisableMFA,
             ResetPassword, UpdateUserStatus, UnlockUser, LoadToSave
<1>2. \E pc \in PC, op \in Op, copy \in Row : Start(r, pc, op, copy)
      <2> USE RowsTyped, ChangedRows DEF TypeOK, PC, Op
      <2>1. CASE RegisterCheck(r)
            BY <2>1 DEF RegisterCheck
      <2>2. CASE OAuthFind(r)
            BY <2>2 DEF OAuthFind
      <2>3. CASE LoginLoad(r)
            BY <2>3 DEF LoginLoad
      <2>4. CASE EnableMFA(r)
            BY <2>4 DEF EnableMFA, LoadToSave
      <2>5. CASE ConfirmMFA(r)
            BY <2>5 DEF ConfirmMFA, LoadToSave
      <2>6. CASE DisableMFA(r)
            BY <2>6 DEF DisableMFA, LoadToSave
      <2>7. CASE ResetPassword(r)
            <3>1. PICK v \in 2..MaxResets + 1 : LoadToSave(r, "reset", WithPassword(row, v))
                  BY <2>7 DEF ResetPassword
            <3>2. v \in Nat
                  BY Versions
            <3> QED
                BY <3>1, <3>2 DEF LoadToSave
      <2>8. CASE UpdateUserStatus(r)
            BY <2>8 DEF UpdateUserStatus, LoadToSave
      <2>9. CASE UnlockUser(r)
            BY <2>9 DEF UnlockUser, LoadToSave
      <2> QED
          BY <2>1, <2>2, <2>3, <2>4, <2>5, <2>6, <2>7, <2>8, <2>9
<1>3. req' \in [Request -> ReqState]
      BY <1>2, StartTyped
<1> QED
    BY <1>1, <1>3 DEF TypeOK, Typed, history

\* Steps that go on or end without a write to the row.
LEMMA MoveTyped ==
  ASSUME TypeOK, NEW r \in Request,
         \/ OAuthLink(r) \/ issueTokens(r) \/ RefreshToken(r) \/ RevokeAfter(r)
         \/ ErrorDropped(r) \/ Abandon(r)
  PROVE  Typed'
<1>1. ASSUME NEW s \in Session, RefreshLoad(r, s) PROVE Typed'
      <2>1. [Idle EXCEPT !.pc = "expiring", !.sid = s] \in ReqState
            BY RowsTyped DEF Idle, ReqState, PC
      <2> QED
          BY <1>1, <2>1 DEF RefreshLoad, TypeOK, Typed, history
<1>2. CASE ~\E s \in Session : RefreshLoad(r, s)
      <2>1. ASSUME ErrorDropped(r) \/ issueTokens(r) PROVE req' \in [Request -> ReqState]
            <3>1. [req[r] EXCEPT !.pc = "saving", !.counted = FALSE] \in ReqState
                  BY RequestFields DEF ReqState, PC
            <3>2. PICK q \in ReqState : Becomes(r, q)
                  BY <2>1, <3>1, LoginTyped, SaveTyped, RowsTyped
                     DEF ErrorDropped, issueTokens, IssueCount, IssueCreate, End
            <3> QED
                BY <3>2, BecomesTyped
      <2>2. ASSUME ~(ErrorDropped(r) \/ issueTokens(r)) PROVE req' \in [Request -> ReqState]
            <3>1. PICK pc \in PC : Goto(r, pc) \/ End(r)
                  BY <1>2, <2>2 DEF OAuthLink, RefreshToken, RefreshRevoke, RevokeAfter,
                                    Abandon, PC
            <3> QED
                BY <3>1, GotoTyped
      <2>7. req' \in [Request -> ReqState]
            BY <2>1, <2>2
      <2>3. sess' \in [Session -> SessState]
            <3>1. CASE IssueCreate(r)
                  <4>1. /\ req[r].copy.pw \in Nat /\ (~req[r].fresh) \in BOOLEAN
                        /\ req[r].counted \in BOOLEAN
                        BY RequestFields DEF Row
                  <4> QED
                      BY <3>1, <4>1 DEF IssueCreate, TypeOK, SessState
            <3>2. CASE RefreshRevoke(r)
                  <4> DEFINE s == req[r].sid
                             new == [sess[s] EXCEPT !.state = IF @ = "active" THEN "revoked"
                                                              ELSE @]
                  <4>1. sess' = [sess EXCEPT ![s] = new]
                        BY <3>2 DEF RefreshRevoke
                  <4>2. ASSUME s \in Session PROVE new \in SessState
                        <5>1. sess[s] \in SessState
                              BY <4>2 DEF TypeOK
                        <5> HIDE DEF s
                        <5> QED
                            BY <5>1 DEF SessState
                  <4> HIDE DEF s, new
                  <4> QED
                      BY <4>1, <4>2 DEF TypeOK
            <3>3. CASE RevokeAfter(r)
                  BY <3>3 DEF RevokeAfter, RevokeAll, TypeOK, SessState
            <3> QED
                BY <1>2, <3>1, <3>2, <3>3
                   DEF OAuthLink, issueTokens, IssueCount, RefreshToken, ErrorDropped, Abandon,
                       TypeOK
      <2>4. now' \in Nat /\ row' \in Row /\ wrong' \in Nat /\ accepted' \in [Code -> Nat]
            /\ decided' = decided /\ stale' = stale
            BY <1>2 DEF OAuthLink, issueTokens, IssueCount, IssueCreate, RefreshToken,
                        RefreshRevoke, RevokeAfter, ErrorDropped, Abandon, TypeOK, history
      <2>5. cut' \in BOOLEAN
            BY <1>2 DEF OAuthLink, issueTokens, IssueCount, IssueCreate, RefreshToken,
                        RefreshRevoke, RevokeAfter, ErrorDropped, Abandon, TypeOK, history
      <2>6. linked' \in BOOLEAN
            BY <1>2 DEF OAuthLink, issueTokens, IssueCount, IssueCreate, RefreshToken,
                        RefreshRevoke, RevokeAfter, ErrorDropped, Abandon, TypeOK
      <2> QED
          BY <2>3, <2>4, <2>5, <2>6, <2>7 DEF TypeOK, Typed
<1> QED
    BY <1>1, <1>2

\* Steps that write the row.
LEMMA WriteTyped ==
  ASSUME TypeOK, NEW r \in Request,
         \/ RegisterCreate(r) \/ OAuthCreate(r) \/ LoginWrong(r) \/ LoginLock(r)
         \/ LoginRight(r) \/ Save(r) \/ LockUser(r) \/ DeleteUser(r)
  PROVE  Typed'
<1>0. req[r] \in ReqState /\ req[r].copy \in Row
      BY RequestFields
<1>1. ASSUME NEW q \in ReqState, CreateRow(r, q) PROVE Typed'
      <2>1. CASE Exists
            <3>1. req' \in [Request -> ReqState]
                  BY <1>1, <2>1, GotoTyped DEF CreateRow, PC
            <3> QED
                BY <1>1, <2>1, <3>1 DEF CreateRow, TypeOK, Typed, history
      <2>2. CASE ~Exists
            <3>1. row' \in Row /\ Wrote(r, q) /\ decided' = Decision(row')
                  BY <1>0, <1>1, <2>2 DEF CreateRow
            <3>2. req' \in [Request -> ReqState]
                  BY <3>1, WroteTyped
            <3> QED
                BY <1>1, <2>2, <3>1, <3>2, DecisionTyped DEF CreateRow, TypeOK, Typed
      <2> QED
          BY <2>1, <2>2
<1>2. CASE RegisterCreate(r) \/ OAuthCreate(r)
      <2>1. [req[r] EXCEPT !.pc = "linking"] \in ReqState
            BY <1>0 DEF ReqState, PC
      <2> QED
          BY <1>1, <1>2, <2>1, RowsTyped DEF RegisterCreate, OAuthCreate
<1>3. CASE LoginWrong(r)
      <2>1. req' \in [Request -> ReqState]
            BY <1>3, LoginTyped, WroteTyped DEF LoginWrong
      <2>2. row' \in Row
            BY <1>3, ChangedRows DEF LoginWrong, TypeOK
      <2> QED
          BY <1>3, <2>1, <2>2 DEF LoginWrong, TypeOK, Typed
<1>4. CASE LoginLock(r)
      <2>1. req' \in [Request -> ReqState]
            BY <1>4, WroteTyped, RowsTyped DEF LoginLock
      <2>2. now + LockoutDuration \in Nat
            BY ConfigAssumption DEF TypeOK
      <2>3. row' \in Row
            BY <1>4, <2>2, ChangedRows DEF LoginLock, TypeOK
      <2> QED
          BY <1>4, <2>1, <2>3 DEF LoginLock, TypeOK, Typed
<1>5. CASE LoginRight(r)
      <2>1. req' \in [Request -> ReqState]
            BY <1>5, LoginTyped, WroteTyped DEF LoginRight
      <2>2. row' \in Row
            BY <1>5, ChangedRows DEF LoginRight, TypeOK
      <2> QED
          BY <1>5, <2>1, <2>2 DEF LoginRight, TypeOK, Typed
<1>6. CASE Save(r)
      <2>1. req' \in [Request -> ReqState]
            BY <1>6, WroteTyped, SaveTyped DEF Save
      <2>2. accepted' \in [Code -> Nat]
            BY <1>6 DEF Save, TypeOK
      <2>3. stale' \in BOOLEAN
            BY <1>6 DEF Save
      <2> QED
          BY <1>0, <1>6, <2>1, <2>2, <2>3, SaveTyped DEF Save, TypeOK, Typed
<1>7. CASE LockUser(r) \/ DeleteUser(r)
      <2>1. [Idle EXCEPT !.pc = "revoking"] \in ReqState
            BY RowsTyped DEF Idle, ReqState, PC
      <2>2. req' \in [Request -> ReqState]
            BY <1>7, <2>1, WroteTyped DEF LockUser, DeleteUser
      <2>3. row' \in Row
            <3>1. MaxTime + 1 \in Nat
                  BY BoundAssumption
            <3>2. [row EXCEPT !.lockedUntil = MaxTime + 1] \in Row
                  BY <3>1, ChangedRows DEF TypeOK
            <3>3. [row EXCEPT !.deleted = TRUE] \in Row
                  BY ChangedRows DEF TypeOK
            <3> QED
                BY <1>7, <3>2, <3>3 DEF LockUser, DeleteUser
      <2> QED
          BY <1>7, <2>2, <2>3 DEF LockUser, DeleteUser, TypeOK, Typed, history
<1> QED
    BY <1>2, <1>3, <1>4, <1>5, <1>6, <1>7

\* Every step keeps the types.
LEMMA TypeStep ==
  ASSUME TypeOK, [Next]_vars PROVE TypeOK'
<1>1. made' \in Nat
      BY DEF TypeOK, Next, Count, vars
<1>2. CASE Tick \/ LogoutAll \/ cleanSessions \/ \E s \in Session : Expire(s) \/ Logout(s)
      <2>1. sess' \in [Session -> SessState]
            <3>1. CASE Tick
                  BY <3>1 DEF Tick, TypeOK
            <3>2. CASE LogoutAll
                  BY <3>2 DEF LogoutAll, RevokeAll, TypeOK, SessState
            <3>3. CASE cleanSessions
                  <4>1. [Unused EXCEPT !.state = "deleted"] \in SessState
                        BY DEF Unused, SessState
                  <4> QED
                      BY <3>3, <4>1 DEF cleanSessions, CleanupExpired, TypeOK
            <3>4. ASSUME NEW s \in Session, Expire(s) \/ Logout(s)
                  PROVE  sess' \in [Session -> SessState]
                  <4>1. sess[s] \in SessState
                        BY DEF TypeOK
                  <4>2. /\ [sess[s] EXCEPT !.expired = TRUE] \in SessState
                        /\ [sess[s] EXCEPT !.state = "revoked"] \in SessState
                        BY <4>1 DEF SessState
                  <4>3. \/ sess' = [sess EXCEPT ![s] = [sess[s] EXCEPT !.expired = TRUE]]
                        \/ sess' = [sess EXCEPT ![s] = [sess[s] EXCEPT !.state = "revoked"]]
                        BY <3>4 DEF Expire, Logout, Revoke
                  <4> QED
                      BY <4>2, <4>3 DEF TypeOK
            <3> QED
                BY <1>2, <3>1, <3>2, <3>3, <3>4
      <2> QED
          BY <1>1, <1>2, <2>1, BoundAssumption
             DEF TypeOK, Tick, LogoutAll, cleanSessions, Expire, Logout, Revoke, history
<1>3. ASSUME Typed' PROVE TypeOK'
      BY <1>1, <1>3 DEF Typed, TypeOK
<1>4. CASE UNCHANGED vars
      BY <1>4 DEF vars, history, TypeOK
<1> QED
    BY <1>2, <1>3, <1>4, LoadTyped, MoveTyped, WriteTyped
       DEF Next, Register, OAuthLogin, Login, Admin

-----------------------------------------------------------------------------
(* Copies of the row.                                                      *)

\* MFA is on only with a secret.
HasSecret(u) == u.mfa => u.secret

\* Where a request has loaded a row that exists.
Loaded == {"linking", "checking", "locking", "issuing", "creating", "saving"}

\* What a Save of q decides, when d was decided before.
Decide(q, d) ==
  CASE q.op = "status" -> [d EXCEPT !.status = q.copy.status]
    [] q.op = "reset"  -> [d EXCEPT !.pw = q.copy.pw]
    [] q.op = "mfa"    -> [d EXCEPT !.mfa = q.copy.mfa]
    [] OTHER           -> d

\* The copy of q is row u, but for what q is about to decide or to spend.
Matches(q, u) ==
  /\ Decision(q.copy) = Decide(q, Decision(u))
  /\ q.op # "enable" => q.copy.codes \subseteq u.codes
  /\ q.op = "spend" => q.code \in u.codes /\ q.code \notin q.copy.codes

\* Request q is in order, with row u: its copy is, and if no other request has
\* written the row since it was loaded, it matches.
InOrder(q, u) ==
  /\ HasSecret(q.copy)
  /\ q.pc \in (Loaded \ {"saving"}) \union {"creating oauth"} => q.op = "login"
  /\ q.pc \in Loaded \union {"registering", "creating oauth"} => q.copy.status # None
  /\ q.pc \in Loaded => u.status # None
  /\ q.pc \in Loaded /\ q.fresh => Matches(q, u)

CopiesInOrder == HasSecret(row) /\ \A r \in Request : InOrder(req[r], row)

\* A request that is over is in order.
LEMMA IdleInOrder == \A u : InOrder(Idle, u) /\ InOrder([Idle EXCEPT !.pc = "revoking"], u)
BY DEF InOrder, Idle, NoRow, NewRow, HasSecret, Loaded

\* A step that changes request r alone, into one in order.
LEMMA OneChanges ==
  ASSUME TypeOK, CopiesInOrder, NEW r \in Request, NEW q, InOrder(q, row),
         req' = [req EXCEPT ![r] = q], row' = row
  PROVE  CopiesInOrder'
BY DEF TypeOK, CopiesInOrder

\* A write to the row makes the copies of the others old.
LEMMA OneWrites ==
  ASSUME TypeOK, CopiesInOrder, NEW r \in Request, NEW q, InOrder(q, row'), Wrote(r, q),
         HasSecret(row'), row'.status # None
  PROVE  CopiesInOrder'
<1> SUFFICES ASSUME NEW x \in Request, x # r PROVE InOrder(req'[x], row')
    BY DEF CopiesInOrder, Wrote
<1>1. req'[x] = [req[x] EXCEPT !.fresh = @ /\ req[x].pc = "idle"]
      BY DEF Wrote
<1>2. req[x] \in ReqState /\ InOrder(req[x], row)
      BY DEF TypeOK, CopiesInOrder
<1>3. /\ req'[x].pc = req[x].pc /\ req'[x].op = req[x].op /\ req'[x].copy = req[x].copy
      /\ req'[x].fresh => req[x].pc = "idle"
      BY <1>1, <1>2 DEF ReqState
<1> QED
    BY <1>2, <1>3 DEF InOrder, Loaded

\* A request that loads the row takes a copy that matches.
LEMMA LoadInOrder ==
  ASSUME TypeOK, CopiesInOrder, NEW r \in Request,
         \/ RegisterCheck(r) \/ OAuthFind(r) \/ LoginLoad(r)
         \/ EnableMFA(r) \/ ConfirmMFA(r) \/ DisableMFA(r) \/ ResetPassword(r)
         \/ UpdateUserStatus(r) \/ UnlockUser(r)
  PROVE  CopiesInOrder'
<1>0. row \in Row /\ HasSecret(row)
      BY DEF TypeOK, CopiesInOrder
<1>1. row' = row
      BY DEF RegisterCheck, OAuthFind, LoginLoad, EnableMFA, ConfirmMFA, DisableMFA,
             ResetPassword, UpdateUserStatus, UnlockUser, LoadToSave
<1>2. ASSUME NEW pc \in {"registering", "creating oauth"}, NEW op,
             pc = "creating oauth" => op = "login",
             NEW st \in {"pending", "active"}, NEW pw \in Nat,
             Start(r, pc, op, NewRow(st, pw))
      PROVE  CopiesInOrder'
      <2> DEFINE q == [Idle EXCEPT !.pc = pc, !.op = op, !.copy = NewRow(st, pw)]
      <2>1. InOrder(q, row)
            BY <1>2, NoneAssumption DEF InOrder, Idle, NewRow, HasSecret, Loaded
      <2> QED
          BY <1>1, <1>2, <2>1, OneChanges DEF Start
<1>3. ASSUME NEW pc \in {"checking", "issuing", "saving"}, NEW op \in Op, NEW copy \in Row,
             pc # "saving" => op = "login", op # "spend",
             Start(r, pc, op, copy), GetUser,
             HasSecret(copy), copy.status # None,
             copy.deleted = row.deleted,
             op # "status" => copy.status = row.status,
             op # "reset" => copy.pw = row.pw,
             op # "mfa" => copy.mfa = row.mfa,
             op # "enable" => copy.codes \subseteq row.codes
      PROVE  CopiesInOrder'
      <2> DEFINE q == [Idle EXCEPT !.pc = pc, !.op = op, !.copy = copy]
      <2>1. q.pc = pc /\ q.op = op /\ q.copy = copy
            BY DEF Idle
      <2> HIDE DEF q
      <2>2. Decision(copy) = Decide(q, Decision(row))
            BY <1>0, <1>3, <2>1 DEF Decision, Decide, Row
      <2>3. InOrder(q, row)
            BY <1>3, <2>1, <2>2 DEF InOrder, Matches, GetUser, Exists
      <2> QED
          BY <1>1, <1>3, <2>3, OneChanges DEF Start, q
<1> USE DEF LoadToSave, Op
<1>4. CASE RegisterCheck(r)
      BY <1>2, <1>4 DEF RegisterCheck
<1>5. CASE OAuthFind(r)
      BY <1>0, <1>2, <1>3, <1>5 DEF OAuthFind, GetUser, Exists
<1>6. CASE LoginLoad(r)
      BY <1>0, <1>3, <1>6 DEF LoginLoad, GetUser, Exists
<1>7. CASE EnableMFA(r)
      <2>1. WithSecret(row) \in Row
            BY <1>0, ChangedRows
      <2>2. /\ HasSecret(WithSecret(row)) /\ WithSecret(row).deleted = row.deleted
            /\ WithSecret(row).status = row.status /\ WithSecret(row).pw = row.pw
            /\ WithSecret(row).mfa = row.mfa
            BY <1>0 DEF WithSecret, HasSecret, Row
      <2> QED
          BY <1>0, <1>3, <1>7, <2>1, <2>2 DEF EnableMFA, GetUser, Exists
<1>8. CASE ConfirmMFA(r)
      <2>1. WithMFA(row) \in Row
            BY <1>0, ChangedRows
      <2>2. /\ row.secret => HasSecret(WithMFA(row))
            /\ WithMFA(row).deleted = row.deleted /\ WithMFA(row).codes = row.codes
            /\ WithMFA(row).status = row.status /\ WithMFA(row).pw = row.pw
            BY <1>0 DEF WithMFA, HasSecret, Row
      <2> QED
          BY <1>0, <1>3, <1>8, <2>1, <2>2 DEF ConfirmMFA, GetUser, Exists
<1>9. CASE DisableMFA(r)
      <2>1. WithoutMFA(row) \in Row
            BY <1>0, ChangedRows
      <2>2. /\ HasSecret(WithoutMFA(row))
            /\ WithoutMFA(row).deleted = row.deleted /\ WithoutMFA(row).codes = {}
            /\ WithoutMFA(row).status = row.status /\ WithoutMFA(row).pw = row.pw
            BY <1>0 DEF WithoutMFA, HasSecret, Row
      <2> QED
          BY <1>0, <1>3, <1>9, <2>1, <2>2 DEF DisableMFA, GetUser, Exists
<1>10. CASE ResetPassword(r)
      <2>1. PICK v \in 2..MaxResets + 1 : LoadToSave(r, "reset", WithPassword(row, v))
            BY <1>10 DEF ResetPassword
      <2>2. WithPassword(row, v) \in Row
            BY <1>0, ChangedRows, Versions
      <2>3. /\ HasSecret(WithPassword(row, v))
            /\ WithPassword(row, v).deleted = row.deleted
            /\ WithPassword(row, v).codes = row.codes
            /\ WithPassword(row, v).status = row.status
            /\ WithPassword(row, v).mfa = row.mfa
            BY <1>0 DEF WithPassword, HasSecret, Row
      <2> QED
          BY <1>0, <1>3, <2>1, <2>2, <2>3 DEF GetUser, Exists
<1>11. CASE UpdateUserStatus(r)
      <2>1. PICK st \in AdminStatus : LoadToSave(r, "status", [row EXCEPT !.status = st])
            BY <1>11 DEF UpdateUserStatus
      <2> DEFINE u == [row EXCEPT !.status = st]
      <2>2. u \in Row
            BY <1>0, ChangedRows
      <2>3. /\ HasSecret(u) /\ u.deleted = row.deleted /\ u.codes = row.codes
            /\ u.status = st /\ u.pw = row.pw /\ u.mfa = row.mfa
            BY <1>0 DEF HasSecret, Row
      <2>4. st # None
            BY NoneAssumption
      <2> QED
          BY <1>0, <1>3, <2>1, <2>2, <2>3, <2>4 DEF GetUser, Exists
<1>12. CASE UnlockUser(r)
      <2> DEFINE u == [row EXCEPT !.lockedUntil = None, !.failed = 0]
      <2>1. u \in Row
            BY <1>0, ChangedRows
      <2>2. /\ HasSecret(u) /\ u.deleted = row.deleted /\ u.codes = row.codes
            /\ u.status = row.status /\ u.pw = row.pw /\ u.mfa = row.mfa
            BY <1>0 DEF HasSecret, Row
      <2> QED
          BY <1>0, <1>3, <1>12, <2>1, <2>2 DEF UnlockUser, GetUser, Exists
<1> QED
    BY <1>4, <1>5, <1>6, <1>7, <1>8, <1>9, <1>10, <1>11, <1>12

\* A login that goes on with its copy is in order, also with a row u in which
\* only the count or the lock has changed.
LEMMA GoesOn ==
  ASSUME TypeOK, CopiesInOrder, NEW r \in Request, req[r].pc \in Loaded \ {"saving"},
         NEW u, Decision(u) = Decision(row), u.codes = row.codes,
         NEW q, q.pc \in Loaded, q.op = req[r].op, q.copy = req[r].copy,
         q.fresh = req[r].fresh, q.code = req[r].code
  PROVE  InOrder(q, u)
<1>1. InOrder(req[r], row)
      BY DEF CopiesInOrder
<1>2. u.status = row.status
      BY DEF Decision
<1>3. Matches(req[r], row) => Matches(q, u)
      BY DEF Matches, Decide
<1> QED
    BY <1>1, <1>2, <1>3 DEF InOrder, Loaded

\* So is what a login becomes after a wrong password ...
LEMMA WrongInOrder ==
  ASSUME TypeOK, CopiesInOrder, NEW r \in Request, At(r, "checking"),
         NEW u, Decision(u) = Decision(row), u.codes = row.codes
  PROVE  InOrder(AfterWrong(r), u)
<1> DEFINE q == [req[r] EXCEPT !.pc = "locking"]
<1>1. /\ q.pc = "locking" /\ q.op = req[r].op /\ q.copy = req[r].copy
      /\ q.fresh = req[r].fresh /\ q.code = req[r].code
      BY RequestFields DEF ReqState
<1>2. AfterWrong(r) = q \/ AfterWrong(r) = Idle
      BY DEF AfterWrong
<1> HIDE DEF q
<1>3. InOrder(q, u)
      BY <1>1, GoesOn DEF At, Loaded
<1> QED
    BY <1>2, <1>3, IdleInOrder

\* ... and past the gate, with a code spent or not.
LEMMA GateInOrder ==
  ASSUME TypeOK, CopiesInOrder, NEW r \in Request, At(r, "checking"),
         NEW u, Decision(u) = Decision(row), u.codes = row.codes, NEW q \in MFAGate(r)
  PROVE  InOrder(q, u)
<1>0. /\ req[r] \in ReqState /\ req[r].copy \in Row /\ InOrder(req[r], row)
      /\ u.status = row.status
      BY RequestFields DEF CopiesInOrder, Decision
<1>1. CASE q = Idle
      BY <1>1, IdleInOrder
<1>2. CASE q = [req[r] EXCEPT !.pc = "issuing"]
      <2>1. /\ q.pc = "issuing" /\ q.op = req[r].op /\ q.copy = req[r].copy
            /\ q.fresh = req[r].fresh /\ q.code = req[r].code
            BY <1>0, <1>2 DEF ReqState
      <2> QED
          BY <2>1, GoesOn DEF At, Loaded
<1>3. ASSUME NEW c \in req[r].copy.codes,
             q = [req[r] EXCEPT !.pc = "saving", !.op = "spend",
                                !.copy.codes = Spent(@, c), !.code = c]
      PROVE  InOrder(q, u)
      <2> DEFINE v == [req[r].copy EXCEPT !.codes = Spent(@, c)]
      <2>1. /\ Decision(v) = Decision(req[r].copy) /\ v.codes = req[r].copy.codes \ {c}
            /\ v.status = req[r].copy.status /\ (HasSecret(req[r].copy) => HasSecret(v))
            BY <1>0 DEF Decision, Spent, Row, HasSecret
      <2>2. q = [req[r] EXCEPT !.pc = "saving", !.op = "spend", !.copy = v, !.code = c]
            BY <1>3
      <2> HIDE DEF v
      <2>3. /\ q.pc = "saving" /\ q.op = "spend" /\ q.copy = v /\ q.code = c
            /\ q.fresh = req[r].fresh
            BY <1>0, <2>2 DEF ReqState
      <2>4. /\ req[r].pc \in Loaded \ {"saving"} /\ req[r].op = "login"
            /\ req[r].copy.status # None /\ row.status # None
            BY <1>0 DEF At, InOrder, Loaded
      <2>5. Matches(req[r], row) => Matches(q, u)
            BY <1>3, <2>1, <2>3, <2>4 DEF Matches, Decide
      <2> QED
          BY <1>0, <2>1, <2>3, <2>4, <2>5 DEF InOrder, Loaded
<1> QED
    BY <1>1, <1>2, <1>3 DEF MFAGate

\* A request that goes on keeps its copy, and one that ends has none.
LEMMA MoveInOrder ==
  ASSUME TypeOK, CopiesInOrder, NEW r \in Request,
         \/ OAuthLink(r) \/ issueTokens(r) \/ RefreshToken(r) \/ RevokeAfter(r)
         \/ ErrorDropped(r) \/ Abandon(r)
  PROVE  CopiesInOrder'
<1>0. row' = row /\ req[r] \in ReqState
      BY RequestFields
         DEF OAuthLink, issueTokens, IssueCount, IssueCreate, RefreshToken, RefreshLoad,
             RefreshRevoke, RevokeAfter, ErrorDropped, Abandon
<1>1. ASSUME NEW q, Becomes(r, q), InOrder(q, row) PROVE CopiesInOrder'
      BY <1>0, <1>1, OneChanges DEF Becomes
<1>2. CASE End(r)
      BY <1>1, <1>2, IdleInOrder DEF End
<1>3. CASE OAuthLink(r)
      <2> DEFINE q == [req[r] EXCEPT !.pc = "issuing"]
      <2>1. /\ q.pc = "issuing" /\ q.op = req[r].op /\ q.copy = req[r].copy
            /\ q.fresh = req[r].fresh /\ q.code = req[r].code
            BY <1>0 DEF ReqState
      <2>2. End(r) \/ Becomes(r, q)
            BY <1>3 DEF OAuthLink, Goto, Becomes
      <2> HIDE DEF q
      <2>3. InOrder(q, row)
            BY <1>3, <2>1, GoesOn DEF OAuthLink, At, Loaded
      <2> QED
          BY <1>1, <1>2, <2>2, <2>3
<1>4. ASSUME NEW b \in BOOLEAN, At(r, "issuing"), Becomes(r, ToCreate(r, b))
      PROVE  CopiesInOrder'
      <2> DEFINE q == ToCreate(r, b)
      <2>1. /\ q.pc = "creating" /\ q.op = req[r].op /\ q.copy = req[r].copy
            /\ q.fresh = req[r].fresh /\ q.code = req[r].code
            BY <1>0 DEF ReqState, ToCreate
      <2> HIDE DEF q
      <2>2. InOrder(q, row)
            BY <1>4, <2>1, GoesOn DEF At, Loaded
      <2> QED
          BY <1>1, <1>4, <2>2 DEF q
<1>5. CASE IssueCreate(r)
      <2> DEFINE q == [req[r] EXCEPT !.pc = "saving", !.counted = FALSE]
      <2>1. /\ q.pc = "saving" /\ q.op = req[r].op /\ q.copy = req[r].copy
            /\ q.fresh = req[r].fresh /\ q.code = req[r].code
            BY <1>0 DEF ReqState
      <2>2. Becomes(r, q)
            BY <1>5 DEF IssueCreate
      <2> HIDE DEF q
      <2>3. InOrder(q, row)
            BY <1>5, <2>1, GoesOn DEF IssueCreate, At, Loaded
      <2> QED
          BY <1>1, <2>2, <2>3
<1>6. ASSUME NEW s \in Session, RefreshLoad(r, s) PROVE CopiesInOrder'
      <2> DEFINE q == [Idle EXCEPT !.pc = "expiring", !.sid = s]
      <2>1. InOrder(q, row)
            BY DEF InOrder, Idle, NoRow, NewRow, HasSecret, Loaded
      <2> QED
          BY <1>0, <1>6, <2>1, OneChanges DEF RefreshLoad
<1>7. CASE ErrorDropped(r)
      <2>1. ASSUME At(r, "saving"), req[r].op = "spend" PROVE InOrder(AfterSave(r), row)
            <3> DEFINE q == AfterSave(r)
            <3>1. /\ q.pc = "issuing" /\ q.op = "login" /\ q.copy = req[r].copy
                  /\ q.fresh = req[r].fresh
                  BY <1>0, <2>1 DEF AfterSave, ReqState
            <3>2. InOrder(req[r], row)
                  BY DEF CopiesInOrder
            <3> HIDE DEF q
            <3>3. Matches(req[r], row) => Matches(q, row)
                  BY <2>1, <3>1 DEF Matches, Decide
            <3> QED
                BY <2>1, <3>1, <3>2, <3>3 DEF InOrder, Loaded, At, q
      <2>2. ASSUME At(r, "checking")
            PROVE  InOrder(AfterWrong(r), row) /\ \A q \in MFAGate(r) : InOrder(q, row)
            BY <2>2, WrongInOrder, GateInOrder
      <2> QED
          BY <1>1, <1>2, <1>4, <1>7, <2>1, <2>2 DEF ErrorDropped
<1> QED
    BY <1>2, <1>3, <1>4, <1>5, <1>6, <1>7
       DEF issueTokens, IssueCount, RefreshToken, RefreshRevoke, RevokeAfter, Abandon

\* A request that writes the row leaves its own copy in order.
LEMMA WriteInOrder ==
  ASSUME TypeOK, CopiesInOrder, NEW r \in Request,
         \/ RegisterCreate(r) \/ OAuthCreate(r) \/ LoginWrong(r) \/ LoginLock(r)
         \/ LoginRight(r) \/ Save(r) \/ LockUser(r) \/ DeleteUser(r)
  PROVE  CopiesInOrder'
<1>0. row \in Row /\ req[r] \in ReqState /\ req[r].copy \in Row /\ HasSecret(row)
      /\ InOrder(req[r], row)
      BY RequestFields DEF TypeOK, CopiesInOrder
<1>1. CASE RegisterCreate(r)
      <2>1. CASE Exists
            BY <1>1, <2>1, IdleInOrder, OneChanges
               DEF RegisterCreate, CreateRow, End, Becomes
      <2>2. CASE ~Exists
            BY <1>0, <1>1, <2>2, IdleInOrder, OneWrites
               DEF RegisterCreate, CreateRow, At, InOrder
      <2> QED
          BY <2>1, <2>2
<1>2. CASE OAuthCreate(r)
      <2>1. CASE Exists
            BY <1>2, <2>1, IdleInOrder, OneChanges
               DEF OAuthCreate, CreateRow, End, Becomes
      <2>2. CASE ~Exists
            <3> DEFINE q == [req[r] EXCEPT !.pc = "linking"]
            <3>1. /\ q.pc = "linking" /\ q.op = req[r].op /\ q.copy = req[r].copy
                  /\ q.code = req[r].code
                  BY <1>0 DEF ReqState
            <3>2. /\ req[r].op = "login" /\ HasSecret(req[r].copy)
                  /\ req[r].copy.status # None
                  BY <1>0, <1>2 DEF OAuthCreate, At, InOrder
            <3>3. row' = req[r].copy /\ Wrote(r, q)
                  BY <1>2, <2>2 DEF OAuthCreate, CreateRow
            <3> HIDE DEF q
            <3>4. InOrder(q, row')
                  BY <3>1, <3>2, <3>3 DEF InOrder, Matches, Decide, Loaded
            <3> QED
                BY <3>2, <3>3, <3>4, OneWrites
      <2> QED
          BY <2>1, <2>2
<1>3. ASSUME NEW q, Wrote(r, q), InOrder(q, row'), req[r].pc = "checking",
             Decision(row') = Decision(row), row'.secret = row.secret
      PROVE  CopiesInOrder'
      <2>1. row'.status = row.status /\ row'.mfa = row.mfa
            BY <1>3 DEF Decision
      <2>2. row.status # None
            BY <1>0, <1>3 DEF InOrder, Loaded
      <2> QED
          BY <1>0, <1>3, <2>1, <2>2, OneWrites DEF HasSecret
<1>4. ASSUME Wrote(r, Idle) \/ Wrote(r, [Idle EXCEPT !.pc = "revoking"]),
             HasSecret(row'), row'.status # None
      PROVE  CopiesInOrder'
      BY <1>4, IdleInOrder, OneWrites
<1>5. CASE LoginWrong(r)
      <2>1. /\ Decision(row') = Decision(row) /\ row'.codes = row.codes
            /\ row'.secret = row.secret
            BY <1>0, <1>5 DEF LoginWrong, Decision, Row
      <2>2. InOrder(AfterWrong(r), row')
            BY <1>5, <2>1, WrongInOrder DEF LoginWrong
      <2> QED
          BY <1>3, <1>5, <2>1, <2>2 DEF LoginWrong, At
<1>6. CASE LoginLock(r)
      <2>1. row'.mfa = row.mfa /\ row'.status = row.status /\ row'.secret = row.secret
            BY <1>0, <1>6 DEF LoginLock, Row
      <2>2. row.status # None
            BY <1>0, <1>6 DEF LoginLock, At, InOrder, Loaded
      <2> QED
          BY <1>0, <1>4, <1>6, <2>1, <2>2 DEF LoginLock, HasSecret
<1>7. CASE LoginRight(r)
      <2>1. /\ Decision(row') = Decision(row) /\ row'.codes = row.codes
            /\ row'.secret = row.secret
            BY <1>0, <1>7 DEF LoginRight, Decision, Row
      <2>2. PICK q \in MFAGate(r) : Wrote(r, q)
            BY <1>7 DEF LoginRight
      <2>3. InOrder(q, row')
            BY <1>7, <2>1, GateInOrder DEF LoginRight
      <2> QED
          BY <1>3, <1>7, <2>1, <2>2, <2>3 DEF LoginRight, At
<1>8. CASE Save(r)
      <2>1. row' = req[r].copy /\ HasSecret(row') /\ row'.status # None
            BY <1>0, <1>8 DEF Save, At, InOrder, Loaded
      <2>2. CASE req[r].op = "spend"
            <3> DEFINE q == [req[r] EXCEPT !.pc = "issuing", !.op = "login"]
            <3>1. q.pc = "issuing" /\ q.op = "login" /\ q.copy = req[r].copy
                  BY <1>0 DEF ReqState
            <3>2. Wrote(r, q)
                  BY <1>8, <2>2 DEF Save, AfterSave
            <3> HIDE DEF q
            <3>3. InOrder(q, row')
                  BY <2>1, <3>1 DEF InOrder, Matches, Decide, Loaded
            <3> QED
                BY <2>1, <3>2, <3>3, OneWrites
      <2>3. CASE req[r].op = "reset"
            <3> DEFINE q == [req[r] EXCEPT !.pc = "revoking"]
            <3>1. q.pc = "revoking" /\ q.copy = req[r].copy
                  BY <1>0 DEF ReqState
            <3>2. Wrote(r, q)
                  BY <1>8, <2>3 DEF Save, AfterSave
            <3> HIDE DEF q
            <3>3. InOrder(q, row')
                  BY <2>1, <3>1 DEF InOrder, Loaded
            <3> QED
                BY <2>1, <3>2, <3>3, OneWrites
      <2>4. CASE req[r].op \notin {"spend", "reset"}
            BY <1>4, <1>8, <2>1, <2>4 DEF Save, AfterSave
      <2> QED
          BY <2>2, <2>3, <2>4
<1>9. CASE LockUser(r) \/ DeleteUser(r)
      <2>1. row'.mfa = row.mfa /\ row'.status = row.status /\ row'.secret = row.secret
            BY <1>0, <1>9 DEF LockUser, DeleteUser, Row
      <2>2. row.status # None
            BY <1>9 DEF LockUser, DeleteUser, Exists
      <2> QED
          BY <1>0, <1>4, <1>9, <2>1, <2>2 DEF LockUser, DeleteUser, HasSecret
<1> QED
    BY <1>1, <1>2, <1>5, <1>6, <1>7, <1>8, <1>9

-----------------------------------------------------------------------------
(* One request at a time.                                                  *)

Loads(r) ==
  \/ RegisterCheck(r) \/ OAuthFind(r) \/ LoginLoad(r)
  \/ EnableMFA(r) \/ ConfirmMFA(r) \/ DisableMFA(r) \/ ResetPassword(r)
  \/ UpdateUserStatus(r) \/ UnlockUser(r)

Moves(r) ==
  \/ OAuthLink(r) \/ issueTokens(r) \/ RefreshToken(r) \/ RevokeAfter(r)
  \/ ErrorDropped(r) \/ Abandon(r)

Writes(r) ==
  \/ RegisterCreate(r) \/ OAuthCreate(r) \/ LoginWrong(r) \/ LoginLock(r)
  \/ LoginRight(r) \/ Save(r) \/ LockUser(r) \/ DeleteUser(r)

Quiet == Tick \/ LogoutAll \/ cleanSessions \/ \E s \in Session : Expire(s) \/ Logout(s)

\* The steps of the specification.
LEMMA Steps ==
  ASSUME [Next]_vars
  PROVE  Quiet \/ UNCHANGED vars \/ \E r \in Request : Loads(r) \/ Moves(r) \/ Writes(r)
BY DEF Next, Quiet, Loads, Moves, Writes, Register, OAuthLogin, Login, Admin

\* Every step keeps the copies in order.
LEMMA CopiesStep ==
  ASSUME TypeOK, CopiesInOrder, [Next]_vars PROVE CopiesInOrder'
<1>1. CASE Quiet \/ UNCHANGED vars
      <2>1. row' = row /\ req' = req
            BY <1>1 DEF Quiet, Tick, LogoutAll, cleanSessions, Expire, Logout, Revoke, vars
      <2> QED
          BY <2>1 DEF CopiesInOrder
<1>2. ASSUME NEW r \in Request, Loads(r) PROVE CopiesInOrder'
      BY <1>2, LoadInOrder DEF Loads
<1>3. ASSUME NEW r \in Request, Moves(r) PROVE CopiesInOrder'
      BY <1>3, MoveInOrder DEF Moves
<1>4. ASSUME NEW r \in Request, Writes(r) PROVE CopiesInOrder'
      BY <1>4, WriteInOrder DEF Writes
<1> QED
    BY <1>1, <1>2, <1>3, <1>4, Steps

\* What a request loads, it loads for itself.
LEMMA LoadOwn ==
  ASSUME TypeOK, NEW r \in Request, Loads(r)
  PROVE  /\ \A x \in Request : x # r => req'[x] = req[x]
         /\ At(r, "idle") /\ UNCHANGED <<now, row, linked, sess, history>>
         /\ req'[r].pc \in {"registering", "creating oauth", "checking", "issuing", "saving"}
         /\ req'[r].pc = "checking" => LoginLoad(r) /\ req'[r].copy = row
<1>1. \A pc, op, copy : Start(r, pc, op, copy) =>
        /\ \A x \in Request : x # r => req'[x] = req[x]
        /\ At(r, "idle") /\ req'[r].pc = pc /\ req'[r].copy = copy
      BY DEF TypeOK, Start, Idle
<1>2. UNCHANGED <<now, row, linked, sess, history>>
      BY DEF Loads, RegisterCheck, OAuthFind, LoginLoad, EnableMFA, ConfirmMFA, DisableMFA,
             ResetPassword, UpdateUserStatus, UnlockUser, LoadToSave
<1>3. CASE LoginLoad(r)
      BY <1>1, <1>2, <1>3 DEF LoginLoad
<1>4. ASSUME ~LoginLoad(r)
      PROVE  \E pc \in {"registering", "creating oauth", "issuing", "saving"} :
               \E op, copy : Start(r, pc, op, copy)
      BY <1>4 DEF Loads, RegisterCheck, OAuthFind, EnableMFA, ConfirmMFA, DisableMFA,
                  ResetPassword, UpdateUserStatus, UnlockUser, LoadToSave
<1>5. CASE ~LoginLoad(r)
      <2>1. PICK pc \in {"registering", "creating oauth", "issuing", "saving"} :
               \E op, copy : Start(r, pc, op, copy)
            BY <1>4, <1>5
      <2> QED
          BY <1>1, <1>2, <2>1
<1> QED
    BY <1>3, <1>5

\* What a login becomes, by its program counter.
LEMMA LoginGoes ==
  ASSUME TypeOK, NEW r \in Request
  PROVE  /\ AfterWrong(r).pc \in {"locking", "idle"}
         /\ \A q \in MFAGate(r) : q.pc \in {"idle", "saving", "issuing"}
         /\ \A b : ToCreate(r, b).pc = "creating" /\ ToCreate(r, b).counted = b
         /\ AfterSave(r).pc \in {"issuing", "revoking", "idle"}
         /\ req[r].op = "spend" => AfterSave(r).pc = "issuing"
<1>0. req[r] \in ReqState
      BY RequestFields
<1>1. AfterWrong(r).pc \in {"locking", "idle"}
      BY <1>0 DEF AfterWrong, ReqState, Idle
<1>2. /\ [req[r] EXCEPT !.pc = "issuing"].pc = "issuing" /\ Idle.pc = "idle"
      /\ \A c : [req[r] EXCEPT !.pc = "saving", !.op = "spend",
                               !.copy.codes = Spent(@, c), !.code = c].pc = "saving"
      BY <1>0 DEF ReqState, Idle
<1>3. \A q \in MFAGate(r) : q.pc \in {"idle", "saving", "issuing"}
      BY <1>2 DEF MFAGate
<1>4. \A b : ToCreate(r, b).pc = "creating" /\ ToCreate(r, b).counted = b
      BY <1>0 DEF ToCreate, ReqState
<1>5. /\ AfterSave(r).pc \in {"issuing", "revoking", "idle"}
      /\ req[r].op = "spend" => AfterSave(r).pc = "issuing"
      BY <1>0 DEF AfterSave, ReqState, Idle
<1> QED
    BY <1>1, <1>3, <1>4, <1>5

\* A request that goes on goes on alone.
LEMMA MoveOwn ==
  ASSUME TypeOK, NEW r \in Request, Moves(r)
  PROVE  /\ \A x \in Request : x # r => req'[x] = req[x]
         /\ row' = row /\ UNCHANGED <<decided, stale, wrong, accepted>>
         /\ req'[r].pc \notin {"checking", "revoking"}
         /\ req'[r].pc = "creating" /\ req'[r].counted => IssueCount(r)
         /\ req[r].pc = "revoking" => RevokeAfter(r) \/ Abandon(r)
<1>0. ASSUME NEW q, Becomes(r, q)
      PROVE  (\A x \in Request : x # r => req'[x] = req[x]) /\ req'[r] = q
      BY <1>0 DEF TypeOK, Becomes
<1>1. CASE \E s \in Session : RefreshLoad(r, s)
      BY <1>1 DEF TypeOK, RefreshLoad, Idle, history, At
<1>2. CASE OAuthLink(r)
      BY <1>2 DEF TypeOK, ReqState, OAuthLink, Goto, End, Becomes, Idle, history, At
<1>3. CASE IssueCount(r)
      <2>1. \E q : Becomes(r, q) /\ q.pc \in {"idle", "creating"}
            <3>1. ToCreate(r, TRUE).pc = "creating" /\ Idle.pc = "idle"
                  BY LoginGoes DEF Idle
            <3>2. Becomes(r, ToCreate(r, TRUE)) \/ Becomes(r, Idle)
                  BY <1>3 DEF IssueCount, End
            <3> QED
                BY <3>1, <3>2
      <2> QED
          BY <1>0, <1>3, <2>1 DEF IssueCount, history, At
<1>4. CASE IssueCreate(r)
      <2>1. [req[r] EXCEPT !.pc = "saving", !.counted = FALSE].pc = "saving"
            BY RequestFields DEF ReqState
      <2> QED
          BY <1>0, <1>4, <2>1 DEF IssueCreate, history, At
<1>5. CASE RefreshRevoke(r)
      BY <1>5 DEF TypeOK, RefreshRevoke, End, Becomes, Idle, history, At
<1>6. CASE RevokeAfter(r)
      BY <1>6 DEF TypeOK, RevokeAfter, End, Becomes, Idle, history, At
<1>7. CASE Abandon(r)
      BY <1>7 DEF TypeOK, Abandon, End, Becomes, Idle, history
<1>8. CASE ErrorDropped(r)
      <2>1. \E q : /\ Becomes(r, q)
                   /\ \/ q.pc \in {"locking", "idle", "saving", "issuing"}
                      \/ q.pc = "creating" /\ q.counted = FALSE
            <3>1. Idle.pc = "idle"
                  BY DEF Idle
            <3>2. ToCreate(r, FALSE).pc = "creating" /\ ToCreate(r, FALSE).counted = FALSE
                  BY LoginGoes
            <3>3. \/ Becomes(r, AfterWrong(r)) \/ Becomes(r, Idle)
                  \/ \E q \in MFAGate(r) : Becomes(r, q)
                  \/ req[r].op = "spend" /\ Becomes(r, AfterSave(r))
                  \/ Becomes(r, ToCreate(r, FALSE))
                  BY <1>8 DEF ErrorDropped, End
            <3>4. CASE \E q \in MFAGate(r) : Becomes(r, q)
                  BY <3>4, LoginGoes
            <3>5. CASE req[r].op = "spend" /\ Becomes(r, AfterSave(r))
                  BY <3>5, LoginGoes
            <3>6. CASE Becomes(r, AfterWrong(r))
                  BY <3>6, LoginGoes
            <3> QED
                BY <3>1, <3>2, <3>3, <3>4, <3>5, <3>6
      <2>2. row' = row /\ UNCHANGED <<decided, stale, wrong, accepted>> /\ ~At(r, "revoking")
            BY <1>8 DEF ErrorDropped, history, At
      <2> QED
          BY <1>0, <2>1, <2>2 DEF At
<1> QED
    BY <1>1, <1>2, <1>3, <1>4, <1>5, <1>6, <1>7, <1>8 DEF Moves, issueTokens, RefreshToken

\* A write leaves the others where they are.
LEMMA WriteOwn ==
  ASSUME TypeOK, NEW r \in Request, Writes(r)
  PROVE  /\ \A x \in Request : x # r => /\ req'[x].pc = req[x].pc /\ req'[x].op = req[x].op
                                        /\ req'[x].copy = req[x].copy
                                        /\ req'[x].counted = req[x].counted
         /\ req'[r].pc \notin {"checking", "creating"}
         /\ req[r].pc # "revoking"
         /\ UNCHANGED <<now, sess, cut>>
<1>0. req[r] \in ReqState
      BY RequestFields
<1>1. ASSUME NEW q, Wrote(r, q), q.pc \notin {"checking", "creating"}
      PROVE  /\ \A x \in Request : x # r => /\ req'[x].pc = req[x].pc /\ req'[x].op = req[x].op
                                            /\ req'[x].copy = req[x].copy
                                            /\ req'[x].counted = req[x].counted
             /\ req'[r].pc \notin {"checking", "creating"}
      BY <1>1 DEF TypeOK, ReqState, Wrote
<1>2. ASSUME End(r)
      PROVE  /\ \A x \in Request : x # r => /\ req'[x].pc = req[x].pc /\ req'[x].op = req[x].op
                                            /\ req'[x].copy = req[x].copy
                                            /\ req'[x].counted = req[x].counted
             /\ req'[r].pc \notin {"checking", "creating"}
      BY <1>2 DEF TypeOK, End, Becomes, Idle
<1>3. \E q : (Wrote(r, q) /\ q.pc \notin {"checking", "creating"}) \/ End(r)
      <2>1. [req[r] EXCEPT !.pc = "linking"].pc = "linking"
            BY <1>0 DEF ReqState
      <2>2. Idle.pc = "idle" /\ [Idle EXCEPT !.pc = "revoking"].pc = "revoking"
            BY DEF Idle
      <2>3. CASE RegisterCreate(r) \/ OAuthCreate(r)
            BY <2>1, <2>2, <2>3 DEF RegisterCreate, OAuthCreate, CreateRow
      <2>4. CASE LoginWrong(r) \/ LoginLock(r)
            BY <2>2, <2>4, LoginGoes DEF LoginWrong, LoginLock
      <2>5. CASE LoginRight(r)
            BY <2>5, LoginGoes DEF LoginRight
      <2>6. CASE Save(r)
            BY <2>6, LoginGoes DEF Save
      <2>7. CASE LockUser(r) \/ DeleteUser(r)
            BY <2>2, <2>7 DEF LockUser, DeleteUser
      <2> QED
          BY <2>3, <2>4, <2>5, <2>6, <2>7 DEF Writes
<1>4. req[r].pc # "revoking" /\ UNCHANGED <<now, sess, cut>>
      BY DEF Writes, RegisterCreate, OAuthCreate, CreateRow, LoginWrong, LoginLock, LoginRight,
             Save, LockUser, DeleteUser, At, history
<1>5. CASE End(r)
      BY <1>2, <1>4, <1>5
<1>6. CASE ~End(r)
      <2>1. PICK q : Wrote(r, q) /\ q.pc \notin {"checking", "creating"}
            BY <1>3, <1>6
      <2> QED
          BY <1>1, <1>4, <2>1
<1> QED
    BY <1>5, <1>6

-----------------------------------------------------------------------------
(* What was decided, spent and opened.                                     *)

\* Before there is a row, nobody has done anything with it.
NothingBefore ==
  ~Exists => wrong = 0 /\ (\A s \in Session : ~Active(s)) /\ \A c \in Code : accepted[c] = 0

\* Without a stale Save the row says what was decided, and a backup code that
\* can still be spent never was.
Recorded ==
  ~stale => /\ Decision(row) = decided
            /\ \A c \in row.codes : accepted[c] = 0
            /\ \A c \in Code : accepted[c] <= 1

\* A session of an old password waits for the reset to revoke it.
OldAwaitReset ==
  ~stale /\ ~cut =>
    \A s \in Session :
      Active(s) /\ ~sess[s].late /\ sess[s].pw # decided.pw =>
        \E r \in Request : At(r, "revoking") /\ req[r].op = "reset"

\* A row once written stays.
LEMMA ExistsStays ==
  ASSUME TypeOK, CopiesInOrder, [Next]_vars
  PROVE  /\ Exists => Exists'
         /\ \A r \in Request : req[r].pc \in Loaded => Exists
<1>1. \A r \in Request : req[r].pc \in Loaded => Exists
      BY DEF CopiesInOrder, InOrder, Exists
<1>2. CASE Quiet \/ UNCHANGED vars
      BY <1>1, <1>2 DEF Quiet, Tick, LogoutAll, cleanSessions, Expire, Logout, Revoke, vars,
                        Exists
<1>3. ASSUME NEW r \in Request, Loads(r) \/ Moves(r) PROVE row' = row
      BY <1>3, LoadOwn, MoveOwn
<1>4. ASSUME NEW r \in Request, Writes(r) PROVE row'.status # None \/ row' = row
      <2>0. row \in Row /\ InOrder(req[r], row)
            BY DEF TypeOK, CopiesInOrder
      <2>1. CASE RegisterCreate(r) \/ OAuthCreate(r)
            BY <2>0, <2>1 DEF RegisterCreate, OAuthCreate, CreateRow, InOrder, At, Exists
      <2>2. CASE Save(r)
            BY <2>0, <2>2 DEF Save, InOrder, At, Loaded
      <2>3. CASE LoginWrong(r) \/ LoginLock(r) \/ LoginRight(r)
            <3>1. row'.status = row.status
                  BY <2>0, <2>3 DEF LoginWrong, LoginLock, LoginRight, Row
            <3> QED
                BY <2>0, <2>3, <3>1 DEF LoginWrong, LoginLock, LoginRight, InOrder, At, Loaded
      <2>4. CASE LockUser(r) \/ DeleteUser(r)
            BY <2>0, <2>4 DEF LockUser, DeleteUser, Row, Exists
      <2> QED
          BY <1>4, <2>1, <2>2, <2>3, <2>4 DEF Writes
<1> QED
    BY <1>1, <1>2, <1>3, <1>4, Steps DEF Exists

\* What happens to the row happens after it was written.
LEMMA NothingBeforeStep ==
  ASSUME TypeOK, CopiesInOrder, NothingBefore, [Next]_vars PROVE NothingBefore'
<1> SUFFICES ASSUME ~Exists'
             PROVE  /\ wrong' = 0 /\ \A s \in Session : ~Active(s)'
                    /\ \A c \in Code : accepted'[c] = 0
    BY DEF NothingBefore
<1>0. ~Exists /\ \A r \in Request : req[r].pc \notin Loaded
      BY ExistsStays
<1>1. wrong = 0 /\ (\A s \in Session : ~Active(s)) /\ \A c \in Code : accepted[c] = 0
      BY <1>0 DEF NothingBefore
<1>2. CASE Quiet \/ UNCHANGED vars
      <2>1. wrong' = wrong /\ accepted' = accepted
            BY <1>2 DEF Quiet, Tick, LogoutAll, cleanSessions, Expire, Logout, Revoke, vars,
                        history
      <2>2. \A s \in Session : ~Active(s)'
            BY <1>1, <1>2
               DEF Quiet, Tick, LogoutAll, RevokeAll, cleanSessions, CleanupExpired, Expire,
                   Logout, Revoke, vars, Active, Unused, TypeOK, SessState
      <2> QED
          BY <1>1, <2>1, <2>2
<1>3. ASSUME NEW r \in Request, Loads(r)
      PROVE  wrong' = wrong /\ sess' = sess /\ accepted' = accepted
      BY <1>3, LoadOwn DEF history
<1>4. ASSUME NEW r \in Request, Moves(r)
      PROVE  wrong' = wrong /\ accepted' = accepted /\ \A s \in Session : ~Active(s)'
      <2>1. wrong' = wrong /\ accepted' = accepted
            BY <1>4, MoveOwn
      <2>2. CASE RefreshRevoke(r)
            <3>1. \A s \in Session : sess'[s] = sess[s]
                               \/ (s = req[r].sid /\ sess'[s] = [sess[s] EXCEPT !.state =
                                      IF @ = "active" THEN "revoked" ELSE @])
                  BY <2>2 DEF RefreshRevoke, TypeOK
            <3>2. \A s \in Session : sess'[s].state # "active"
                  BY <1>1, <3>1 DEF Active, TypeOK, SessState
            <3> QED
                BY <2>1, <3>2 DEF Active
      <2>3. CASE RevokeAfter(r)
            BY <1>1, <2>1, <2>3 DEF RevokeAfter, RevokeAll, Active
      <2>4. CASE IssueCreate(r)
            BY <1>0, <2>4 DEF IssueCreate, At, Loaded
      <2> QED
          BY <1>1, <1>4, <2>1, <2>2, <2>3, <2>4
             DEF Moves, OAuthLink, issueTokens, IssueCount, RefreshToken, RefreshLoad,
                 ErrorDropped, Abandon, Active
<1>5. ASSUME NEW r \in Request, Writes(r)
      PROVE  wrong' = wrong /\ sess' = sess /\ accepted' = accepted
      BY <1>0, <1>5 DEF Writes, RegisterCreate, OAuthCreate, CreateRow, LoginWrong, LoginLock,
         LoginRight, Save, LockUser, DeleteUser, At, Loaded, history
<1> QED
    BY <1>1, <1>2, <1>3, <1>4, <1>5, Steps DEF Active

\* A decision with one column changed.
LEMMA DecisionExcept ==
  ASSUME NEW u, NEW e
  PROVE  [Decision(u) EXCEPT !.deleted = e] =
           [status |-> u.status, pw |-> u.pw, mfa |-> u.mfa, deleted |-> e]
BY DEF Decision

\* A Save of a copy that is not old writes what its request decides.
LEMMA RecordedStep ==
  ASSUME TypeOK, CopiesInOrder, NothingBefore, Recorded, [Next]_vars PROVE Recorded'
<1>1. CASE Quiet \/ UNCHANGED vars
      <2>1. row' = row /\ decided' = decided /\ stale' = stale /\ accepted' = accepted
            BY <1>1 DEF Quiet, Tick, LogoutAll, cleanSessions, Expire, Logout, Revoke, vars,
                        history
      <2> QED
          BY <2>1 DEF Recorded
<1>2. ASSUME NEW r \in Request, Loads(r) \/ Moves(r) PROVE Recorded'
      <2>1. row' = row /\ decided' = decided /\ stale' = stale /\ accepted' = accepted
            BY <1>2, LoadOwn, MoveOwn DEF history
      <2> QED
          BY <2>1 DEF Recorded
<1>3. ASSUME NEW r \in Request, Writes(r) PROVE Recorded'
      <2>0. row \in Row /\ req[r] \in ReqState /\ req[r].copy \in Row /\ InOrder(req[r], row)
            BY RequestFields DEF TypeOK, CopiesInOrder
      <2>1. CASE RegisterCreate(r) \/ OAuthCreate(r)
            <3>1. CASE Exists
                  BY <2>1, <3>1 DEF RegisterCreate, OAuthCreate, CreateRow, Recorded, history
            <3>2. CASE ~Exists
                  BY <2>0, <2>1, <3>2
                     DEF RegisterCreate, OAuthCreate, CreateRow, Recorded, NothingBefore, Row
            <3> QED
                BY <3>1, <3>2
      <2>2. CASE LoginWrong(r) \/ LoginLock(r) \/ LoginRight(r) \/ LockUser(r)
            <3>1. Decision(row') = Decision(row) /\ row'.codes = row.codes
                  BY <2>0, <2>2 DEF LoginWrong, LoginLock, LoginRight, LockUser, Decision, Row
            <3>2. decided' = decided /\ stale' = stale /\ accepted' = accepted
                  BY <2>2 DEF LoginWrong, LoginLock, LoginRight, LockUser, history
            <3> QED
                BY <3>1, <3>2 DEF Recorded
      <2>3. CASE DeleteUser(r)
            <3>1. /\ row'.status = row.status /\ row'.pw = row.pw /\ row'.mfa = row.mfa
                  /\ row'.deleted = TRUE /\ row'.codes = row.codes
                  BY <2>0, <2>3 DEF DeleteUser, Row
            <3>2. Decision(row') = [Decision(row) EXCEPT !.deleted = TRUE]
                  <4>1. [Decision(row) EXCEPT !.deleted = TRUE] =
                          [status |-> row.status, pw |-> row.pw, mfa |-> row.mfa,
                           deleted |-> TRUE]
                        BY DecisionExcept, Zenon
                  <4>2. Decision(row') = [status |-> row.status, pw |-> row.pw,
                                          mfa |-> row.mfa, deleted |-> TRUE]
                        BY <3>1, Zenon DEF Decision
                  <4> QED
                      BY <4>1, <4>2, Zenon
            <3> QED
                BY <2>3, <3>1, <3>2 DEF DeleteUser, Recorded
      <2>4. CASE Save(r)
            <3> SUFFICES ASSUME ~stale'
                         PROVE  /\ Decision(row') = decided'
                                /\ \A c \in row'.codes : accepted'[c] = 0
                                /\ \A c \in Code : accepted'[c] <= 1
                BY DEF Recorded
            <3>1. ~stale /\ req[r].fresh /\ row' = req[r].copy /\ At(r, "saving")
                  /\ decided' = SaveDecides(r)
                  BY <2>4 DEF Save
            <3>2. Matches(req[r], row)
                  BY <2>0, <3>1 DEF InOrder, At, Loaded
            <3>3. /\ Decision(row) = decided /\ (\A c \in row.codes : accepted[c] = 0)
                  /\ \A c \in Code : accepted[c] <= 1
                  BY <3>1 DEF Recorded
            <3>4. Decision(row') = decided'
                  BY <3>1, <3>2, <3>3 DEF Matches, Decide, SaveDecides
            <3>5. \A c \in Code : accepted'[c] =
                    IF req[r].op = "spend" /\ req[r].code = c THEN accepted[c] + 1
                    ELSE IF req[r].op = "enable" THEN 0 ELSE accepted[c]
                  BY <2>4 DEF Save
            <3>6. row'.codes \subseteq Code /\ row.codes \subseteq Code
                  BY <2>0, <3>1 DEF Row
            <3>7. \A c \in row'.codes : accepted'[c] = 0
                  BY <3>1, <3>2, <3>3, <3>5, <3>6 DEF Matches
            <3>8. \A c \in Code : accepted'[c] <= 1
                  <4> SUFFICES ASSUME NEW c \in Code PROVE accepted'[c] <= 1
                      OBVIOUS
                  <4>1. accepted[c] \in Nat /\ accepted[c] <= 1
                        BY <3>3 DEF TypeOK
                  <4>2. CASE req[r].op = "spend" /\ req[r].code = c
                        <5>1. accepted[c] = 0
                              BY <3>2, <3>3, <4>2 DEF Matches
                        <5> QED
                            BY <3>5, <4>2, <5>1
                  <4>3. CASE ~(req[r].op = "spend" /\ req[r].code = c)
                        BY <3>5, <4>1, <4>3
                  <4> QED
                      BY <4>2, <4>3
            <3> QED
                BY <3>4, <3>7, <3>8
      <2> QED
          BY <1>3, <2>1, <2>2, <2>3, <2>4 DEF Writes
<1> QED
    BY <1>1, <1>2, <1>3, Steps

\* A session is opened with the password in force, or its copy is old.
LEMMA OldAwaitResetStep ==
  ASSUME TypeOK, CopiesInOrder, NothingBefore, Recorded, OldAwaitReset, [Next]_vars
  PROVE  OldAwaitReset'
<1> SUFFICES ASSUME ~stale', ~cut', NEW s \in Session,
                    Active(s)', ~sess'[s].late, sess'[s].pw # decided'.pw
             PROVE  \E r \in Request : req'[r].pc = "revoking" /\ req'[r].op = "reset"
    BY DEF OldAwaitReset, At
<1> DEFINE Awaits == \E r \in Request : req[r].pc = "revoking" /\ req[r].op = "reset"
<1>0. sess[s] \in SessState /\ row \in Row
      BY DEF TypeOK
<1>1. ~stale /\ ~cut
      <2>1. CASE Quiet \/ UNCHANGED vars
            BY <2>1 DEF Quiet, Tick, LogoutAll, cleanSessions, Expire, Logout, Revoke, vars,
                        history
      <2>2. ASSUME NEW r \in Request, Loads(r) PROVE ~stale /\ ~cut
            BY <2>2, LoadOwn DEF history
      <2>3. ASSUME NEW r \in Request, Moves(r) PROVE ~stale /\ ~cut
            <3>1. ~cut
                  BY <2>3 DEF Moves, OAuthLink, issueTokens, IssueCount, IssueCreate,
                     RefreshToken, RefreshLoad, RefreshRevoke, RevokeAfter, ErrorDropped,
                     Abandon, history
            <3> QED
                BY <2>3, <3>1, MoveOwn
      <2>4. ASSUME NEW r \in Request, Writes(r) PROVE ~stale /\ ~cut
            <3>1. ~stale
                  BY <2>4 DEF Writes, RegisterCreate, OAuthCreate, CreateRow, LoginWrong,
                     LoginLock, LoginRight, Save, LockUser, DeleteUser, history
            <3> QED
                BY <2>4, <3>1, WriteOwn
      <2> QED
          BY <2>1, <2>2, <2>3, <2>4, Steps
<1>2. Active(s) /\ ~sess[s].late /\ sess[s].pw # decided.pw => Awaits
      BY <1>1 DEF OldAwaitReset, At
<1>3. CASE Quiet \/ UNCHANGED vars
      <2>1. req' = req /\ decided' = decided
            BY <1>3 DEF Quiet, Tick, LogoutAll, cleanSessions, Expire, Logout, Revoke, vars,
                        history
      <2>2. Active(s) /\ sess'[s].late = sess[s].late /\ sess'[s].pw = sess[s].pw
            <3>1. CASE Tick \/ UNCHANGED vars
                  BY <3>1 DEF Tick, vars, Active
            <3>2. CASE LogoutAll
                  BY <1>0, <3>2 DEF LogoutAll, RevokeAll, Active, SessState
            <3>3. CASE cleanSessions
                  BY <3>3 DEF cleanSessions, CleanupExpired, Active, Unused
            <3>4. ASSUME NEW x \in Session, Expire(x) \/ Logout(x)
                  PROVE  Active(s) /\ sess'[s].late = sess[s].late /\ sess'[s].pw = sess[s].pw
                  BY <1>0, <3>4 DEF Expire, Logout, Revoke, Active, TypeOK, SessState
            <3> QED
                BY <1>3, <3>1, <3>2, <3>3, <3>4 DEF Quiet
      <2> QED
          BY <1>2, <2>1, <2>2
<1>4. ASSUME NEW r \in Request, Loads(r)
      PROVE  \E x \in Request : req'[x].pc = "revoking" /\ req'[x].op = "reset"
      <2>1. sess' = sess /\ decided' = decided /\ req[r].pc = "idle"
            /\ \A x \in Request : x # r => req'[x] = req[x]
            BY <1>4, LoadOwn DEF history, At
      <2>2. Awaits
            BY <1>2, <2>1 DEF Active
      <2> QED
          BY <2>1, <2>2
<1>5. ASSUME NEW r \in Request, Moves(r)
      PROVE  \E x \in Request : req'[x].pc = "revoking" /\ req'[x].op = "reset"
      <2>1. /\ \A x \in Request : x # r => req'[x] = req[x]
            /\ decided' = decided
            /\ req[r].pc = "revoking" => RevokeAfter(r) \/ Abandon(r)
            BY <1>5, MoveOwn
      <2>2. ~RevokeAfter(r)
            BY <1>0 DEF RevokeAfter, RevokeAll, Active, SessState
      <2>3. Abandon(r) => req[r].pc # "revoking"
            BY DEF Abandon, At
      <2>4. CASE ~IssueCreate(r)
            <3>1. Active(s) /\ sess'[s].late = sess[s].late /\ sess'[s].pw = sess[s].pw
                  <4>1. CASE RefreshRevoke(r)
                        <5>1. sess'[s] = sess[s] \/ sess'[s] = [sess[s] EXCEPT !.state =
                                                       IF @ = "active" THEN "revoked" ELSE @]
                              BY <4>1 DEF RefreshRevoke, TypeOK
                        <5> QED
                            BY <1>0, <5>1 DEF Active, SessState
                  <4> QED
                      BY <1>5, <2>2, <2>4, <4>1
                         DEF Moves, OAuthLink, issueTokens, IssueCount, RefreshToken,
                             RefreshLoad, ErrorDropped, Abandon, Active
            <3> QED
                BY <1>2, <2>1, <2>2, <2>3, <3>1
      <2>5. CASE IssueCreate(r)
            <3>1. PICK x \in Session :
                    sess' = [sess EXCEPT ![x] =
                      [state |-> "active", expired |-> FALSE,
                       pw |-> req[r].copy.pw, late |-> ~req[r].fresh,
                       counted |-> req[r].counted]]
                  BY <2>5 DEF IssueCreate
            <3>2. CASE x = s
                  <4>1. sess'[s].pw = req[r].copy.pw /\ req[r].fresh
                        BY <3>1, <3>2 DEF TypeOK
                  <4>2. req[r].pc = "creating" /\ InOrder(req[r], row) /\ req[r] \in ReqState
                        BY <2>5, RequestFields DEF IssueCreate, At, CopiesInOrder
                  <4>3. Matches(req[r], row)
                        BY <4>1, <4>2 DEF InOrder, Loaded
                  <4>4. req[r].op # "reset" => req[r].copy.pw = row.pw
                        BY <4>3 DEF Matches, Decide, Decision
                  <4>5. row.pw = decided.pw
                        BY <1>1 DEF Recorded, Decision
                  <4>6. req[r].op # "reset"
                        BY <4>2 DEF InOrder, Loaded
                  <4> QED
                      BY <2>1, <4>1, <4>4, <4>5, <4>6
            <3>3. CASE x # s
                  <4>1. sess'[s] = sess[s]
                        BY <3>1, <3>3 DEF TypeOK
                  <4> QED
                      BY <1>2, <2>1, <2>2, <2>3, <4>1 DEF Active
            <3> QED
                BY <3>2, <3>3
      <2> QED
          BY <2>4, <2>5
<1>6. ASSUME NEW r \in Request, Writes(r)
      PROVE  \E x \in Request : req'[x].pc = "revoking" /\ req'[x].op = "reset"
      <2>1. /\ \A x \in Request : x # r => req'[x].pc = req[x].pc /\ req'[x].op = req[x].op
            /\ sess' = sess /\ req[r].pc # "revoking"
            BY <1>6, WriteOwn
      <2>2. Active(s) /\ ~sess[s].late
            BY <2>1 DEF Active
      <2>3. CASE decided'.pw = decided.pw
            BY <1>2, <2>1, <2>2, <2>3
      <2>4. CASE decided'.pw # decided.pw
            <3>1. Exists
                  BY <2>2 DEF NothingBefore
            <3>2. Save(r) /\ req[r].op = "reset"
                  <4>1. ASSUME DeleteUser(r) PROVE FALSE
                        BY <2>4, <4>1 DEF DeleteUser, TypeOK
                  <4>2. ASSUME Save(r), req[r].op # "reset" PROVE FALSE
                        BY <2>4, <4>2 DEF Save, SaveDecides, TypeOK
                  <4> QED
                      BY <1>6, <2>4, <3>1, <4>1, <4>2
                         DEF Writes, RegisterCreate, OAuthCreate, CreateRow, LoginWrong,
                             LoginLock, LoginRight, LockUser, history
            <3>3. req'[r] = [req[r] EXCEPT !.pc = "revoking"]
                  BY <3>2 DEF Save, AfterSave, Wrote
            <3>4. req[r] \in ReqState
                  BY RequestFields
            <3> QED
                BY <3>2, <3>3, <3>4 DEF ReqState
      <2> QED
          BY <2>3, <2>4
<1> QED
    BY <1>3, <1>4, <1>5, <1>6, Steps

-----------------------------------------------------------------------------
(* Limits.                                                                 *)

Open == {s \in Session : Active(s) /\ ~sess[s].expired}

\* Logins whose wrong password would be answered, and not lock the account.
Guessing ==
  {r \in Request : At(r, "checking") /\ req[r].copy.failed <= MaxLoginAttempts - 2}

\* Every answer took a login that began while the count was below the limit.
AnswersBounded ==
  /\ wrong <= row.failed
  /\ wrong + Cardinality(Guessing) <= MaxLoginAttempts - 2 + Cardinality(Request)

\* A set of requests is no larger than Request, a set within another not larger.
LEMMA Sizes ==
  /\ \A A \in SUBSET Request : Cardinality(A) \in Nat /\ Cardinality(A) <= Cardinality(Request)
  /\ \A A \in SUBSET Session : Cardinality(A) \in Nat
  /\ \A A, B \in SUBSET Request : A \subseteq B => Cardinality(A) <= Cardinality(B)
  /\ \A A, B \in SUBSET Session : A \subseteq B => Cardinality(A) <= Cardinality(B)
  /\ \A A \in SUBSET Request : \A r \in A : Cardinality(A \ {r}) = Cardinality(A) - 1
  /\ \A A \in SUBSET Session : \A s \in Session \ A :
       Cardinality(A \union {s}) = Cardinality(A) + 1
  /\ Cardinality(Request) \in Nat /\ Cardinality(Request) >= 1
<1>1. IsFiniteSet(Request) /\ IsFiniteSet(Session) /\ Request # {}
      BY SetsAssumption
<1>2. /\ \A A \in SUBSET Request : IsFiniteSet(A) /\ Cardinality(A) <= Cardinality(Request)
      /\ \A A \in SUBSET Session : IsFiniteSet(A)
      BY <1>1, FS_Subset
<1>3. /\ \A A \in SUBSET Request : Cardinality(A) \in Nat
      /\ \A A \in SUBSET Session : Cardinality(A) \in Nat
      BY <1>2, FS_CardinalityType
<1>4. /\ \A A, B \in SUBSET Request : A \subseteq B => Cardinality(A) <= Cardinality(B)
      /\ \A A, B \in SUBSET Session : A \subseteq B => Cardinality(A) <= Cardinality(B)
      BY <1>2, FS_Subset
<1>5. \A A \in SUBSET Request : \A r \in A : Cardinality(A \ {r}) = Cardinality(A) - 1
      BY <1>2, FS_RemoveElement
<1>6. \A A \in SUBSET Session : \A s \in Session \ A :
        Cardinality(A \union {s}) = Cardinality(A) + 1
      BY <1>2, FS_AddElement
<1>7. Cardinality(Request) \in Nat /\ Cardinality(Request) # 0
      BY <1>1, FS_CardinalityType, FS_EmptySet
<1> QED
    BY <1>2, <1>3, <1>4, <1>5, <1>6, <1>7

\* Only IssueCreate opens a session, and only IssueCount lets a counted one be
\* created.
LEMMA OpenStep ==
  ASSUME TypeOK, [Next]_vars
  PROVE  /\ Counted' \subseteq Counted \/ \E r \in Request : IssueCreate(r)
         /\ AboutToCreate' \subseteq AboutToCreate \/ \E r \in Request : IssueCount(r)
<1> USE DEF Counted, AboutToCreate, Active, At
<1>1. CASE Quiet \/ UNCHANGED vars
      <2>1. req' = req
            BY <1>1 DEF Quiet, Tick, LogoutAll, cleanSessions, Expire, Logout, Revoke, vars
      <2>2. Counted' \subseteq Counted
            <3>1. CASE Tick \/ UNCHANGED vars
                  BY <3>1 DEF Tick, vars
            <3>2. CASE LogoutAll
                  BY <3>2 DEF LogoutAll, RevokeAll, TypeOK, SessState
            <3>3. CASE cleanSessions
                  BY <3>3 DEF cleanSessions, CleanupExpired, Unused
            <3>4. ASSUME NEW x \in Session, Expire(x) \/ Logout(x)
                  PROVE  Counted' \subseteq Counted
                  BY <3>4 DEF Expire, Logout, Revoke, TypeOK, SessState
            <3> QED
                BY <1>1, <3>1, <3>2, <3>3, <3>4 DEF Quiet
      <2> QED
          BY <2>1, <2>2
<1>2. ASSUME NEW r \in Request, Loads(r)
      PROVE  Counted' \subseteq Counted /\ AboutToCreate' \subseteq AboutToCreate
      BY <1>2, LoadOwn
<1>3. ASSUME NEW r \in Request, Moves(r)
      PROVE  /\ Counted' \subseteq Counted \/ IssueCreate(r)
             /\ AboutToCreate' \subseteq AboutToCreate \/ IssueCount(r)
      <2>1. AboutToCreate' \subseteq AboutToCreate \/ IssueCount(r)
            BY <1>3, MoveOwn
      <2>2. CASE RefreshRevoke(r)
            <3>1. \A s \in Session : sess'[s] = sess[s] \/ sess'[s] =
                    [sess[s] EXCEPT !.state = IF @ = "active" THEN "revoked" ELSE @]
                  BY <2>2 DEF RefreshRevoke, TypeOK
            <3>2. \A s \in Session : sess'[s].state = "active" => sess'[s] = sess[s]
                  BY <3>1 DEF TypeOK, SessState
            <3> QED
                BY <2>1, <3>2
      <2>3. CASE RevokeAfter(r)
            BY <2>1, <2>3 DEF RevokeAfter, RevokeAll, TypeOK, SessState
      <2>4. CASE ~RefreshRevoke(r) /\ ~RevokeAfter(r) /\ ~IssueCreate(r)
            <3>1. sess' = sess
                  BY <1>3, <2>4 DEF Moves, OAuthLink, issueTokens, IssueCount, RefreshToken,
                                    RefreshLoad, ErrorDropped, Abandon
            <3> QED
                BY <2>1, <3>1
      <2> QED
          BY <2>1, <2>2, <2>3, <2>4
<1>4. ASSUME NEW r \in Request, Writes(r)
      PROVE  Counted' \subseteq Counted /\ AboutToCreate' \subseteq AboutToCreate
      BY <1>4, WriteOwn
<1> QED
    BY <1>1, <1>2, <1>3, <1>4, Steps

\* The session that is created was counted as about to be, or not at all.
LEMMA SessionLimitStep ==
  ASSUME TypeOK, SessionLimit, [Next]_vars PROVE SessionLimit'
<1> SUFFICES ASSUME SessionMaxDevices > 0
             PROVE  Cardinality(Counted') + Cardinality(AboutToCreate')
                      <= SessionMaxDevices - 1 + Cardinality(Request)
    BY DEF SessionLimit
<1>0. /\ Counted \in SUBSET Session /\ Counted' \in SUBSET Session
      /\ AboutToCreate \in SUBSET Request /\ AboutToCreate' \in SUBSET Request
      BY DEF Counted, AboutToCreate
<1>1. /\ Cardinality(Counted) \in Nat /\ Cardinality(Counted') \in Nat
      /\ Cardinality(AboutToCreate) \in Nat /\ Cardinality(AboutToCreate') \in Nat
      /\ Cardinality(AboutToCreate') <= Cardinality(Request) /\ Cardinality(Request) \in Nat
      BY <1>0, Sizes
<1>2. Cardinality(Counted) + Cardinality(AboutToCreate)
        <= SessionMaxDevices - 1 + Cardinality(Request)
      BY DEF SessionLimit
<1>3. CASE Counted' \subseteq Counted /\ AboutToCreate' \subseteq AboutToCreate
      <2>1. /\ Cardinality(Counted') <= Cardinality(Counted)
            /\ Cardinality(AboutToCreate') <= Cardinality(AboutToCreate)
            BY <1>0, <1>3, Sizes
      <2> QED
          BY <1>1, <1>2, <2>1, ConfigAssumption
<1>4. ASSUME NEW r \in Request, IssueCount(r)
      PROVE  Cardinality(Counted') + Cardinality(AboutToCreate')
               <= SessionMaxDevices - 1 + Cardinality(Request)
      <2>1. Counted' = Counted
            BY <1>4 DEF IssueCount, Counted, Active
      <2>2. CountActive = Cardinality(Open) /\ Open \in SUBSET Session
            BY DEF CountActive, Open
      <2>3. Cardinality(Open) \in Nat /\ Cardinality(Counted) <= Cardinality(Open)
            <3>1. Counted \subseteq Open
                  BY DEF Counted, Open
            <3> QED
                BY <1>0, <2>2, <3>1, Sizes
      <2>4. CASE CountActive < SessionMaxDevices
            BY <1>1, <2>1, <2>2, <2>3, <2>4, ConfigAssumption
      <2>5. CASE End(r)
            <3>1. AboutToCreate' \subseteq AboutToCreate
                  BY <2>5 DEF End, Becomes, AboutToCreate, At, Idle, TypeOK
            <3> QED
                BY <1>3, <2>1, <3>1
      <2> QED
          <3>1. End(r) \/ ~(CountActive >= SessionMaxDevices)
                BY <1>4 DEF IssueCount
          <3>2. ~(CountActive >= SessionMaxDevices) => CountActive < SessionMaxDevices
                BY <2>2, <2>3, ConfigAssumption
          <3> QED
              BY <2>4, <2>5, <3>1, <3>2
<1>5. ASSUME NEW r \in Request, IssueCreate(r)
      PROVE  Cardinality(Counted') + Cardinality(AboutToCreate')
               <= SessionMaxDevices - 1 + Cardinality(Request)
      <2>1. PICK s \in Session :
              /\ sess[s].state = "unused"
              /\ sess' = [sess EXCEPT ![s] =
                   [state |-> "active", expired |-> FALSE,
                    pw |-> req[r].copy.pw, late |-> ~req[r].fresh,
                    counted |-> req[r].counted]]
            BY <1>5 DEF IssueCreate, GenerateTokenPair
      <2>2. /\ sess'[s].state = "active" /\ sess'[s].expired = FALSE
            /\ sess'[s].counted = req[r].counted
            /\ \A x \in Session : x # s => sess'[x] = sess[x]
            BY <2>1 DEF TypeOK
      <2>3. /\ req[r].pc = "creating" /\ req'[r].pc = "saving"
            /\ \A x \in Request : x # r => req'[x] = req[x]
            <3>1. [req[r] EXCEPT !.pc = "saving", !.counted = FALSE].pc = "saving"
                  BY RequestFields DEF ReqState
            <3> QED
                BY <1>5, <3>1 DEF IssueCreate, Becomes, At, TypeOK
      <2>4. CASE req[r].counted
            <3>1. s \notin Counted /\ Counted' = Counted \union {s}
                  BY <2>1, <2>2, <2>4 DEF Counted, Active
            <3>2. r \in AboutToCreate /\ AboutToCreate' = AboutToCreate \ {r}
                  BY <2>3, <2>4 DEF AboutToCreate, At
            <3>3. /\ Cardinality(Counted') = Cardinality(Counted) + 1
                  /\ Cardinality(AboutToCreate') = Cardinality(AboutToCreate) - 1
                  BY <1>0, <3>1, <3>2, Sizes
            <3> QED
                BY <1>1, <1>2, <3>3, ConfigAssumption
      <2>5. CASE ~req[r].counted
            <3>1. Counted' \subseteq Counted
                  BY <2>2, <2>5 DEF Counted, Active
            <3>2. AboutToCreate' \subseteq AboutToCreate
                  BY <2>3 DEF AboutToCreate, At
            <3> QED
                BY <1>3, <3>1, <3>2
      <2> QED
          BY <2>4, <2>5
<1> QED
    BY <1>3, <1>4, <1>5, OpenStep

\* Without wrong answers the bound holds, whoever is guessing.
LEMMA GuessingBase ==
  ASSUME TypeOK
  PROVE  /\ Guessing \in SUBSET Request /\ Cardinality(Guessing) \in Nat
         /\ Cardinality(Guessing) <= MaxLoginAttempts - 2 + Cardinality(Request)
<1>1. Guessing \in SUBSET Request
      BY DEF Guessing
<1>2. /\ Cardinality(Guessing) \in Nat /\ Cardinality(Guessing) <= Cardinality(Request)
      /\ Cardinality(Request) \in Nat /\ Cardinality(Request) >= 1
      BY <1>1, Sizes
<1>3. CASE MaxLoginAttempts >= 2
      BY <1>1, <1>2, <1>3, ConfigAssumption
<1>4. CASE MaxLoginAttempts = 1
      <2>1. \A r \in Request : req[r].copy.failed \in Nat
            BY RequestFields DEF Row
      <2>2. Guessing = {}
            BY <1>4, <2>1 DEF Guessing
      <2>3. Cardinality(Guessing) = 0
            BY <2>2, FS_EmptySet
      <2> QED
          BY <1>1, <1>2, <1>4, <2>3
<1> QED
    BY <1>3, <1>4, ConfigAssumption

\* Only LoginLoad begins a login.
LEMMA GuessingStep ==
  ASSUME TypeOK, [Next]_vars
  PROVE  Guessing' \subseteq Guessing \/ \E r \in Request : LoginLoad(r)
<1>1. CASE Quiet \/ UNCHANGED vars
      <2>1. req' = req
            BY <1>1 DEF Quiet, Tick, LogoutAll, cleanSessions, Expire, Logout, Revoke, vars
      <2> QED
          BY <2>1 DEF Guessing, At
<1>2. ASSUME NEW r \in Request, Loads(r) PROVE Guessing' \subseteq Guessing \/ LoginLoad(r)
      BY <1>2, LoadOwn DEF Guessing, At
<1>3. ASSUME NEW r \in Request, Moves(r) PROVE Guessing' \subseteq Guessing
      BY <1>3, MoveOwn DEF Guessing, At
<1>4. ASSUME NEW r \in Request, Writes(r) PROVE Guessing' \subseteq Guessing
      BY <1>4, WriteOwn DEF Guessing, At
<1> QED
    BY <1>1, <1>2, <1>3, <1>4, Steps

\* A wrong answer ends a login that was guessing.
LEMMA AnswersBoundedStep ==
  ASSUME TypeOK, NothingBefore, AnswersBounded, [Next]_vars PROVE AnswersBounded'
<1>0. /\ TypeOK' /\ row.failed \in Nat /\ row'.failed \in Nat /\ wrong \in Nat /\ wrong' \in Nat
      /\ MaxLoginAttempts \in Nat \ {0}
      BY TypeStep, ConfigAssumption DEF TypeOK, Row
<1>1. /\ Guessing \in SUBSET Request /\ Cardinality(Guessing) \in Nat
      /\ Guessing' \in SUBSET Request /\ Cardinality(Guessing') \in Nat
      /\ Cardinality(Guessing') <= MaxLoginAttempts - 2 + Cardinality(Request)
      /\ Cardinality(Request) \in Nat /\ Cardinality(Guessing') <= Cardinality(Request)
      <2>1. Guessing \in SUBSET Request /\ Guessing' \in SUBSET Request
            BY DEF Guessing
      <2>2. Cardinality(Guessing') <= MaxLoginAttempts - 2 + Cardinality(Request)
            <3>1. CASE MaxLoginAttempts >= 2
                  BY <1>0, <2>1, <3>1, Sizes
            <3>2. CASE MaxLoginAttempts = 1
                  <4>1. \A r \in Request : req'[r].copy.failed \in Nat
                        BY <1>0 DEF TypeOK, ReqState, Row
                  <4>2. Guessing' = {}
                        BY <3>2, <4>1 DEF Guessing
                  <4>3. Cardinality(Guessing') = 0
                        BY <4>2, FS_EmptySet
                  <4> QED
                      BY <3>2, <4>3, Sizes
            <3> QED
                BY <1>0, <3>1, <3>2
      <2> QED
          BY <2>1, <2>2, Sizes
<1>2. ASSUME wrong' = 0 PROVE AnswersBounded'
      BY <1>0, <1>1, <1>2 DEF AnswersBounded
<1>3. ASSUME wrong' = wrong, row'.failed >= row.failed, Guessing' \subseteq Guessing
      PROVE  AnswersBounded'
      <2>1. Cardinality(Guessing') <= Cardinality(Guessing)
            BY <1>1, <1>3, Sizes
      <2> QED
          BY <1>0, <1>1, <1>3, <2>1 DEF AnswersBounded
<1>4. ASSUME NEW r \in Request, LoginLoad(r) PROVE AnswersBounded'
      <2>1. wrong' = wrong /\ row' = row
            BY <1>4 DEF LoginLoad, history
      <2>2. CASE row.failed <= MaxLoginAttempts - 2
            BY <1>0, <1>1, <2>1, <2>2 DEF AnswersBounded
      <2>3. CASE row.failed > MaxLoginAttempts - 2
            <3>1. /\ \A x \in Request : x # r => req'[x] = req[x]
                  /\ req'[r].copy = row
                  BY <1>4 DEF LoginLoad, Start, TypeOK, Idle
            <3>2. Guessing' \subseteq Guessing
                  BY <1>0, <2>3, <3>1 DEF Guessing, At
            <3> QED
                BY <1>0, <1>3, <2>1, <3>2
      <2> QED
          BY <1>0, <2>2, <2>3
<1>5. ASSUME NEW r \in Request, LoginWrong(r), ~AtLimit(r) PROVE AnswersBounded'
      <2>1. req[r].copy.failed \in Nat /\ row \in Row
            BY RequestFields DEF Row, TypeOK
      <2>2. wrong' = wrong + 1 /\ row'.failed = row.failed + 1
            BY <1>5, <2>1 DEF LoginWrong, Row
      <2>3. r \in Guessing
            BY <1>0, <1>5, <2>1 DEF LoginWrong, AtLimit, Guessing
      <2>4. Guessing' \subseteq Guessing \ {r}
            <3>1. Writes(r)
                  BY <1>5 DEF Writes
            <3> QED
                BY <3>1, WriteOwn DEF Guessing, At
      <2>5. Cardinality(Guessing') <= Cardinality(Guessing) - 1
            <3>1. Guessing \ {r} \in SUBSET Request
                  BY <1>1
            <3>2. Cardinality(Guessing') <= Cardinality(Guessing \ {r})
                  BY <1>1, <2>4, <3>1, Sizes
            <3>3. Cardinality(Guessing \ {r}) = Cardinality(Guessing) - 1
                  BY <1>1, <2>3, Sizes
            <3> QED
                BY <3>2, <3>3
      <2> QED
          BY <1>0, <1>1, <2>2, <2>5 DEF AnswersBounded
<1>6. ASSUME NEW r \in Request, Writes(r), ~(LoginWrong(r) /\ ~AtLimit(r))
      PROVE  wrong' = 0 \/ (wrong' = wrong /\ row'.failed >= row.failed)
      <2>0. row \in Row
            BY DEF TypeOK
      <2>1. CASE RegisterCreate(r) \/ OAuthCreate(r)
            <3>1. CASE Exists
                  <4>1. wrong' = wrong /\ row' = row
                        BY <2>1, <3>1 DEF RegisterCreate, OAuthCreate, CreateRow, history
                  <4> QED
                      BY <1>0, <4>1
            <3>2. CASE ~Exists
                  BY <2>1, <3>2 DEF RegisterCreate, OAuthCreate, CreateRow, NothingBefore
            <3> QED
                BY <3>1, <3>2
      <2>2. CASE LoginWrong(r)
            <3>1. wrong' = wrong /\ row'.failed = row.failed + 1
                  BY <1>6, <2>0, <2>2 DEF LoginWrong, Row
            <3> QED
                BY <1>0, <3>1
      <2>3. CASE LoginLock(r) \/ LoginRight(r) \/ Save(r)
            BY <2>3 DEF LoginLock, LoginRight, Save
      <2>4. CASE LockUser(r) \/ DeleteUser(r)
            <3>1. wrong' = wrong /\ row'.failed = row.failed
                  BY <2>0, <2>4 DEF LockUser, DeleteUser, history, Row
            <3> QED
                BY <1>0, <3>1
      <2> QED
          BY <1>6, <2>1, <2>2, <2>3, <2>4 DEF Writes
<1>7. ASSUME NEW r \in Request, Loads(r) \/ Moves(r) PROVE wrong' = wrong /\ row' = row
      BY <1>7, LoadOwn, MoveOwn DEF history
<1>8. CASE Quiet \/ UNCHANGED vars
      <2>1. wrong' = wrong /\ row' = row /\ Guessing' = Guessing
            BY <1>8 DEF Quiet, Tick, LogoutAll, cleanSessions, Expire, Logout, Revoke, vars,
                        history, Guessing, At
      <2> QED
          BY <1>0, <1>3, <2>1
<1>9. CASE \E r \in Request : Loads(r) \/ Moves(r) \/ Writes(r)
      <2>1. CASE \E r \in Request : LoginLoad(r)
            BY <1>4, <2>1
      <2>2. CASE \E r \in Request : LoginWrong(r) /\ ~AtLimit(r)
            BY <1>5, <2>2
      <2>3. CASE /\ ~\E r \in Request : LoginLoad(r)
                 /\ ~\E r \in Request : LoginWrong(r) /\ ~AtLimit(r)
            <3>1. Guessing' \subseteq Guessing
                  BY <2>3, GuessingStep
            <3>2. wrong' = 0 \/ (wrong' = wrong /\ row'.failed >= row.failed)
                  BY <1>0, <1>6, <1>7, <1>9, <2>3
            <3> QED
                BY <1>2, <1>3, <3>1, <3>2
      <2> QED
          BY <2>1, <2>2, <2>3
<1> QED
    BY <1>8, <1>9, Steps

-----------------------------------------------------------------------------
(* The inductive invariant, and what follows from it.                      *)

IInv ==
  /\ TypeOK /\ CopiesInOrder /\ NothingBefore /\ Recorded /\ OldAwaitReset
  /\ SessionLimit /\ AnswersBounded

\* Before the first request everything is in order.
LEMMA InitIInv == Init => IInv
<1> SUFFICES ASSUME Init PROVE IInv
    OBVIOUS
<1>1. TypeOK
      BY InitTyped
<1>2. HasSecret(row) /\ row.codes \subseteq Code /\ row.failed = 0
      <2>1. CASE row = NoRow \/ row = NewRow("pending", 1)
            BY <2>1 DEF NoRow, NewRow, HasSecret
      <2>2. CASE row = WithMFA(WithSecret(NewRow("pending", 1)))
            BY <2>2 DEF NewRow, WithMFA, WithSecret, HasSecret
      <2> QED
          BY <2>1, <2>2 DEF Init
<1>3. CopiesInOrder
      BY <1>2, IdleInOrder DEF Init, CopiesInOrder
<1>4. NothingBefore /\ OldAwaitReset
      BY DEF Init, NothingBefore, OldAwaitReset, Active, Unused
<1>5. Recorded
      BY <1>2 DEF Init, Recorded
<1>6. SessionLimit
      <2>1. Counted = {} /\ AboutToCreate = {}
            BY DEF Init, Counted, AboutToCreate, Active, Unused, At, Idle
      <2>2. Cardinality(Counted) = 0 /\ Cardinality(AboutToCreate) = 0
            BY <2>1, FS_EmptySet
      <2> QED
          BY <2>2, Sizes, ConfigAssumption DEF SessionLimit
<1>7. AnswersBounded
      BY <1>1, <1>2, GuessingBase, Sizes, ConfigAssumption DEF Init, AnswersBounded
<1> QED
    BY <1>1, <1>3, <1>4, <1>5, <1>6, <1>7 DEF IInv

\* Every step keeps the invariant.
LEMMA IInvStep == IInv /\ [Next]_vars => IInv'
BY TypeStep, CopiesStep, NothingBeforeStep, RecordedStep, OldAwaitResetStep, SessionLimitStep,
   AnswersBoundedStep DEF IInv

\* The inductive invariant holds in every reachable state.
THEOREM Invariance == Spec => []IInv
BY InitIInv, IInvStep, PTL DEF Spec

\* The row, its copies, the sessions and the requests keep their types.
THEOREM TypeCorrect == Spec => []TypeOK
<1>1. IInv => TypeOK
      BY DEF IInv
<1> QED
    BY <1>1, Invariance, PTL

\* Only a stale Save undoes what was decided about the account.
THEOREM DecisionsAreKept == Spec => []DecisionsHold
<1>1. IInv => DecisionsHold
      BY DEF IInv, Recorded, DecisionsHold
<1> QED
    BY <1>1, Invariance, PTL

\* MFA is never on without a secret, in the row or in any copy of it.
THEOREM TheGateIsReal == Spec => []GateHasSecret
<1>1. IInv => GateHasSecret
      BY DEF IInv, CopiesInOrder, InOrder, HasSecret, GateHasSecret
<1> QED
    BY <1>1, Invariance, PTL

\* verifyBackupCode: without a stale Save the removal of a code is saved once, so
\* only failing Saves let it be accepted again.
THEOREM CodesAreSpent == Spec => []CodeReuseNeedsARace
<1>1. IInv => CodeReuseNeedsARace
      BY DEF IInv, Recorded, CodeReuseNeedsARace
<1> QED
    BY <1>1, Invariance, PTL

\* issueTokens: of the sessions whose login got its count, n concurrent logins
\* exceed SessionMaxDevices by at most n - 1.
THEOREM SessionsAreLimited == Spec => []SessionLimit
<1>1. IInv => SessionLimit
      BY DEF IInv
<1> QED
    BY <1>1, Invariance, PTL

\* Login: n concurrent logins get at most MaxLoginAttempts - 2 + n wrong answers
\* that were counted, whatever else the database refuses.
THEOREM AnswersAreLimited == Spec => []WrongAnswersBound
<1>1. IInv => WrongAnswersBound
      <2> SUFFICES ASSUME IInv PROVE WrongAnswersBound
          OBVIOUS
      <2>1. wrong \in Nat /\ Cardinality(Guessing) \in Nat /\ Cardinality(Request) \in Nat
            BY GuessingBase, Sizes DEF IInv, TypeOK
      <2> QED
          BY <2>1, ConfigAssumption DEF IInv, AnswersBounded, WrongAnswersBound
<1> QED
    BY <1>1, Invariance, PTL

\* After a reset a session of the old password needs a race or a cut.
THEOREM OldSessionsAreRevoked == Spec => []OldSessionsNeedARace
<1>1. IInv => OldSessionsNeedARace
      BY DEF IInv, OldAwaitReset, OldSessionsNeedARace, NoResetUnderWay
<1> QED
    BY <1>1, Invariance, PTL

=============================================================================
