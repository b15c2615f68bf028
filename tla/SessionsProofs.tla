---------------------------- MODULE SessionsProofs ----------------------------
(***************************************************************************)
(* Proofs about Sessions, for any number of sessions, pairs, users,        *)
(* devices and concurrent requests.                                        *)
(***************************************************************************)
EXTENDS Sessions, TLAPS

InFlight(r) == req[r].pc # "idle"

\* A request in flight carries a token that was issued and has been presented.
RequestsHoldTokens ==
  \A r \in Request :
    InFlight(r) => /\ req[r].tok \in Jti
                   /\ Issued(req[r].tok)
                   /\ presented[req[r].tok] # 0

\* Tokens name stored sessions; what is not issued has not been presented.
TokensNameSessions ==
  \A j \in Jti : IF Issued(j) THEN status[pair[j].sid] # "none"
                              ELSE presented[j] = 0

\* A session has an owner only once it is stored.
OwnersAreStored == \A s \in SessionId : owner[s] # None => status[s] # "none"

\* No exchange has re-keyed s and none of its tokens was presented twice.
Clean(s) ==
  /\ s \notin exchanged
  /\ \A j \in Jti : Issued(j) /\ pair[j].sid = s => presented[j] # 2

\* Every token of s but the current one has been presented and its request is
\* over, no token is in the hands of two requests, and none found a mismatch.
Undisputed(s) ==
  /\ status[s] # "replayed"
  /\ \A j \in Jti : Issued(j) /\ pair[j].sid = s /\ j # current[s] =>
       /\ presented[j] # 0
       /\ \A r \in Request : InFlight(r) => req[r].tok # j
  /\ \A r \in Request : InFlight(r) /\ pair[req[r].tok].sid = s =>
       /\ req[r].pc # "mismatch"
       /\ \A q \in Request : InFlight(q) /\ req[q].tok = req[r].tok => q = r

CleanSessions == \A s \in SessionId : Clean(s) => Undisputed(s)

IInv ==
  /\ TypeOK
  /\ RequestsHoldTokens
  /\ TokensNameSessions
  /\ OwnersAreStored
  /\ CurrentIsOwnToken
  /\ CleanSessions

-----------------------------------------------------------------------------
\* An issued pair has the claims it was issued with, and they differ from none.
LEMMA ClaimsOfIssued ==
  ASSUME TypeOK, NEW j \in Jti, Issued(j)
  PROVE  /\ pair[j] \in Claims
         /\ pair[j].sub \in User
         /\ pair[j].did \in Device
         /\ pair[j].sid \in SessionId
  BY DEF TypeOK, Issued, Claims

\* The claims of a token never look like an unused jti.
LEMMA ClaimsAreNotNoPair ==
  ASSUME NEW c \in Claims
  PROVE  c # NoPair
  BY NoneAssumption DEF Claims, NoPair

\* IssueTokenPair adds well-formed claims under one jti and changes no other.
LEMMA IssueTokenPairStep ==
  ASSUME TypeOK, NEW j \in Jti, NEW u \in User, NEW d \in Device,
         NEW s \in SessionId, NEW p \in Jti \union {None},
         IssueTokenPair(j, u, d, s, p)
  PROVE  /\ ~Issued(j)
         /\ Issued(j)'
         /\ pair'[j].sid = s
         /\ pair' \in [Jti -> Claims \union {NoPair}]
         /\ \A i \in Jti : i # j => pair'[i] = pair[i]
  <1> DEFINE c == [sub |-> u, did |-> d, sid |-> s, parent |-> p]
  <1>1. c \in Claims
    BY DEF Claims
  <1>2. c # NoPair
    BY <1>1, ClaimsAreNotNoPair
  <1>3. /\ ~Issued(j)
        /\ pair' = [pair EXCEPT ![j] = c]
    BY DEF IssueTokenPair
  <1>4. /\ pair'[j] = c
        /\ \A i \in Jti : i # j => pair'[i] = pair[i]
        /\ pair' \in [Jti -> Claims \union {NoPair}]
    BY <1>1, <1>3 DEF TypeOK
  <1> QED
    BY <1>2, <1>3, <1>4 DEF Issued

\* The type invariant is preserved by every step.
LEMMA TypeStep == RequestsHoldTokens /\ TypeOK /\ [Next]_vars => TypeOK'
  <1> SUFFICES ASSUME RequestsHoldTokens, TypeOK, [Next]_vars
               PROVE  TypeOK'
    OBVIOUS
  <1> USE DEF TypeOK, store, history
  <1>1. ASSUME NEW t \in Token, Expire(t)
        PROVE  TypeOK'
    BY <1>1 DEF Expire
  <1>2. ASSUME NEW s \in SessionId, NEW u \in User, NEW d \in Device, NEW j \in Jti,
               createSession(s, u, d, j)
        PROVE  TypeOK'
    <2>1. IssueTokenPair(j, u, d, s, None)
      BY <1>2 DEF createSession
    <2>2. pair' \in [Jti -> Claims \union {NoPair}]
      BY <2>1, IssueTokenPairStep
    <2> QED
      BY <1>2, <2>2 DEF createSession, Status
  <1>3. ASSUME NEW r \in Request, NEW j \in Jti, NEW d \in Device, RotateCheck(r, j, d)
        PROVE  TypeOK'
    BY <1>3 DEF RotateCheck, ReqState
  <1>4. ASSUME NEW r \in Request, RotateCompare(r)
        PROVE  TypeOK'
    BY <1>4 DEF RotateCompare, ReqState
  <1>5. ASSUME NEW r \in Request, NEW j \in Jti, RotateCommit(r, j)
        PROVE  TypeOK'
    <2> DEFINE old == req[r].tok
    <2>1. old \in Jti /\ Issued(old)
      BY <1>5 DEF RotateCommit, RequestsHoldTokens, InFlight
    <2>2. pair[old].sub \in User /\ pair[old].did \in Device /\ pair[old].sid \in SessionId
      BY <2>1, ClaimsOfIssued
    <2>3. IssueTokenPair(j, pair[old].sub, pair[old].did, pair[old].sid, old)
      BY <1>5 DEF RotateCommit
    <2>4. pair' \in [Jti -> Claims \union {NoPair}]
      BY <2>1, <2>2, <2>3, IssueTokenPairStep
    <2> QED
      BY <1>5, <2>2, <2>4 DEF RotateCommit, ReqState, Idle
  <1>6. ASSUME NEW r \in Request, RotateFail(r)
        PROVE  TypeOK'
    BY <1>6 DEF RotateFail, ReqState, Idle
  <1>7. ASSUME NEW r \in Request, RotateRevokeFamily(r)
        PROVE  TypeOK'
    BY <1>7 DEF RotateRevokeFamily, ReqState, Idle, Status
  <1>8. ASSUME NEW c \in Jti, NEW s \in SessionId, NEW j \in Jti,
               ExchangeBiometricToken(c, s, j)
        PROVE  TypeOK'
    <2>1. Issued(c)
      BY <1>8 DEF ExchangeBiometricToken, verify
    <2>2. pair[c].sub \in User /\ pair[c].did \in Device
      BY <2>1, ClaimsOfIssued
    <2>3. IssueTokenPair(j, pair[c].sub, pair[c].did, s, None)
      BY <1>8 DEF ExchangeBiometricToken
    <2>4. pair' \in [Jti -> Claims \union {NoPair}]
      BY <2>2, <2>3, IssueTokenPairStep
    <2> QED
      BY <1>8, <2>4 DEF ExchangeBiometricToken
  <1>9. ASSUME NEW c \in Jti, Logout(c)
        PROVE  TypeOK'
    BY <1>9 DEF Logout, Status
  <1>10. ASSUME NEW c \in Jti, LogoutAll(c)
         PROVE  TypeOK'
    BY <1>10 DEF LogoutAll, Status
  <1>11. CASE UNCHANGED vars
    BY <1>11 DEF vars
  <1> QED
    BY <1>1, <1>2, <1>3, <1>4, <1>5, <1>6, <1>7, <1>8, <1>9, <1>10, <1>11
       DEF Next, Rotate

-----------------------------------------------------------------------------
\* What is left of the invariant once the types are known.
Rest ==
  /\ RequestsHoldTokens
  /\ TokensNameSessions
  /\ OwnersAreStored
  /\ CurrentIsOwnToken
  /\ CleanSessions

\* The empty session repository satisfies the invariant.
LEMMA InitIInv == Init => IInv
  <1> SUFFICES ASSUME Init PROVE IInv
    OBVIOUS
  <1>1. TypeOK
    BY DEF Init, TypeOK, Status, ReqState, Idle
  <1>2. \A j \in Jti : ~Issued(j)
    BY DEF Init, Issued
  <1>3. \A r \in Request : ~InFlight(r)
    BY DEF Init, InFlight, Idle
  <1> QED
    BY <1>1, <1>2, <1>3 DEF Init, IInv, RequestsHoldTokens, TokensNameSessions,
       OwnersAreStored, CurrentIsOwnToken, CleanSessions, Undisputed

\* A step that changes no token, request or history and ends sessions only as
\* revoked keeps the invariant: Logout and LogoutAll.
LEMMA EndingKeepsRest ==
  ASSUME IInv,
         UNCHANGED <<owner, current, pair, req, history>>,
         \A s \in SessionId : \/ status'[s] = status[s]
                              \/ status[s] # "none" /\ status'[s] = "revoked"
  PROVE  Rest'
  <1> USE DEF IInv, history
  <1>1. \A j \in Jti : Issued(j)' <=> Issued(j)
    BY DEF Issued
  <1>2. \A r \in Request : InFlight(r)' <=> InFlight(r)
    BY DEF InFlight
  <1>3. \A s \in SessionId : Clean(s)' <=> Clean(s)
    BY <1>1 DEF Clean
  <1>4. RequestsHoldTokens'
    BY <1>1, <1>2 DEF RequestsHoldTokens
  <1>5. TokensNameSessions'
    BY <1>1, ClaimsOfIssued DEF TokensNameSessions
  <1>6. OwnersAreStored' /\ CurrentIsOwnToken'
    BY <1>1 DEF OwnersAreStored, CurrentIsOwnToken
  <1>7. CleanSessions'
    BY <1>1, <1>2, <1>3 DEF CleanSessions, Undisputed
  <1> QED
    BY <1>4, <1>5, <1>6, <1>7 DEF Rest

\* A new session: its first token is fresh, so it is clean from the start.
LEMMA CreateKeepsRest ==
  ASSUME IInv, NEW s \in SessionId, NEW u \in User, NEW d \in Device, NEW j \in Jti,
         createSession(s, u, d, j)
  PROVE  Rest'
  <1> USE DEF IInv, history
  <1>1. /\ ~Issued(j) /\ Issued(j)' /\ pair'[j].sid = s
        /\ \A i \in Jti : i # j => pair'[i] = pair[i]
    BY IssueTokenPairStep DEF createSession
  <1>2. \A i \in Jti : i # j => (Issued(i)' <=> Issued(i))
    BY <1>1 DEF Issued
  <1>3. \A r \in Request : (InFlight(r)' <=> InFlight(r)) /\ req'[r] = req[r]
    BY DEF createSession, InFlight
  <1>4. /\ status[s] = "none" /\ status'[s] = "active"
        /\ current'[s] = j
        /\ \A x \in SessionId : x # s => /\ status'[x] = status[x]
                                         /\ owner'[x] = owner[x]
                                         /\ current'[x] = current[x]
        /\ presented' = presented /\ exchanged' = exchanged
    BY DEF createSession, TypeOK
  <1>5. \A i \in Jti : Issued(i) => pair[i].sid # s /\ i # j
    BY <1>1, <1>4 DEF TokensNameSessions
  <1>6. \A r \in Request : InFlight(r) => req[r].tok # j
    BY <1>1 DEF RequestsHoldTokens
  <1>7. RequestsHoldTokens'
    BY <1>2, <1>3, <1>4, <1>6 DEF RequestsHoldTokens
  <1>8. TokensNameSessions'
    BY <1>1, <1>2, <1>4, ClaimsOfIssued DEF TokensNameSessions
  <1>9. OwnersAreStored'
    BY <1>4 DEF OwnersAreStored
  <1>10. CurrentIsOwnToken'
    BY <1>1, <1>2, <1>4 DEF CurrentIsOwnToken
  <1>11. ASSUME NEW x \in SessionId, Clean(x)', x # s
         PROVE  Clean(x)
    BY <1>11, <1>1, <1>2, <1>4 DEF Clean
  <1>12. CleanSessions'
    <2> SUFFICES ASSUME NEW x \in SessionId, Clean(x)'
                 PROVE  Undisputed(x)'
      BY DEF CleanSessions
    <2> QED
      BY <1>1, <1>2, <1>3, <1>4, <1>5, <1>6, <1>11 DEF CleanSessions, Undisputed, RequestsHoldTokens
  <1> QED
    BY <1>7, <1>8, <1>9, <1>10, <1>12 DEF Rest

\* A request passes the status check.  Either its token is the current one and
\* in no other hands, or the session stops being clean.
LEMMA CheckKeepsRest ==
  ASSUME IInv, NEW r \in Request, NEW j \in Jti, NEW d \in Device, RotateCheck(r, j, d)
  PROVE  Rest'
  <1> USE DEF IInv, store
  <1>1. \A i \in Jti : Issued(i)' <=> Issued(i)
    BY DEF RotateCheck, Issued
  <1>2. /\ ~InFlight(r) /\ InFlight(r)' /\ Issued(j)
        /\ req'[r].tok = j /\ req'[r].pc = "checked"
        /\ \A q \in Request : q # r => req'[q] = req[q] /\ (InFlight(q)' <=> InFlight(q))
    BY DEF RotateCheck, InFlight, TypeOK, verify
  <1>3. /\ presented'[j] # 0
        /\ presented'[j] # 2 => presented[j] = 0
        /\ \A i \in Jti : i # j => presented'[i] = presented[i]
    BY DEF RotateCheck, TypeOK
  <1>4. pair' = pair /\ UNCHANGED store /\ exchanged' = exchanged
    BY DEF RotateCheck
  <1>5. RequestsHoldTokens'
    BY <1>1, <1>2, <1>3, <1>4 DEF RequestsHoldTokens
  <1>6. TokensNameSessions'
    BY <1>1, <1>2, <1>3, <1>4 DEF TokensNameSessions
  <1>7. OwnersAreStored' /\ CurrentIsOwnToken'
    BY <1>1, <1>4 DEF OwnersAreStored, CurrentIsOwnToken
  <1>8. ASSUME NEW x \in SessionId, Clean(x)'
        PROVE  Undisputed(x)'
    <2>1. Clean(x)
      BY <1>8, <1>1, <1>3, <1>4 DEF Clean
    <2>2. Undisputed(x)
      BY <2>1 DEF CleanSessions
    <2>3. CASE pair[j].sid # x
      BY <1>1, <1>2, <1>3, <1>4, <2>2, <2>3 DEF Undisputed
    <2>4. CASE pair[j].sid = x
      <3>1. presented[j] = 0
        BY <1>8, <1>1, <1>2, <1>3, <1>4, <2>4 DEF Clean
      <3>2. j = current[x]
        BY <1>2, <2>2, <2>4, <3>1 DEF Undisputed
      <3>3. \A q \in Request : InFlight(q) => req[q].tok # j
        BY <3>1 DEF RequestsHoldTokens
      <3> QED
        BY <1>1, <1>2, <1>3, <1>4, <2>2, <2>4, <3>2, <3>3 DEF Undisputed
    <2> QED
      BY <2>3, <2>4
  <1>9. CleanSessions'
    BY <1>8 DEF CleanSessions
  <1> QED
    BY <1>5, <1>6, <1>7, <1>9 DEF Rest

\* The comparison: in a clean session the token in flight is the current one.
LEMMA CompareKeepsRest ==
  ASSUME IInv, NEW r \in Request, RotateCompare(r)
  PROVE  Rest'
  <1> USE DEF IInv, store, history
  <1> DEFINE tok == req[r].tok
  <1>1. \A i \in Jti : Issued(i)' <=> Issued(i)
    BY DEF RotateCompare, Issued
  <1>2. /\ InFlight(r) /\ InFlight(r)'
        /\ req'[r].tok = tok
        /\ req'[r].pc = "mismatch" => current[pair[tok].sid] # tok
        /\ \A q \in Request : q # r => req'[q] = req[q]
    BY DEF RotateCompare, InFlight, TypeOK
  <1>3. \A q \in Request : InFlight(q)' <=> InFlight(q)
    BY <1>2 DEF InFlight
  <1>4. pair' = pair /\ UNCHANGED store /\ UNCHANGED history
    BY DEF RotateCompare
  <1>5. RequestsHoldTokens'
    BY <1>1, <1>2, <1>3, <1>4 DEF RequestsHoldTokens
  <1>6. TokensNameSessions' /\ OwnersAreStored' /\ CurrentIsOwnToken'
    BY <1>1, <1>4 DEF TokensNameSessions, OwnersAreStored, CurrentIsOwnToken
  <1>7. ASSUME NEW x \in SessionId, Clean(x)'
        PROVE  Undisputed(x)'
    <2>1. Clean(x)
      BY <1>7, <1>1, <1>4 DEF Clean
    <2>2. Undisputed(x)
      BY <2>1 DEF CleanSessions
    <2>3. Issued(tok) /\ tok \in Jti
      BY <1>2 DEF RequestsHoldTokens
    <2>4. pair[tok].sid = x => req'[r].pc # "mismatch"
      BY <1>2, <2>2, <2>3 DEF Undisputed
    <2> QED
      BY <1>1, <1>2, <1>3, <1>4, <2>2, <2>4 DEF Undisputed
  <1>8. CleanSessions'
    BY <1>7 DEF CleanSessions
  <1> QED
    BY <1>5, <1>6, <1>8 DEF Rest

\* The rotation itself: the replaced token leaves its only holder's hands.
LEMMA CommitKeepsRest ==
  ASSUME IInv, NEW r \in Request, NEW j \in Jti, RotateCommit(r, j)
  PROVE  Rest'
  <1> USE DEF IInv, history
  <1> DEFINE old == req[r].tok
             sid == pair[old].sid
  <1>1. /\ InFlight(r) /\ ~InFlight(r)'
        /\ \A q \in Request : q # r => req'[q] = req[q] /\ (InFlight(q)' <=> InFlight(q))
    BY DEF RotateCommit, InFlight, TypeOK, Idle
  <1>2. old \in Jti /\ Issued(old) /\ presented[old] # 0
    BY <1>1 DEF RequestsHoldTokens
  <1>3. pair[old].sub \in User /\ pair[old].did \in Device /\ sid \in SessionId
    BY <1>2, ClaimsOfIssued
  <1>4. IssueTokenPair(j, pair[old].sub, pair[old].did, sid, old)
    BY DEF RotateCommit
  <1>5. /\ ~Issued(j) /\ Issued(j)' /\ pair'[j].sid = sid
        /\ \A i \in Jti : i # j => pair'[i] = pair[i]
    BY <1>2, <1>3, <1>4, IssueTokenPairStep
  <1>6. \A i \in Jti : i # j => (Issued(i)' <=> Issued(i))
    BY <1>5 DEF Issued
  <1>7. /\ current'[sid] = j
        /\ \A x \in SessionId : x # sid => current'[x] = current[x]
        /\ UNCHANGED <<status, owner, presented, exchanged>>
    BY <1>3 DEF RotateCommit, TypeOK
  <1>8. presented[j] = 0 /\ \A q \in Request : InFlight(q) => req[q].tok # j
    BY <1>5 DEF TokensNameSessions, RequestsHoldTokens
  <1>9. RequestsHoldTokens'
    BY <1>1, <1>6, <1>7, <1>8 DEF RequestsHoldTokens
  <1>10. TokensNameSessions'
    BY <1>2, <1>5, <1>6, <1>7 DEF TokensNameSessions
  <1>11. OwnersAreStored' /\ CurrentIsOwnToken'
    BY <1>5, <1>6, <1>7 DEF OwnersAreStored, CurrentIsOwnToken
  <1>12. ASSUME NEW x \in SessionId, Clean(x)'
         PROVE  Undisputed(x)'
    <2>1. Clean(x)
      BY <1>12, <1>5, <1>6, <1>7 DEF Clean
    <2>2. Undisputed(x)
      BY <2>1 DEF CleanSessions
    <2>3. \A q \in Request : InFlight(q)' =>
            /\ q # r /\ InFlight(q) /\ req'[q] = req[q]
            /\ req[q].tok \in Jti /\ req[q].tok # j
            /\ pair'[req[q].tok] = pair[req[q].tok]
      BY <1>1, <1>5, <1>8 DEF RequestsHoldTokens
    <2>4. CASE x # sid
      BY <1>5, <1>6, <1>7, <2>2, <2>3, <2>4 DEF Undisputed
    <2>5. CASE x = sid
      <3>1. old = current[x]
        BY <1>1, <1>2, <2>2, <2>5 DEF Undisputed
      <3>2. \A q \in Request : InFlight(q)' => req[q].tok # old
        BY <1>1, <2>2, <2>3, <2>5 DEF Undisputed
      <3>3. ASSUME NEW i \in Jti, Issued(i)', pair'[i].sid = x, i # current'[x]
            PROVE  /\ presented'[i] # 0
                   /\ \A q \in Request : InFlight(q)' => req'[q].tok # i
        <4>1. i # j /\ Issued(i) /\ pair[i].sid = x
          BY <1>5, <1>6, <1>7, <2>5, <3>3
        <4>2. presented[i] # 0 /\ (i # old => \A q \in Request : InFlight(q) => req[q].tok # i)
          BY <1>2, <2>2, <3>1, <4>1 DEF Undisputed
        <4> QED
          BY <1>7, <2>3, <3>2, <4>2
      <3>4. \A q \in Request : InFlight(q)' => pair'[req'[q].tok].sid # x
        BY <2>2, <2>3, <3>1, <3>2 DEF Undisputed, RequestsHoldTokens
      <3> QED
        BY <1>7, <2>2, <3>3, <3>4 DEF Undisputed
    <2> QED
      BY <2>4, <2>5
  <1>13. CleanSessions'
    BY <1>12 DEF CleanSessions
  <1> QED
    BY <1>9, <1>10, <1>11, <1>13 DEF Rest

\* A request ends without a write, or after it has condemned its family: only a
\* session that is not clean can be condemned.
LEMMA EndOfRequestKeepsRest ==
  ASSUME IInv, NEW r \in Request, RotateFail(r) \/ RotateRevokeFamily(r)
  PROVE  Rest'
  <1> USE DEF IInv, store, history
  <1> DEFINE sid == pair[req[r].tok].sid
  <1>1. /\ InFlight(r) /\ ~InFlight(r)'
        /\ \A q \in Request : q # r => req'[q] = req[q] /\ (InFlight(q)' <=> InFlight(q))
    BY DEF RotateFail, RotateRevokeFamily, InFlight, TypeOK, Idle
  <1>2. UNCHANGED <<owner, current, pair, presented, exchanged>>
    BY DEF RotateFail, RotateRevokeFamily
  <1>3. \A i \in Jti : Issued(i)' <=> Issued(i)
    BY <1>2 DEF Issued
  <1>4. req[r].tok \in Jti /\ Issued(req[r].tok) /\ status[sid] # "none"
    BY <1>1 DEF RequestsHoldTokens, TokensNameSessions
  <1>5. \A x \in SessionId : \/ status'[x] = status[x]
                             \/ /\ req[r].pc = "mismatch"
                                /\ x = sid /\ status'[x] = "replayed"
    BY DEF RotateFail, RotateRevokeFamily, TypeOK
  <1>6. RequestsHoldTokens'
    BY <1>1, <1>2, <1>3 DEF RequestsHoldTokens
  <1>7. TokensNameSessions'
    BY <1>2, <1>3, <1>5, ClaimsOfIssued DEF TokensNameSessions
  <1>8. OwnersAreStored' /\ CurrentIsOwnToken'
    BY <1>2, <1>3, <1>4, <1>5 DEF OwnersAreStored, CurrentIsOwnToken
  <1>9. ASSUME NEW x \in SessionId, Clean(x)'
        PROVE  Undisputed(x)'
    <2>1. Undisputed(x)
      BY <1>9, <1>2, <1>3 DEF Clean, CleanSessions
    <2>2. status'[x] = status[x]
      BY <1>1, <1>5, <2>1 DEF Undisputed
    <2> QED
      BY <1>1, <1>2, <1>3, <2>1, <2>2 DEF Undisputed
  <1>10. CleanSessions'
    BY <1>9 DEF CleanSessions
  <1> QED
    BY <1>6, <1>7, <1>8, <1>10 DEF Rest

\* A biometric exchange re-keys a session, which is no longer clean then.
LEMMA ExchangeKeepsRest ==
  ASSUME IInv, NEW c \in Jti, NEW s \in SessionId, NEW j \in Jti,
         ExchangeBiometricToken(c, s, j)
  PROVE  Rest'
  <1> USE DEF IInv
  <1>1. Issued(c)
    BY DEF ExchangeBiometricToken, verify
  <1>2. pair[c].sub \in User /\ pair[c].did \in Device
    BY <1>1, ClaimsOfIssued
  <1>3. /\ ~Issued(j) /\ Issued(j)' /\ pair'[j].sid = s
        /\ \A i \in Jti : i # j => pair'[i] = pair[i]
    BY <1>2, IssueTokenPairStep DEF ExchangeBiometricToken
  <1>4. \A i \in Jti : i # j => (Issued(i)' <=> Issued(i))
    BY <1>3 DEF Issued
  <1>5. /\ current'[s] = j /\ status[s] # "none"
        /\ \A x \in SessionId : x # s => current'[x] = current[x]
        /\ exchanged' = exchanged \union {s}
        /\ UNCHANGED <<status, owner, req, presented>>
    BY DEF ExchangeBiometricToken, TypeOK
  <1>6. \A q \in Request : InFlight(q)' <=> InFlight(q)
    BY <1>5 DEF InFlight
  <1>7. \A q \in Request : InFlight(q) => req[q].tok # j /\ req[q].tok \in Jti
    BY <1>3 DEF RequestsHoldTokens
  <1>8. RequestsHoldTokens'
    BY <1>4, <1>5, <1>6, <1>7 DEF RequestsHoldTokens
  <1>9. TokensNameSessions'
    BY <1>3, <1>4, <1>5 DEF TokensNameSessions
  <1>10. OwnersAreStored' /\ CurrentIsOwnToken'
    BY <1>3, <1>4, <1>5 DEF OwnersAreStored, CurrentIsOwnToken
  <1>11. ASSUME NEW x \in SessionId, Clean(x)'
         PROVE  Undisputed(x)'
    <2>1. x # s
      BY <1>5, <1>11 DEF Clean
    <2>2. Clean(x)
      BY <1>3, <1>4, <1>5, <1>11, <2>1 DEF Clean
    <2>3. Undisputed(x)
      BY <2>2 DEF CleanSessions
    <2> QED
      BY <1>3, <1>4, <1>5, <1>6, <1>7, <2>1, <2>3 DEF Undisputed
  <1>12. CleanSessions'
    BY <1>11 DEF CleanSessions
  <1> QED
    BY <1>8, <1>9, <1>10, <1>12 DEF Rest

\* The logouts satisfy the hypotheses of EndingKeepsRest.
LEMMA LogoutKeepsRest ==
  ASSUME IInv, NEW c \in Jti, Logout(c) \/ LogoutAll(c)
  PROVE  Rest'
  <1> USE DEF IInv
  <1>1. Issued(c)
    BY DEF Logout, LogoutAll, verify
  <1>2. pair[c].sid \in SessionId /\ status[pair[c].sid] # "none" /\ pair[c].sub \in User
    BY <1>1, ClaimsOfIssued DEF TokensNameSessions
  <1>3. UNCHANGED <<owner, current, pair, req, history>>
    BY DEF Logout, LogoutAll
  <1>4. \A s \in SessionId : \/ status'[s] = status[s]
                             \/ status[s] # "none" /\ status'[s] = "revoked"
    BY <1>2, NoneAssumption DEF Logout, LogoutAll, TypeOK, OwnersAreStored
  <1> QED
    BY <1>3, <1>4, EndingKeepsRest

\* Every step of a login, refresh, exchange or logout keeps the invariant.
LEMMA IInvStep == IInv /\ [Next]_vars => IInv'
  <1> SUFFICES ASSUME IInv, [Next]_vars PROVE IInv'
    OBVIOUS
  <1>1. TypeOK'
    BY TypeStep DEF IInv
  <1>2. ASSUME NEW t \in Token, Expire(t)
        PROVE  Rest'
    BY <1>2, EndingKeepsRest DEF Expire, store
  <1>3. ASSUME UNCHANGED vars
        PROVE  Rest'
    BY <1>3, EndingKeepsRest DEF vars, store
  <1>4. Rest'
    BY <1>2, <1>3, CreateKeepsRest, CheckKeepsRest, CompareKeepsRest, CommitKeepsRest,
       EndOfRequestKeepsRest, ExchangeKeepsRest, LogoutKeepsRest DEF Next, Rotate
  <1> QED
    BY <1>1, <1>4 DEF IInv, Rest

-----------------------------------------------------------------------------
\* The inductive invariant holds in every reachable state.
THEOREM Invariance == Spec => []IInv
  BY InitIInv, IInvStep, PTL DEF Spec

\* Every variable keeps its type.
THEOREM TypeCorrect == Spec => []TypeOK
  <1>1. IInv => TypeOK
    BY DEF IInv
  <1> QED
    BY <1>1, Invariance, PTL

\* The hash stored in a session is always that of a token issued for it.
THEOREM OwnTokenAlways == Spec => []CurrentIsOwnToken
  <1>1. IInv => CurrentIsOwnToken
    BY DEF IInv
  <1> QED
    BY <1>1, Invariance, PTL

\* RotateRefreshToken never condemns a family whose tokens were each presented
\* once and which no biometric exchange re-keyed.
THEOREM AlarmsAreJustified == Spec => []NoFalseAlarm
  <1>1. IInv => NoFalseAlarm
    BY DEF IInv, CleanSessions, Undisputed, Clean, NoFalseAlarm
  <1> QED
    BY <1>1, Invariance, PTL

\* A replaced refresh token is never stored again, however late a racing
\* RotateRefreshToken writes.
THEOREM ReplacedForGood == Spec => NoTokenResurrection
  <1> DEFINE A == \A s \in SessionId :
                    current'[s] # current[s] => /\ current'[s] \in Jti
                                                /\ ~Issued(current'[s])
  <1>1. IInv /\ [Next]_vars => [A]_vars
    <2> SUFFICES ASSUME IInv, Next PROVE A
      OBVIOUS
    <2>1. ASSUME NEW s \in SessionId, NEW j \in Jti, ~Issued(j),
                 current' = [current EXCEPT ![s] = j]
          PROVE  A
      BY <2>1 DEF IInv, TypeOK
    <2>2. ASSUME NEW s \in SessionId, NEW u \in User, NEW d \in Device, NEW j \in Jti,
                 createSession(s, u, d, j)
          PROVE  A
      BY <2>1, <2>2 DEF createSession, IssueTokenPair
    <2>3. ASSUME NEW r \in Request, NEW j \in Jti, RotateCommit(r, j)
          PROVE  A
      <3>1. pair[req[r].tok].sid \in SessionId
        BY <2>3, ClaimsOfIssued DEF IInv, RotateCommit, RequestsHoldTokens, InFlight
      <3> QED
        BY <2>1, <2>3, <3>1 DEF RotateCommit, IssueTokenPair
    <2>4. ASSUME NEW c \in Jti, NEW s \in SessionId, NEW j \in Jti,
                 ExchangeBiometricToken(c, s, j)
          PROVE  A
      BY <2>1, <2>4 DEF ExchangeBiometricToken, IssueTokenPair
    <2> QED
      BY <2>2, <2>3, <2>4 DEF Next, Rotate, Expire, RotateCheck, RotateCompare, RotateFail,
         RotateRevokeFamily, Logout, LogoutAll, store
  <1> QED
    BY <1>1, Invariance, PTL DEF Spec, NoTokenResurrection

\* The session store implements the abstract life cycle of a session.
THEOREM Refinement == Spec => SessionsRefinement
  <1>1. Init => Lifecycle!Init
    BY DEF Init, Lifecycle!Init
  <1>2. IInv /\ [Next]_vars => [Lifecycle!Next]_status
    <2> SUFFICES ASSUME IInv, Next, status' # status PROVE Lifecycle!Next
      BY DEF vars, store
    <2>1. ASSUME NEW s \in SessionId, NEW u \in User, NEW d \in Device, NEW j \in Jti,
                 createSession(s, u, d, j)
          PROVE  Lifecycle!Next
      BY <2>1 DEF createSession, Lifecycle!Next, Lifecycle!Create
    <2>2. ASSUME NEW S \in SUBSET SessionId, NEW why \in Lifecycle!EndStatus,
                 \A s \in S : status[s] # "none",
                 status' = [s \in SessionId |-> IF s \in S THEN why ELSE status[s]]
          PROVE  Lifecycle!Next
      BY <2>2 DEF Lifecycle!Next, Lifecycle!End
    <2>3. ASSUME NEW s \in SessionId, NEW why \in Lifecycle!EndStatus,
                 status[s] # "none", status' = [status EXCEPT ![s] = why]
          PROVE  Lifecycle!Next
      <3>1. status' = [x \in SessionId |-> IF x \in {s} THEN why ELSE status[x]]
        BY <2>3 DEF IInv, TypeOK
      <3>2. {s} \in SUBSET SessionId /\ \A x \in {s} : status[x] # "none"
        BY <2>3
      <3>3. Lifecycle!End({s}, why)
        BY <3>1, <3>2 DEF Lifecycle!End
      <3> QED
        BY <3>2, <3>3 DEF Lifecycle!Next
    <2>4. ASSUME NEW r \in Request, RotateRevokeFamily(r)
          PROVE  Lifecycle!Next
      <3>1. req[r].tok \in Jti /\ Issued(req[r].tok)
        BY <2>4 DEF RotateRevokeFamily, IInv, RequestsHoldTokens, InFlight
      <3>2. pair[req[r].tok].sid \in SessionId /\ status[pair[req[r].tok].sid] # "none"
        BY <3>1, ClaimsOfIssued DEF IInv, TokensNameSessions
      <3> QED
        BY <2>3, <2>4, <3>2 DEF RotateRevokeFamily, Lifecycle!EndStatus
    <2>5. ASSUME NEW c \in Jti, Logout(c)
          PROVE  Lifecycle!Next
      <3>1. pair[c].sid \in SessionId /\ status[pair[c].sid] # "none"
        BY <2>5, ClaimsOfIssued DEF Logout, verify, IInv, TokensNameSessions
      <3> QED
        BY <2>3, <2>5, <3>1 DEF Logout, Lifecycle!EndStatus
    <2>6. ASSUME NEW c \in Jti, LogoutAll(c)
          PROVE  Lifecycle!Next
      <3> DEFINE S == {s \in SessionId : owner[s] = pair[c].sub}
      <3>1. pair[c].sub \in User
        BY <2>6, ClaimsOfIssued DEF LogoutAll, verify, IInv
      <3>2. \A s \in S : status[s] # "none"
        BY <3>1, NoneAssumption DEF IInv, OwnersAreStored
      <3>3. status' = [s \in SessionId |-> IF s \in S THEN "revoked" ELSE status[s]]
        BY <2>6 DEF LogoutAll
      <3> QED
        BY <2>2, <3>2, <3>3 DEF Lifecycle!EndStatus
    <2> QED
      BY <2>1, <2>4, <2>5, <2>6 DEF Next, Rotate, Expire, RotateCheck, RotateCompare,
         RotateFail, RotateCommit, ExchangeBiometricToken, store
  <1> QED
    BY <1>1, <1>2, Invariance, PTL DEF Spec, SessionsRefinement, Lifecycle!Spec

=============================================================================
