-------------------------- MODULE BearerAccessProofs --------------------------
(***************************************************************************)
(* Proofs about BearerAccess, for any number of sessions and concurrent    *)
(* requests and any lifetimes.  What carries LogoutGrace: no token is      *)
(* issued in the future, so that none is late when its session ends; and   *)
(* from then on the refreshes that may still issue a late token, those     *)
(* that have issued one, and the late tokens delivered are together no     *)
(* more than the refreshes the end of the session overtook.  Payment adds  *)
(* none, for nobody ever holds the step-up token its route asks for.       *)
(***************************************************************************)
EXTENDS BearerAccess, FiniteSetTheorems, TLAPS

-----------------------------------------------------------------------------
(* Types.                                                                  *)

\* What a request keeps has the type its program counter says.
LEMMA Kept ==
  ASSUME TypeOK, NEW r \in Request
  PROVE  /\ req[r] \in ReqState
         /\ req[r].pc = "admitted" => /\ req[r] = [pc |-> "admitted", tok |-> req[r].tok]
                                      /\ req[r].tok \in AccessToken
         /\ req[r].pc \in {"checked", "matched", "mismatch", "rotated", "exchanged"} =>
              req[r] = [pc |-> req[r].pc, tok |-> req[r].tok] /\ req[r].tok \in Pair
BY DEF TypeOK, ReqState

\* A request with a token or a pair is a request.
LEMMA Keeping ==
  /\ Idle \in ReqState
  /\ \A t \in AccessToken : [pc |-> "admitted", tok |-> t] \in ReqState
  /\ \A p \in Pair, pc \in {"checked", "matched", "mismatch", "rotated", "exchanged"} :
       [pc |-> pc, tok |-> p] \in ReqState
BY DEF ReqState, Idle

\* A pair that is issued is a pair.
LEMMA PairTyped ==
  ASSUME TypeOK, NEW s \in Session
  PROVE  /\ IssueTokenPair(s) \in Pair
         /\ IssueTokenPair(s).sid = s /\ IssueTokenPair(s).iat = now
BY DEF TypeOK, Pair, IssueTokenPair

\* The refreshes under way are finitely many.
LEMMA RacingIsFinite == ASSUME NEW s PROVE Cardinality(Racing(s)) \in Nat
<1>1. Racing(s) \subseteq Request
      BY DEF Racing
<1> QED
    BY <1>1, RequestAssumption, FS_Subset, FS_CardinalityType

\* Ending sessions keeps the types.
LEMMA EndTyped ==
  ASSUME TypeOK, NEW S \in SUBSET Session, NEW st \in {"revoked", "replayed"}, End(S, st)
  PROVE  /\ session' \in [Session -> SessionRecord]
         /\ ended' \in [Session -> Nat] /\ overtaken' \in [Session -> Nat]
<1>1. session' \in [Session -> SessionRecord]
      BY DEF TypeOK, End, SessionRecord
<1>2. ended' \in [Session -> Nat]
      BY DEF TypeOK, End
<1>3. overtaken' \in [Session -> Nat]
      BY RacingIsFinite DEF TypeOK, End
<1> QED
    BY <1>1, <1>2, <1>3

\* A pair that is delivered keeps the types.
LEMMA DeliverTyped ==
  ASSUME TypeOK, NEW p \in Pair, Deliver(p)
  PROVE  access' \in SUBSET AccessToken /\ refresh' \in SUBSET Pair
<1>1. [pair |-> p, stepUp |-> FALSE] \in AccessToken
      BY DEF AccessToken
<1> QED
    BY <1>1 DEF TypeOK, Deliver

\* The empty stores have their types.
LEMMA InitTyped == Init => TypeOK
<1> SUFFICES ASSUME Init PROVE TypeOK
    OBVIOUS
<1>1. [status |-> "none", current |-> 0] \in SessionRecord
      BY DEF SessionRecord
<1> QED
    BY <1>1, Keeping DEF Init, TypeOK

\* Every step keeps the types.
LEMMA TypeStep == TypeOK /\ [Next]_vars => TypeOK'
<1> SUFFICES ASSUME TypeOK, [Next]_vars PROVE TypeOK'
    OBVIOUS
<1>1. CASE Tick
      BY <1>1, BoundAssumption DEF Tick, TypeOK, tokens, history
<1>2. ASSUME NEW s \in Session, Login(s) PROVE TypeOK'
  <2>1. [status |-> "active", current |-> serial + 1] \in SessionRecord /\ serial + 1 \in Nat
        BY DEF TypeOK, SessionRecord
  <2>2. access' \in SUBSET AccessToken /\ refresh' \in SUBSET Pair
        BY <1>2, PairTyped, DeliverTyped DEF Login
  <2> QED
      BY <1>2, <2>1, <2>2 DEF Login, TypeOK, history
<1>3. ASSUME NEW r \in Request, RotateRefreshToken(r) PROVE TypeOK'
  <2>1. ASSUME NEW p \in refresh, RotateCheck(r, p) PROVE TypeOK'
    <3>1. p \in Pair
          BY DEF TypeOK
    <3>2. [pc |-> "checked", tok |-> p] \in ReqState
          BY <3>1, Keeping
    <3> QED
        BY <2>1, <3>2 DEF RotateCheck, TypeOK, tokens, history
  <2>2. CASE RotateCompare(r)
    <3>1. PICK pc \in {"matched", "mismatch"} : req' = [req EXCEPT ![r].pc = pc]
          BY <2>2 DEF RotateCompare
    <3>2. req[r] = [pc |-> "checked", tok |-> req[r].tok] /\ req[r].tok \in Pair
          BY <2>2, Kept DEF RotateCompare
    <3>3. [req[r] EXCEPT !.pc = pc] = [pc |-> pc, tok |-> req[r].tok]
          BY <3>2
    <3>4. [req[r] EXCEPT !.pc = pc] \in ReqState
          BY <3>2, <3>3, Keeping
    <3> QED
        BY <2>2, <3>1, <3>4 DEF RotateCompare, TypeOK, tokens, history
  <2>3. CASE RotateIssue(r)
    <3>1. req[r].tok \in Pair
          BY <2>3, Kept DEF RotateIssue
    <3>2. req[r].tok.sid \in Session
          BY <3>1 DEF Pair
    <3>3. [pc |-> "rotated", tok |-> IssueTokenPair(req[r].tok.sid)] \in ReqState
          BY <3>2, PairTyped, Keeping
    <3> QED
        BY <2>3, <3>3 DEF RotateIssue, TypeOK, history
  <2>4. CASE RotateRevokeFamily(r)
    <3>1. req[r].tok \in Pair
          BY <2>4, Kept DEF RotateRevokeFamily
    <3>2. {req[r].tok.sid} \in SUBSET Session
          BY <3>1 DEF Pair
    <3> QED
        BY <2>4, <3>2, EndTyped, Keeping DEF RotateRevokeFamily, TypeOK, tokens
  <2> QED
      BY <1>3, <2>1, <2>2, <2>3, <2>4 DEF RotateRefreshToken
<1>4. ASSUME NEW r \in Request, Bearer(r) PROVE TypeOK'
  <2>0. req[r].pc = "admitted" => req[r].tok \in AccessToken
        BY Kept
  <2>1. ASSUME NEW t \in access, Authenticate(r, t) PROVE TypeOK'
    <3>1. [pc |-> "admitted", tok |-> t] \in ReqState
          BY Keeping DEF TypeOK
    <3> QED
        BY <2>1, <3>1 DEF Authenticate, TypeOK, tokens, history
  <2>2. CASE Logout(r)
    <3>1. {req[r].tok.pair.sid} \in SUBSET Session
          BY <2>0, <2>2 DEF Logout, AccessToken, Pair
    <3> QED
        BY <2>2, <3>1, EndTyped, Keeping DEF Logout, TypeOK, tokens
  <2>3. CASE LogoutAll(r)
        BY <2>3, EndTyped, Keeping DEF LogoutAll, TypeOK, tokens
  <2>4. CASE PostPayment(r)
    <3>1. req[r].tok.pair.sid \in Session
          BY <2>0, <2>4 DEF PostPayment, AccessToken, Pair
    <3>2. [pair |-> IssueTokenPair(req[r].tok.pair.sid), stepUp |-> TRUE] \in AccessToken
          BY <3>1, PairTyped DEF AccessToken
    <3>3. CASE AuthorizePayment(req[r].tok)
      <4>1. PICK a \in AccessToken : access' = access \union {a}
            BY <3>2, <3>3 DEF AuthorizePayment, IssueStepUpToken
      <4>2. access' \in SUBSET AccessToken
            BY <4>1 DEF TypeOK
      <4>3. serial' \in Nat
            BY <3>3 DEF AuthorizePayment, TypeOK
      <4> QED
          BY <2>4, <4>2, <4>3, Keeping DEF PostPayment, TypeOK, history
    <3>4. CASE UNCHANGED <<access, serial>>
          BY <2>4, <3>4, Keeping DEF PostPayment, TypeOK, history
    <3> QED
        BY <2>4, <3>3, <3>4 DEF PostPayment
  <2>5. ASSUME NEW s \in Session, ExchangeBiometricToken(r, s) PROVE TypeOK'
    <3>1. [pc |-> "exchanged", tok |-> IssueTokenPair(s)] \in ReqState
          BY PairTyped, Keeping
    <3> QED
        BY <2>5, <3>1 DEF ExchangeBiometricToken, TypeOK
  <2> QED
      BY <1>4, <2>1, <2>2, <2>3, <2>4, <2>5 DEF Bearer
<1>5. ASSUME NEW r \in Request, Store(r) PROVE TypeOK'
  <2>1. req[r].tok \in Pair
        BY <1>5, Kept DEF Store
  <2>2. req[r].tok.sid \in Session /\ req[r].tok.serial \in Nat
        BY <2>1 DEF Pair
  <2>3. access' \in SUBSET AccessToken /\ refresh' \in SUBSET Pair
        BY <1>5, <2>1, DeliverTyped DEF Store
  <2>4. session' \in [Session -> SessionRecord]
        BY <1>5, <2>2 DEF Store, TypeOK, SessionRecord
  <2> QED
      BY <1>5, <2>3, <2>4, Keeping DEF Store, TypeOK, history
<1>6. ASSUME NEW r \in Request, Answer(r) PROVE TypeOK'
      BY <1>6, Keeping DEF Answer, TypeOK, tokens, history
<1>7. CASE UNCHANGED vars
      BY <1>7 DEF vars, tokens, history, TypeOK
<1> QED
    BY <1>1, <1>2, <1>3, <1>4, <1>5, <1>6, <1>7 DEF Next

\* The stores and the requests of biometric-auth keep their types.
THEOREM TypeCorrect == Spec => []TypeOK
BY InitTyped, TypeStep, PTL DEF Spec

-----------------------------------------------------------------------------
(* LogoutGrace.                                                            *)

Ended(s) == session[s].status \in {"revoked", "replayed"}

\* What is held or under way belongs to a session that was created, was issued in
\* the past, and is no step-up token.
Held ==
  /\ \A t \in access :
       t.pair.iat <= now /\ t.stepUp = FALSE /\ session[t.pair.sid].status # "none"
  /\ \A p \in refresh : session[p.sid].status # "none"
  /\ \A r \in Request :
       /\ req[r].pc = "admitted" =>
            req[r].tok.stepUp = FALSE /\ session[req[r].tok.pair.sid].status # "none"
       /\ req[r].pc \in {"checked", "matched", "mismatch", "rotated", "exchanged"} =>
            session[req[r].tok.sid].status # "none"
       /\ req[r].pc \in {"rotated", "exchanged"} => req[r].tok.iat <= now

\* The refreshes of an ended session that may yet deliver a late token.
Pending(s) ==
  Racing(s) \union {r \in Request : /\ req[r].pc = "rotated"
                                    /\ req[r].tok.sid = s /\ req[r].tok.iat > ended[s]}

\* An exchange under way for session s does not count as a renewal only when its
\* pair is no later than the end of the session.
Exchanging(s) ==
  \A r \in Request :
    req[r].pc = "exchanged" /\ req[r].tok.sid = s => req[r].tok.iat <= ended[s]

Grace(s) ==
  Ended(s) /\ s \notin renewed =>
    /\ Cardinality(Late(s)) + Cardinality(Pending(s)) <= overtaken[s]
    /\ Exchanging(s)

IInv ==
  /\ TypeOK
  /\ IsFiniteSet(access)
  /\ Held
  /\ \A s \in Session : Grace(s)

\* Late tokens and pending refreshes can be counted.
LEMMA Counted ==
  ASSUME IsFiniteSet(access), NEW s
  PROVE  /\ IsFiniteSet(Late(s)) /\ Cardinality(Late(s)) \in Nat
         /\ IsFiniteSet(Pending(s)) /\ Cardinality(Pending(s)) \in Nat
<1>1. Late(s) \subseteq access /\ Pending(s) \subseteq Request
      BY DEF Late, Pending, Racing
<1> QED
    BY <1>1, RequestAssumption, FS_Subset, FS_CardinalityType

\* A session that ended before, with no new late token and no new refresh that
\* may bring one.
LEMMA GraceKept ==
  ASSUME IInv, IsFiniteSet(access'), NEW s \in Session, Ended(s), s \notin renewed,
         Late(s)' \subseteq Late(s), Pending(s)' \subseteq Pending(s),
         overtaken'[s] = overtaken[s], Exchanging(s)'
  PROVE  Grace(s)'
<1>1. Cardinality(Late(s)') <= Cardinality(Late(s)) /\ Cardinality(Late(s)') \in Nat
      BY Counted, FS_Subset, FS_CardinalityType DEF IInv
<1>2. Cardinality(Pending(s)') <= Cardinality(Pending(s)) /\ Cardinality(Pending(s)') \in Nat
      BY Counted, FS_Subset, FS_CardinalityType DEF IInv
<1>3. Cardinality(Late(s)) \in Nat /\ Cardinality(Pending(s)) \in Nat
      BY Counted DEF IInv
<1>4. Cardinality(Late(s)) + Cardinality(Pending(s)) <= overtaken[s] /\ overtaken[s] \in Nat
      BY DEF IInv, Grace, TypeOK
<1>5. Cardinality(Late(s)') + Cardinality(Pending(s)') <= overtaken'[s]
      BY <1>1, <1>2, <1>3, <1>4
<1> QED
    BY <1>5 DEF Grace

\* A step that moves one request on and touches no session and no token.
LEMMA RequestStep ==
  ASSUME IInv, TypeOK', NEW r \in Request, NEW x \in ReqState,
         req' = [req EXCEPT ![r] = x],
         UNCHANGED <<now, session, access, refresh, ended, overtaken>>,
         renewed \subseteq renewed',
         x.pc = "admitted" =>
           x.tok.stepUp = FALSE /\ session[x.tok.pair.sid].status # "none",
         x.pc \in {"checked", "matched", "mismatch", "rotated", "exchanged"} =>
           session[x.tok.sid].status # "none",
         x.pc \in {"rotated", "exchanged"} => x.tok.iat <= now,
         x.pc = "checked" => session[x.tok.sid].status = "active",
         x.pc = "matched" \/ x.pc = "rotated" =>
           req[r].pc \in {"checked", "matched"} /\ req[r].tok.sid = x.tok.sid,
         x.pc = "exchanged" =>
           session[x.tok.sid].status = "active" \/ x.tok.sid \in renewed'
  PROVE  IInv'
<1>1. req'[r] = x /\ \A q \in Request : q # r => req'[q] = req[q]
      BY DEF IInv, TypeOK
<1>2. Held'
      BY <1>1 DEF IInv, Held
<1>3. ASSUME NEW s \in Session PROVE Grace(s)'
  <2>1. CASE ~(Ended(s) /\ s \notin renewed')
        BY <2>1 DEF Grace, Ended
  <2>2. CASE Ended(s) /\ s \notin renewed'
    <3>1. Late(s)' \subseteq Late(s)
          BY DEF Late
    <3>2. Pending(s)' \subseteq Pending(s)
      <4> SUFFICES ASSUME NEW q \in Pending(s)' PROVE q \in Pending(s)
          OBVIOUS
      <4>1. q \in Request
            BY DEF Pending, Racing
      <4>2. CASE q # r
            BY <1>1, <4>1, <4>2 DEF Pending, Racing
      <4>3. CASE q = r
        <5>1. x.pc \in {"checked", "matched", "rotated"} /\ x.tok.sid = s
              BY <1>1, <4>1, <4>3 DEF Pending, Racing
        <5>2. x.pc # "checked"
              BY <2>2, <5>1 DEF Ended
        <5> QED
            BY <4>3, <5>1, <5>2 DEF Pending, Racing
      <4> QED
          BY <4>2, <4>3
    <3>3. Exchanging(s)'
      <4>1. Exchanging(s)
            BY <2>2 DEF IInv, Grace
      <4>2. x.pc = "exchanged" => x.tok.sid # s
            BY <2>2 DEF Ended
      <4> QED
          BY <1>1, <4>1, <4>2 DEF Exchanging
    <3> QED
        BY <2>2, <3>1, <3>2, <3>3, GraceKept DEF IInv
  <2> QED
      BY <2>1, <2>2
<1> QED
    BY <1>2, <1>3 DEF IInv

\* A step that ends sessions which were created, and one request.
LEMMA EndStep ==
  ASSUME IInv, TypeOK', NEW r \in Request, NEW S \in SUBSET Session,
         NEW st \in {"revoked", "replayed"}, End(S, st),
         \A s \in S : session[s].status # "none",
         req[r].pc \notin {"checked", "matched", "rotated", "exchanged"},
         req' = [req EXCEPT ![r] = Idle],
         UNCHANGED <<now, access, refresh, renewed>>
  PROVE  IInv'
<1>1. req'[r].pc = "idle" /\ \A q \in Request : q # r => req'[q] = req[q]
      BY DEF IInv, TypeOK, Idle
<1>2. \A s \in Session :
        /\ session'[s].status = IF s \in S THEN st ELSE session[s].status
        /\ s \in S /\ session[s].status = "active" =>
             ended'[s] = now /\ overtaken'[s] = Cardinality(Racing(s))
        /\ ~(s \in S /\ session[s].status = "active") =>
             ended'[s] = ended[s] /\ overtaken'[s] = overtaken[s]
      BY DEF End, IInv, TypeOK, SessionRecord
<1>3. \A s \in Session : session[s].status # "none" => session'[s].status # "none"
      BY <1>2
<1>4. Held'
  <2>1. /\ \A t \in access : t.pair.sid \in Session
        /\ \A p \in refresh : p.sid \in Session
        BY DEF IInv, TypeOK, AccessToken, Pair
  <2>2. \A q \in Request :
          /\ req[q].pc = "admitted" => req[q].tok.pair.sid \in Session
          /\ req[q].pc \in {"checked", "matched", "mismatch", "rotated", "exchanged"} =>
               req[q].tok.sid \in Session
        BY Kept DEF IInv, AccessToken, Pair
  <2> QED
      BY <1>1, <1>3, <2>1, <2>2 DEF IInv, Held
<1>5. ASSUME NEW s \in Session PROVE Grace(s)'
  <2>1. CASE ~Ended(s)'
        BY <2>1 DEF Grace
  <2>2. CASE s \in renewed
        BY <2>2 DEF Grace
  <2>3. CASE s \in S /\ session[s].status = "active"
    <3>1. ended'[s] = now /\ overtaken'[s] = Cardinality(Racing(s)) /\ now \in Nat
          BY <1>2, <2>3 DEF IInv, TypeOK
    <3>2. Late(s)' = {}
      <4> SUFFICES ASSUME NEW t \in Late(s)' PROVE FALSE
          OBVIOUS
      <4>1. t \in access' /\ t \in AccessToken
            BY DEF Late, TypeOK
      <4>2. t.pair.iat + AccessTTL > ended'[s] + AccessTTL
            BY DEF Late
      <4>3. t.pair.iat \in Nat /\ AccessTTL \in Nat
            BY <4>1, ConfigAssumption DEF AccessToken, Pair
      <4>4. t.pair.iat <= now
            BY <4>1 DEF IInv, Held
      <4> QED
          BY <3>1, <4>2, <4>3, <4>4
    <3>3. Pending(s)' = Racing(s)
      <4>1. \A q \in Request : req'[q].pc = "rotated" => /\ req[q].tok = req'[q].tok
                                                        /\ req[q].pc = "rotated"
            BY <1>1
      <4>2. \A q \in Request : req[q].pc = "rotated" => /\ req[q].tok.iat <= now
                                                       /\ req[q].tok.iat \in Nat
            BY Kept DEF IInv, Held, Pair
      <4>3. ~\E q \in Request : req'[q].pc = "rotated" /\ req'[q].tok.iat > ended'[s]
            BY <3>1, <4>1, <4>2
      <4>4. \A q \in Request : q \in Racing(s)' <=> q \in Racing(s)
            BY <1>1 DEF Racing
      <4>5. Racing(s)' = Racing(s)
            BY <4>4 DEF Racing
      <4> QED
          BY <4>3, <4>5 DEF Pending
    <3>4. Exchanging(s)'
      <4>1. \A q \in Request : req'[q].pc = "exchanged" => /\ req[q].tok = req'[q].tok
                                                          /\ req[q].pc = "exchanged"
            BY <1>1
      <4> QED
          BY <3>1, <4>1 DEF Exchanging, IInv, Held
    <3>5. Cardinality(Late(s)') + Cardinality(Pending(s)') <= overtaken'[s]
          BY <3>1, <3>2, <3>3, FS_EmptySet, RacingIsFinite
    <3> QED
        BY <3>4, <3>5 DEF Grace
  <2>4. CASE ~(s \in S /\ session[s].status = "active") /\ Ended(s)' /\ s \notin renewed
    <3>1. Ended(s) /\ ended'[s] = ended[s] /\ overtaken'[s] = overtaken[s]
      <4>1. CASE s \in S
        <5>1. session[s] \in SessionRecord /\ session[s].status # "none"
              BY <4>1 DEF IInv, TypeOK
        <5> QED
            BY <1>2, <2>4, <4>1, <5>1 DEF Ended, SessionRecord
      <4>2. CASE s \notin S
            BY <1>2, <2>4, <4>2 DEF Ended
      <4> QED
          BY <4>1, <4>2
    <3>2. Late(s)' \subseteq Late(s)
          BY <3>1 DEF Late
    <3>3. Pending(s)' \subseteq Pending(s)
          BY <1>1, <3>1 DEF Pending, Racing
    <3>4. Exchanging(s)'
      <4>1. Exchanging(s)
            BY <2>4, <3>1 DEF IInv, Grace
      <4> QED
          BY <1>1, <3>1, <4>1 DEF Exchanging
    <3> QED
        BY <2>4, <3>1, <3>2, <3>3, <3>4, GraceKept DEF IInv
  <2> QED
      BY <2>1, <2>2, <2>3, <2>4
<1> QED
    BY <1>4, <1>5 DEF IInv

\* A login creates a session, and a pair of it.
LEMMA LoginStep ==
  ASSUME IInv, TypeOK', NEW z \in Session, Login(z)
  PROVE  IInv'
<1> DEFINE p == IssueTokenPair(z)
<1>1. p \in Pair /\ p.sid = z /\ p.iat = now
      BY PairTyped DEF IInv
<1>2. /\ access' = access \union {[pair |-> p, stepUp |-> FALSE]}
      /\ refresh' = refresh \union {p}
      /\ UNCHANGED <<now, req, ended, overtaken, renewed>>
      BY DEF Login, Deliver, history
<1>3. /\ session'[z].status = "active"
      /\ \A s \in Session : s # z => session'[s] = session[s]
      BY DEF Login, IInv, TypeOK
<1> HIDE DEF p
<1>4. \A s : session[s].status # "none" /\ s \in Session => session'[s].status # "none"
      BY <1>3
<1>5. IsFiniteSet(access')
      BY <1>2, FS_AddElement DEF IInv
<1>6. Held'
  <2>1. /\ \A t \in access : t.pair.sid \in Session
        /\ \A q \in refresh : q.sid \in Session
        BY DEF IInv, TypeOK, AccessToken, Pair
  <2>2. \A q \in Request :
          /\ req[q].pc = "admitted" => req[q].tok.pair.sid \in Session
          /\ req[q].pc \in {"checked", "matched", "mismatch", "rotated", "exchanged"} =>
               req[q].tok.sid \in Session
        BY Kept DEF IInv, AccessToken, Pair
  <2>3. \A t \in access' :
          t.pair.iat <= now' /\ t.stepUp = FALSE /\ session'[t.pair.sid].status # "none"
    <3>1. ASSUME NEW t \in access'
          PROVE  t.pair.iat <= now' /\ t.stepUp = FALSE /\ session'[t.pair.sid].status # "none"
      <4>1. CASE t \in access
            BY <1>2, <1>4, <2>1, <4>1 DEF IInv, Held
      <4>2. CASE t = [pair |-> p, stepUp |-> FALSE]
        <5>1. t.pair = p /\ t.stepUp = FALSE
              BY <4>2
        <5>2. now \in Nat /\ now' = now
              BY <1>2 DEF IInv, TypeOK
        <5> QED
            BY <1>1, <1>3, <5>1, <5>2
      <4> QED
          BY <1>2, <4>1, <4>2
    <3> QED
        BY <3>1
  <2>4. \A q \in refresh' : session'[q.sid].status # "none"
        BY <1>1, <1>2, <1>3, <1>4, <2>1 DEF IInv, Held
  <2> QED
      BY <1>2, <1>4, <2>2, <2>3, <2>4 DEF IInv, Held
<1>7. ASSUME NEW s \in Session PROVE Grace(s)'
  <2>1. CASE s = z
        BY <1>3, <2>1 DEF Grace, Ended
  <2>2. CASE s # z
    <3>1. session'[s] = session[s]
          BY <1>3, <2>2
    <3>2. Late(s)' \subseteq Late(s)
          BY <1>1, <1>2, <2>2 DEF Late
    <3>3. Pending(s)' \subseteq Pending(s) /\ (Exchanging(s) => Exchanging(s)')
          BY <1>2 DEF Pending, Racing, Exchanging
    <3> QED
        BY <1>2, <1>5, <3>1, <3>2, <3>3, GraceKept DEF IInv, Grace, Ended
  <2> QED
      BY <2>1, <2>2
<1> QED
    BY <1>5, <1>6, <1>7 DEF IInv

\* The hash of a pair is written and the pair delivered: a pending refresh may
\* become a late token.
LEMMA StoreStep ==
  ASSUME IInv, TypeOK', NEW r \in Request, Store(r)
  PROVE  IInv'
<1> DEFINE p == req[r].tok
           a == [pair |-> p, stepUp |-> FALSE]
<1>1. p \in Pair /\ p.sid \in Session /\ p.iat \in Nat /\ p.iat <= now
      BY Kept DEF Store, IInv, Held, Pair
<1>2. /\ access' = access \union {a}
      /\ refresh' = refresh \union {p}
      /\ req' = [req EXCEPT ![r] = Idle]
      /\ req[r].pc \in {"rotated", "exchanged"}
      /\ UNCHANGED <<now, ended, overtaken, renewed>>
      BY DEF Store, Deliver, history
<1>3. \A s \in Session : session'[s].status = session[s].status
      BY <1>1 DEF Store, IInv, TypeOK, SessionRecord
<1>4. req'[r].pc = "idle" /\ \A q \in Request : q # r => req'[q] = req[q]
      BY <1>2 DEF IInv, TypeOK, Idle
<1>5. a \in AccessToken /\ a.pair = p /\ a.stepUp = FALSE
      BY <1>1 DEF AccessToken
<1>6. session[p.sid].status # "none"
      BY <1>2 DEF IInv, Held
<1>7. IsFiniteSet(access')
      BY <1>2, FS_AddElement DEF IInv
<1> HIDE DEF a
<1>8. Held'
  <2>1. /\ \A t \in access : t.pair.sid \in Session
        /\ \A q \in refresh : q.sid \in Session
        BY DEF IInv, TypeOK, AccessToken, Pair
  <2>2. \A q \in Request :
          /\ req[q].pc = "admitted" => req[q].tok.pair.sid \in Session
          /\ req[q].pc \in {"checked", "matched", "mismatch", "rotated", "exchanged"} =>
               req[q].tok.sid \in Session
        BY Kept DEF IInv, AccessToken, Pair
  <2>3. \A t \in access' :
          t.pair.iat <= now' /\ t.stepUp = FALSE /\ session'[t.pair.sid].status # "none"
        BY <1>1, <1>2, <1>3, <1>5, <1>6, <2>1 DEF IInv, Held
  <2>4. \A q \in refresh' : session'[q.sid].status # "none"
        BY <1>1, <1>2, <1>3, <1>6, <2>1 DEF IInv, Held
  <2> QED
      BY <1>2, <1>3, <1>4, <2>2, <2>3, <2>4 DEF IInv, Held
<1>9. ASSUME NEW s \in Session, Ended(s), s \notin renewed PROVE Grace(s)'
  <2>1. Exchanging(s)
        BY <1>9 DEF IInv, Grace
  <2>2. Exchanging(s)'
        BY <1>2, <1>4, <2>1 DEF Exchanging
  <2>3. Pending(s)' \subseteq Pending(s) \ {r}
        BY <1>2, <1>4 DEF Pending, Racing
  <2>4. Late(s)' \subseteq Late(s) \union {a}
        BY <1>2 DEF Late
  <2>5. CASE p.sid # s \/ p.iat <= ended[s]
    <3>1. a \notin Late(s)'
      <4> SUFFICES ASSUME a \in Late(s)' PROVE FALSE
          OBVIOUS
      <4>1. p.sid = s /\ p.iat + AccessTTL > ended[s] + AccessTTL
            BY <1>2, <1>5 DEF Late
      <4>2. ended[s] \in Nat /\ AccessTTL \in Nat
            BY ConfigAssumption DEF IInv, TypeOK
      <4> QED
          BY <1>1, <2>5, <4>1, <4>2
    <3>2. Late(s)' \subseteq Late(s) /\ Pending(s)' \subseteq Pending(s)
          BY <2>3, <2>4, <3>1
    <3> QED
        BY <1>2, <1>7, <1>9, <2>2, <3>2, GraceKept
  <2>6. CASE p.sid = s /\ ~(p.iat <= ended[s])
    <3>1. ended[s] \in Nat /\ p.iat > ended[s]
          BY <1>1, <2>6 DEF IInv, TypeOK
    <3>2. r \in Pending(s)
      <4>1. req[r].pc = "rotated"
            BY <1>2, <2>1, <2>6 DEF Exchanging
      <4> QED
          BY <2>6, <3>1, <4>1 DEF Pending
    <3>3. /\ IsFiniteSet(Late(s)) /\ Cardinality(Late(s)) \in Nat
          /\ IsFiniteSet(Pending(s)) /\ Cardinality(Pending(s)) \in Nat
          BY Counted DEF IInv
    <3>4. /\ IsFiniteSet(Pending(s) \ {r})
          /\ Cardinality(Pending(s) \ {r}) = Cardinality(Pending(s)) - 1
          BY <3>2, <3>3, FS_RemoveElement
    <3>5. /\ Cardinality(Pending(s)') <= Cardinality(Pending(s)) - 1
          /\ Cardinality(Pending(s)') \in Nat
          BY <2>3, <3>4, FS_Subset, FS_CardinalityType
    <3>6. /\ IsFiniteSet(Late(s) \union {a})
          /\ \/ Cardinality(Late(s) \union {a}) = Cardinality(Late(s))
             \/ Cardinality(Late(s) \union {a}) = Cardinality(Late(s)) + 1
          BY <3>3, FS_AddElement
    <3>7. /\ Cardinality(Late(s)') <= Cardinality(Late(s)) + 1
          /\ Cardinality(Late(s)') \in Nat
          BY <2>4, <3>3, <3>6, FS_Subset, FS_CardinalityType
    <3>8. Cardinality(Late(s)) + Cardinality(Pending(s)) <= overtaken[s] /\ overtaken[s] \in Nat
          BY <1>9 DEF IInv, Grace, TypeOK
    <3>9. Cardinality(Late(s)') + Cardinality(Pending(s)') <= overtaken[s]
          BY <3>3, <3>5, <3>7, <3>8
    <3> QED
        BY <1>2, <2>2, <3>9 DEF Grace
  <2> QED
      BY <2>5, <2>6
<1>10. \A s \in Session : Grace(s)'
  <2> SUFFICES ASSUME NEW s \in Session PROVE Grace(s)'
      OBVIOUS
  <2>1. CASE Ended(s) /\ s \notin renewed
        BY <1>9, <2>1
  <2>2. CASE ~(Ended(s) /\ s \notin renewed)
        BY <1>2, <1>3, <2>2 DEF Grace, Ended
  <2> QED
      BY <2>1, <2>2
<1> QED
    BY <1>7, <1>8, <1>10 DEF IInv

\* No token and no session at the start.
LEMMA InitIInv == Init => IInv
<1> SUFFICES ASSUME Init PROVE IInv
    OBVIOUS
<1>1. \A r \in Request : req[r].pc = "idle"
      BY DEF Init, Idle
<1>2. Held
      BY <1>1 DEF Init, Held
<1>3. \A s \in Session : Grace(s)
      BY DEF Init, Grace, Ended
<1> QED
    BY <1>2, <1>3, InitTyped, FS_EmptySet DEF Init, IInv

\* Every step keeps the invariant.
LEMMA IInvStep == IInv /\ [Next]_vars => IInv'
<1> SUFFICES ASSUME IInv, [Next]_vars PROVE IInv'
    OBVIOUS
<1>0. TypeOK'
      BY TypeStep DEF IInv
<1>1. CASE Tick \/ UNCHANGED vars
  <2>1. UNCHANGED <<session, access, refresh, req, ended, overtaken, renewed>>
        BY <1>1 DEF Tick, vars, tokens, history
  <2>2. now \in Nat /\ now' \in Nat /\ now <= now'
        BY <1>0, <1>1 DEF Tick, vars, IInv, TypeOK
  <2>3. Held'
    <3>1. \A t \in access : t.pair.iat \in Nat
          BY DEF IInv, TypeOK, AccessToken, Pair
    <3>2. \A r \in Request : req[r].pc \in {"rotated", "exchanged"} => req[r].tok.iat \in Nat
          BY Kept DEF IInv, Pair
    <3> QED
        BY <2>1, <2>2, <3>1, <3>2 DEF IInv, Held
  <2>4. \A s \in Session : Grace(s)'
    <3>1. \A s \in Session : Late(s)' = Late(s) /\ Pending(s)' = Pending(s)
          BY <2>1 DEF Late, Pending, Racing
    <3>2. \A s \in Session : Exchanging(s) => Exchanging(s)'
          BY <2>1 DEF Exchanging
    <3> QED
        BY <2>1, <3>1, <3>2 DEF IInv, Grace, Ended
  <2> QED
      BY <1>0, <2>1, <2>3, <2>4 DEF IInv
<1>2. ASSUME NEW s \in Session, Login(s) PROVE IInv'
      BY <1>0, <1>2, LoginStep
<1>3. ASSUME NEW r \in Request, RotateRefreshToken(r) PROVE IInv'
  <2>1. ASSUME NEW p \in refresh, RotateCheck(r, p) PROVE IInv'
    <3> DEFINE x == [pc |-> "checked", tok |-> p]
    <3>1. x \in ReqState /\ x.pc = "checked" /\ x.tok = p
          BY Keeping DEF IInv, TypeOK
    <3>2. /\ req' = [req EXCEPT ![r] = x] /\ session[p.sid].status = "active"
          /\ UNCHANGED <<now, session, access, refresh, ended, overtaken, renewed>>
          BY <2>1 DEF RotateCheck, tokens, history
    <3> HIDE DEF x
    <3> QED
        BY <1>0, <3>1, <3>2, RequestStep
  <2>2. CASE RotateCompare(r)
    <3>1. PICK pc \in {"matched", "mismatch"} : req' = [req EXCEPT ![r].pc = pc]
          BY <2>2 DEF RotateCompare
    <3>2. /\ req[r] = [pc |-> "checked", tok |-> req[r].tok] /\ req[r].tok \in Pair
          /\ session[req[r].tok.sid].status # "none"
          BY <2>2, Kept DEF RotateCompare, IInv, Held
    <3> DEFINE x == [pc |-> pc, tok |-> req[r].tok]
    <3>3. [req[r] EXCEPT !.pc = pc] = x
          BY <3>2
    <3>4. x \in ReqState /\ x.pc = pc /\ x.tok = req[r].tok
          BY <3>2, Keeping
    <3>5. /\ req' = [req EXCEPT ![r] = x] /\ req[r].pc = "checked"
          /\ UNCHANGED <<now, session, access, refresh, ended, overtaken, renewed>>
          BY <2>2, <3>1, <3>3 DEF RotateCompare, tokens, history
    <3> HIDE DEF x
    <3> QED
        BY <1>0, <3>2, <3>4, <3>5, RequestStep
  <2>3. CASE RotateIssue(r)
    <3>1. req[r].tok \in Pair /\ req[r].pc = "matched" /\ session[req[r].tok.sid].status # "none"
          BY <2>3, Kept DEF RotateIssue, IInv, Held
    <3>2. req[r].tok.sid \in Session
          BY <3>1 DEF Pair
    <3> DEFINE p == IssueTokenPair(req[r].tok.sid)
               x == [pc |-> "rotated", tok |-> p]
    <3>3. p \in Pair /\ p.sid = req[r].tok.sid /\ p.iat <= now
          BY <3>2, PairTyped DEF IInv, TypeOK
    <3>4. /\ req' = [req EXCEPT ![r] = x]
          /\ UNCHANGED <<now, session, access, refresh, ended, overtaken, renewed>>
          BY <2>3 DEF RotateIssue, history
    <3> HIDE DEF p
    <3>5. x \in ReqState /\ x.pc = "rotated" /\ x.tok = p
          BY <3>3, Keeping
    <3> HIDE DEF x
    <3> QED
        BY <1>0, <3>1, <3>3, <3>4, <3>5, RequestStep
  <2>4. CASE RotateRevokeFamily(r)
    <3>1. req[r].tok \in Pair /\ req[r].pc = "mismatch" /\ session[req[r].tok.sid].status # "none"
          BY <2>4, Kept DEF RotateRevokeFamily, IInv, Held
    <3>2. {req[r].tok.sid} \in SUBSET Session
          BY <3>1 DEF Pair
    <3> QED
        BY <1>0, <2>4, <3>1, <3>2, EndStep DEF RotateRevokeFamily, tokens
  <2> QED
      BY <1>3, <2>1, <2>2, <2>3, <2>4 DEF RotateRefreshToken
<1>4. ASSUME NEW r \in Request, Bearer(r) PROVE IInv'
  <2>0. req[r].pc = "admitted" =>
          /\ req[r].tok \in AccessToken /\ req[r].tok.pair.sid \in Session
          /\ session[req[r].tok.pair.sid].status # "none" /\ req[r].tok.stepUp = FALSE
        BY Kept DEF IInv, Held, AccessToken, Pair
  <2>1. ASSUME NEW t \in access, Authenticate(r, t) PROVE IInv'
    <3> DEFINE x == [pc |-> "admitted", tok |-> t]
    <3>1. x \in ReqState /\ x.pc = "admitted" /\ x.tok = t
          BY Keeping DEF IInv, TypeOK
    <3>2. /\ req' = [req EXCEPT ![r] = x]
          /\ UNCHANGED <<now, session, access, refresh, ended, overtaken, renewed>>
          BY <2>1 DEF Authenticate, tokens, history
    <3>3. t.stepUp = FALSE /\ session[t.pair.sid].status # "none"
          BY DEF IInv, Held
    <3> HIDE DEF x
    <3> QED
        BY <1>0, <3>1, <3>2, <3>3, RequestStep
  <2>2. CASE Logout(r)
    <3>1. /\ {req[r].tok.pair.sid} \in SUBSET Session
          /\ \A s \in {req[r].tok.pair.sid} : session[s].status # "none"
          BY <2>0, <2>2 DEF Logout
    <3> QED
        BY <1>0, <2>2, <3>1, EndStep DEF Logout, tokens
  <2>3. CASE LogoutAll(r)
    <3>1. {s \in Session : session[s].status # "none"} \in SUBSET Session
          OBVIOUS
    <3> QED
        BY <1>0, <2>3, <3>1, EndStep DEF LogoutAll, tokens
  <2>4. CASE PostPayment(r)
    <3>1. ~RequireStepUp(req[r].tok)
          BY <2>0, <2>4 DEF PostPayment, RequireStepUp
    <3>2. /\ req' = [req EXCEPT ![r] = Idle]
          /\ UNCHANGED <<now, session, access, refresh, ended, overtaken, renewed>>
          BY <2>4, <3>1 DEF PostPayment, history
    <3>3. Idle \in ReqState /\ Idle.pc = "idle"
          BY Keeping DEF Idle
    <3> QED
        BY <1>0, <3>2, <3>3, RequestStep
  <2>5. ASSUME NEW s \in Session, ExchangeBiometricToken(r, s) PROVE IInv'
    <3> DEFINE p == IssueTokenPair(s)
               x == [pc |-> "exchanged", tok |-> p]
    <3>1. p \in Pair /\ p.sid = s /\ p.iat <= now
          BY PairTyped DEF IInv, TypeOK
    <3>2. /\ req' = [req EXCEPT ![r] = x] /\ session[s].status # "none"
          /\ UNCHANGED <<now, session, access, refresh, ended, overtaken>>
          /\ renewed' = IF session[s].status = "active" THEN renewed ELSE renewed \union {s}
          BY <2>5 DEF ExchangeBiometricToken
    <3> HIDE DEF p
    <3>3. x \in ReqState /\ x.pc = "exchanged" /\ x.tok = p
          BY <3>1, Keeping
    <3>4. renewed \subseteq renewed' /\ (session[s].status = "active" \/ s \in renewed')
          BY <3>2
    <3> HIDE DEF x
    <3> QED
        BY <1>0, <3>1, <3>2, <3>3, <3>4, RequestStep
  <2> QED
      BY <1>4, <2>1, <2>2, <2>3, <2>4, <2>5 DEF Bearer
<1>5. ASSUME NEW r \in Request, Store(r) PROVE IInv'
      BY <1>0, <1>5, StoreStep
<1>6. ASSUME NEW r \in Request, Answer(r) PROVE IInv'
  <2>1. /\ req' = [req EXCEPT ![r] = Idle]
        /\ UNCHANGED <<now, session, access, refresh, ended, overtaken, renewed>>
        BY <1>6 DEF Answer, tokens, history
  <2>2. Idle \in ReqState /\ Idle.pc = "idle"
        BY Keeping DEF Idle
  <2> QED
      BY <1>0, <2>1, <2>2, RequestStep
<1> QED
    BY <1>1, <1>2, <1>3, <1>4, <1>5, <1>6 DEF Next

\* An ended session that no exchange renewed has no access token beyond AccessTTL
\* but those of the refreshes it overtook, for any number of sessions, requests
\* and lifetimes.
THEOREM LogoutEndsAccess == Spec => []LogoutGrace
<1>1. IInv => LogoutGrace
  <2> SUFFICES ASSUME IInv, NEW s \in Session, Ended(s), s \notin renewed
               PROVE  Cardinality(Late(s)) <= overtaken[s]
      BY DEF LogoutGrace, Ended
  <2>1. Cardinality(Late(s)) + Cardinality(Pending(s)) <= overtaken[s] /\ overtaken[s] \in Nat
        BY DEF IInv, Grace, TypeOK
  <2>2. Cardinality(Late(s)) \in Nat /\ Cardinality(Pending(s)) \in Nat
        BY Counted DEF IInv
  <2> QED
      BY <2>1, <2>2
<1> QED
    BY <1>1, InitIInv, IInvStep, PTL DEF Spec

=============================================================================
