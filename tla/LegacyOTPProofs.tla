--------------------------- MODULE LegacyOTPProofs ---------------------------
(***************************************************************************)
(* The limiter of the legacy engine and its one-time codes, for every      *)
(* limit, window, life of a code and number of requests.                   *)
(*                                                                         *)
(* Two arguments carry the properties.  A stamp that passed stays in the   *)
(* sorted set as long as it is in the window: whoever removes members does *)
(* so by a stamp that is not in the future, and the key outlives every     *)
(* stamp that was counted.  So the count a request reads is at least the   *)
(* number of stamps that passed before it, its own included.  And a Send   *)
(* that deletes the newest code is about to store its own.                 *)
(***************************************************************************)
EXTENDS LegacyOTP, FiniteSetTheorems, TLAPS

-----------------------------------------------------------------------------
(* The inductive invariant                                                 *)

\* A request at the limiter carries a stamp of the past, and the sorted set
\* holds none of the future.
AtLimiter(r) == req[r].pc \in {"stamped", "trimmed", "added"}

NoFuture ==
  /\ \A r \in Request : AtLimiter(r) => req[r].at \in Nat /\ req[r].at <= now
  /\ \A x \in zset : x <= now

\* What passed in the last Window ticks is in the sorted set, whose key does not
\* expire before it leaves the window.
PassedKept ==
  \A x \in passed : /\ x \in zset /\ x + Window > now
                    /\ expires # None => x + Window <= expires

\* A Send has a recipient.
SendsTo ==
  \A r \in Request : req[r].pc \in {"deleting", "storing"} => req[r].to \in Recipient

\* The Send that deleted the newest code is about to store its own, or ended.
NewestOrStoring ==
  \/ sent = 0 \/ dropped
  \/ newest \in Recipient /\ store[newest].code = sent
  \/ \E r \in Request : At(r, "storing")

IInv ==
  /\ TypeOK
  /\ NoFuture /\ PassedKept /\ PassedInstants
  /\ SendsTo /\ NewestOrStoring

-----------------------------------------------------------------------------
(* Counting                                                                *)

\* A subset of a finite set is finite and has no more elements.
LEMMA SubsetCount ==
  ASSUME NEW S, IsFiniteSet(S), NEW T, T \subseteq S
  PROVE  /\ IsFiniteSet(T) /\ Cardinality(T) \in Nat /\ Cardinality(S) \in Nat
         /\ Cardinality(T) <= Cardinality(S)
BY FS_Subset, FS_CardinalityType

\* The instants up to one of them are finitely many.
LEMMA PastFinite ==
  ASSUME NEW S \in SUBSET Nat, NEW n \in Nat, \A x \in S : x <= n
  PROVE  IsFiniteSet(S)
BY FS_BoundedSetOfNaturals

-----------------------------------------------------------------------------
(* What a step does to the requests                                        *)

\* Idle is a state of a request.
LEMMA IdleType == Idle \in ReqState /\ Idle.pc = "idle"
BY DEF Idle, ReqState

\* A step of a request leaves the other requests alone.
LEMMA OthersStay ==
  ASSUME TypeOK, NEW r \in Request, NEW q \in Request, q # r,
         LimitStep(r) \/ Send(r) \/ Verify(r) \/ Abort(r)
  PROVE  req'[q] = req[q]
BY DEF TypeOK, LimitStep, LimitStamp, LimitTrim, LimitAdd, LimitCount, LimitFailOpen,
       Send, SendList, SendDelete, SendStore, Verify, ResetPassword, VerifyCode, Abort,
       End

\* The request that takes the step keeps the type, its stamp at the limiter and
\* the recipient of its Send.
LEMMA MoverMoves ==
  ASSUME TypeOK, NEW r \in Request,
         LimitStep(r) \/ Send(r) \/ Verify(r) \/ Abort(r)
  PROVE  /\ req' \in [Request -> ReqState]
         /\ AtLimiter(r)' => \/ AtLimiter(r) /\ req'[r].at = req[r].at
                             \/ req'[r].at = now
         /\ req'[r].pc \in {"deleting", "storing"} =>
              \/ req'[r].to \in Recipient
              \/ req[r].pc = "deleting" /\ req'[r].to = req[r].to
<1> USE DEF TypeOK, AtLimiter, At
<1>1. CASE LimitStamp(r)
      BY <1>1 DEF LimitStamp, ReqState
<1>2. CASE LimitTrim(r)
      BY <1>2 DEF LimitTrim, ReqState
<1>3. CASE LimitAdd(r)
      BY <1>3 DEF LimitAdd, ReqState
<1>4. CASE LimitCount(r) /\ WithinLimit
      BY <1>4 DEF LimitCount, ReqState
<1>5. CASE LimitFailOpen(r)
      BY <1>5 DEF LimitFailOpen, ReqState
<1>6. CASE SendList(r)
  <2>1. PICK u \in Recipient :
           req' = [req EXCEPT ![r] = [Idle EXCEPT !.pc = "deleting", !.to = u,
                                                  !.keys = Listed]]
        BY <1>6 DEF SendList
  <2>2. Listed \in SUBSET Recipient
        BY DEF Listed
  <2>3. /\ [Idle EXCEPT !.pc = "deleting", !.to = u, !.keys = Listed] \in ReqState
        /\ [Idle EXCEPT !.pc = "deleting", !.to = u, !.keys = Listed].to = u
        /\ [Idle EXCEPT !.pc = "deleting", !.to = u, !.keys = Listed].pc = "deleting"
        BY <2>2 DEF Idle, ReqState
  <2> QED
      BY <2>1, <2>3
<1>7. CASE SendDelete(r)
  <2>1. req' = [req EXCEPT ![r].pc = "storing", ![r].keys = {}] /\ req[r].pc = "deleting"
        BY <1>7 DEF SendDelete
  <2> QED
      BY <2>1 DEF ReqState
<1>8. CASE ResetPassword(r)
      BY <1>8 DEF ResetPassword, ReqState
<1>9. ASSUME End(r) PROVE req' \in [Request -> ReqState] /\ req'[r].pc = "idle"
      BY <1>9, IdleType DEF End
<1> QED
    BY <1>1, <1>2, <1>3, <1>4, <1>5, <1>6, <1>7, <1>8, <1>9
    DEF LimitStep, LimitCount, Send, SendStore, Verify, VerifyCode, Abort

-----------------------------------------------------------------------------
(* Types                                                                   *)

\* The empty store and the idle requests satisfy the type invariant.
LEMMA InitTypeOK == Init => TypeOK
<1> SUFFICES ASSUME Init PROVE TypeOK
    OBVIOUS
<1>1. NoOTP \in OTP
      BY DEF NoOTP, OTP
<1>2. store \in [Recipient -> OTP] /\ req \in [Request -> ReqState]
      BY <1>1, IdleType DEF Init
<1> QED
    BY <1>2 DEF Init, TypeOK

\* Every step keeps the types.
LEMMA TypeStep == IInv /\ [Next]_vars => TypeOK'
<1> SUFFICES ASSUME IInv, [Next]_vars PROVE TypeOK'
    OBVIOUS
<1> USE ConfigAssumption DEF IInv, TypeOK, history, limiter
<1>1. CASE Tick
  <2>1. zset' \in SUBSET Nat /\ expires' \in Nat \union {None}
        BY <1>1 DEF Tick
  <2>2. passed' \in SUBSET Nat
        BY <1>1 DEF Tick
  <2>3. now' \in Nat /\ UNCHANGED <<store, sent, req, newest, dropped>>
        BY <1>1 DEF Tick
  <2> QED
      BY <2>1, <2>2, <2>3
<1>2. ASSUME NEW r \in Request, LimitStep(r) PROVE TypeOK'
  <2>1. req' \in [Request -> ReqState]
        BY <1>2, MoverMoves
  <2>2. CASE LimitStamp(r) \/ LimitFailOpen(r)
        BY <2>1, <2>2 DEF LimitStamp, LimitFailOpen
  <2>3. CASE LimitTrim(r)
        BY <2>1, <2>3 DEF LimitTrim
  <2>4. CASE LimitAdd(r)
    <3>1. req[r].at \in Nat
          BY <2>4 DEF LimitAdd, NoFuture, AtLimiter, At
    <3> QED
        BY <2>1, <2>4, <3>1 DEF LimitAdd
  <2>5. CASE LimitCount(r)
        BY <2>1, <2>5 DEF LimitCount
  <2> QED
      BY <1>2, <2>2, <2>3, <2>4, <2>5 DEF LimitStep
<1>3. ASSUME NEW r \in Request, Send(r) PROVE TypeOK'
  <2>1. req' \in [Request -> ReqState]
        BY <1>3, MoverMoves
  <2>2. CASE SendList(r)
        BY <2>1, <2>2 DEF SendList
  <2>3. CASE SendDelete(r)
        BY <2>1, <2>3 DEF SendDelete, NoOTP, OTP
  <2>4. CASE SendStore(r)
    <3>1. Create(sent + 1) \in OTP
          BY DEF Create, OTP
    <3>2. req[r].to \in Recipient
          BY <2>4 DEF SendStore, SendsTo, At
    <3> QED
        BY <2>1, <2>4, <3>1, <3>2 DEF SendStore
  <2> QED
      BY <1>3, <2>2, <2>3, <2>4 DEF Send
<1>4. ASSUME NEW r \in Request, Verify(r) PROVE TypeOK'
      BY <1>4, MoverMoves DEF Verify, ResetPassword, VerifyCode
<1>5. ASSUME NEW r \in Request, Abort(r) PROVE TypeOK'
      BY <1>5, MoverMoves DEF Abort, At
<1>6. CASE UNCHANGED vars
      BY <1>6 DEF vars
<1> QED
    BY <1>1, <1>2, <1>3, <1>4, <1>5, <1>6 DEF Next

-----------------------------------------------------------------------------
(* The limiter                                                             *)

\* No step turns the clock back, and only Tick turns it.
LEMMA ClockStep ==
  ASSUME TypeOK, [Next]_vars
  PROVE  /\ now \in Nat /\ now' \in Nat /\ now <= now'
         /\ \A r \in Request :
              LimitStep(r) \/ Send(r) \/ Verify(r) \/ Abort(r) => now' = now
<1>1. \A r \in Request : LimitStep(r) \/ Send(r) \/ Verify(r) \/ Abort(r) => now' = now
      BY DEF LimitStep, LimitStamp, LimitTrim, LimitAdd, LimitCount, LimitFailOpen,
             Send, SendList, SendDelete, SendStore, Verify, ResetPassword, VerifyCode,
             Abort
<1>2. now' = now \/ now' = now + 1
      BY <1>1 DEF Next, Tick, vars
<1> QED
    BY <1>1, <1>2 DEF TypeOK

\* Stamps stay in the past, wherever they are.
LEMMA FutureStep == IInv /\ [Next]_vars => NoFuture'
<1> SUFFICES ASSUME IInv, [Next]_vars PROVE NoFuture'
    OBVIOUS
<1>0. now \in Nat /\ now' \in Nat /\ now <= now' /\ zset \in SUBSET Nat
      BY ClockStep DEF IInv, TypeOK
<1>1. ASSUME NEW q \in Request, AtLimiter(q)'
      PROVE  req'[q].at \in Nat /\ req'[q].at <= now'
  <2>1. AtLimiter(q) => req[q].at \in Nat /\ req[q].at <= now
        BY DEF IInv, NoFuture
  <2>2. CASE req'[q] = req[q]
        BY <1>0, <1>1, <2>1, <2>2 DEF AtLimiter
  <2>3. CASE req'[q] # req[q]
    <3>1. \E r \in Request : LimitStep(r) \/ Send(r) \/ Verify(r) \/ Abort(r)
          BY <2>3 DEF Next, Tick, vars
    <3>2. LimitStep(q) \/ Send(q) \/ Verify(q) \/ Abort(q)
          BY <2>3, <3>1, OthersStay DEF IInv
    <3>3. (AtLimiter(q) /\ req'[q].at = req[q].at) \/ req'[q].at = now
          BY <1>1, <3>2, MoverMoves DEF IInv
    <3> QED
        BY <1>0, <2>1, <3>3
  <2> QED
      BY <2>2, <2>3
<1>2. ASSUME NEW x \in zset' PROVE x <= now'
  <2>1. \A y \in zset : y <= now
        BY DEF IInv, NoFuture
  <2>2. \/ x \in zset
        \/ \E r \in Request : LimitAdd(r) /\ x = req[r].at
        BY DEF Next, Tick, LimitStep, LimitStamp, LimitTrim, LimitAdd, LimitCount,
               LimitFailOpen, Send, SendList, SendDelete, SendStore, Verify,
               ResetPassword, VerifyCode, Abort, limiter, vars
  <2>3. ASSUME NEW r \in Request, LimitAdd(r) PROVE req[r].at \in Nat /\ req[r].at <= now
        BY <2>3 DEF LimitAdd, IInv, NoFuture, AtLimiter, At
  <2>4. x \in Nat /\ x <= now
        BY <1>0, <2>1, <2>2, <2>3
  <2> QED
      BY <1>0, <2>4
<1> QED
    BY <1>1, <1>2 DEF NoFuture

\* The stamps that passed and their number, step by step: the clock forgets some,
\* nobody removes one of the window, and a count sees all of them.
LEMMA PassedStep == IInv /\ [Next]_vars => PassedKept' /\ PassedInstants'
<1> SUFFICES ASSUME IInv, [Next]_vars PROVE PassedKept' /\ PassedInstants'
    OBVIOUS
<1> USE ConfigAssumption, NoneAssumption
<1>0. /\ now \in Nat /\ zset \in SUBSET Nat /\ passed \in SUBSET Nat
      /\ expires \in Nat \union {None}
      BY DEF IInv, TypeOK
<1>1. /\ \A x \in zset : x <= now
      /\ \A x \in passed : /\ x \in zset /\ x + Window > now
                           /\ expires # None => x + Window <= expires
      BY DEF IInv, NoFuture, PassedKept
<1>2. IsFiniteSet(zset) /\ IsFiniteSet(passed) /\ Cardinality(passed) <= Limit
      BY <1>0, <1>1, PastFinite DEF IInv, PassedInstants
<1>3. CASE Tick
  <2>1. /\ now' = now + 1 /\ passed' = {t \in passed : t + Window > now + 1}
        /\ IF expires = now + 1 THEN zset' = {} /\ expires' = None
                                ELSE zset' = zset /\ expires' = expires
        BY <1>3 DEF Tick, limiter
  <2>2. \A x \in passed' : /\ x \in zset' /\ x + Window > now'
                           /\ expires' # None => x + Window <= expires'
        BY <1>0, <1>1, <2>1
  <2>3. passed' \subseteq passed
        BY <2>1
  <2>4. /\ Cardinality(passed') \in Nat /\ Cardinality(passed) \in Nat
        /\ Cardinality(passed') <= Cardinality(passed)
        BY <1>2, <2>3, SubsetCount
  <2> QED
      BY <1>2, <2>2, <2>4 DEF PassedKept, PassedInstants
<1>4. ASSUME NEW r \in Request, LimitTrim(r) PROVE PassedKept' /\ PassedInstants'
  <2>1. PICK s \in Nat : s = req[r].at /\ s <= now
        BY <1>4 DEF LimitTrim, IInv, NoFuture, AtLimiter, At
  <2>2. /\ zset' = {t \in zset : t + Window > s} /\ now' = now /\ passed' = passed
        /\ expires' = IF zset' = {} THEN None ELSE expires
        BY <1>4, <2>1 DEF LimitTrim, history
  <2>3. \A x \in passed' : /\ x \in zset' /\ x + Window > now'
                           /\ expires' # None => x + Window <= expires'
        BY <1>0, <1>1, <2>1, <2>2
  <2> QED
      BY <1>2, <2>2, <2>3 DEF PassedKept, PassedInstants
<1>5. ASSUME NEW r \in Request, LimitAdd(r) PROVE PassedKept' /\ PassedInstants'
      BY <1>1, <1>2, <1>5 DEF LimitAdd, history, PassedKept, PassedInstants
<1>6. ASSUME NEW r \in Request, LimitCount(r) PROVE PassedKept' /\ PassedInstants'
  <2>1. /\ now' = now /\ zset' = zset
        /\ expires' = IF zset = {} THEN None ELSE now + Window
        /\ \/ WithinLimit
              /\ passed' = passed \union {t \in zset : t = req[r].at /\ t + Window > now}
           \/ passed' = passed
        BY <1>6 DEF LimitCount
  <2>2. \A x \in passed' : x \in zset /\ x + Window > now
        BY <1>1, <2>1
  <2>3. ASSUME NEW x \in passed'
        PROVE  /\ x \in zset' /\ x + Window > now'
               /\ expires' # None => x + Window <= expires'
    <3>1. x \in zset /\ x \in Nat /\ x <= now /\ x + Window > now
          BY <1>0, <1>1, <2>2
    <3>2. expires' = now + Window
          BY <2>1, <3>1
    <3> QED
        BY <1>0, <2>1, <3>1, <3>2
  <2>4. ASSUME WithinLimit PROVE Cardinality(passed') <= Limit
    <3>1. passed' \subseteq zset
          BY <2>2
    <3>2. /\ Cardinality(passed') \in Nat /\ Cardinality(zset) \in Nat
          /\ Cardinality(passed') <= Cardinality(zset)
          BY <1>2, <3>1, SubsetCount
    <3> QED
        BY <2>4, <3>2 DEF WithinLimit
  <2> QED
      BY <1>2, <2>1, <2>3, <2>4 DEF PassedKept, PassedInstants
<1>7. CASE UNCHANGED <<now, zset, expires, passed>>
      BY <1>1, <1>2, <1>7 DEF PassedKept, PassedInstants
<1>8. ASSUME NEW r \in Request,
             LimitStamp(r) \/ LimitFailOpen(r) \/ Send(r) \/ Verify(r) \/ Abort(r)
      PROVE  UNCHANGED <<now, zset, expires, passed>>
      BY <1>8 DEF LimitStamp, LimitFailOpen, Send, SendList, SendDelete, SendStore,
                  Verify, ResetPassword, VerifyCode, Abort, history, limiter
<1> QED
    BY <1>3, <1>4, <1>5, <1>6, <1>7, <1>8 DEF Next, LimitStep, vars, limiter, history

-----------------------------------------------------------------------------
(* The codes                                                               *)

\* The recipient of a Send stays.
LEMMA SendsToStep == IInv /\ [Next]_vars => SendsTo'
<1> SUFFICES ASSUME IInv, [Next]_vars, NEW q \in Request,
                    req'[q].pc \in {"deleting", "storing"}
             PROVE  req'[q].to \in Recipient
    BY DEF SendsTo
<1>1. req[q].pc \in {"deleting", "storing"} => req[q].to \in Recipient
      BY DEF IInv, SendsTo
<1>2. CASE req'[q] = req[q]
      BY <1>1, <1>2
<1>3. CASE req'[q] # req[q]
  <2>1. \E r \in Request : LimitStep(r) \/ Send(r) \/ Verify(r) \/ Abort(r)
        BY <1>3 DEF Next, Tick, vars
  <2>2. LimitStep(q) \/ Send(q) \/ Verify(q) \/ Abort(q)
        BY <1>3, <2>1, OthersStay DEF IInv
  <2> QED
      BY <1>1, <2>2, MoverMoves DEF IInv
<1> QED
    BY <1>2, <1>3

\* A delete of the newest code leaves a Send that will store another one; the
\* store makes it the newest; an end in between is noted.
LEMMA NewestStep == IInv /\ [Next]_vars => NewestOrStoring'
<1> SUFFICES ASSUME IInv, [Next]_vars PROVE NewestOrStoring'
    OBVIOUS
<1> USE DEF IInv
<1>1. CASE Tick \/ UNCHANGED vars
      BY <1>1 DEF Tick, vars, history, NewestOrStoring, At
<1>2. ASSUME NEW r \in Request, LimitStep(r) \/ SendList(r) \/ Verify(r)
      PROVE  NewestOrStoring'
  <2>1. ~At(r, "storing")
        BY <1>2 DEF LimitStep, LimitStamp, LimitTrim, LimitAdd, LimitCount,
                    LimitFailOpen, SendList, Verify, ResetPassword, VerifyCode, At
  <2>2. UNCHANGED <<sent, store, newest, dropped>>
        BY <1>2 DEF LimitStep, LimitStamp, LimitTrim, LimitAdd, LimitCount,
                    LimitFailOpen, SendList, Verify, ResetPassword, VerifyCode, history
  <2>3. \A q \in Request : At(q, "storing") => At(q, "storing")'
        BY <1>2, <2>1, OthersStay DEF Send, At
  <2> QED
      BY <2>2, <2>3 DEF NewestOrStoring
<1>3. ASSUME NEW r \in Request, SendDelete(r) PROVE NewestOrStoring'
  <2>1. At(r, "storing")'
        BY <1>3 DEF SendDelete, At, TypeOK, ReqState
  <2> QED
      BY <2>1 DEF NewestOrStoring
<1>4. ASSUME NEW r \in Request, SendStore(r) PROVE NewestOrStoring'
  <2>1. req[r].to \in Recipient
        BY <1>4 DEF SendStore, SendsTo, At
  <2>2. Create(sent + 1).code = sent + 1
        BY DEF Create
  <2>3. newest' \in Recipient /\ store'[newest'].code = sent'
        BY <1>4, <2>1, <2>2 DEF SendStore, TypeOK
  <2> QED
      BY <2>3 DEF NewestOrStoring
<1>5. ASSUME NEW r \in Request, Abort(r) PROVE NewestOrStoring'
  <2>1. UNCHANGED <<sent, store, newest>> /\ dropped' = (dropped \/ At(r, "storing"))
        BY <1>5 DEF Abort
  <2>2. CASE dropped \/ At(r, "storing")
        BY <2>1, <2>2 DEF NewestOrStoring
  <2>3. CASE ~dropped /\ ~At(r, "storing")
    <3>1. \A q \in Request : At(q, "storing") => At(q, "storing")'
          BY <1>5, <2>3, OthersStay DEF At
    <3> QED
        BY <2>1, <2>3, <3>1 DEF NewestOrStoring
  <2> QED
      BY <2>2, <2>3
<1> QED
    BY <1>1, <1>2, <1>3, <1>4, <1>5 DEF Next, Send

-----------------------------------------------------------------------------
(* The theorems                                                            *)

\* The inductive invariant holds in every reachable state.
THEOREM Invariance == Spec => []IInv
<1>1. ASSUME Init PROVE IInv
  <2>1. \A r \in Request : req[r].pc = "idle"
        BY <1>1 DEF Init, Idle
  <2>2. Cardinality(passed) = 0
        BY <1>1, FS_EmptySet DEF Init
  <2> QED
      BY <1>1, <2>1, <2>2, InitTypeOK, ConfigAssumption
      DEF Init, IInv, NoFuture, AtLimiter, PassedKept, PassedInstants, SendsTo,
          NewestOrStoring
<1>2. IInv /\ [Next]_vars => IInv'
      BY TypeStep, FutureStep, PassedStep, SendsToStep, NewestStep DEF IInv
<1> QED
    BY <1>1, <1>2, PTL DEF Spec

\* The sorted set, the store, the requests and the history keep their types.
THEOREM TypeCorrect == Spec => []TypeOK
<1>1. IInv => TypeOK
      BY DEF IInv
<1> QED
    BY <1>1, Invariance, PTL

\* RateLimiter.Limit of the legacy middleware: the requests that passed carry at
\* most Limit different stamps of the last window, although stamps reach Redis
\* late and in any order, and others add, remove and count in between.
THEOREM LimiterBounds == Spec => []PassedInstants
<1>1. IInv => PassedInstants
      BY DEF IInv
<1> QED
    BY <1>1, Invariance, PTL

\* InvalidateAll deletes the codes of others; when no Send is under way and none
\* ended before its store, the newest code stands.
THEOREM NewestStands == Spec => []NewestCodeStands
<1>1. IInv => NewestCodeStands
      BY DEF IInv, NewestOrStoring, NewestCodeStands, NoSendUnderWay, At, TypeOK
<1> QED
    BY <1>1, Invariance, PTL

=============================================================================
