-------------------------- MODULE LoginLimitsProofs --------------------------
(***************************************************************************)
(* What stands between a client of biometric-auth and a password: the      *)
(* lockout of the account and the rate limiter in front of the routes, on  *)
(* one clock.                                                              *)
(*                                                                         *)
(* NoFalseLock of LoginLockout, for every number of concurrent logins and  *)
(* every limit: FailedAttempts, and the value a login is about to write    *)
(* into it, never exceed the number of wrong passwords tried.  A lost      *)
(* update only makes FailedAttempts smaller and a late write is at most    *)
(* one more than an old value.                                             *)
(*                                                                         *)
(* GuessBound, for the same: the ways in which logins can be held up are   *)
(* put in an order that the logins only ever climb, and each wrong         *)
(* password climbs one step.                                               *)
(*                                                                         *)
(* SlidingBound of RateLimiter, for every limit and window: the start of a *)
(* client's last window is known, or that window is over; windows do not   *)
(* overlap, so that a stretch of a window's length meets at most two.  And *)
(* the limiter with its table implements the one without: each step is a   *)
(* step of WindowLimiter or, for cleanup and for a refused request, none.  *)
(***************************************************************************)
EXTENDS LoginLockout, RateLimiter, FiniteSetTheorems, FunctionTheorems, TLAPS

-----------------------------------------------------------------------------
(* The lockout                                                             *)

CountIsJustified ==
  /\ failedAttempts <= guesses
  /\ \A r \in Request : req[r].pc = "counting" => req[r].read < guesses

IInv == TypeOK /\ CountIsJustified /\ NoFalseLock

-----------------------------------------------------------------------------
\* The empty record satisfies the invariant.
LEMMA InitIInv == Init => IInv
BY NoneAssumption, ConfigAssumption
   DEF Init, IInv, TypeOK, CountIsJustified, NoFalseLock, Idle, ReqState

\* A step of a login, or of the clock, keeps the invariant.
LEMMA IInvStep == IInv /\ [Next]_vars => IInv'
<1> SUFFICES ASSUME IInv, [Next]_vars PROVE IInv'
    OBVIOUS
<1> USE NoneAssumption, ConfigAssumption
    DEF IInv, TypeOK, CountIsJustified, NoFalseLock, ReqState, Idle, record, history
<1>1. CASE Tick
      BY <1>1 DEF Tick, Advance
<1>2. ASSUME NEW r \in Request, LoginCheck(r) PROVE IInv'
      BY <1>2 DEF LoginCheck
<1>3. ASSUME NEW r \in Request, WrongPassword(r) PROVE IInv'
      BY <1>3 DEF WrongPassword
<1>4. ASSUME NEW r \in Request, CountFailure(r) PROVE IInv'
      BY <1>4 DEF CountFailure
<1>5. ASSUME NEW r \in Request, LockAtLimit(r) PROVE IInv'
      BY <1>5 DEF LockAtLimit, AtLimit
<1>6. ASSUME NEW r \in Request, BelowLimit(r) PROVE IInv'
      BY <1>6 DEF BelowLimit
<1>7. ASSUME NEW r \in Request, RightPassword(r) PROVE IInv'
      BY <1>7 DEF RightPassword
<1>8. ASSUME NEW r \in Request, ResetLock(r) PROVE IInv'
      BY <1>8 DEF ResetLock
<1>9. CASE UNCHANGED vars
      BY <1>9 DEF vars
<1> QED
    BY <1>1, <1>2, <1>3, <1>4, <1>5, <1>6, <1>7, <1>8, <1>9 DEF Next, Login

\* The inductive invariant holds in every reachable state.
THEOREM Invariance == Spec => []IInv
BY InitIInv, IInvStep, PTL DEF Spec

\* The record and the logins in flight always have their types.
THEOREM TypeCorrect == Spec => []TypeOK
<1>1. IInv => TypeOK
      BY DEF IInv
<1> QED
    BY <1>1, Invariance, PTL

\* handleFailedLogin never locks an account before MaxLoginAttempts wrong
\* passwords, however the logins interleave.
THEOREM LocksAreJustified == Spec => []NoFalseLock
<1>1. IInv => NoFalseLock
      BY DEF IInv
<1> QED
    BY <1>1, Invariance, PTL

-----------------------------------------------------------------------------
(* The guesses before a lock                                               *)
(*                                                                         *)
(* Order the ways of HeldUp by the logins that hold the lowest reads: a    *)
(* wrong password adds the present count to what is held, and a write only *)
(* ever gives back a low read for a higher count.  So the logins never     *)
(* come back to a way that was behind them, and each wrong password finds  *)
(* a new one.                                                              *)

Top == MaxLoginAttempts - 1

Capped(v) == IF v < MaxLoginAttempts THEN v ELSE Top

\* The logins that hold a read of at most w, when FailedAttempts is f; at the
\* limit also those that can only lock.
Held(rq, f, w) ==
  {r \in Request : \/ rq[r].pc = "counting" /\ Capped(rq[r].read) <= w
                   \/ rq[r].pc = "counted" /\ f >= MaxLoginAttempts /\ w = Top}

Holding(rq, f) == [w \in 0 .. Top |-> Cardinality(Held(rq, f, w))]

\* The way h is behind logins that hold L when the count is k: more logins
\* than in L hold a read below k, or h is a beginning of L.
Behind(h, L, k) ==
  \E v \in 0 .. k :
    /\ \A w \in 0 .. v - 1 : h[w] = L[w]
    /\ \/ v < k /\ h[v] > L[v]
       \/ h[v] <= L[v] /\ \A w \in v .. Top : h[w] = h[v]

Seen(L, k) == {h \in HeldUp : Behind(h, L, k)}

\* There are more ways behind the logins than wrong passwords tried.
FewGuesses == streak < Cardinality(Seen(Holding(req, failedAttempts), Capped(failedAttempts)))

\* Functions between finite sets are finitely many: each is a set of pairs.
LEMMA FunctionsFinite ==
  ASSUME NEW D, NEW N, IsFiniteSet(D), IsFiniteSet(N)
  PROVE  IsFiniteSet([D -> N])
<1> DEFINE Graph == [h \in [D -> N] |-> {<<w, h[w]>> : w \in D}]
<1>1. IsFiniteSet(SUBSET (D \X N))
      BY FS_Product, FS_SUBSET
<1>2. \A h \in [D -> N] : {<<w, h[w]>> : w \in D} \in SUBSET (D \X N)
      OBVIOUS
<1>3. Graph \in [[D -> N] -> SUBSET (D \X N)]
      BY <1>2
<1>4. ASSUME NEW g \in [D -> N], NEW h \in [D -> N], Graph[g] = Graph[h] PROVE g = h
  <2>1. ASSUME NEW w \in D PROVE g[w] = h[w]
    <3>1. <<w, g[w]>> \in {<<x, h[x]>> : x \in D}
          BY <1>4
    <3> QED
        BY <3>1
  <2> HIDE DEF Graph
  <2> QED
      BY <2>1
<1> HIDE DEF Graph
<1>5. Graph \in Injection([D -> N], SUBSET (D \X N))
      BY <1>3, <1>4, Fun_IsInj
<1> QED
    BY <1>1, <1>5, FS_Injection

\* So are the ways in which logins can be held up.
LEMMA HeldUpFinite == IsFiniteSet(HeldUp)
<1>1. IsFiniteSet(0 .. MaxLoginAttempts - 1) /\ IsFiniteSet(0 .. Cardinality(Request))
      BY FS_Interval, FS_CardinalityType, RequestAssumption, ConfigAssumption
<1>2. IsFiniteSet([0 .. MaxLoginAttempts - 1 -> 0 .. Cardinality(Request)])
      BY <1>1, FunctionsFinite
<1> QED
    BY <1>2, FS_Subset DEF HeldUp

\* What is behind is finite; the way in which nothing is held is always there.
LEMMA SeenCount ==
  ASSUME NEW L \in [0 .. Top -> Nat], NEW k \in 0 .. Top
  PROVE  /\ IsFiniteSet(Seen(L, k)) /\ Cardinality(Seen(L, k)) \in Nat
         /\ Cardinality(Seen(L, k)) > 0
<1> USE ConfigAssumption
<1>1. IsFiniteSet(Seen(L, k)) /\ Cardinality(Seen(L, k)) \in Nat
      BY HeldUpFinite, FS_Subset, FS_CardinalityType DEF Seen
<1>2. PICK z \in [0 .. Top -> 0 .. Cardinality(Request)] : \A w \in 0 .. Top : z[w] = 0
  <2>1. Cardinality(Request) \in Nat
        BY RequestAssumption, FS_CardinalityType
  <2>2. [w \in 0 .. Top |-> 0] \in [0 .. Top -> 0 .. Cardinality(Request)]
        BY <2>1
  <2> QED
      BY <2>2
<1>3. z \in HeldUp
      BY <1>2 DEF HeldUp, Top
<1>4. Behind(z, L, k)
  <2>1. 0 \in 0 .. k /\ 0 .. 0 - 1 = {} /\ L[0] \in Nat /\ 0 \in 0 .. Top
        BY DEF Top
  <2>2. z[0] <= L[0] /\ \A w \in 0 .. Top : z[w] = z[0]
        BY <1>2, <2>1
  <2> QED
      BY <2>1, <2>2 DEF Behind
<1>5. Seen(L, k) # {}
      BY <1>3, <1>4 DEF Seen
<1>6. Cardinality(Seen(L, k)) # 0
      BY <1>1, <1>5, FS_EmptySet
<1> QED
    BY <1>1, <1>6

\* Nothing is lost when the count stays and no less is held ...
LEMMA SeenStays ==
  ASSUME NEW L \in [0 .. Top -> Nat], NEW K \in [0 .. Top -> Nat], NEW k \in 0 .. Top,
         \A w \in 0 .. k - 1 : K[w] = L[w], L[k] <= K[k]
  PROVE  Seen(L, k) \subseteq Seen(K, k)
<1> USE ConfigAssumption DEF Top
<1> SUFFICES ASSUME NEW h \in HeldUp, Behind(h, L, k) PROVE Behind(h, K, k)
    BY DEF Seen
<1>1. PICK v \in 0 .. k :
         /\ \A w \in 0 .. v - 1 : h[w] = L[w]
         /\ \/ v < k /\ h[v] > L[v]
            \/ h[v] <= L[v] /\ \A w \in v .. Top : h[w] = h[v]
      BY DEF Behind
<1>2. \A w \in 0 .. v - 1 : h[w] = K[w]
      BY <1>1
<1>3. L[v] <= K[v] /\ (v < k => L[v] = K[v]) /\ h[v] \in Nat
      BY <1>1 DEF HeldUp
<1>4. \/ v < k /\ h[v] > K[v]
      \/ h[v] <= K[v] /\ \A w \in v .. Top : h[w] = h[v]
      BY <1>1, <1>3
<1> QED
    BY <1>2, <1>4 DEF Behind

\* ... when the count goes up ...
LEMMA SeenUp ==
  ASSUME NEW L \in [0 .. Top -> Nat], NEW K \in [0 .. Top -> Nat],
         NEW k \in 0 .. Top, NEW m \in 0 .. Top, k < m,
         \A w \in 0 .. k : K[w] = L[w]
  PROVE  Seen(L, k) \subseteq Seen(K, m)
<1> USE ConfigAssumption DEF Top
<1> SUFFICES ASSUME NEW h \in HeldUp, Behind(h, L, k) PROVE Behind(h, K, m)
    BY DEF Seen
<1>1. PICK v \in 0 .. k :
         /\ \A w \in 0 .. v - 1 : h[w] = L[w]
         /\ \/ v < k /\ h[v] > L[v]
            \/ h[v] <= L[v] /\ \A w \in v .. Top : h[w] = h[v]
      BY DEF Behind
<1>2. \A w \in 0 .. v - 1 : h[w] = K[w]
      BY <1>1
<1>3. L[v] = K[v] /\ v \in 0 .. m
      BY <1>1
<1>4. \/ v < m /\ h[v] > K[v]
      \/ h[v] <= K[v] /\ \A w \in v .. Top : h[w] = h[v]
      BY <1>1, <1>3
<1> QED
    BY <1>2, <1>3, <1>4 DEF Behind

\* ... and when one login gives back its read u and makes the count u + 1.
LEMMA SeenReleased ==
  ASSUME NEW L \in [0 .. Top -> Nat], NEW K \in [0 .. Top -> Nat],
         NEW k \in 0 .. Top, NEW u \in 0 .. k, u + 1 \in 0 .. Top,
         \A w \in 0 .. u - 1 : K[w] = L[w], K[u] + 1 = L[u]
  PROVE  Seen(L, k) \subseteq Seen(K, u + 1)
<1> USE ConfigAssumption DEF Top
<1> SUFFICES ASSUME NEW h \in HeldUp, Behind(h, L, k) PROVE Behind(h, K, u + 1)
    BY DEF Seen
<1>1. PICK v \in 0 .. k :
         /\ \A w \in 0 .. v - 1 : h[w] = L[w]
         /\ \/ v < k /\ h[v] > L[v]
            \/ h[v] <= L[v] /\ \A w \in v .. Top : h[w] = h[v]
      BY DEF Behind
<1>2. h[u] \in Nat /\ K[u] \in Nat /\ L[u] \in Nat /\ u \in 0 .. u + 1 /\ u < u + 1
      BY DEF HeldUp
<1>3. CASE v < u
  <2>1. \A w \in 0 .. v - 1 : h[w] = K[w]
        BY <1>1, <1>3
  <2>2. L[v] = K[v] /\ v \in 0 .. u + 1
        BY <1>3
  <2>3. \/ v < u + 1 /\ h[v] > K[v]
        \/ h[v] <= K[v] /\ \A w \in v .. Top : h[w] = h[v]
        BY <1>1, <1>3, <2>2
  <2> QED
      BY <2>1, <2>2, <2>3 DEF Behind
<1>4. CASE ~(v < u)
  <2>1. \A w \in 0 .. u - 1 : h[w] = K[w]
        BY <1>1, <1>4
  <2>2. CASE h[u] > K[u]
        BY <1>2, <2>1, <2>2 DEF Behind
  <2>3. CASE ~(h[u] > K[u])
    <3>1. v = u
      <4>1. v > u => h[u] = L[u]
            BY <1>1
      <4> QED
          BY <1>2, <1>4, <2>3, <4>1
    <3>2. h[u] <= K[u] /\ \A w \in u .. Top : h[w] = h[u]
          BY <1>1, <1>2, <2>3, <3>1
    <3> QED
        BY <1>2, <2>1, <3>2 DEF Behind
  <2> QED
      BY <2>2, <2>3
<1> QED
    BY <1>3, <1>4

\* A cap is a value below the limit, and caps keep the order.
LEMMA CappedType ==
  ASSUME NEW v \in Nat
  PROVE  Capped(v) \in 0 .. Top /\ Top \in Nat
BY ConfigAssumption DEF Capped, Top

\* What is held is counted by a number up to that of the logins, and grows with
\* the read.
LEMMA HeldCount ==
  ASSUME NEW rq \in [Request -> ReqState], NEW f \in Nat, NEW w \in 0 .. Top
  PROVE  /\ IsFiniteSet(Held(rq, f, w)) /\ Cardinality(Held(rq, f, w)) \in Nat
         /\ Cardinality(Held(rq, f, w)) <= Cardinality(Request)
         /\ \A v \in 0 .. w : Cardinality(Held(rq, f, v)) <= Cardinality(Held(rq, f, w))
<1>1. Held(rq, f, w) \subseteq Request
      BY DEF Held
<1>2. /\ IsFiniteSet(Held(rq, f, w)) /\ Cardinality(Held(rq, f, w)) \in Nat
      /\ Cardinality(Held(rq, f, w)) <= Cardinality(Request)
      BY <1>1, RequestAssumption, FS_Subset, FS_CardinalityType
<1>3. ASSUME NEW v \in 0 .. w
      PROVE  Cardinality(Held(rq, f, v)) <= Cardinality(Held(rq, f, w))
  <2>1. \A r \in Request : Capped(rq[r].read) \in Int
        BY CappedType DEF ReqState
  <2>2. Held(rq, f, v) \subseteq Held(rq, f, w)
        BY <2>1, ConfigAssumption DEF Held, Top
  <2> QED
      BY <1>2, <2>2, FS_Subset
<1> QED
    BY <1>2, <1>3

\* Reads below the highest are held only between the read and the write.  When
\* one login changes, what is held of them changes by that login at most.
LEMMA HeldBelow ==
  ASSUME NEW rq \in [Request -> ReqState], NEW rp \in [Request -> ReqState],
         NEW f, NEW g, NEW w \in Nat, NEW r \in Request, w < Top,
         \A q \in Request : q # r => rp[q] = rq[q]
  PROVE  /\ \A q \in Request : q # r => (q \in Held(rp, g, w) <=> q \in Held(rq, f, w))
         /\ r \in Held(rq, f, w) <=> rq[r].pc = "counting" /\ Capped(rq[r].read) <= w
         /\ r \in Held(rp, g, w) <=> rp[r].pc = "counting" /\ Capped(rp[r].read) <= w
<1>1. w # Top
      BY ConfigAssumption DEF Top
<1>2. \A q \in Request :
        /\ q \in Held(rq, f, w) <=> rq[q].pc = "counting" /\ Capped(rq[q].read) <= w
        /\ q \in Held(rp, g, w) <=> rp[q].pc = "counting" /\ Capped(rp[q].read) <= w
      BY <1>1 DEF Held
<1> QED
    BY <1>2

LEMMA HoldingType ==
  ASSUME NEW rq \in [Request -> ReqState], NEW f \in Nat
  PROVE  Holding(rq, f) \in [0 .. Top -> Nat]
BY HeldCount DEF Holding

\* A wrong password: the way that has the present count added to what is held
\* was not behind before, and is now.
LEMMA GuessIsNew ==
  ASSUME NEW rq \in [Request -> ReqState], NEW f \in Nat,
         NEW K \in [0 .. Top -> Nat],
         \A w \in 0 .. Capped(f) - 1 : K[w] = Holding(rq, f)[w],
         K[Capped(f)] = Holding(rq, f)[Capped(f)] + 1,
         K[Capped(f)] <= Cardinality(Request)
  PROVE  \E h \in HeldUp : /\ h \notin Seen(Holding(rq, f), Capped(f))
                           /\ h \in Seen(K, Capped(f))
<1> DEFINE L == Holding(rq, f)
           k == Capped(f)
           n == Cardinality(Request)
<1> USE ConfigAssumption
<1>1. /\ k \in 0 .. Top /\ Top \in Nat /\ L \in [0 .. Top -> Nat] /\ n \in Nat
      /\ \A w \in 0 .. k - 1 : K[w] = L[w]
      /\ K[k] = L[k] + 1 /\ K[k] <= n
      BY CappedType, HoldingType, RequestAssumption, FS_CardinalityType
<1>2. ASSUME NEW w \in 0 .. Top, NEW v \in 0 .. w PROVE L[v] <= L[w]
  <2>1. v \in 0 .. Top
        BY <1>1
  <2>2. /\ L[v] = Cardinality(Held(rq, f, v)) /\ L[w] = Cardinality(Held(rq, f, w))
        BY <2>1 DEF Holding
  <2> QED
      BY <2>2, HeldCount
<1> HIDE DEF L, k, n
<1>3. PICK h : h = [w \in 0 .. Top |-> IF w < k THEN L[w] ELSE L[k] + 1]
      OBVIOUS
<1>4. \A w \in 0 .. Top : h[w] = IF w < k THEN L[w] ELSE L[k] + 1
      BY <1>3
<1>5. \A w \in 0 .. Top : w < k => L[w] <= L[k]
      BY <1>1, <1>2
<1>6. h \in [0 .. Top -> 0 .. n]
      BY <1>1, <1>3, <1>5
<1>7. \A v, w \in 0 .. Top : v <= w => h[v] <= h[w]
  <2> SUFFICES ASSUME NEW v \in 0 .. Top, NEW w \in 0 .. Top, v <= w PROVE h[v] <= h[w]
      OBVIOUS
  <2>1. CASE w < k
        BY <1>1, <1>2, <1>4, <2>1
  <2>2. CASE ~(w < k)
    <3>1. h[w] = L[k] + 1 /\ L[k] \in Nat
          BY <1>1, <1>4, <2>2
    <3>2. CASE v < k
      <4>1. h[v] = L[v] /\ L[v] <= L[k] /\ L[v] \in Nat
            BY <1>1, <1>4, <1>5, <3>2
      <4> QED
          BY <3>1, <4>1
    <3>3. CASE ~(v < k)
          BY <1>4, <3>1, <3>3
    <3> QED
        BY <3>2, <3>3
  <2> QED
      BY <2>1, <2>2
<1>8. h \in HeldUp
      BY <1>6, <1>7 DEF HeldUp, Top, n
<1>9. ~Behind(h, L, k)
  <2> SUFFICES ASSUME NEW v \in 0 .. k,
                      \/ v < k /\ h[v] > L[v]
                      \/ h[v] <= L[v] /\ \A w \in v .. Top : h[w] = h[v]
               PROVE  FALSE
      BY DEF Behind
  <2>1. v \in 0 .. Top /\ L[v] \in Nat /\ L[k] \in Nat
        BY <1>1
  <2>2. CASE v < k /\ h[v] > L[v]
        BY <1>4, <2>1, <2>2
  <2>3. CASE h[v] <= L[v] /\ \A w \in v .. Top : h[w] = h[v]
    <3>1. k \in v .. Top /\ k \in 0 .. Top
          BY <1>1
    <3>2. h[k] = L[k] + 1 /\ h[k] = h[v]
          BY <1>1, <1>4, <2>3, <3>1
    <3>3. L[v] <= L[k]
          BY <1>1, <1>2
    <3> QED
        BY <2>1, <2>3, <3>2, <3>3
  <2> QED
      BY <2>2, <2>3
<1>10. Behind(h, K, k)
  <2>1. \A w \in 0 .. k - 1 : h[w] = K[w]
        BY <1>1, <1>4
  <2>2. h[k] <= K[k] /\ \A w \in k .. Top : h[w] = h[k]
        BY <1>1, <1>4
  <2>3. k \in 0 .. k
        BY <1>1
  <2> QED
      BY <2>1, <2>2, <2>3 DEF Behind
<1> QED
    BY <1>8, <1>9, <1>10 DEF Seen, L, k

-----------------------------------------------------------------------------
(* The steps of a login                                                    *)

\* A wrong password is one more guess and finds at least one way more behind.
LEMMA GuessStep ==
  ASSUME IInv, IInv', FewGuesses, NEW r \in Request, WrongPassword(r)
  PROVE  FewGuesses'
<1> DEFINE k == Capped(failedAttempts)
           L == Holding(req, failedAttempts)
           K == Holding(req', failedAttempts)
<1> USE DEF IInv, TypeOK
<1>1. /\ failedAttempts' = failedAttempts /\ streak' = streak + 1 /\ req[r].pc = "verifying"
      /\ req' = [req EXCEPT ![r] = [pc |-> "counting", read |-> failedAttempts]]
      BY DEF WrongPassword, record
<1>2. /\ k \in 0 .. Top /\ Top \in Nat
      /\ L \in [0 .. Top -> Nat] /\ K \in [0 .. Top -> Nat]
      BY <1>1, CappedType, HoldingType
<1>3. /\ req'[r] = [pc |-> "counting", read |-> failedAttempts]
      /\ \A q \in Request : q # r => req'[q] = req[q]
      BY <1>1
<1>4. ASSUME NEW w \in 0 .. k - 1
      PROVE  Held(req', failedAttempts, w) = Held(req, failedAttempts, w)
  <2>1. w \in Nat /\ w < Top /\ ~(k <= w)
        BY <1>2, <1>4
  <2>2. r \notin Held(req, failedAttempts, w) /\ r \notin Held(req', failedAttempts, w)
    <3>1. /\ r \in Held(req, failedAttempts, w)
               <=> req[r].pc = "counting" /\ Capped(req[r].read) <= w
          /\ r \in Held(req', failedAttempts, w)
               <=> req'[r].pc = "counting" /\ Capped(req'[r].read) <= w
          BY <1>3, <2>1, HeldBelow
    <3>2. req[r].pc # "counting" /\ req'[r].read = failedAttempts
          BY <1>1, <1>3
    <3> QED
        BY <2>1, <3>1, <3>2
  <2>3. \A q \in Request : q # r => (q \in Held(req', failedAttempts, w)
                                       <=> q \in Held(req, failedAttempts, w))
        BY <1>3, <2>1, HeldBelow
  <2> QED
      BY <2>2, <2>3 DEF Held
<1>5. /\ Held(req', failedAttempts, k) = Held(req, failedAttempts, k) \union {r}
      /\ r \notin Held(req, failedAttempts, k)
      BY <1>1, <1>2, <1>3 DEF Held
<1>6. /\ Cardinality(Held(req', failedAttempts, k))
           = Cardinality(Held(req, failedAttempts, k)) + 1
      /\ Cardinality(Held(req', failedAttempts, k)) <= Cardinality(Request)
  <2>1. /\ IsFiniteSet(Held(req, failedAttempts, k))
        /\ Cardinality(Held(req', failedAttempts, k)) <= Cardinality(Request)
        BY <1>1, <1>2, HeldCount
  <2> QED
      BY <1>5, <2>1, FS_AddElement
<1>7. /\ \A w \in 0 .. k - 1 : K[w] = L[w]
      /\ K[k] = L[k] + 1 /\ K[k] <= Cardinality(Request)
      BY <1>2, <1>4, <1>6 DEF Holding
<1>8. PICK h \in HeldUp : h \notin Seen(L, k) /\ h \in Seen(K, k)
      BY <1>2, <1>7, GuessIsNew
<1> HIDE DEF k, L, K
<1>9. Seen(L, k) \subseteq Seen(K, k)
  <2>1. L[k] <= K[k]
        BY <1>2, <1>7
  <2> QED
      BY <1>2, <1>7, <2>1, SeenStays
<1>10. /\ IsFiniteSet(Seen(L, k)) /\ Cardinality(Seen(L, k)) \in Nat
       /\ IsFiniteSet(Seen(K, k)) /\ Cardinality(Seen(K, k)) \in Nat
       BY <1>2, SeenCount
<1>11. Cardinality(Seen(L, k) \union {h}) = Cardinality(Seen(L, k)) + 1
       BY <1>8, <1>10, FS_AddElement
<1>12. Cardinality(Seen(L, k) \union {h}) <= Cardinality(Seen(K, k))
       BY <1>8, <1>9, <1>10, FS_Subset
<1>13. streak < Cardinality(Seen(L, k))
       BY DEF FewGuesses, L, k
<1>14. streak + 1 < Cardinality(Seen(K, k))
       BY <1>10, <1>11, <1>12, <1>13
<1> QED
    BY <1>1, <1>14 DEF FewGuesses, L, K, k

\* A step that is no guess and loses nothing that is behind.
LEMMA NoLoss ==
  ASSUME IInv, IInv', FewGuesses, streak' = streak,
         Seen(Holding(req, failedAttempts), Capped(failedAttempts))
           \subseteq Seen(Holding(req', failedAttempts'), Capped(failedAttempts'))
  PROVE  FewGuesses'
<1> DEFINE S == Seen(Holding(req, failedAttempts), Capped(failedAttempts))
           T == Seen(Holding(req', failedAttempts'), Capped(failedAttempts'))
<1>1. /\ IsFiniteSet(S) /\ Cardinality(S) \in Nat
      /\ IsFiniteSet(T) /\ Cardinality(T) \in Nat
      BY CappedType, HoldingType, SeenCount DEF IInv, TypeOK
<1>2. S \subseteq T
      OBVIOUS
<1>3. streak < Cardinality(S) /\ streak \in Nat
      BY DEF FewGuesses, IInv, TypeOK
<1> HIDE DEF S, T
<1>4. Cardinality(S) <= Cardinality(T)
      BY <1>1, <1>2, FS_Subset
<1>5. streak' < Cardinality(T)
      BY <1>1, <1>3, <1>4
<1> QED
    BY <1>5 DEF FewGuesses, T

\* A write of FailedAttempts: the read that was held goes, the count comes.
LEMMA WriteStep ==
  ASSUME IInv, IInv', FewGuesses, NEW r \in Request, CountFailure(r)
  PROVE  FewGuesses'
<1> USE ConfigAssumption DEF IInv, TypeOK
<1>1. PICK v \in Nat : v = req[r].read
      BY DEF ReqState
<1>2. /\ failedAttempts' = v + 1 /\ streak' = streak /\ req[r].pc = "counting"
      /\ req'[r].pc = "counted"
      /\ \A q \in Request : q # r => req'[q] = req[q]
      BY <1>1 DEF CountFailure, ReqState
<1> DEFINE f == failedAttempts
           k == Capped(f)
           L == Holding(req, f)
           K == Holding(req', v + 1)
<1>3. /\ k \in 0 .. Top /\ Top \in Nat /\ Capped(v) \in 0 .. Top /\ Capped(v + 1) \in 0 .. Top
      /\ L \in [0 .. Top -> Nat] /\ K \in [0 .. Top -> Nat] /\ f \in Nat
      BY <1>2, CappedType, HoldingType
<1>4. Seen(L, k) \subseteq Seen(K, Capped(v + 1))
  <2>1. CASE Capped(v) <= k /\ v + 1 < MaxLoginAttempts
    <3>1. Capped(v) = v /\ Capped(v + 1) = v + 1 /\ v < Top /\ v + 1 \in 0 .. Top /\ v \in 0 .. k
          BY <1>3, <2>1 DEF Capped, Top
    <3>2. ASSUME NEW w \in 0 .. v - 1 PROVE Held(req', v + 1, w) = Held(req, f, w)
      <4>1. w \in Nat /\ w < Top /\ ~(v <= w)
            BY <1>3, <3>1, <3>2
      <4>2. r \notin Held(req, f, w) /\ r \notin Held(req', v + 1, w)
            BY <1>1, <1>2, <3>1, <4>1, HeldBelow
      <4>3. \A q \in Request : q # r => (q \in Held(req', v + 1, w) <=> q \in Held(req, f, w))
            BY <1>2, <4>1, HeldBelow
      <4> QED
          BY <4>2, <4>3 DEF Held
    <3>3. /\ Held(req', v + 1, v) = Held(req, f, v) \ {r} /\ r \in Held(req, f, v)
      <4>1. v \in Nat /\ v < Top /\ v <= v
            BY <3>1
      <4>2. r \in Held(req, f, v) /\ r \notin Held(req', v + 1, v)
            BY <1>1, <1>2, <3>1, <4>1, HeldBelow
      <4>3. \A q \in Request : q # r => (q \in Held(req', v + 1, v) <=> q \in Held(req, f, v))
            BY <1>2, <4>1, HeldBelow
      <4> QED
          BY <4>2, <4>3 DEF Held
    <3>4. Cardinality(Held(req', v + 1, v)) + 1 = Cardinality(Held(req, f, v))
      <4>1. v \in 0 .. Top
            BY <1>3, <3>1
      <4>2. IsFiniteSet(Held(req, f, v)) /\ Cardinality(Held(req, f, v)) \in Nat
            BY <1>3, <4>1, HeldCount
      <4>3. Cardinality(Held(req', v + 1, v)) = Cardinality(Held(req, f, v)) - 1
            BY <3>3, <4>2, FS_RemoveElement
      <4> QED
          BY <4>2, <4>3
    <3>5. (\A w \in 0 .. v - 1 : K[w] = L[w]) /\ K[v] + 1 = L[v]
          BY <1>3, <3>1, <3>2, <3>4 DEF Holding
    <3> HIDE DEF K, L, k
    <3> QED
        BY <1>3, <3>1, <3>5, SeenReleased
  <2>2. CASE Capped(v) <= k /\ ~(v + 1 < MaxLoginAttempts)
    <3>1. k = Top /\ Capped(v) = Top /\ Capped(v + 1) = Top /\ v + 1 >= MaxLoginAttempts
          BY <1>3, <2>2 DEF Capped, Top
    <3>2. ASSUME NEW w \in 0 .. Top - 1 PROVE Held(req', v + 1, w) = Held(req, f, w)
      <4>1. w \in Nat /\ w < Top /\ ~(Top <= w)
            BY <1>3, <3>2
      <4>2. r \notin Held(req, f, w) /\ r \notin Held(req', v + 1, w)
            BY <1>1, <1>2, <3>1, <4>1, HeldBelow
      <4>3. \A q \in Request : q # r => (q \in Held(req', v + 1, w) <=> q \in Held(req, f, w))
            BY <1>2, <4>1, HeldBelow
      <4> QED
          BY <4>2, <4>3 DEF Held
    <3>3. Held(req, f, Top) \subseteq Held(req', v + 1, Top)
          BY <1>1, <1>2, <1>3, <3>1 DEF Held
    <3>4. Cardinality(Held(req, f, Top)) <= Cardinality(Held(req', v + 1, Top))
      <4>1. Top \in 0 .. Top /\ v + 1 \in Nat /\ req' \in [Request -> ReqState]
            BY <1>3
      <4>2. IsFiniteSet(Held(req', v + 1, Top))
            BY <4>1, HeldCount
      <4> QED
          BY <3>3, <4>2, FS_Subset
    <3>5. (\A w \in 0 .. Top - 1 : K[w] = L[w]) /\ L[Top] <= K[Top]
          BY <1>3, <3>2, <3>4 DEF Holding
    <3> HIDE DEF K, L, k
    <3> QED
        BY <1>3, <3>1, <3>5, SeenStays
  <2>3. CASE ~(Capped(v) <= k)
    <3>1. k < Capped(v + 1) /\ k < Top
          BY <1>3, <2>3 DEF Capped, Top
    <3>2. ASSUME NEW w \in Nat, w <= k PROVE Held(req', v + 1, w) = Held(req, f, w)
      <4>1. w \in Nat /\ w < Top /\ ~(Capped(v) <= w)
        <5>1. k \in Nat /\ Capped(v) \in Nat /\ k < Capped(v)
              BY <1>3, <2>3
        <5>2. PICK i \in Nat : i = k
              BY <5>1
        <5>3. PICK j \in Nat : j = Capped(v)
              BY <5>1
        <5>4. i < j /\ w <= i /\ i < Top /\ Top \in Nat
              BY <1>3, <3>1, <3>2, <5>1, <5>2, <5>3
        <5> HIDE DEF k
        <5>5. w < Top /\ ~(j <= w)
              BY <5>4
        <5> QED
            BY <5>3, <5>5
      <4>2. r \notin Held(req, f, w) /\ r \notin Held(req', v + 1, w)
            BY <1>1, <1>2, <4>1, HeldBelow
      <4>3. \A q \in Request : q # r => (q \in Held(req', v + 1, w) <=> q \in Held(req, f, w))
            BY <1>2, <4>1, HeldBelow
      <4> QED
          BY <4>2, <4>3 DEF Held
    <3>3. ASSUME NEW w \in Nat, w <= k PROVE K[w] = L[w]
      <4>1. w \in 0 .. Top
            BY <1>3, <3>3
      <4> QED
          BY <3>2, <3>3, <4>1 DEF Holding
    <3> HIDE DEF K, L, k
    <3>4. PICK m \in 0 .. Top : m = Capped(v + 1)
          BY <1>3
    <3>5. k < m
          BY <3>1, <3>4
    <3>6. \A w \in 0 .. k : K[w] = L[w]
          BY <1>3, <3>3
    <3>7. k \in 0 .. Top /\ L \in [0 .. Top -> Nat] /\ K \in [0 .. Top -> Nat]
          BY <1>3
    <3>8. Seen(L, k) \subseteq Seen(K, m)
          BY <3>5, <3>6, <3>7, SeenUp
    <3> QED
        BY <3>4, <3>8
  <2> QED
      BY <2>1, <2>2, <2>3
<1> QED
    BY <1>2, <1>4, NoLoss

\* The other steps: the same logins hold the same, or the streak begins anew.
LEMMA FewGuessesStep == IInv /\ FewGuesses /\ [Next]_vars => FewGuesses'
<1> SUFFICES ASSUME IInv, FewGuesses, [Next]_vars PROVE FewGuesses'
    OBVIOUS
<1> USE ConfigAssumption
<1>1. IInv'
      BY IInvStep
<1>2. ASSUME NEW r \in Request, LoginCheck(r) \/ BelowLimit(r) \/ ResetLock(r)
      PROVE  FewGuesses'
  <2>1. /\ failedAttempts' = failedAttempts /\ streak' = streak
        /\ req'[r].pc \in {"verifying", "idle"}
        /\ req[r].pc \in {"idle", "resetting"} \/ (req[r].pc = "counted" /\ ~AtLimit)
        /\ \A q \in Request : q # r => req'[q] = req[q]
        BY <1>2 DEF LoginCheck, BelowLimit, ResetLock, IInv, TypeOK, ReqState, Idle, record,
                    history
  <2>2. \A w \in 0 .. Top : Held(req', failedAttempts, w) = Held(req, failedAttempts, w)
        BY <2>1 DEF Held, AtLimit, IInv, TypeOK
  <2>3. Holding(req', failedAttempts') = Holding(req, failedAttempts)
        BY <2>1, <2>2 DEF Holding
  <2> QED
      BY <1>1, <2>1, <2>3, NoLoss
<1>3. ASSUME NEW r \in Request, LockAtLimit(r) \/ RightPassword(r) PROVE FewGuesses'
  <2>1. streak' = 0
        BY <1>3 DEF LockAtLimit, RightPassword
  <2>2. Cardinality(Seen(Holding(req', failedAttempts'), Capped(failedAttempts'))) > 0
        BY <1>1, CappedType, HoldingType, SeenCount DEF IInv, TypeOK
  <2> QED
      BY <2>1, <2>2 DEF FewGuesses
<1>4. CASE Tick \/ UNCHANGED vars
      BY <1>4 DEF Tick, vars, record, history, FewGuesses
<1> QED
    BY <1>1, <1>2, <1>3, <1>4, GuessStep, WriteStep DEF Next, Login

\* handleFailedLogin: before a lock or a right password, n concurrent logins try
\* fewer wrong passwords than there are ways of holding up n logins.
THEOREM GuessesAreLimited == Spec => []GuessBound
<1>1. Init => FewGuesses
  <2> SUFFICES ASSUME Init PROVE FewGuesses
      OBVIOUS
  <2>1. IInv
        BY InitIInv
  <2>2. Cardinality(Seen(Holding(req, failedAttempts), Capped(failedAttempts))) > 0
        BY <2>1, CappedType, HoldingType, SeenCount DEF IInv, TypeOK
  <2> QED
      BY <2>2 DEF Init, FewGuesses
<1>2. ASSUME IInv, FewGuesses PROVE GuessBound
  <2> DEFINE S == Seen(Holding(req, failedAttempts), Capped(failedAttempts))
  <2>1. S \subseteq HeldUp
        BY DEF Seen
  <2>2. streak < Cardinality(S) /\ streak \in Nat
        BY <1>2 DEF FewGuesses, IInv, TypeOK
  <2> HIDE DEF S
  <2>3. /\ Cardinality(S) \in Nat /\ Cardinality(HeldUp) \in Nat
        /\ Cardinality(S) <= Cardinality(HeldUp)
        BY <2>1, HeldUpFinite, FS_Subset, FS_CardinalityType
  <2> QED
      BY <2>2, <2>3 DEF GuessBound
<1> QED
    BY <1>1, <1>2, Invariance, FewGuessesStep, PTL DEF Spec


-----------------------------------------------------------------------------
(* The limiter                                                             *)

Left(ip) == IF ~Live(ip) THEN limit
            ELSE IF clients[ip].count < limit THEN limit - clients[ip].count ELSE 0

Start(ip) == IF Live(ip) THEN clients[ip].windowStart ELSE -1

OpenedInThePast ==
  /\ now \in Time
  /\ \A ip \in IP : clients[ip].windowStart <= now

LimiterIInv == LimiterTypeOK /\ OpenedInThePast

-----------------------------------------------------------------------------
\* The empty table satisfies the invariant.
LEMMA LimiterInitIInv == LimiterInit => LimiterIInv
BY ClockAssumption
   DEF LimiterInit, LimiterIInv, LimiterTypeOK, OpenedInThePast, NoEntry, rateLimitEntry, Time

\* The fields of an entry, present or not, are numbers.
LEMMA EntryFields ==
  ASSUME LimiterTypeOK, NEW ip \in IP
  PROVE  clients[ip].count \in Nat /\ clients[ip].windowStart \in Nat
<1>1. CASE clients[ip] = NoEntry
      BY <1>1 DEF NoEntry
<1>2. CASE clients[ip] \in rateLimitEntry
      BY <1>2 DEF rateLimitEntry
<1> QED
    BY <1>1, <1>2 DEF LimiterTypeOK

\* A tick, a request and a cleanup keep the invariant.
LEMMA LimiterIInvStep == LimiterIInv /\ [LimiterNext]_limiterVars => LimiterIInv'
<1> SUFFICES ASSUME LimiterIInv, [LimiterNext]_limiterVars PROVE LimiterIInv'
    OBVIOUS
<1> USE ClockAssumption, WindowAssumption
    DEF LimiterIInv, LimiterTypeOK, OpenedInThePast, rateLimitEntry, NoEntry, Time
<1>1. CASE LimiterTick
  <2>1. now' = now + 1 /\ now' \in Time /\ UNCHANGED <<clients, admitted>>
        BY <1>1 DEF LimiterTick, Advance
  <2>2. \A ip \in IP : clients[ip].windowStart \in Nat
        BY EntryFields
  <2> QED
      BY <2>1, <2>2
<1>2. CASE cleanup
      BY <1>2 DEF cleanup
<1>3. ASSUME NEW ip \in IP, LimitNewWindow(ip) PROVE LimiterIInv'
      BY <1>3 DEF LimitNewWindow, Pass
<1>4. ASSUME NEW ip \in IP, LimitCount(ip) PROVE LimiterIInv'
  <2>1. clients' \in [IP -> rateLimitEntry \union {NoEntry}]
    <3>1. clients[ip] \in rateLimitEntry
          BY <1>4 DEF LimitCount, Live, Exists
    <3>2. [clients[ip] EXCEPT !.count = @ + 1] \in rateLimitEntry
          BY <3>1
    <3> QED
        BY <1>4, <3>2 DEF LimitCount
  <2>2. admitted' \in [IP -> [Time -> Nat]]
    <3>1. CASE UNCHANGED admitted
          BY <3>1
    <3>2. CASE Pass(ip)
          BY <3>2 DEF Pass
    <3> QED
        BY <1>4, <3>1, <3>2 DEF LimitCount
  <2>3. \A i \in IP : clients'[i].windowStart = clients[i].windowStart
        BY <1>4 DEF LimitCount
  <2> QED
      BY <1>4, <2>1, <2>2, <2>3 DEF LimitCount
<1>5. CASE UNCHANGED limiterVars
      BY <1>5 DEF limiterVars
<1> QED
    BY <1>1, <1>2, <1>3, <1>4, <1>5 DEF LimiterNext

\* The invariant holds in every reachable state.
THEOREM LimiterInvariance == LimiterSpec => []LimiterIInv
BY LimiterInitIInv, LimiterIInvStep, PTL DEF LimiterSpec

\* The clock, the table and the history always have their types.
THEOREM LimiterTypeCorrect == LimiterSpec => []LimiterTypeOK
<1>1. LimiterIInv => LimiterTypeOK
      BY DEF LimiterIInv
<1> QED
    BY <1>1, LimiterInvariance, PTL

-----------------------------------------------------------------------------
\* cleanup changes neither the budget nor the window of any client.
LEMMA CleanupIsInvisible ==
  ASSUME LimiterIInv, cleanup, NEW ip \in IP
  PROVE  Left(ip)' = Left(ip) /\ Start(ip)' = Start(ip)
BY WindowAssumption
   DEF LimiterIInv, LimiterTypeOK, OpenedInThePast, cleanup, Left, Start, Live, Exists, Age,
       rateLimitEntry, NoEntry

\* A request inside its window leaves the window open.
LEMMA LiveAfterCount ==
  ASSUME LimiterIInv, NEW ip \in IP, LimitCount(ip)
  PROVE  /\ Live(ip) /\ Live(ip)' /\ now' = now
         /\ clients'[ip].count = clients[ip].count + 1
         /\ clients'[ip].windowStart = clients[ip].windowStart
<1>1. /\ clients'[ip].windowStart = clients[ip].windowStart
      /\ clients'[ip].count = clients[ip].count + 1
      BY DEF LimitCount, LimiterIInv, LimiterTypeOK
<1>2. clients'[ip] # NoEntry
      BY <1>1, EntryFields DEF NoEntry, LimiterIInv
<1> QED
    BY <1>1, <1>2 DEF LimitCount, Live, Exists, Age

\* The table with its cleanup implements the limiter without a table.
THEOREM LimiterRefinement == LimiterSpec => TableIsInvisible
<1> USE LimitAssumption, WindowAssumption, ClockAssumption
<1>1. LimiterInit => Abstract!Init
      BY DEF LimiterInit, Abstract!Init, Live, Exists, NoEntry
<1>2. LimiterIInv /\ [LimiterNext]_limiterVars => [Abstract!Next]_(Abstract!vars)
  <2> SUFFICES ASSUME LimiterIInv, [LimiterNext]_limiterVars PROVE [Abstract!Next]_(Abstract!vars)
      OBVIOUS
  <2>1. CASE LimiterTick
        BY <2>1 DEF LimiterTick, Advance, LimiterIInv, LimiterTypeOK, OpenedInThePast, Live, Exists, Age, NoEntry,
                    rateLimitEntry, Abstract!Next, Abstract!Tick, Abstract!Over
  <2>2. CASE cleanup
        BY <2>2, CleanupIsInvisible
           DEF Left, Start, Abstract!vars, cleanup
  <2>3. ASSUME NEW ip \in IP, LimitNewWindow(ip) PROVE Abstract!Admit(ip)
    <3>1. /\ clients'[ip] = [count |-> 1, windowStart |-> now] /\ now' = now
          /\ now \in Nat /\ ~Live(ip)
          BY <2>3 DEF LimitNewWindow, LimiterIInv, LimiterTypeOK
    <3>2. Live(ip)'
          BY <3>1 DEF Live, Exists, Age, NoEntry
    <3>3. Left(ip) = limit /\ Left(ip)' = limit - 1 /\ Start(ip) = -1 /\ Start(ip)' = now
          BY <3>1, <3>2 DEF Left, Start
    <3>4. \A i \in IP : i # ip => Left(i)' = Left(i) /\ Start(i)' = Start(i)
          BY <2>3 DEF LimitNewWindow, Left, Start, Live, Exists, Age, LimiterIInv, LimiterTypeOK
    <3>5. admitted' = [admitted EXCEPT ![ip][now] = @ + 1]
          BY <2>3 DEF LimitNewWindow, Pass
    <3>6. /\ [i \in IP |-> Left(i)'] = [[i \in IP |-> Left(i)] EXCEPT ![ip] = @ - 1]
          /\ [i \in IP |-> Start(i)']
               = [[i \in IP |-> Start(i)] EXCEPT ![ip] = IF @ = -1 THEN now ELSE @]
          BY <3>3, <3>4
    <3>7. [i \in IP |-> Left(i)][ip] > 0
          BY <3>3
    <3> QED
        BY <3>1, <3>5, <3>6, <3>7 DEF Abstract!Admit, Left, Start
  <2>4. ASSUME NEW ip \in IP, LimitCount(ip), clients[ip].count < limit
        PROVE  Abstract!Admit(ip)
    <3>1. /\ Live(ip) /\ Live(ip)' /\ now' = now
          /\ clients'[ip].count = clients[ip].count + 1
          /\ clients'[ip].windowStart = clients[ip].windowStart
          BY <2>4, LiveAfterCount
    <3>2. /\ Left(ip)' = Left(ip) - 1 /\ Left(ip) > 0
          /\ Start(ip)' = Start(ip) /\ Start(ip) # -1
          BY <2>4, <3>1, EntryFields DEF Left, Start, LimiterIInv
    <3>3. \A i \in IP : i # ip => Left(i)' = Left(i) /\ Start(i)' = Start(i)
          BY <2>4 DEF LimitCount, Left, Start, Live, Exists, Age, LimiterIInv, LimiterTypeOK
    <3>4. admitted' = [admitted EXCEPT ![ip][now] = @ + 1]
          BY <2>4, EntryFields DEF LimitCount, Pass, LimiterIInv
    <3> QED
        BY <3>1, <3>2, <3>3, <3>4 DEF Abstract!Admit, Left, Start
  <2>5. ASSUME NEW ip \in IP, LimitCount(ip), ~(clients[ip].count < limit)
        PROVE  UNCHANGED Abstract!vars
    <3>1. /\ Live(ip) /\ Live(ip)' /\ now' = now
          /\ clients'[ip].count = clients[ip].count + 1
          /\ clients'[ip].windowStart = clients[ip].windowStart
          BY <2>5, LiveAfterCount
    <3>2. Left(ip)' = Left(ip) /\ Start(ip)' = Start(ip)
          BY <2>5, <3>1, EntryFields DEF Left, Start, LimiterIInv
    <3>3. \A i \in IP : i # ip => Left(i)' = Left(i) /\ Start(i)' = Start(i)
          BY <2>5 DEF LimitCount, Left, Start, Live, Exists, Age, LimiterIInv, LimiterTypeOK
    <3>4. admitted' = admitted
          BY <2>5, EntryFields DEF LimitCount, LimiterIInv
    <3> QED
        BY <3>1, <3>2, <3>3, <3>4 DEF Abstract!vars, Left, Start
  <2>6. CASE UNCHANGED limiterVars
        BY <2>6 DEF limiterVars, Live, Exists, Age, Abstract!vars
  <2> QED
      BY <2>1, <2>2, <2>3, <2>4, <2>5, <2>6 DEF LimiterNext, Abstract!Next
<1> QED
    BY <1>1, <1>2, LimiterInvariance, PTL DEF LimiterSpec, TableIsInvisible, Abstract!Spec

-----------------------------------------------------------------------------
(* The windows of a client                                                 *)

PassesFinite == \A ip \in IP : IsFiniteSet(Passes(ip, 0, MaxTime))

\* The last window of ip began at s: what passed, passed before its end; in it
\* no more than its count says; before it, back to a window's length, no more
\* than one other window holds.
LastWindow(ip, s) ==
  /\ IF Exists(ip) THEN s = clients[ip].windowStart ELSE s + Window < now
  /\ s <= now
  /\ \A t \in Time : admitted[ip][t] > 0 => t <= now /\ t <= s + Window
  /\ Cardinality(Passes(ip, s, MaxTime)) <= limit
  /\ Live(ip) => Cardinality(Passes(ip, s, MaxTime)) <= clients[ip].count
  /\ \A a \in Time : s <= a + Window => Cardinality(Passes(ip, a, s - 1)) <= limit

EveryClientHasLast == \A ip \in IP : \E s \in Int : LastWindow(ip, s)

WindowsInv == LimiterIInv /\ PassesFinite /\ EveryClientHasLast /\ SlidingBound

\* The members of Passes.
LEMMA PassesMember ==
  ASSUME LimiterTypeOK, NEW ip \in IP, NEW a \in Int, NEW b \in Int, NEW p
  PROVE  p \in Passes(ip, a, b)
           <=> \E t \in Time : /\ a <= t /\ t <= b
                               /\ \E i \in 1 .. admitted[ip][t] : p = <<t, i>>
BY ClockAssumption DEF Passes, Time

\* Passes grows with its stretch; what is outside Time does not matter.
LEMMA PassesWithin ==
  ASSUME LimiterTypeOK, NEW ip \in IP, NEW a \in Int, NEW b \in Int, NEW c \in Int, NEW d \in Int,
         \A t \in Time : a <= t /\ t <= b /\ admitted[ip][t] > 0 => c <= t /\ t <= d
  PROVE  Passes(ip, a, b) \subseteq Passes(ip, c, d)
<1> SUFFICES ASSUME NEW p \in Passes(ip, a, b) PROVE p \in Passes(ip, c, d)
    OBVIOUS
<1>1. PICK t \in Time : a <= t /\ t <= b /\ \E i \in 1 .. admitted[ip][t] : p = <<t, i>>
      BY PassesMember
<1>2. PICK i \in 1 .. admitted[ip][t] : p = <<t, i>>
      BY <1>1
<1>3. admitted[ip][t] > 0
      BY DEF LimiterTypeOK
<1>4. c <= t /\ t <= d
      BY <1>1, <1>3
<1> QED
    BY <1>2, <1>4, PassesMember

\* Every stretch holds finitely many passes, no more than a longer one.
LEMMA PassesCount ==
  ASSUME LimiterTypeOK, PassesFinite, NEW ip \in IP,
         NEW a \in Int, NEW b \in Int, NEW c \in Int, NEW d \in Int,
         \A t \in Time : a <= t /\ t <= b /\ admitted[ip][t] > 0 => c <= t /\ t <= d
  PROVE  /\ IsFiniteSet(Passes(ip, a, b)) /\ Cardinality(Passes(ip, a, b)) \in Nat
         /\ IsFiniteSet(Passes(ip, c, d)) /\ Cardinality(Passes(ip, c, d)) \in Nat
         /\ Cardinality(Passes(ip, a, b)) <= Cardinality(Passes(ip, c, d))
<1>1. Passes(ip, c, d) \subseteq Passes(ip, 0, MaxTime)
      BY PassesWithin, ClockAssumption DEF Time
<1>2. IsFiniteSet(Passes(ip, c, d)) /\ Cardinality(Passes(ip, c, d)) \in Nat
      BY <1>1, FS_Subset, FS_CardinalityType DEF PassesFinite
<1>3. Passes(ip, a, b) \subseteq Passes(ip, c, d)
      BY PassesWithin
<1> QED
    BY <1>2, <1>3, FS_Subset, FS_CardinalityType

\* A request let through is one more pass of its client, now.
LEMMA PassAddsOne ==
  ASSUME LimiterTypeOK, now \in Time, LimiterTypeOK', NEW ip \in IP, Pass(ip),
         NEW a \in Int, NEW b \in Int
  PROVE  /\ Passes(ip, a, b)' \subseteq Passes(ip, a, b) \union {<<now, admitted[ip][now] + 1>>}
         /\ ~(a <= now /\ now <= b) => Passes(ip, a, b)' = Passes(ip, a, b)
         /\ \A j \in IP : j # ip => Passes(j, a, b)' = Passes(j, a, b)
<1>1. /\ \A t \in Time : admitted'[ip][t] = IF t = now THEN admitted[ip][t] + 1
                                            ELSE admitted[ip][t]
      /\ \A j \in IP : j # ip => admitted'[j] = admitted[j]
      BY DEF Pass, LimiterTypeOK
<1>2. ASSUME NEW p \in Passes(ip, a, b)'
      PROVE  p \in Passes(ip, a, b) \union {<<now, admitted[ip][now] + 1>>}
  <2>1. PICK t \in Time : /\ a <= t /\ t <= b
                          /\ \E i \in 1 .. admitted'[ip][t] : p = <<t, i>>
        BY <1>2, ClockAssumption DEF Passes, Time
  <2>2. PICK i \in 1 .. admitted'[ip][t] : p = <<t, i>>
        BY <2>1
  <2>3. i \in 1 .. admitted[ip][t] \/ (t = now /\ i = admitted[ip][t] + 1)
        BY <1>1 DEF LimiterTypeOK
  <2> QED
      BY <2>1, <2>2, <2>3, PassesMember
<1>3. ASSUME ~(a <= now /\ now <= b) PROVE Passes(ip, a, b)' = Passes(ip, a, b)
      BY <1>1, <1>3 DEF Passes
<1>4. \A j \in IP : j # ip => Passes(j, a, b)' = Passes(j, a, b)
      BY <1>1 DEF Passes
<1> QED
    BY <1>2, <1>3, <1>4

\* With it, each stretch holds at most one pass more.
LEMMA PassCount ==
  ASSUME LimiterTypeOK, now \in Time, LimiterTypeOK', PassesFinite, NEW ip \in IP, Pass(ip),
         NEW a \in Int, NEW b \in Int
  PROVE  /\ IsFiniteSet(Passes(ip, a, b)') /\ Cardinality(Passes(ip, a, b)') \in Nat
         /\ Cardinality(Passes(ip, a, b)) \in Nat
         /\ Cardinality(Passes(ip, a, b)') <= Cardinality(Passes(ip, a, b)) + 1
<1> DEFINE S == Passes(ip, a, b)
           x == <<now, admitted[ip][now] + 1>>
<1>1. IsFiniteSet(S) /\ Cardinality(S) \in Nat
      BY PassesCount
<1>2. Passes(ip, a, b)' \subseteq S \union {x}
      BY PassAddsOne
<1> HIDE DEF S, x
<1>3. /\ IsFiniteSet(S \union {x}) /\ Cardinality(S \union {x}) \in Nat
      /\ Cardinality(S \union {x}) <= Cardinality(S) + 1
  <2>1. /\ IsFiniteSet(S \union {x})
        /\ Cardinality(S \union {x}) = Cardinality(S)
           \/ Cardinality(S \union {x}) = Cardinality(S) + 1
        BY <1>1, FS_AddElement
  <2> QED
      BY <1>1, <2>1
<1>4. /\ IsFiniteSet(Passes(ip, a, b)') /\ Cardinality(Passes(ip, a, b)') \in Nat
      /\ Cardinality(Passes(ip, a, b)') <= Cardinality(S \union {x})
      BY <1>2, <1>3, FS_Subset, FS_CardinalityType
<1>5. Cardinality(Passes(ip, a, b)') <= Cardinality(S) + 1
      BY <1>1, <1>3, <1>4
<1> QED
    BY <1>1, <1>4, <1>5 DEF S

\* A stretch of a window's length that reaches the present: what is in the last
\* window and, before it, in at most one other; without an open window only
\* what is in the last one.
LEMMA StretchCount ==
  ASSUME LimiterTypeOK, OpenedInThePast, PassesFinite,
         NEW ip \in IP, NEW s \in Int, LastWindow(ip, s),
         NEW a \in Time, now <= a + Window
  PROVE  /\ Cardinality(Passes(ip, a, a + Window)) \in Nat
         /\ Cardinality(Passes(ip, s, MaxTime)) \in Nat
         /\ Cardinality(Passes(ip, a, a + Window))
              <= limit + Cardinality(Passes(ip, s, MaxTime))
         /\ ~Live(ip) => Cardinality(Passes(ip, a, a + Window)) <= limit
<1> USE ClockAssumption, WindowAssumption, LimitAssumption
<1>1. a \in Int /\ now \in Nat /\ limit \in Nat /\ a + Window \in Int /\ s - 1 \in Int
      BY DEF Time, LimiterTypeOK
<1> DEFINE A == Passes(ip, a, a + Window)
           B == Passes(ip, a, s - 1)
           C == Passes(ip, s, MaxTime)
<1>2. /\ IsFiniteSet(A) /\ IsFiniteSet(B) /\ IsFiniteSet(C)
      /\ Cardinality(A) \in Nat /\ Cardinality(B) \in Nat /\ Cardinality(C) \in Nat
      BY <1>1, PassesCount
<1>3. Cardinality(B) <= limit
      BY <1>1 DEF LastWindow
<1>4. A \subseteq B \union C
      BY <1>1, PassesMember DEF Time
<1>5. ASSUME ~Live(ip) PROVE Cardinality(A) <= limit
  <2>1. s + Window < now
        BY <1>1, <1>5 DEF LastWindow, Live, Age
  <2>2. Cardinality(A) <= Cardinality(C)
        BY <1>1, <2>1, PassesCount DEF Time
  <2>3. Cardinality(C) <= limit
        BY DEF LastWindow
  <2> QED
      BY <1>1, <1>2, <2>2, <2>3
<1> HIDE DEF A, B, C
<1>6. Cardinality(A) <= Cardinality(B \union C)
      BY <1>2, <1>4, FS_Union, FS_Subset
<1>7. /\ Cardinality(B \union C) = Cardinality(B) + Cardinality(C) - Cardinality(B \cap C)
      /\ Cardinality(B \cap C) \in Nat
      BY <1>2, FS_Union, FS_Intersection, FS_CardinalityType
<1>8. Cardinality(A) <= limit + Cardinality(C)
      BY <1>1, <1>2, <1>3, <1>6, <1>7
<1> QED
    BY <1>2, <1>5, <1>8 DEF A, C

\* A client nothing happens to keeps its last window as time goes by.
LEMMA LastWindowStays ==
  ASSUME LimiterTypeOK, NEW ip \in IP, NEW s \in Int, LastWindow(ip, s),
         clients'[ip] = clients[ip], admitted'[ip] = admitted[ip],
         now' \in Nat, now <= now'
  PROVE  LastWindow(ip, s)'
<1>1. \A a, b \in Int : Passes(ip, a, b)' = Passes(ip, a, b)
      BY DEF Passes
<1>2. now \in Nat /\ (Live(ip)' => Live(ip)) /\ (Exists(ip)' <=> Exists(ip))
  <2>1. clients[ip].windowStart \in Nat /\ now \in Nat
        BY EntryFields DEF LimiterTypeOK
  <2>2. Exists(ip)' <=> Exists(ip)
        BY DEF Exists
  <2>3. Age(ip)' <= Window => Age(ip) <= Window
        BY <2>1, WindowAssumption DEF Age
  <2> QED
      BY <2>1, <2>2, <2>3 DEF Live
<1>3. /\ IF Exists(ip)' THEN s = clients'[ip].windowStart ELSE s + Window < now'
      /\ s <= now'
      BY <1>2, WindowAssumption DEF LastWindow
<1>4. \A t \in Time : admitted'[ip][t] > 0 => t <= now' /\ t <= s + Window
      BY <1>2, ClockAssumption DEF LastWindow, Time
<1>5. /\ Cardinality(Passes(ip, s, MaxTime)') <= limit
      /\ Live(ip)' => Cardinality(Passes(ip, s, MaxTime)') <= clients'[ip].count
      BY <1>1, <1>2, ClockAssumption DEF LastWindow
<1>6. \A a \in Time : s <= a + Window => Cardinality(Passes(ip, a, s - 1)') <= limit
      BY <1>1, ClockAssumption DEF LastWindow, Time
<1> QED
    BY <1>3, <1>4, <1>5, <1>6 DEF LastWindow

\* cleanup forgets windows that are over.
LEMMA LastWindowCleaned ==
  ASSUME LimiterTypeOK, cleanup, NEW ip \in IP, NEW s \in Int, LastWindow(ip, s)
  PROVE  LastWindow(ip, s)'
<1>1. now \in Nat /\ now' = now /\ admitted' = admitted
      BY DEF cleanup, LimiterTypeOK
<1>2. CASE clients'[ip] = clients[ip]
      BY <1>1, <1>2, LastWindowStays
<1>3. CASE clients'[ip] # clients[ip]
  <2>1. Exists(ip) /\ Age(ip) > 2 * Window /\ clients'[ip] = NoEntry
        BY <1>3 DEF cleanup
  <2>2. s + Window < now
        BY <1>1, <2>1, WindowAssumption DEF LastWindow, Age
  <2>3. ~Exists(ip)' /\ ~Live(ip)'
        BY <2>1 DEF Exists, Live
  <2>4. \A a, b \in Int : Passes(ip, a, b)' = Passes(ip, a, b)
        BY <1>1 DEF Passes
  <2>5. \A a \in Time : s <= a + Window => Cardinality(Passes(ip, a, s - 1)') <= limit
        BY <2>4, ClockAssumption DEF LastWindow, Time
  <2> QED
      BY <1>1, <2>2, <2>3, <2>4, <2>5, ClockAssumption DEF LastWindow
<1> QED
    BY <1>2, <1>3

\* A new window begins after everything that passed.
LEMMA LastWindowOpened ==
  ASSUME WindowsInv, LimiterTypeOK', NEW ip \in IP, LimitNewWindow(ip),
         NEW s \in Int, LastWindow(ip, s), NEW n \in Int, n = now
  PROVE  LastWindow(ip, n)'
<1> USE ClockAssumption, WindowAssumption, LimitAssumption DEF WindowsInv, LimiterIInv
<1>1. /\ now' = now /\ ~Live(ip) /\ Pass(ip) /\ now \in Time /\ n \in Nat
      /\ clients'[ip] = [count |-> 1, windowStart |-> now]
      BY DEF LimitNewWindow, LimiterTypeOK, OpenedInThePast
<1>2. s + Window < n
      BY <1>1 DEF LastWindow, Live, Age
<1>3. \A t \in Time : admitted[ip][t] > 0 => t < n
      BY <1>1, <1>2 DEF LastWindow, Time
<1>4. Passes(ip, n, MaxTime) = {}
  <2>1. ASSUME NEW p \in Passes(ip, n, MaxTime) PROVE FALSE
    <3>1. PICK t \in Time : n <= t /\ \E i \in 1 .. admitted[ip][t] : p = <<t, i>>
          BY <2>1, PassesMember
    <3>2. admitted[ip][t] > 0
          BY <3>1 DEF LimiterTypeOK
    <3> QED
        BY <1>1, <1>3, <3>1, <3>2 DEF Time
  <2> QED
      BY <2>1
<1>5. Cardinality(Passes(ip, n, MaxTime)') <= 1
  <2>1. Cardinality(Passes(ip, n, MaxTime)) = 0
        BY <1>4, FS_EmptySet
  <2> QED
      BY <1>1, <2>1, PassCount
<1>6. clients'[ip].windowStart = n /\ clients'[ip].count = 1 /\ Exists(ip)'
      BY <1>1 DEF Exists, NoEntry
<1>7. \A t \in Time : admitted'[ip][t] > 0 => t <= n
      BY <1>1, <1>3 DEF Pass, LimiterTypeOK, Time
<1>8. ASSUME NEW a \in Time, n <= a + Window
      PROVE  Cardinality(Passes(ip, a, n - 1)') <= limit
  <2>1. a \in Int /\ n - 1 \in Int /\ ~(a <= now /\ now <= n - 1)
        BY <1>1 DEF Time
  <2>2. Passes(ip, a, n - 1)' = Passes(ip, a, n - 1)
        BY <1>1, <2>1, PassAddsOne
  <2>3. /\ Cardinality(Passes(ip, a, n - 1)) \in Nat
        /\ Cardinality(Passes(ip, s, MaxTime)) \in Nat
        /\ Cardinality(Passes(ip, a, n - 1)) <= Cardinality(Passes(ip, s, MaxTime))
        BY <1>1, <1>2, <1>8, <2>1, PassesCount DEF Time
  <2>4. Cardinality(Passes(ip, s, MaxTime)) <= limit
        BY DEF LastWindow
  <2> QED
      BY <2>2, <2>3, <2>4
<1>9. Cardinality(Passes(ip, n, MaxTime)') \in Nat
      BY <1>1, PassCount
<1> QED
    BY <1>1, <1>5, <1>6, <1>7, <1>8, <1>9 DEF LastWindow, Time

\* A request inside the window: let through, it is counted.
LEMMA LastWindowCounted ==
  ASSUME WindowsInv, LimiterTypeOK', NEW ip \in IP, LimitCount(ip),
         NEW s \in Int, LastWindow(ip, s)
  PROVE  LastWindow(ip, s)'
<1> USE ClockAssumption, WindowAssumption, LimitAssumption DEF WindowsInv, LimiterIInv
<1>1. /\ Live(ip) /\ Live(ip)' /\ now' = now /\ now \in Time
      /\ clients'[ip].count = clients[ip].count + 1
      /\ clients'[ip].windowStart = clients[ip].windowStart
      BY LiveAfterCount DEF OpenedInThePast
<1>2. /\ clients[ip].count \in Nat /\ clients[ip].windowStart = s /\ now <= s + Window
      /\ s <= now /\ Exists(ip)'
      BY <1>1, EntryFields DEF LastWindow, Live, Age, Time
<1>3. Cardinality(Passes(ip, s, MaxTime)) \in Nat
      BY PassesCount
<1>4. CASE clients[ip].count + 1 > limit
  <2>1. admitted' = admitted
        BY <1>4 DEF LimitCount
  <2>2. \A a, b \in Int : Passes(ip, a, b)' = Passes(ip, a, b)
        BY <2>1 DEF Passes
  <2>3. \A a \in Time : s <= a + Window => Cardinality(Passes(ip, a, s - 1)') <= limit
        BY <2>2 DEF LastWindow, Time
  <2>4. /\ Cardinality(Passes(ip, s, MaxTime)') <= limit
        /\ Cardinality(Passes(ip, s, MaxTime)') <= clients'[ip].count
        BY <1>1, <1>2, <1>3, <2>2 DEF LastWindow
  <2> QED
      BY <1>1, <1>2, <2>1, <2>3, <2>4 DEF LastWindow
<1>5. CASE ~(clients[ip].count + 1 > limit)
  <2>1. Pass(ip)
        BY <1>5 DEF LimitCount
  <2>2. /\ Cardinality(Passes(ip, s, MaxTime)') \in Nat
        /\ Cardinality(Passes(ip, s, MaxTime)') <= Cardinality(Passes(ip, s, MaxTime)) + 1
        BY <1>1, <2>1, PassCount
  <2>3. Cardinality(Passes(ip, s, MaxTime)) <= clients[ip].count
        BY <1>1 DEF LastWindow
  <2>4. /\ Cardinality(Passes(ip, s, MaxTime)') <= limit
        /\ Cardinality(Passes(ip, s, MaxTime)') <= clients'[ip].count
        BY <1>1, <1>2, <1>3, <1>5, <2>2, <2>3
  <2>5. ASSUME NEW a \in Time, s <= a + Window
        PROVE  Cardinality(Passes(ip, a, s - 1)') <= limit
    <3>1. a \in Int /\ s - 1 \in Int /\ ~(a <= now /\ now <= s - 1)
          BY <1>1, <1>2 DEF Time
    <3>2. Passes(ip, a, s - 1)' = Passes(ip, a, s - 1)
          BY <1>1, <2>1, <3>1, PassAddsOne
    <3> QED
        BY <2>5, <3>2 DEF LastWindow
  <2>6. \A t \in Time : admitted'[ip][t] > 0 => t <= now /\ t <= s + Window
    <3>1. \A t \in Time : t # now => admitted'[ip][t] = admitted[ip][t]
          BY <2>1 DEF Pass, LimiterTypeOK
    <3> QED
        BY <1>1, <1>2, <3>1 DEF LastWindow, Time
  <2> QED
      BY <1>1, <1>2, <2>4, <2>5, <2>6 DEF LastWindow
<1> QED
    BY <1>4, <1>5

\* A client that is let through has room left in the stretches that reach the
\* present; the others are closed.
LEMMA SlidingAfterPass ==
  ASSUME WindowsInv, LimiterTypeOK', NEW ip \in IP, Pass(ip),
         NEW s \in Int, LastWindow(ip, s),
         Live(ip) => clients[ip].count + 1 <= limit,
         NEW a \in Time
  PROVE  Cardinality(Passes(ip, a, a + Window)') <= 2 * limit
<1> USE ClockAssumption, WindowAssumption, LimitAssumption DEF WindowsInv, LimiterIInv
<1>1. a \in Int /\ a + Window \in Int /\ now \in Time /\ now \in Nat /\ limit \in Nat
      BY DEF Time, OpenedInThePast, LimiterTypeOK
<1>2. CASE a <= now /\ now <= a + Window
  <2>1. /\ Cardinality(Passes(ip, a, a + Window)) \in Nat
        /\ Cardinality(Passes(ip, s, MaxTime)) \in Nat
        /\ Cardinality(Passes(ip, a, a + Window))
             <= limit + Cardinality(Passes(ip, s, MaxTime))
        /\ ~Live(ip) => Cardinality(Passes(ip, a, a + Window)) <= limit
        BY <1>2, StretchCount
  <2>2. Cardinality(Passes(ip, a, a + Window)) + 1 <= 2 * limit
    <3>1. CASE ~Live(ip)
          BY <1>1, <2>1, <3>1
    <3>2. CASE Live(ip)
      <4>1. /\ Cardinality(Passes(ip, s, MaxTime)) <= clients[ip].count
            /\ clients[ip].count \in Nat
            BY <3>2, EntryFields DEF LastWindow
      <4> QED
          BY <1>1, <2>1, <3>2, <4>1
    <3> QED
        BY <3>1, <3>2
  <2>3. /\ Cardinality(Passes(ip, a, a + Window)') \in Nat
        /\ Cardinality(Passes(ip, a, a + Window)')
             <= Cardinality(Passes(ip, a, a + Window)) + 1
        BY <1>1, PassCount
  <2> QED
      BY <1>1, <2>1, <2>2, <2>3
<1>3. CASE ~(a <= now /\ now <= a + Window)
  <2>1. Passes(ip, a, a + Window)' = Passes(ip, a, a + Window)
        BY <1>1, <1>3, PassAddsOne
  <2> QED
      BY <2>1 DEF SlidingBound
<1> QED
    BY <1>2, <1>3

\* A request let through, in a new window or in an open one.
LEMMA AfterPass ==
  ASSUME WindowsInv, LimiterTypeOK', NEW ip \in IP, Pass(ip),
         Live(ip) => clients[ip].count + 1 <= limit
  PROVE  PassesFinite' /\ SlidingBound'
<1> USE ClockAssumption DEF WindowsInv, LimiterIInv
<1>1. now \in Time /\ MaxTime \in Int /\ LimiterTypeOK
      BY DEF OpenedInThePast
<1>0. PICK z \in Int : z = 0
      OBVIOUS
<1>2. ASSUME NEW j \in IP, NEW a \in Int, NEW b \in Int, j # ip
      PROVE  Passes(j, a, b)' = Passes(j, a, b)
      BY <1>1, <1>2, PassAddsOne
<1>3. \A j \in IP : IsFiniteSet(Passes(j, z, MaxTime)')
  <2>1. IsFiniteSet(Passes(ip, z, MaxTime)')
        BY <1>1, PassCount
  <2>2. \A j \in IP : j # ip => IsFiniteSet(Passes(j, z, MaxTime)')
        BY <1>0, <1>1, <1>2 DEF PassesFinite
  <2> QED
      BY <2>1, <2>2
<1>4. PassesFinite'
      BY <1>0, <1>3 DEF PassesFinite
<1>5. ASSUME NEW j \in IP, NEW a \in Time
      PROVE  Cardinality(Passes(j, a, a + Window)') <= 2 * limit
  <2>1. CASE j = ip
    <3>1. PICK s \in Int : LastWindow(ip, s)
          BY DEF EveryClientHasLast
    <3> QED
        BY <2>1, <3>1, SlidingAfterPass
  <2>2. CASE j # ip
    <3>1. a \in Int /\ a + Window \in Int
          BY WindowAssumption DEF Time
    <3> QED
        BY <1>2, <2>2, <3>1 DEF SlidingBound
  <2> QED
      BY <2>1, <2>2
<1> QED
    BY <1>4, <1>5 DEF SlidingBound

\* The empty table: the last window of every client was over before time began.
LEMMA InitWindows == LimiterInit => WindowsInv
<1> SUFFICES ASSUME LimiterInit PROVE WindowsInv
    OBVIOUS
<1> USE ClockAssumption, WindowAssumption, LimitAssumption
<1>1. LimiterIInv
      BY LimiterInitIInv
<1>2. \A ip \in IP, t \in Time : admitted[ip][t] = 0
      BY DEF LimiterInit
<1>3. ASSUME NEW ip \in IP, NEW a \in Int, NEW b \in Int PROVE Passes(ip, a, b) = {}
  <2>1. ASSUME NEW p \in Passes(ip, a, b) PROVE FALSE
    <3>1. PICK t \in Time : \E i \in 1 .. admitted[ip][t] : p = <<t, i>>
          BY <1>1, <2>1, PassesMember DEF LimiterIInv
    <3> QED
        BY <1>2, <3>1
  <2> QED
      BY <2>1
<1>4. IsFiniteSet({}) /\ Cardinality({}) = 0
      BY FS_EmptySet
<1>5. PassesFinite
  <2>1. PICK z \in Int : z = 0
        OBVIOUS
  <2>2. \A ip \in IP : Passes(ip, z, MaxTime) = {}
        BY <1>3
  <2> QED
      BY <1>4, <2>1, <2>2 DEF PassesFinite
<1>6. ASSUME NEW ip \in IP, NEW w \in Int, w = -Window - 1 PROVE LastWindow(ip, w)
  <2>1. ~Exists(ip) /\ now = 0
        BY DEF LimiterInit, Exists
  <2>2. \A a \in Time : Cardinality(Passes(ip, a, w - 1)) = 0
    <3>1. w - 1 \in Int /\ Time \subseteq Int
          BY DEF Time
    <3> QED
        BY <1>3, <1>4, <3>1
  <2>3. Cardinality(Passes(ip, w, MaxTime)) = 0
    <3>1. MaxTime \in Int /\ w \in Int
          OBVIOUS
    <3>2. Passes(ip, w, MaxTime) = {}
          BY <1>3, <3>1
    <3> QED
        BY <1>4, <3>2
  <2> QED
      BY <1>2, <1>6, <2>1, <2>2, <2>3 DEF LastWindow, Live, Time
<1>7. EveryClientHasLast
  <2>1. PICK w \in Int : w = -Window - 1
        OBVIOUS
  <2> QED
      BY <1>6, <2>1 DEF EveryClientHasLast
<1>8. SlidingBound
  <2>1. \A ip \in IP, a \in Time : Cardinality(Passes(ip, a, a + Window)) = 0
        BY <1>3, <1>4 DEF Time
  <2> QED
      BY <2>1 DEF SlidingBound
<1> QED
    BY <1>1, <1>5, <1>7, <1>8 DEF WindowsInv

\* Every step keeps the account of the windows.
LEMMA WindowsStep == WindowsInv /\ [LimiterNext]_limiterVars => WindowsInv'
<1> SUFFICES ASSUME WindowsInv, [LimiterNext]_limiterVars PROVE WindowsInv'
    OBVIOUS
<1> USE ClockAssumption, WindowAssumption, LimitAssumption DEF WindowsInv
<1>1. LimiterIInv'
      BY LimiterIInvStep
<1>2. LimiterTypeOK /\ LimiterTypeOK' /\ now \in Nat /\ now' \in Nat
      BY <1>1 DEF LimiterIInv, LimiterTypeOK
<1>3. ASSUME admitted' = admitted PROVE PassesFinite' /\ SlidingBound'
      BY <1>3 DEF PassesFinite, SlidingBound, Passes
<1>4. CASE LimiterTick \/ UNCHANGED limiterVars
  <2>1. clients' = clients /\ admitted' = admitted /\ now <= now'
        BY <1>2, <1>4 DEF LimiterTick, Advance, limiterVars
  <2>2. EveryClientHasLast'
        BY <1>2, <2>1, LastWindowStays DEF EveryClientHasLast
  <2> QED
      BY <1>1, <1>3, <2>1, <2>2
<1>5. CASE cleanup
  <2>1. EveryClientHasLast'
        BY <1>2, <1>5, LastWindowCleaned DEF EveryClientHasLast
  <2> QED
      BY <1>1, <1>3, <1>5, <2>1 DEF cleanup
<1>6. ASSUME NEW ip \in IP, LimitNewWindow(ip) \/ LimitCount(ip) PROVE WindowsInv'
  <2>1. /\ now' = now
        /\ \A j \in IP : j # ip => clients'[j] = clients[j] /\ admitted'[j] = admitted[j]
        BY <1>2, <1>6 DEF LimitNewWindow, LimitCount, Pass, LimiterTypeOK
  <2>2. PICK s \in Int : LastWindow(ip, s)
        BY DEF EveryClientHasLast
  <2>3. \E n \in Int : LastWindow(ip, n)'
    <3>1. CASE LimitCount(ip)
          BY <1>2, <2>2, <3>1, LastWindowCounted
    <3>2. CASE LimitNewWindow(ip)
      <4>1. PICK n \in Int : n = now
            BY <1>2
      <4> QED
          BY <1>2, <2>2, <3>2, <4>1, LastWindowOpened
    <3> QED
        BY <1>6, <3>1, <3>2
  <2>4. ASSUME NEW j \in IP, j # ip PROVE \E n \in Int : LastWindow(j, n)'
    <3>1. PICK n \in Int : LastWindow(j, n)
          BY DEF EveryClientHasLast
    <3> QED
        BY <1>2, <2>1, <2>4, <3>1, LastWindowStays
  <2>5. EveryClientHasLast'
        BY <2>3, <2>4 DEF EveryClientHasLast
  <2>6. PassesFinite' /\ SlidingBound'
    <3>1. CASE admitted' = admitted
          BY <1>3, <3>1
    <3>2. CASE Pass(ip) /\ (Live(ip) => clients[ip].count + 1 <= limit)
          BY <1>2, <3>2, AfterPass
    <3>3. clients[ip].count \in Nat
          BY <1>2, EntryFields
    <3> QED
        BY <1>6, <3>1, <3>2, <3>3 DEF LimitNewWindow, LimitCount
  <2> QED
      BY <1>1, <2>5, <2>6
<1> QED
    BY <1>4, <1>5, <1>6 DEF LimiterNext

\* Limit lets at most twice the limit pass in any stretch of a window's length,
\* wherever it starts and whatever cleanup removes.
THEOREM AtMostTwice == LimiterSpec => []SlidingBound
<1>1. WindowsInv => SlidingBound
      BY DEF WindowsInv
<1> QED
    BY <1>1, InitWindows, WindowsStep, PTL DEF LimiterSpec

=============================================================================
