------------------------------- MODULE LegacyOTP -------------------------------
(***************************************************************************)
(* One-time codes of the legacy engine (otp/service.go over the Redis      *)
(* store of repository/stores.go) behind the sliding-window limiter of its *)
(* middleware, for the codes of one purpose and the requests of one IP.    *)
(*                                                                         *)
(* Codes are stored under purpose and recipient with a time to live.  Send *)
(* first deletes what a KEYS of the purpose lists, in a second round trip, *)
(* and then stores the new code.  The attempts and the verification of a   *)
(* code go to keys nobody reads, so they are no state.                     *)
(*                                                                         *)
(* The limiter of a route keeps a set of instants (a sorted set whose      *)
(* members ARE the milliseconds, so requests of one millisecond are one    *)
(* member).  A request takes its stamp in the application; its commands    *)
(* reach Redis any time later, in any order with those of others, and the  *)
(* pipeline is not a transaction: removing what is too old, adding the     *)
(* stamp, and counting are steps of their own.  EXPIRE comes with the      *)
(* count: the set goes when nobody has counted for a window.  When Redis   *)
(* fails the request passes.  The limiter here is that of /otp/verify; the *)
(* one of /otp/send is another set of instants that can only make sends    *)
(* fewer, and /password/reset has none.  Codes are numbered in the order   *)
(* they are stored; a guess is right or wrong by the client's luck.        *)
(***************************************************************************)
EXTENDS Naturals, FiniteSets

CONSTANTS
  Request,      \* requests that can be under way at once
  Recipient,    \* email addresses and phone numbers
  Limit,        \* requests per Window
  Window,       \* length of the limiter's window, in clock ticks
  Expiry,       \* configuration: life of a code, in clock ticks
  None,         \* no instant
  MaxTime,      \* bound: how far the clock runs
  MaxSends      \* bound: codes stored

ASSUME RequestAssumption == IsFiniteSet(Request)

ASSUME ConfigAssumption ==
  Limit \in Nat \ {0} /\ Window \in Nat \ {0} /\ Expiry \in Nat \ {0}

ASSUME BoundAssumption == MaxTime \in Nat /\ MaxSends \in Nat

ASSUME NoneAssumption == None \notin Nat \union Recipient

VARIABLES
  now,       \* the clock
  zset,      \* the limiter's sorted set
  expires,   \* when the key of the sorted set expires, or None
  store,     \* the stored codes, by recipient
  sent,      \* how many codes were stored
  req,       \* the requests under way
  passed,    \* history: the stamps of the last Window ticks that passed the limiter
  newest,    \* history: the recipient of the newest code
  dropped    \* history: did a Send end after its delete, before its store?

limiter == <<zset, expires>>
history == <<passed, newest, dropped>>
vars == <<now, limiter, store, sent, req, history>>

-----------------------------------------------------------------------------
OTP == [code : Nat, expires : Nat]
NoOTP == [code |-> 0, expires |-> 0]

\* at: the stamp, while the limiter is at work.  to: whom a Send is for.  keys: what
\* KEYS listed.
ReqState == [pc : {"idle", "stamped", "trimmed", "added", "deleting", "storing",
                   "verifying"},
             to : Recipient \union {None}, at : Nat \union {None},
             keys : SUBSET Recipient]

Idle == [pc |-> "idle", to |-> None, at |-> None, keys |-> {}]

TypeOK ==
  /\ now \in Nat /\ sent \in Nat
  /\ zset \in SUBSET Nat /\ expires \in Nat \union {None}
  /\ store \in [Recipient -> OTP]
  /\ req \in [Request -> ReqState]
  /\ passed \in SUBSET Nat
  /\ newest \in Recipient \union {None} /\ dropped \in BOOLEAN

Init ==
  /\ now = 0 /\ sent = 0
  /\ zset = {} /\ expires = None
  /\ store = [u \in Recipient |-> NoOTP]
  /\ req = [r \in Request |-> Idle]
  /\ passed = {}
  /\ newest = None /\ dropped = FALSE

-----------------------------------------------------------------------------
At(r, pc) == req[r].pc = pc
End(r) == req' = [req EXCEPT ![r] = Idle]

\* Redis deletes a key when its time to live is over.
Stored(u) == store[u].code # 0 /\ now < store[u].expires

\* The clock.  Redis drops the sorted set when its key expires.
Tick ==
  /\ now < MaxTime
  /\ now' = now + 1
  /\ IF expires = now + 1 THEN zset' = {} /\ expires' = None ELSE UNCHANGED limiter
  /\ passed' = {t \in passed : t + Window > now + 1}
  /\ UNCHANGED <<store, sent, req, newest, dropped>>

\* Cancelled by the client, or the process dies.
Abort(r) ==
  /\ ~At(r, "idle")
  /\ End(r)
  /\ dropped' = (dropped \/ At(r, "storing"))
  /\ UNCHANGED <<now, limiter, store, sent, passed, newest>>

-----------------------------------------------------------------------------
(* RateLimiter.Limit                                                       *)

\* A slip: the stamp is that of the beginning of the window.
LimitStampStart(r) ==
  /\ At(r, "idle")
  /\ req' = [req EXCEPT ![r].pc = "stamped", ![r].at = now - Window]
  /\ UNCHANGED <<now, limiter, store, sent, history>>

\* The application reads its clock and builds the pipeline.
LimitStamp(r) ==
  /\ At(r, "idle")
  /\ req' = [req EXCEPT ![r].pc = "stamped", ![r].at = now]
  /\ UNCHANGED <<now, limiter, store, sent, history>>

\* ZREMRANGEBYSCORE 0 .. stamp - window, both ends included.  A sorted set that
\* becomes empty is no key any more and has no expiry.
LimitTrim(r) ==
  LET kept == {t \in zset : t + Window > req[r].at}
  IN  /\ At(r, "stamped")
      /\ zset' = kept
      /\ expires' = IF kept = {} THEN None ELSE expires
      /\ req' = [req EXCEPT ![r].pc = "trimmed"]
      /\ UNCHANGED <<now, store, sent, history>>

\* ZADD.
LimitAdd(r) ==
  /\ At(r, "trimmed")
  /\ zset' = zset \union {req[r].at}
  /\ req' = [req EXCEPT ![r].pc = "added"]
  /\ UNCHANGED <<now, expires, store, sent, history>>

\* The test against the limit; a slip makes it one too late.
WithinLimitPlusOne == Cardinality(zset) <= Limit + 1
WithinLimit == Cardinality(zset) <= Limit

\* ZCARD and EXPIRE, which does nothing when there is no key.  The history has
\* the stamps of those that pass, unless the key expired after their ZADD.
LimitCount(r) ==
  /\ At(r, "added")
  /\ expires' = IF zset = {} THEN None ELSE now + Window
  /\ IF WithinLimit
       THEN /\ req' = [req EXCEPT ![r].pc = "verifying", ![r].at = None]
            /\ passed' = passed \union {t \in zset : t = req[r].at /\ t + Window > now}
       ELSE End(r) /\ UNCHANGED passed
  /\ UNCHANGED <<now, zset, store, sent, newest, dropped>>

\* The pipeline returns an error: the request passes, added or not.
LimitFailOpen(r) ==
  /\ req[r].pc \in {"stamped", "trimmed", "added"}
  /\ req' = [req EXCEPT ![r].pc = "verifying", ![r].at = None]
  /\ UNCHANGED <<now, limiter, store, sent, history>>

LimitStep(r) ==
  LimitStamp(r) \/ LimitTrim(r) \/ LimitAdd(r) \/ LimitCount(r) \/ LimitFailOpen(r)

-----------------------------------------------------------------------------
(* Service.Send                                                            *)

\* KEYS otp:<purpose>:* names the codes of every recipient.
Listed == {v \in Recipient : Stored(v)}

\* RequestPasswordReset calls Send for the user's address, and Send begins with
\* InvalidateAll, which lists the keys ...
SendList(r) ==
  /\ At(r, "idle")
  /\ \E u \in Recipient :
       req' = [req EXCEPT ![r] = [Idle EXCEPT !.pc = "deleting", !.to = u,
                                              !.keys = Listed]]
  /\ UNCHANGED <<now, limiter, store, sent, history>>

\* ... and DEL deletes what was named, or one of the two fails: the error is
\* dropped.
SendDelete(r) ==
  /\ At(r, "deleting")
  /\ \E K \in {req[r].keys, {}} :
       store' = [u \in Recipient |-> IF u \in K THEN NoOTP ELSE store[u]]
  /\ req' = [req EXCEPT ![r].pc = "storing", ![r].keys = {}]
  /\ UNCHANGED <<now, limiter, sent, history>>

Create(code) == [code |-> code, expires |-> now + Expiry]

\* A slip: the delete after the store.
SendStoreAndDelete(r) ==
  /\ At(r, "storing")
  /\ sent < MaxSends
  /\ sent' = sent + 1
  /\ store' = [u \in Recipient |-> NoOTP]
  /\ newest' = req[r].to
  /\ End(r)
  /\ UNCHANGED <<now, limiter, passed, dropped>>

\* The new code is stored; whether it is delivered changes nothing here.
SendStore(r) ==
  /\ At(r, "storing")
  /\ sent < MaxSends
  /\ sent' = sent + 1
  /\ store' = [store EXCEPT ![req[r].to] = Create(sent + 1)]
  /\ newest' = req[r].to
  /\ End(r)
  /\ UNCHANGED <<now, limiter, passed, dropped>>

Send(r) == SendList(r) \/ SendDelete(r) \/ SendStore(r)

-----------------------------------------------------------------------------
(* Service.Verify                                                          *)

\* ResetPassword verifies a code without a limiter.
ResetPassword(r) ==
  /\ At(r, "idle")
  /\ req' = [req EXCEPT ![r].pc = "verifying"]
  /\ UNCHANGED <<now, limiter, store, sent, history>>

\* GetValid, and the guess is compared with the code found, if any.  The record's
\* Attempts are always 0, and what is written is never read.
VerifyCode(r) ==
  /\ At(r, "verifying")
  /\ End(r)
  /\ UNCHANGED <<now, limiter, store, sent, history>>

Verify(r) == ResetPassword(r) \/ VerifyCode(r)

Next == Tick \/ \E r \in Request : LimitStep(r) \/ Send(r) \/ Verify(r) \/ Abort(r)

Spec == Init /\ [][Next]_vars

-----------------------------------------------------------------------------
(***************************************************************************)
(* What the limiter of Limit really bounds, with members that are          *)
(* milliseconds, stamps that reach Redis late and out of order, and counts *)
(* taken after others have been added or removed: whatever the time, the   *)
(* requests that passed by then carry at most Limit different stamps of    *)
(* the last Window ticks.  A request that removes members by its own stamp *)
(* never takes away what is still in the window.  Not counted are requests *)
(* that Redis failed, and those whose member the key's expiry took away    *)
(* between their ZADD and their ZCARD.                                     *)
(***************************************************************************)
PassedInstants == Cardinality(passed) <= Limit

\* No Send is between its KEYS and its SET.
NoSendUnderWay == \A r \in Request : req[r].pc \notin {"deleting", "storing"}

(***************************************************************************)
(* InvalidateAll deletes what others stored, also what they stored after   *)
(* it listed the keys.  Still the newest code stands: when no Send is      *)
(* under way and none ended before storing its code, the last one stored   *)
(* can be verified until it expires.                                       *)
(***************************************************************************)
NewestCodeStands ==
  NoSendUnderWay /\ ~dropped /\ sent > 0 => store[newest].code = sent

=============================================================================
