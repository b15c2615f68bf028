------------------------------ MODULE RateLimiter ------------------------------
(***************************************************************************)
(* The rate limiter of biometric-auth (middleware/middleware.go): a table  *)
(* with one fixed window per client address, and a goroutine that removes  *)
(* old entries.  Limit and cleanup hold the mutex from their first read to *)
(* their last write, the reading of the clock included, so each is a step. *)
(* It runs on the clock of LoginLockout; the names say which of the two a  *)
(* specification belongs to.                                               *)
(***************************************************************************)
EXTENDS Integers, FiniteSets, Clock

CONSTANTS
  IP,               \* client addresses
  limit,            \* requests per window (100)
  Window,           \* the length of a window in ticks (one minute)
  MaxCount          \* bound: how far the count of a window goes

ASSUME LimitAssumption == limit \in Nat \ {0}

ASSUME WindowAssumption == Window \in Nat \ {0}

ASSUME MaxCountAssumption == MaxCount \in Nat

VARIABLES
  clients,          \* RateLimiter.clients
  admitted          \* history: requests let through, by client and time

limiterVars == <<now, clients, admitted>>

-----------------------------------------------------------------------------
Time == 0 .. MaxTime

rateLimitEntry == [count : Nat \ {0}, windowStart : Nat]

NoEntry == [count |-> 0, windowStart |-> 0]

LimiterTypeOK ==
  /\ now \in Nat
  /\ clients \in [IP -> rateLimitEntry \union {NoEntry}]
  /\ admitted \in [IP -> [Time -> Nat]]

LimiterInit ==
  /\ now = 0
  /\ clients = [ip \in IP |-> NoEntry]
  /\ admitted = [ip \in IP |-> [t \in Time |-> 0]]

-----------------------------------------------------------------------------
LimiterTick ==
  /\ Advance
  /\ UNCHANGED <<clients, admitted>>

Exists(ip) == clients[ip] # NoEntry

Age(ip) == now - clients[ip].windowStart

Live(ip) == Exists(ip) /\ Age(ip) <= Window

Pass(ip) == admitted' = [admitted EXCEPT ![ip][now] = @ + 1]

\* Slips: the first request of a window is not counted ...
LimitNewWindowUncounted(ip) ==
  /\ ~Live(ip)
  /\ clients' = [clients EXCEPT ![ip] = [count |-> 0, windowStart |-> now]]
  /\ Pass(ip)
  /\ UNCHANGED now

\* ... and cleanup removes an entry whose window is still open.
cleanupEarly ==
  /\ clients' = [ip \in IP |->
                   IF Exists(ip) /\ 2 * Age(ip) > Window THEN NoEntry ELSE clients[ip]]
  /\ UNCHANGED <<now, admitted>>

\* Limit with no entry, or one whose window is over: a new window.
LimitNewWindow(ip) ==
  /\ ~Live(ip)
  /\ clients' = [clients EXCEPT ![ip] = [count |-> 1, windowStart |-> now]]
  /\ Pass(ip)
  /\ UNCHANGED now

\* Limit inside the window: the request is counted whether it passes or not.
LimitCount(ip) ==
  /\ Live(ip)
  /\ clients[ip].count < MaxCount
  /\ clients' = [clients EXCEPT ![ip].count = @ + 1]
  /\ IF clients[ip].count + 1 > limit THEN UNCHANGED admitted ELSE Pass(ip)
  /\ UNCHANGED now

\* cleanup: the entries older than two windows go.
cleanup ==
  /\ clients' = [ip \in IP |->
                   IF Exists(ip) /\ Age(ip) > 2 * Window THEN NoEntry ELSE clients[ip]]
  /\ UNCHANGED <<now, admitted>>

LimiterNext ==
  \/ LimiterTick
  \/ cleanup
  \/ \E ip \in IP : LimitNewWindow(ip) \/ LimitCount(ip)

LimiterSpec == LimiterInit /\ [][LimiterNext]_limiterVars

-----------------------------------------------------------------------------
\* Requests of ip let through at the times from a to b, numbered in each tick.
Passes(ip, a, b) ==
  UNION {{t} \X (1 .. admitted[ip][t]) : t \in (a .. b) \cap Time}

(***************************************************************************)
(* Limit with its 60 s windows never lets more than twice the limit pass   *)
(* in any stretch of a window's length, wherever it starts and whatever    *)
(* cleanup removes in between.                                             *)
(***************************************************************************)
SlidingBound ==
  \A ip \in IP, a \in Time : Cardinality(Passes(ip, a, a + Window)) <= 2 * limit

Abstract == INSTANCE WindowLimiter
  WITH left <- [ip \in IP |->
                  IF ~Live(ip) THEN limit
                  ELSE IF clients[ip].count < limit THEN limit - clients[ip].count ELSE 0],
       start <- [ip \in IP |-> IF Live(ip) THEN clients[ip].windowStart ELSE -1]

(***************************************************************************)
(* The limiter with its table implements the limiter without one: an entry *)
(* past its window is as good as none, and cleanup only ever removes such  *)
(* entries, so it changes nothing a client can see.                        *)
(***************************************************************************)
TableIsInvisible == Abstract!Spec

=============================================================================
