----------------------------- MODULE WindowLimiter -----------------------------
(***************************************************************************)
(* What a fixed-window rate limiter promises, with no table of clients to  *)
(* keep: the first request of a client opens a window of Window ticks with *)
(* limit admissions in it, and the window closes when its time is over.    *)
(***************************************************************************)
EXTENDS Integers

CONSTANTS IP, limit, Window, Time

VARIABLES
  now,
  left,         \* admissions left in the client's open window; limit if none is open
  start,        \* when the client's open window was opened; -1 if none is open
  admitted      \* how many requests of a client were let through at a time

vars == <<now, left, start, admitted>>

Init ==
  /\ now = 0
  /\ left = [ip \in IP |-> limit]
  /\ start = [ip \in IP |-> -1]
  /\ admitted = [ip \in IP |-> [t \in Time |-> 0]]

Over(ip, t) == start[ip] # -1 /\ t - start[ip] > Window

Tick ==
  /\ now' = now + 1
  /\ left' = [ip \in IP |-> IF Over(ip, now') THEN limit ELSE left[ip]]
  /\ start' = [ip \in IP |-> IF Over(ip, now') THEN -1 ELSE start[ip]]
  /\ UNCHANGED admitted

Admit(ip) ==
  /\ left[ip] > 0
  /\ left' = [left EXCEPT ![ip] = @ - 1]
  /\ start' = [start EXCEPT ![ip] = IF @ = -1 THEN now ELSE @]
  /\ admitted' = [admitted EXCEPT ![ip][now] = @ + 1]
  /\ UNCHANGED now

Next == Tick \/ \E ip \in IP : Admit(ip)

Spec == Init /\ [][Next]_vars

=============================================================================
