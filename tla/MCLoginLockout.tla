---------------------------- MODULE MCLoginLockout ----------------------------
(* LoginLockout on small sets; the concurrent logins are interchangeable.     *)
EXTENDS LoginLockout, Combinatorics, TLC

Symmetry == Permutations(Request)

\* The number in GuessBound is the binomial coefficient its comment names.
ASSUME HeldUpCounted ==
  LET n == Cardinality(Request)
  IN  Cardinality(HeldUp) = choose(MaxLoginAttempts + n, n)
=============================================================================
