---------------------------- MODULE MCRateLimiter ----------------------------
(* RateLimiter on small sets; the client addresses are interchangeable.      *)
EXTENDS RateLimiter, TLC

Symmetry == Permutations(IP)
=============================================================================
