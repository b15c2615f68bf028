----------------------------- MODULE MCBearerAccess -----------------------------
(* BearerAccess on small sets; sessions and requests are interchangeable.     *)
EXTENDS BearerAccess, TLC

MCSymmetry == Permutations(Session) \union Permutations(Request)
=============================================================================
