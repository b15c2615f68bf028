------------------------------ MODULE MCMainService ------------------------------
EXTENDS MainService, TLC
CONSTANTS e1, e2, u1
MCIdOf == [e \in {e1, e2} |-> u1]
\* The emails are alike: they have one user ID.
MCSymmetry ==
  Permutations(Request) \union Permutations(Challenge) \union Permutations(Password)
  \union Permutations(Email)
=============================================================================
