--------------------------- MODULE MCLegacyAccounts ---------------------------
EXTENDS LegacyAccounts, TLC

\* Requests and sessions are interchangeable.
Symmetry == Permutations(Request) \union Permutations(Session)

=============================================================================
