------------------------------ MODULE MCLegacyOTP ------------------------------
EXTENDS LegacyOTP, TLC

\* Requests and recipients are interchangeable.
Symmetry == Permutations(Request) \union Permutations(Recipient)

=============================================================================
