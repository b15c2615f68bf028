------------------------------- MODULE MCDevices -------------------------------
(* Devices on small sets; users and requests are interchangeable.            *)
EXTENDS Devices, TLC

Symmetry == Permutations(User) \union Permutations(Request)
=============================================================================
