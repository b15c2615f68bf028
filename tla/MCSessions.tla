------------------------------ MODULE MCSessions ------------------------------
(* Sessions on small sets.                                                  *)
EXTENDS Sessions, TLC

=============================================================================
