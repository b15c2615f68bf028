-------------------------- MODULE PermissionRelation --------------------------
(***************************************************************************)
(* What the access control service promises about permissions: a relation  *)
(* between users, tenants and permissions that only grows, and grows by    *)
(* whole blocks.  One step gives some users in some tenants some           *)
(* permissions, each of them all of these; nothing is ever taken away,     *)
(* because no operation removes a role, a grant or an assignment.          *)
(***************************************************************************)
CONSTANTS User, Tenant, Permission

VARIABLE can   \* the triples for which Check answers yes

Init == can = {}

Give(members, perms) ==
  can' = can \union {<<m[1], m[2], p>> : m \in members, p \in perms}

Next ==
  \E members \in SUBSET (User \X Tenant), perms \in SUBSET Permission :
    Give(members, perms)

Spec == Init /\ [][Next]_can

=============================================================================
