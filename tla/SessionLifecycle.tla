--------------------------- MODULE SessionLifecycle ---------------------------
(***************************************************************************)
(* What the session store of biometric-auth promises about one session,    *)
(* whoever races with whom: it is created once, active; it ends, as        *)
(* "revoked" (a logout) or as "replayed" (a superseded refresh token was   *)
(* presented); and an ended session never becomes active again.  The       *)
(* reason of the end is the last one written.                              *)
(*                                                                         *)
(* Sessions refines this specification (SessionsRefinement in MCSessions,  *)
(* proved in SessionsProofs).                                              *)
(***************************************************************************)
CONSTANT SessionId

VARIABLE status         \* the Status of every session, "none" before Store

EndStatus == {"revoked", "replayed"}

TypeOK == status \in [SessionId -> {"none", "active"} \union EndStatus]

Init == status = [s \in SessionId |-> "none"]

\* One session comes into being, active.
Create(s) ==
  /\ status[s] = "none"
  /\ status' = [status EXCEPT ![s] = "active"]

\* Existing sessions end together: one session, one family or all of a user's.
End(S, why) ==
  /\ \A s \in S : status[s] # "none"
  /\ status' = [s \in SessionId |-> IF s \in S THEN why ELSE status[s]]

Next ==
  \/ \E s \in SessionId : Create(s)
  \/ \E S \in SUBSET SessionId, why \in EndStatus : End(S, why)

Spec == Init /\ [][Next]_status

=============================================================================
