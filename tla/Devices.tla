-------------------------------- MODULE Devices --------------------------------
(***************************************************************************)
(* Devices, challenges and biometric proofs of biometric-auth              *)
(* (service/device.go, service/biometric.go, the device and challenge      *)
(* repositories, the device middleware).                                   *)
(*                                                                         *)
(* The repositories map ids to POINTERS.  A handler that looks a device up *)
(* keeps the pointer; RevokeDevice and EnableBiometric write through it    *)
(* and then file the same pointer again, while RegisterDevice files a NEW  *)
(* record.  So the model has the records (rec) and the map entry (entry)   *)
(* apart, and every read-modify-file operation is two steps: the lookup,   *)
(* and the writes with the filing.  Between the two the entry may have     *)
(* been replaced.                                                          *)
(*                                                                         *)
(* consumeChallenge reads UsedAt and writes it later: two steps as well.   *)
(*                                                                         *)
(* A key is named by the user who enrolled it (each installation generates *)
(* its own key pair).  Whether a signature verifies under the key of the   *)
(* record is the client's choice, except that nothing verifies under an    *)
(* empty key.  Trust score, attestation, names and time stamps of a device *)
(* are written and never read by an operation; they are left out.  The     *)
(* integrity flags in a request body lead to an immediate refusal, and a   *)
(* refused request is a step that only ends it.                            *)
(***************************************************************************)
EXTENDS Naturals, FiniteSets

CONSTANTS
  User,
  Device,
  Request,          \* goroutines serving authenticated requests at once
  None,             \* Go's nil or the empty string
  MaxRecords,       \* bound: how often a device is registered
  MaxChallenges     \* bound: how many challenges are issued

ASSUME NoneAssumption == None \notin User \union Device \union Nat

ASSUME RequestAssumption == IsFiniteSet(Request)

ASSUME BoundAssumption == MaxRecords \in Nat /\ MaxChallenges \in Nat

Ptr == 1 .. MaxRecords
ChallengeId == 1 .. MaxChallenges

VARIABLES
  entry,            \* the device repository's map: device id -> record
  rec,              \* the device records ever stored
  challenge,        \* the challenge repository
  lapsed,           \* the challenges past ExpiresAt
  req,              \* the requests being served
  accepted,         \* history: how often consumeChallenge accepted a challenge
  racers            \* history: the requests that had found a challenge unused and
                    \* not marked it when it was first marked

vars == <<entry, rec, challenge, lapsed, req, accepted, racers>>

-----------------------------------------------------------------------------
Action == {"enroll", "authenticate", "step_up"}

Record == [user : User, status : {"active", "revoked"},
           key : User \union {None}, rooted : BOOLEAN]

NoRecord == [user |-> None]

Challenge == [device : Device, action : Action, used : BOOLEAN]

NoChallenge == [device |-> None]

\* What the client signs at enrolment: the challenge's nonce, as documented, or
\* its id.  Any other payload is refused as the nonce is.
Signed == {"nonce", "id"}

PC == {"idle", "admitted",
       "enrollFresh", "enrollConsumed", "enrollVerified", "enableLoaded",
       "authLoaded", "authFresh", "authConsumed", "verified", "touchLoaded",
       "revokeLoaded"}

\* user and device are the claims of the access token; target is the device in
\* the path of a revocation.
ReqState == [pc : PC, user : User \union {None}, device : Device \union {None},
             target : Device \union {None}, ptr : Ptr \union {None},
             ch : ChallengeId \union {None}, sig : Signed \union {None}]

Idle == [pc |-> "idle", user |-> None, device |-> None, target |-> None,
         ptr |-> None, ch |-> None, sig |-> None]

TypeOK ==
  /\ entry \in [Device -> Ptr \union {None}]
  /\ rec \in [Ptr -> Record \union {NoRecord}]
  /\ challenge \in [ChallengeId -> Challenge \union {NoChallenge}]
  /\ lapsed \subseteq ChallengeId
  /\ req \in [Request -> ReqState]
  /\ accepted \in [ChallengeId -> Nat]
  /\ racers \in [ChallengeId -> Nat]

Init ==
  /\ entry = [d \in Device |-> None]
  /\ rec = [p \in Ptr |-> NoRecord]
  /\ challenge = [c \in ChallengeId |-> NoChallenge]
  /\ lapsed = {}
  /\ req = [r \in Request |-> Idle]
  /\ accepted = [c \in ChallengeId |-> 0]
  /\ racers = [c \in ChallengeId |-> 0]

-----------------------------------------------------------------------------
\* The request ends; whatever it has done so far stays done.
EndRequest(r) == req' = [req EXCEPT ![r] = Idle]

\* RegisterDevice, called by every successful Login: a new record replaces the
\* entry, whoever owned the old one, with no key and active.
RegisterDevice(u, d, rooted, p) ==
  /\ rec[p] = NoRecord
  /\ \A q \in Ptr : q < p => rec[q] # NoRecord
  /\ rec' = [rec EXCEPT ![p] = [user |-> u, status |-> "active", key |-> None,
                                rooted |-> rooted]]
  /\ entry' = [entry EXCEPT ![d] = p]
  /\ UNCHANGED <<challenge, lapsed, req, accepted, racers>>

\* DeviceService.ValidateDevice: the device is the user's and not revoked.
ValidDevice(d, u) ==
  /\ entry[d] # None
  /\ rec[entry[d]].user = u
  /\ rec[entry[d]].status # "revoked"

\* The device middleware, with the claims of a valid access token: the device is
\* valid and not rooted.
ValidateDevice(r, u, d) ==
  /\ req[r].pc = "idle"
  /\ ValidDevice(d, u)
  /\ ~rec[entry[d]].rooted
  /\ req' = [req EXCEPT ![r] = [Idle EXCEPT !.pc = "admitted", !.user = u, !.device = d]]
  /\ UNCHANGED <<entry, rec, challenge, lapsed, accepted, racers>>

\* GetChallenge: a one-time nonce bound to the device and the action.
GetChallenge(r, a, c) ==
  /\ req[r].pc = "admitted"
  /\ challenge[c] = NoChallenge
  /\ \A b \in ChallengeId : b < c => challenge[b] # NoChallenge
  /\ challenge' = [challenge EXCEPT ![c] = [device |-> req[r].device, action |-> a,
                                            used |-> FALSE]]
  /\ EndRequest(r)
  /\ UNCHANGED <<entry, rec, lapsed, accepted, racers>>

\* ExpiresAt passes.
Lapse(c) ==
  /\ challenge[c] # NoChallenge
  /\ c \notin lapsed
  /\ lapsed' = lapsed \union {c}
  /\ UNCHANGED <<entry, rec, challenge, req, accepted, racers>>

-----------------------------------------------------------------------------
\* A slip: UsedAt is not tested.
ChallengeOKReusable(c, d, a) ==
  /\ challenge[c] # NoChallenge
  /\ c \notin lapsed
  /\ challenge[c].device = d
  /\ challenge[c].action = a

\* consumeChallenge up to the write of UsedAt.
ChallengeOK(c, d, a) ==
  /\ challenge[c] # NoChallenge
  /\ ~challenge[c].used
  /\ c \notin lapsed
  /\ challenge[c].device = d
  /\ challenge[c].action = a

\* The requests between the test of UsedAt and its write.
Fresh(c) == {r \in Request : req[r].pc \in {"enrollFresh", "authFresh"} /\ req[r].ch = c}

\* The rest of consumeChallenge: UsedAt is written, without another look.
Consume(r, pc) ==
  /\ challenge' = [challenge EXCEPT ![req[r].ch].used = TRUE]
  /\ accepted' = [accepted EXCEPT ![req[r].ch] = @ + 1]
  /\ racers' = [racers EXCEPT ![req[r].ch] =
                  IF challenge[req[r].ch].used THEN @ ELSE Cardinality(Fresh(req[r].ch))]
  /\ req' = [req EXCEPT ![r].pc = pc]
  /\ UNCHANGED <<entry, rec, lapsed>>

\* A handler returns early: a malformed body, a device or a challenge that does
\* not pass its tests, time stamp drift, a bad key, an authentication signature
\* that does not verify, or a device whose owner has changed by the time
\* EnableBiometric looks.  A consumed challenge stays consumed.
Refuse(r) ==
  /\ \/ req[r].pc \in {"admitted", "enrollConsumed", "authLoaded", "authConsumed"}
     \/ /\ req[r].pc = "enrollVerified"
        /\ rec[entry[req[r].device]].user # req[r].user
  /\ EndRequest(r)
  /\ UNCHANGED <<entry, rec, challenge, lapsed, accepted, racers>>

-----------------------------------------------------------------------------
\* Enroll: the challenge is looked at ...
EnrollCheck(r, c, sig) ==
  /\ req[r].pc = "admitted"
  /\ ChallengeOK(c, req[r].device, "enroll")
  /\ req' = [req EXCEPT ![r].pc = "enrollFresh", ![r].ch = c, ![r].sig = sig]
  /\ UNCHANGED <<entry, rec, challenge, lapsed, accepted, racers>>

\* ... and marked as used.
EnrollConsume(r) ==
  /\ req[r].pc = "enrollFresh"
  /\ Consume(r, "enrollConsumed")

\* The signature is verified over a payload built from the challenge's ID.
EnrollVerify(r) ==
  /\ req[r].pc = "enrollConsumed"
  /\ IF req[r].sig = "id"
     THEN req' = [req EXCEPT ![r].pc = "enrollVerified"]
     ELSE EndRequest(r)
  /\ UNCHANGED <<entry, rec, challenge, lapsed, accepted, racers>>

\* Slips: the owner is not tested, or the device becomes active.
EnableLoadAnyOwner(r) ==
  /\ req[r].pc = "enrollVerified"
  /\ req' = [req EXCEPT ![r].pc = "enableLoaded", ![r].ptr = entry[req[r].device]]
  /\ UNCHANGED <<entry, rec, challenge, lapsed, accepted, racers>>

EnableStoreActivates(r) ==
  /\ req[r].pc = "enableLoaded"
  /\ rec' = [rec EXCEPT ![req[r].ptr].key = req[r].user,
                        ![req[r].ptr].rooted = FALSE,
                        ![req[r].ptr].status = "active"]
  /\ entry' = [entry EXCEPT ![req[r].device] = req[r].ptr]
  /\ EndRequest(r)
  /\ UNCHANGED <<challenge, lapsed, accepted, racers>>

\* EnableBiometric: the lookup and the test of the owner ...
EnableLoad(r) ==
  LET p == entry[req[r].device]
  IN  /\ req[r].pc = "enrollVerified"
      /\ rec[p].user = req[r].user
      /\ req' = [req EXCEPT ![r].pc = "enableLoaded", ![r].ptr = p]
      /\ UNCHANGED <<entry, rec, challenge, lapsed, accepted, racers>>

\* ... the key goes into the record, which is filed again.  Status is not read.
EnableStore(r) ==
  /\ req[r].pc = "enableLoaded"
  /\ rec' = [rec EXCEPT ![req[r].ptr].key = req[r].user,
                        ![req[r].ptr].rooted = FALSE]
  /\ entry' = [entry EXCEPT ![req[r].device] = req[r].ptr]
  /\ EndRequest(r)
  /\ UNCHANGED <<challenge, lapsed, accepted, racers>>

-----------------------------------------------------------------------------
\* Authenticate: the device is looked up and tested; the pointer is kept ...
AuthLoad(r) ==
  LET p == entry[req[r].device]
  IN  /\ req[r].pc = "admitted"
      /\ rec[p].user = req[r].user
      /\ rec[p].status = "active"
      /\ rec[p].key # None
      /\ req' = [req EXCEPT ![r].pc = "authLoaded", ![r].ptr = p]
      /\ UNCHANGED <<entry, rec, challenge, lapsed, accepted, racers>>

\* ... the challenge is looked at and marked as used ...
AuthCheck(r, c) ==
  /\ req[r].pc = "authLoaded"
  /\ ChallengeOK(c, req[r].device, "authenticate")
  /\ req' = [req EXCEPT ![r].pc = "authFresh", ![r].ch = c]
  /\ UNCHANGED <<entry, rec, challenge, lapsed, accepted, racers>>

AuthConsume(r) ==
  /\ req[r].pc = "authFresh"
  /\ Consume(r, "authConsumed")

\* A key that was cleared does not parse; under any other the client signs.
VerifySignatureForAlgo(key) == key # None

\* ... and the signature verifies under the key the kept record has NOW.
AuthVerify(r) ==
  /\ req[r].pc = "authConsumed"
  /\ VerifySignatureForAlgo(rec[req[r].ptr].key)
  /\ req' = [req EXCEPT ![r].pc = "verified"]
  /\ UNCHANGED <<entry, rec, challenge, lapsed, accepted, racers>>

\* UpdateLastSeen: another lookup, and the record found is filed again.
TouchLoad(r) ==
  /\ req[r].pc = "verified"
  /\ req' = [req EXCEPT ![r].pc = "touchLoaded", ![r].ptr = entry[req[r].device]]
  /\ UNCHANGED <<entry, rec, challenge, lapsed, accepted, racers>>

TouchStore(r) ==
  /\ req[r].pc = "touchLoaded"
  /\ entry' = [entry EXCEPT ![req[r].device] = req[r].ptr]
  /\ EndRequest(r)
  /\ UNCHANGED <<rec, challenge, lapsed, accepted, racers>>

-----------------------------------------------------------------------------
\* RevokeDevice of any device of the caller: the lookup ...
RevokeLoad(r, d) ==
  LET p == entry[d]
  IN  /\ req[r].pc = "admitted"
      /\ p # None
      /\ rec[p].user = req[r].user
      /\ req' = [req EXCEPT ![r].pc = "revokeLoaded", ![r].ptr = p, ![r].target = d]
      /\ UNCHANGED <<entry, rec, challenge, lapsed, accepted, racers>>

\* A slip: the device is blocked, the other status ValidateDevice refuses.
RevokeStoreBlocks(r) ==
  /\ req[r].pc = "revokeLoaded"
  /\ rec' = [rec EXCEPT ![req[r].ptr].status = "blocked", ![req[r].ptr].key = None]
  /\ entry' = [entry EXCEPT ![req[r].target] = req[r].ptr]
  /\ EndRequest(r)
  /\ UNCHANGED <<challenge, lapsed, accepted, racers>>

\* ... the record is marked, its key cleared, and it is filed again.
RevokeStore(r) ==
  /\ req[r].pc = "revokeLoaded"
  /\ rec' = [rec EXCEPT ![req[r].ptr].status = "revoked", ![req[r].ptr].key = None]
  /\ entry' = [entry EXCEPT ![req[r].target] = req[r].ptr]
  /\ EndRequest(r)
  /\ UNCHANGED <<challenge, lapsed, accepted, racers>>

-----------------------------------------------------------------------------
Enroll(r) ==
  \/ \E c \in ChallengeId, sig \in Signed : EnrollCheck(r, c, sig)
  \/ EnrollConsume(r)
  \/ EnrollVerify(r)
  \/ EnableLoad(r)
  \/ EnableStore(r)

Authenticate(r) ==
  \/ AuthLoad(r)
  \/ \E c \in ChallengeId : AuthCheck(r, c)
  \/ AuthConsume(r)
  \/ AuthVerify(r)
  \/ TouchLoad(r)
  \/ TouchStore(r)

\* The action is the client's to choose.
AskChallenge(r) == \E a \in Action, c \in ChallengeId : GetChallenge(r, a, c)

RevokeDevice(r) ==
  \/ \E d \in Device : RevokeLoad(r, d)
  \/ RevokeStore(r)

Next ==
  \/ \E u \in User, d \in Device, b \in BOOLEAN, p \in Ptr : RegisterDevice(u, d, b, p)
  \/ \E c \in ChallengeId : Lapse(c)
  \/ \E r \in Request :
       \/ \E u \in User, d \in Device : ValidateDevice(r, u, d)
       \/ AskChallenge(r)
       \/ Refuse(r)
       \/ Enroll(r)
       \/ Authenticate(r)
       \/ RevokeDevice(r)

Spec == Init /\ [][Next]_vars

-----------------------------------------------------------------------------
(***************************************************************************)
(* A key only ever works for the user who enrolled it: a record holds no   *)
(* key but its owner's, and an authentication that verified used the       *)
(* caller's own key, even when the device changed hands (a Login of        *)
(* another user) while EnableBiometric or Authenticate was under way.      *)
(***************************************************************************)
KeyBelongsToOwner ==
  /\ \A p \in Ptr : rec[p] # NoRecord => rec[p].key \in {None, rec[p].user}
  /\ \A r \in Request :
       req[r].pc \in {"authLoaded", "authFresh", "authConsumed"} =>
         rec[req[r].ptr].key \in {None, req[r].user}

(***************************************************************************)
(* consumeChallenge tests UsedAt and sets it later.  A challenge is        *)
(* accepted a second time only by a request that had already found it      *)
(* unused when it was first marked: the acceptances never outnumber the    *)
(* requests caught between the test and the write at that moment, however  *)
(* late the others mark it and however many requests follow.               *)
(***************************************************************************)
ReuseNeedsARace == \A c \in ChallengeId : accepted[c] <= racers[c]

(***************************************************************************)
(* biometric.go:363: consumeChallenge marks a challenge as used            *)
(* "(single-use)", and biometric.go:391 "prevents replay": no challenge is *)
(* accepted twice.                                                         *)
(***************************************************************************)
ChallengeSingleUse == \A c \in ChallengeId : accepted[c] <= 1

(***************************************************************************)
(* A revoked record is never active again, whoever still holds a pointer   *)
(* to it: EnableBiometric and UpdateLastSeen, started before the           *)
(* revocation and finished after it, leave Status alone.                   *)
(***************************************************************************)
RevokedRecordStaysRevoked ==
  [][\A p \in Ptr : (rec[p] # NoRecord /\ rec[p].status = "revoked") =>
                       rec'[p] # NoRecord /\ rec'[p].status = "revoked"]_vars

(***************************************************************************)
(* device.go:109: RevokeDevice clears the key, "device can no longer       *)
(* authenticate": a device whose stored record is revoked gets a key back  *)
(* only through a new Login, which files a new record without a key.       *)
(***************************************************************************)
RevokedDeviceStaysKeyless ==
  [][\A d \in Device :
       (entry[d] # None /\ rec[entry[d]].status = "revoked") =>
         \/ rec'[entry'[d]].status = "revoked"
         \/ rec'[entry'[d]].key = None]_vars

=============================================================================
