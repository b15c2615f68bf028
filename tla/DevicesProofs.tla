----------------------------- MODULE DevicesProofs -----------------------------
(***************************************************************************)
(* KeyBelongsToOwner and RevokedRecordStaysRevoked of Devices, for all     *)
(* sets of users, devices and concurrent requests.  What carries them:     *)
(* a map entry and a kept pointer always lead to a stored record, a record *)
(* never changes its owner, and the pointer a request keeps between the    *)
(* test of the owner and the write leads to a record of its own user, even *)
(* when the map entry has been replaced in between.                        *)
(***************************************************************************)
EXTENDS Devices, FiniteSetTheorems, TLAPS

\* A map entry leads to a stored record.
EntriesAreStored == \A d \in Device : entry[d] # None => rec[entry[d]] # NoRecord

\* Requests past the middleware have their claims, and their device is known.
RequestsAreAdmitted ==
  \A r \in Request :
    req[r].pc # "idle" => /\ req[r].user \in User
                          /\ req[r].device \in Device
                          /\ entry[req[r].device] # None

\* A kept pointer leads to a stored record ...
PointersAreStored ==
  \A r \in Request :
    req[r].pc \in {"enableLoaded", "authLoaded", "authFresh", "authConsumed",
                   "touchLoaded", "revokeLoaded"} =>
      req[r].ptr \in Ptr /\ rec[req[r].ptr] # NoRecord

\* ... of the caller, where the owner has been tested ...
PointersAreOwn ==
  \A r \in Request :
    req[r].pc \in {"enableLoaded", "authLoaded", "authFresh", "authConsumed"} =>
      rec[req[r].ptr].user = req[r].user

\* ... and a challenge under consideration is a stored one, like the device a
\* revocation names is a device.
ChallengesAreStored ==
  \A r \in Request :
    /\ req[r].pc \in {"enrollFresh", "authFresh"} =>
         req[r].ch \in ChallengeId /\ challenge[req[r].ch] # NoChallenge
    /\ req[r].pc = "revokeLoaded" => req[r].target \in Device

\* The first half of KeyBelongsToOwner; the second follows from PointersAreOwn.
KeysAreOwn == \A p \in Ptr : rec[p] # NoRecord => rec[p].key \in {None, rec[p].user}

IInv ==
  /\ TypeOK
  /\ EntriesAreStored
  /\ RequestsAreAdmitted
  /\ PointersAreStored
  /\ PointersAreOwn
  /\ ChallengesAreStored
  /\ KeysAreOwn

-----------------------------------------------------------------------------
\* No stored record looks like the absent one.
LEMMA RecordsArePresent == ASSUME NEW x \in Record PROVE x # NoRecord
BY NoneAssumption DEF Record, NoRecord

\* No stored challenge looks like the absent one.
LEMMA ChallengesArePresent == ASSUME NEW x \in Challenge PROVE x # NoChallenge
BY NoneAssumption DEF Challenge, NoChallenge

\* Racing requests are a finite set.
LEMMA FreshIsFinite ==
  ASSUME NEW c
  PROVE  /\ IsFiniteSet(Fresh(c)) /\ Cardinality(Fresh(c)) \in Nat
         /\ Cardinality(Fresh(c)) <= Cardinality(Request) /\ Cardinality(Request) \in Nat
<1>1. Fresh(c) \subseteq Request
      BY DEF Fresh
<1> QED
    BY <1>1, RequestAssumption, FS_Subset, FS_CardinalityType

\* The empty repositories satisfy the invariant.
LEMMA InitIInv == Init => IInv
<1> SUFFICES ASSUME Init PROVE IInv
    OBVIOUS
<1>1. Idle \in ReqState
      BY DEF Idle, ReqState, PC
<1>2. TypeOK
      BY <1>1 DEF Init, TypeOK
<1>3. \A r \in Request : req[r].pc = "idle"
      BY DEF Init, Idle
<1> QED
    BY <1>2, <1>3 DEF Init, IInv, EntriesAreStored, RequestsAreAdmitted,
          PointersAreStored, PointersAreOwn, ChallengesAreStored, KeysAreOwn

-----------------------------------------------------------------------------
\* A step that leaves the device repository alone and moves one request on, to
\* a state the invariant allows, keeps the invariant.
LEMMA RequestStep ==
  ASSUME IInv, NEW r \in Request, NEW x \in ReqState,
         UNCHANGED <<entry, rec>>,
         req' = [req EXCEPT ![r] = x],
         lapsed' = lapsed, accepted' \in [ChallengeId -> Nat], racers' \in [ChallengeId -> Nat],
         challenge' \in [ChallengeId -> Challenge \union {NoChallenge}],
         \A c \in ChallengeId : challenge[c] # NoChallenge => challenge'[c] # NoChallenge,
         x.pc # "idle" => /\ x.user \in User /\ x.device \in Device
                          /\ entry[x.device] # None,
         x.pc \in {"enableLoaded", "authLoaded", "authFresh", "authConsumed",
                   "touchLoaded", "revokeLoaded"} =>
           x.ptr \in Ptr /\ rec[x.ptr] # NoRecord,
         x.pc \in {"enableLoaded", "authLoaded", "authFresh", "authConsumed"} =>
           rec[x.ptr].user = x.user,
         x.pc \in {"enrollFresh", "authFresh"} =>
           x.ch \in ChallengeId /\ challenge'[x.ch] # NoChallenge,
         x.pc = "revokeLoaded" => x.target \in Device
  PROVE  IInv'
<1>1. req'[r] = x /\ \A q \in Request : q # r => req'[q] = req[q]
      BY DEF IInv, TypeOK
<1>2. TypeOK'
      BY DEF IInv, TypeOK
<1>3. EntriesAreStored' /\ KeysAreOwn'
      BY DEF IInv, EntriesAreStored, KeysAreOwn
<1>4. RequestsAreAdmitted'
      BY <1>1 DEF IInv, RequestsAreAdmitted
<1>5. PointersAreStored' /\ PointersAreOwn'
      BY <1>1 DEF IInv, PointersAreStored, PointersAreOwn
<1>6. ChallengesAreStored'
      BY <1>1 DEF IInv, ChallengesAreStored
<1> QED
    BY <1>2, <1>3, <1>4, <1>5, <1>6 DEF IInv

-----------------------------------------------------------------------------
\* A request that ends, or has its challenge stored, with no device written.
LEMMA EndStep ==
  ASSUME IInv, NEW r \in Request, EndRequest(r), UNCHANGED <<entry, rec, lapsed, accepted, racers>>,
         challenge' \in [ChallengeId -> Challenge \union {NoChallenge}],
         \A c \in ChallengeId : challenge[c] # NoChallenge => challenge'[c] # NoChallenge
  PROVE  IInv'
<1>1. Idle \in ReqState /\ Idle.pc = "idle"
      BY DEF Idle, ReqState, PC
<1>2. accepted' \in [ChallengeId -> Nat] /\ racers' \in [ChallengeId -> Nat]
      BY DEF IInv, TypeOK
<1> QED
    BY <1>1, <1>2, RequestStep DEF EndRequest

\* The middleware, GetChallenge and an early return.
LEMMA PlainStep ==
  ASSUME IInv, NEW r \in Request,
         \/ \E u \in User, d \in Device : ValidateDevice(r, u, d)
         \/ \E a \in Action, c \in ChallengeId : GetChallenge(r, a, c)
         \/ Refuse(r)
  PROVE  IInv'
<1>1. ASSUME NEW u \in User, NEW d \in Device, ValidateDevice(r, u, d) PROVE IInv'
  <2> DEFINE x == [Idle EXCEPT !.pc = "admitted", !.user = u, !.device = d]
  <2>1. x \in ReqState /\ x.pc = "admitted" /\ x.user = u /\ x.device = d
        BY DEF Idle, ReqState, PC
  <2>2. /\ req' = [req EXCEPT ![r] = x] /\ entry[d] # None
        /\ UNCHANGED <<entry, rec, challenge, lapsed, accepted, racers>>
        BY <1>1 DEF ValidateDevice, ValidDevice
  <2> HIDE DEF x
  <2> QED
      BY <2>1, <2>2, RequestStep DEF IInv, TypeOK
<1>2. ASSUME NEW a \in Action, NEW c \in ChallengeId, GetChallenge(r, a, c) PROVE IInv'
  <2>1. req[r].device \in Device
        BY <1>2 DEF IInv, RequestsAreAdmitted, GetChallenge
  <2>2. [device |-> req[r].device, action |-> a, used |-> FALSE] \in Challenge
        BY <2>1 DEF Challenge
  <2>3. /\ challenge' \in [ChallengeId -> Challenge \union {NoChallenge}]
        /\ \A b \in ChallengeId : challenge[b] # NoChallenge => challenge'[b] # NoChallenge
        BY <1>2, <2>2 DEF GetChallenge, IInv, TypeOK
  <2> QED
      BY <1>2, <2>3, EndStep DEF GetChallenge, IInv, TypeOK
<1>3. CASE Refuse(r)
      BY <1>3, EndStep DEF Refuse, IInv, TypeOK
<1> QED
    BY <1>1, <1>2, <1>3

\* What both users of consumeChallenge write.
LEMMA ConsumeWrites ==
  ASSUME IInv, NEW r \in Request, req[r].pc \in {"enrollFresh", "authFresh"},
         challenge' = [challenge EXCEPT ![req[r].ch].used = TRUE],
         accepted' = [accepted EXCEPT ![req[r].ch] = @ + 1],
         racers' = [racers EXCEPT ![req[r].ch] =
                      IF challenge[req[r].ch].used THEN @ ELSE Cardinality(Fresh(req[r].ch))]
  PROVE  /\ challenge' \in [ChallengeId -> Challenge \union {NoChallenge}]
         /\ \A c \in ChallengeId : challenge[c] # NoChallenge => challenge'[c] # NoChallenge
         /\ accepted' \in [ChallengeId -> Nat]
         /\ racers' \in [ChallengeId -> Nat]
<1> DEFINE c == req[r].ch
           y == [challenge[c] EXCEPT !.used = TRUE]
<1>1. c \in ChallengeId /\ challenge[c] \in Challenge
      BY DEF IInv, TypeOK, ChallengesAreStored
<1>2. y \in Challenge
      BY <1>1 DEF Challenge
<1>3. challenge' = [challenge EXCEPT ![c] = y]
      OBVIOUS
<1>4. y # NoChallenge
      BY <1>2, ChallengesArePresent
<1>5. accepted \in [ChallengeId -> Nat] /\ accepted' = [accepted EXCEPT ![c] = @ + 1]
      BY DEF IInv, TypeOK
<1>6. racers' \in [ChallengeId -> Nat]
      BY <1>1, FreshIsFinite DEF IInv, TypeOK
<1> HIDE DEF c, y
<1>7. /\ challenge' \in [ChallengeId -> Challenge \union {NoChallenge}]
      /\ \A b \in ChallengeId : challenge[b] # NoChallenge => challenge'[b] # NoChallenge
      BY <1>1, <1>2, <1>3, <1>4 DEF IInv, TypeOK
<1>8. accepted' \in [ChallengeId -> Nat]
      BY <1>1, <1>5
<1> QED
    BY <1>6, <1>7, <1>8

\* The steps of Enroll up to the write of the key.
LEMMA EnrollStep ==
  ASSUME IInv, NEW r \in Request,
         \/ \E c \in ChallengeId, sig \in Signed : EnrollCheck(r, c, sig)
         \/ EnrollConsume(r)
         \/ EnrollVerify(r)
         \/ EnableLoad(r)
  PROVE  IInv'
<1>0. req[r] \in ReqState
      BY DEF IInv, TypeOK
<1>1. ASSUME NEW c \in ChallengeId, NEW sig \in Signed, EnrollCheck(r, c, sig) PROVE IInv'
  <2> DEFINE x == [req[r] EXCEPT !.pc = "enrollFresh", !.ch = c, !.sig = sig]
  <2>1. /\ x \in ReqState /\ x.pc = "enrollFresh" /\ x.ch = c
        /\ x.user = req[r].user /\ x.device = req[r].device
        BY <1>0 DEF ReqState, PC
  <2>2. /\ req' = [req EXCEPT ![r] = x] /\ challenge[c] # NoChallenge
        /\ UNCHANGED <<entry, rec, challenge, lapsed, accepted, racers>>
        BY <1>1 DEF EnrollCheck, ChallengeOK
  <2>3. req[r].pc # "idle"
        BY <1>1 DEF EnrollCheck
  <2> HIDE DEF x
  <2> QED
      BY <2>1, <2>2, <2>3, RequestStep DEF IInv, TypeOK, RequestsAreAdmitted
<1>2. CASE EnrollConsume(r)
  <2> DEFINE x == [req[r] EXCEPT !.pc = "enrollConsumed"]
  <2>1. /\ x \in ReqState /\ x.pc = "enrollConsumed"
        /\ x.user = req[r].user /\ x.device = req[r].device
        BY <1>0 DEF ReqState, PC
  <2>2. /\ req' = [req EXCEPT ![r] = x] /\ req[r].pc = "enrollFresh"
        /\ UNCHANGED <<entry, rec, lapsed>>
        BY <1>2 DEF EnrollConsume, Consume
  <2>3. /\ challenge' \in [ChallengeId -> Challenge \union {NoChallenge}]
        /\ \A c \in ChallengeId : challenge[c] # NoChallenge => challenge'[c] # NoChallenge
        /\ accepted' \in [ChallengeId -> Nat] /\ racers' \in [ChallengeId -> Nat]
        BY <1>2, ConsumeWrites DEF EnrollConsume, Consume
  <2> HIDE DEF x
  <2> QED
      BY <2>1, <2>2, <2>3, RequestStep DEF IInv, TypeOK, RequestsAreAdmitted
<1>3. CASE EnrollVerify(r)
  <2>1. CASE EndRequest(r)
        BY <1>3, <2>1, EndStep DEF EnrollVerify, IInv, TypeOK
  <2>2. CASE req' = [req EXCEPT ![r].pc = "enrollVerified"]
    <3> DEFINE x == [req[r] EXCEPT !.pc = "enrollVerified"]
    <3>1. /\ x \in ReqState /\ x.pc = "enrollVerified"
          /\ x.user = req[r].user /\ x.device = req[r].device
          BY <1>0 DEF ReqState, PC
    <3>2. /\ req' = [req EXCEPT ![r] = x] /\ req[r].pc = "enrollConsumed"
          /\ UNCHANGED <<entry, rec, challenge, lapsed, accepted, racers>>
          BY <1>3, <2>2 DEF EnrollVerify
    <3> HIDE DEF x
    <3> QED
        BY <3>1, <3>2, RequestStep DEF IInv, TypeOK, RequestsAreAdmitted
  <2> QED
      BY <1>3, <2>1, <2>2 DEF EnrollVerify
<1>4. CASE EnableLoad(r)
  <2> DEFINE p == entry[req[r].device]
             x == [req[r] EXCEPT !.pc = "enableLoaded", !.ptr = p]
  <2>1. /\ req[r].pc = "enrollVerified" /\ rec[p].user = req[r].user
        /\ req' = [req EXCEPT ![r] = x]
        /\ UNCHANGED <<entry, rec, challenge, lapsed, accepted, racers>>
        BY <1>4 DEF EnableLoad
  <2>2. p \in Ptr /\ rec[p] # NoRecord
        BY <2>1 DEF IInv, TypeOK, RequestsAreAdmitted, EntriesAreStored
  <2>3. /\ x \in ReqState /\ x.pc = "enableLoaded" /\ x.ptr = p
        /\ x.user = req[r].user /\ x.device = req[r].device
        BY <1>0, <2>2 DEF ReqState, PC
  <2> HIDE DEF x, p
  <2> QED
      BY <2>1, <2>2, <2>3, RequestStep DEF IInv, TypeOK, RequestsAreAdmitted
<1> QED
    BY <1>1, <1>2, <1>3, <1>4

\* The steps of Authenticate, none of which writes a record or the map but the
\* last one.
LEMMA AuthenticateStep ==
  ASSUME IInv, NEW r \in Request,
         \/ AuthLoad(r)
         \/ \E c \in ChallengeId : AuthCheck(r, c)
         \/ AuthConsume(r)
         \/ AuthVerify(r)
         \/ TouchLoad(r)
  PROVE  IInv'
<1>0. req[r] \in ReqState
      BY DEF IInv, TypeOK
<1>1. CASE AuthLoad(r)
  <2> DEFINE p == entry[req[r].device]
             x == [req[r] EXCEPT !.pc = "authLoaded", !.ptr = p]
  <2>1. /\ req[r].pc = "admitted" /\ rec[p].user = req[r].user
        /\ req' = [req EXCEPT ![r] = x]
        /\ UNCHANGED <<entry, rec, challenge, lapsed, accepted, racers>>
        BY <1>1 DEF AuthLoad
  <2>2. p \in Ptr /\ rec[p] # NoRecord
        BY <2>1 DEF IInv, TypeOK, RequestsAreAdmitted, EntriesAreStored
  <2>3. /\ x \in ReqState /\ x.pc = "authLoaded" /\ x.ptr = p
        /\ x.user = req[r].user /\ x.device = req[r].device
        BY <1>0, <2>2 DEF ReqState, PC
  <2> HIDE DEF x, p
  <2> QED
      BY <2>1, <2>2, <2>3, RequestStep DEF IInv, TypeOK, RequestsAreAdmitted
<1>2. ASSUME NEW c \in ChallengeId, AuthCheck(r, c) PROVE IInv'
  <2> DEFINE x == [req[r] EXCEPT !.pc = "authFresh", !.ch = c]
  <2>1. /\ x \in ReqState /\ x.pc = "authFresh" /\ x.ch = c /\ x.ptr = req[r].ptr
        /\ x.user = req[r].user /\ x.device = req[r].device
        BY <1>0 DEF ReqState, PC
  <2>2. /\ req' = [req EXCEPT ![r] = x] /\ challenge[c] # NoChallenge
        /\ req[r].pc = "authLoaded"
        /\ UNCHANGED <<entry, rec, challenge, lapsed, accepted, racers>>
        BY <1>2 DEF AuthCheck, ChallengeOK
  <2> HIDE DEF x
  <2> QED
      BY <2>1, <2>2, RequestStep
         DEF IInv, TypeOK, RequestsAreAdmitted, PointersAreStored, PointersAreOwn
<1>3. CASE AuthConsume(r)
  <2> DEFINE x == [req[r] EXCEPT !.pc = "authConsumed"]
  <2>1. /\ x \in ReqState /\ x.pc = "authConsumed" /\ x.ptr = req[r].ptr
        /\ x.user = req[r].user /\ x.device = req[r].device
        BY <1>0 DEF ReqState, PC
  <2>2. /\ req' = [req EXCEPT ![r] = x] /\ req[r].pc = "authFresh"
        /\ UNCHANGED <<entry, rec, lapsed>>
        BY <1>3 DEF AuthConsume, Consume
  <2>3. /\ challenge' \in [ChallengeId -> Challenge \union {NoChallenge}]
        /\ \A c \in ChallengeId : challenge[c] # NoChallenge => challenge'[c] # NoChallenge
        /\ accepted' \in [ChallengeId -> Nat] /\ racers' \in [ChallengeId -> Nat]
        BY <1>3, ConsumeWrites DEF AuthConsume, Consume
  <2> HIDE DEF x
  <2> QED
      BY <2>1, <2>2, <2>3, RequestStep
         DEF IInv, TypeOK, RequestsAreAdmitted, PointersAreStored, PointersAreOwn
<1>4. CASE AuthVerify(r)
  <2> DEFINE x == [req[r] EXCEPT !.pc = "verified"]
  <2>1. /\ x \in ReqState /\ x.pc = "verified"
        /\ x.user = req[r].user /\ x.device = req[r].device
        BY <1>0 DEF ReqState, PC
  <2>2. /\ req' = [req EXCEPT ![r] = x] /\ req[r].pc = "authConsumed"
        /\ UNCHANGED <<entry, rec, challenge, lapsed, accepted, racers>>
        BY <1>4 DEF AuthVerify
  <2> HIDE DEF x
  <2> QED
      BY <2>1, <2>2, RequestStep DEF IInv, TypeOK, RequestsAreAdmitted
<1>5. CASE TouchLoad(r)
  <2> DEFINE p == entry[req[r].device]
             x == [req[r] EXCEPT !.pc = "touchLoaded", !.ptr = p]
  <2>1. /\ req[r].pc = "verified"
        /\ req' = [req EXCEPT ![r] = x]
        /\ UNCHANGED <<entry, rec, challenge, lapsed, accepted, racers>>
        BY <1>5 DEF TouchLoad
  <2>2. p \in Ptr /\ rec[p] # NoRecord
        BY <2>1 DEF IInv, TypeOK, RequestsAreAdmitted, EntriesAreStored
  <2>3. /\ x \in ReqState /\ x.pc = "touchLoaded" /\ x.ptr = p
        /\ x.user = req[r].user /\ x.device = req[r].device
        BY <1>0, <2>2 DEF ReqState, PC
  <2> HIDE DEF x, p
  <2> QED
      BY <2>1, <2>2, <2>3, RequestStep DEF IInv, TypeOK, RequestsAreAdmitted
<1> QED
    BY <1>1, <1>2, <1>3, <1>4, <1>5

-----------------------------------------------------------------------------
\* A step that ends a request by writing into a stored record, whose owner it
\* leaves alone, and files it, keeps the invariant.
LEMMA StoreStep ==
  ASSUME IInv, NEW r \in Request, NEW p \in Ptr, NEW d \in Device, NEW x \in Record,
         rec[p] # NoRecord, x.user = rec[p].user, x.key \in {None, x.user},
         rec' = [rec EXCEPT ![p] = x],
         entry' = [entry EXCEPT ![d] = p],
         EndRequest(r),
         UNCHANGED <<challenge, lapsed, accepted, racers>>
  PROVE  IInv'
<1>1. Idle \in ReqState /\ Idle.pc = "idle"
      BY DEF Idle, ReqState, PC
<1>2. req'[r] = Idle /\ \A q \in Request : q # r => req'[q] = req[q]
      BY DEF IInv, TypeOK, EndRequest
<1>3. /\ rec'[p] = x /\ x # NoRecord
      /\ \A q \in Ptr : q # p => rec'[q] = rec[q]
      /\ \A q \in Ptr : rec[q] # NoRecord => rec'[q] # NoRecord /\ rec'[q].user = rec[q].user
      BY RecordsArePresent DEF IInv, TypeOK
<1>4. /\ entry'[d] = p /\ p # None
      /\ \A e \in Device : e # d => entry'[e] = entry[e]
      BY NoneAssumption DEF IInv, TypeOK, Ptr
<1>5. TypeOK'
      BY <1>1 DEF IInv, TypeOK, EndRequest
<1>6. EntriesAreStored' /\ KeysAreOwn'
  <2>1. EntriesAreStored'
        BY <1>3, <1>4 DEF IInv, TypeOK, EntriesAreStored
  <2>2. KeysAreOwn'
        BY <1>3 DEF IInv, KeysAreOwn
  <2> QED
      BY <2>1, <2>2
<1>7. RequestsAreAdmitted'
      BY <1>1, <1>2, <1>4 DEF IInv, RequestsAreAdmitted
<1>8. PointersAreStored' /\ PointersAreOwn'
      BY <1>1, <1>2, <1>3 DEF IInv, PointersAreStored, PointersAreOwn
<1>9. ChallengesAreStored'
      BY <1>1, <1>2 DEF IInv, ChallengesAreStored
<1> QED
    BY <1>5, <1>6, <1>7, <1>8, <1>9 DEF IInv

\* The three operations that file a record again: EnableBiometric,
\* UpdateLastSeen and RevokeDevice.
LEMMA FilingStep ==
  ASSUME IInv, NEW r \in Request, EnableStore(r) \/ TouchStore(r) \/ RevokeStore(r)
  PROVE  IInv'
<1> DEFINE p == req[r].ptr
<1>0. p \in Ptr /\ rec[p] \in Record /\ rec[p] # NoRecord /\ rec[p].key \in {None, rec[p].user}
      BY DEF IInv, TypeOK, PointersAreStored, KeysAreOwn, EnableStore, TouchStore, RevokeStore
<1>1. CASE EnableStore(r)
  <2> DEFINE x == [rec[p] EXCEPT !.key = req[r].user, !.rooted = FALSE]
  <2>1. req[r].user \in User /\ req[r].device \in Device /\ rec[p].user = req[r].user
        BY <1>1 DEF EnableStore, IInv, RequestsAreAdmitted, PointersAreOwn
  <2>2. x \in Record /\ x.user = rec[p].user /\ x.key \in {None, x.user}
        BY <1>0, <2>1 DEF Record
  <2>3. /\ rec' = [rec EXCEPT ![p] = x] /\ entry' = [entry EXCEPT ![req[r].device] = p]
        /\ EndRequest(r) /\ UNCHANGED <<challenge, lapsed, accepted, racers>>
        BY <1>1, <1>0 DEF EnableStore, IInv, TypeOK
  <2> HIDE DEF x, p
  <2> QED
      BY <1>0, <2>1, <2>2, <2>3, StoreStep
<1>2. CASE TouchStore(r)
  <2>1. req[r].device \in Device
        BY <1>2 DEF TouchStore, IInv, RequestsAreAdmitted
  <2>2. rec' = [rec EXCEPT ![p] = rec[p]]
        BY <1>0, <1>2 DEF TouchStore, IInv, TypeOK
  <2>3. /\ entry' = [entry EXCEPT ![req[r].device] = p]
        /\ EndRequest(r) /\ UNCHANGED <<challenge, lapsed, accepted, racers>>
        BY <1>2 DEF TouchStore
  <2> HIDE DEF p
  <2> QED
      BY <1>0, <2>1, <2>2, <2>3, StoreStep
<1>3. CASE RevokeStore(r)
  <2> DEFINE x == [rec[p] EXCEPT !.status = "revoked", !.key = None]
  <2>1. req[r].target \in Device
        BY <1>3 DEF RevokeStore, IInv, ChallengesAreStored
  <2>2. x \in Record /\ x.user = rec[p].user /\ x.key \in {None, x.user}
        BY <1>0 DEF Record
  <2>3. /\ rec' = [rec EXCEPT ![p] = x] /\ entry' = [entry EXCEPT ![req[r].target] = p]
        /\ EndRequest(r) /\ UNCHANGED <<challenge, lapsed, accepted, racers>>
        BY <1>3, <1>0 DEF RevokeStore, IInv, TypeOK
  <2> HIDE DEF x, p
  <2> QED
      BY <1>0, <2>1, <2>2, <2>3, StoreStep
<1> QED
    BY <1>1, <1>2, <1>3

\* RevokeDevice keeps the pointer it found.
LEMMA RevokeLoadStep ==
  ASSUME IInv, NEW r \in Request, NEW d \in Device, RevokeLoad(r, d)
  PROVE  IInv'
<1> DEFINE p == entry[d]
           x == [req[r] EXCEPT !.pc = "revokeLoaded", !.ptr = p, !.target = d]
<1>0. req[r] \in ReqState
      BY DEF IInv, TypeOK
<1>1. /\ req[r].pc = "admitted" /\ p # None
      /\ req' = [req EXCEPT ![r] = x]
      /\ UNCHANGED <<entry, rec, challenge, lapsed, accepted, racers>>
      BY DEF RevokeLoad
<1>2. p \in Ptr /\ rec[p] # NoRecord
      BY <1>1 DEF IInv, TypeOK, EntriesAreStored
<1>3. /\ x \in ReqState /\ x.pc = "revokeLoaded" /\ x.ptr = p /\ x.target = d
      /\ x.user = req[r].user /\ x.device = req[r].device
      BY <1>0, <1>2 DEF ReqState, PC
<1> HIDE DEF x, p
<1> QED
    BY <1>1, <1>2, <1>3, RequestStep DEF IInv, TypeOK, RequestsAreAdmitted

\* A Login files a new record: no pointer kept elsewhere leads to it.
LEMMA RegisterStep ==
  ASSUME IInv, NEW u \in User, NEW d \in Device, NEW b \in BOOLEAN, NEW p \in Ptr,
         RegisterDevice(u, d, b, p)
  PROVE  IInv'
<1> DEFINE x == [user |-> u, status |-> "active", key |-> None, rooted |-> b]
<1>1. /\ rec[p] = NoRecord /\ rec' = [rec EXCEPT ![p] = x]
      /\ entry' = [entry EXCEPT ![d] = p]
      /\ UNCHANGED <<challenge, lapsed, req, accepted, racers>>
      BY DEF RegisterDevice
<1>2. x \in Record /\ x # NoRecord /\ x.key = None
      BY RecordsArePresent DEF Record
<1> HIDE DEF x
<1>3. /\ rec'[p] = x /\ \A q \in Ptr : q # p => rec'[q] = rec[q]
      /\ \A q \in Ptr : rec[q] # NoRecord => rec'[q] = rec[q]
      BY <1>1 DEF IInv, TypeOK
<1>4. entry'[d] = p /\ p # None /\ \A e \in Device : e # d => entry'[e] = entry[e]
      BY <1>1, NoneAssumption DEF IInv, TypeOK, Ptr
<1>5. TypeOK'
      BY <1>1, <1>2 DEF IInv, TypeOK
<1>6. EntriesAreStored'
      BY <1>2, <1>3, <1>4 DEF IInv, TypeOK, EntriesAreStored
<1>7. RequestsAreAdmitted' /\ ChallengesAreStored'
      BY <1>1, <1>4 DEF IInv, RequestsAreAdmitted, ChallengesAreStored
<1>8. PointersAreStored' /\ PointersAreOwn'
      BY <1>1, <1>3 DEF IInv, PointersAreStored, PointersAreOwn
<1>9. KeysAreOwn'
      BY <1>2, <1>3 DEF IInv, KeysAreOwn
<1> QED
    BY <1>5, <1>6, <1>7, <1>8, <1>9 DEF IInv

-----------------------------------------------------------------------------
\* Every step keeps the invariant.
LEMMA IInvStep == IInv /\ [Next]_vars => IInv'
<1> SUFFICES ASSUME IInv, [Next]_vars PROVE IInv'
    OBVIOUS
<1>1. ASSUME NEW u \in User, NEW d \in Device, NEW b \in BOOLEAN, NEW p \in Ptr,
             RegisterDevice(u, d, b, p)
      PROVE  IInv'
      BY <1>1, RegisterStep
<1>2. ASSUME NEW c \in ChallengeId, Lapse(c) PROVE IInv'
      BY <1>2 DEF Lapse, IInv, TypeOK, EntriesAreStored, RequestsAreAdmitted,
                  PointersAreStored, PointersAreOwn, ChallengesAreStored, KeysAreOwn
<1>3. ASSUME NEW r \in Request,
             \/ \E u \in User, d \in Device : ValidateDevice(r, u, d)
             \/ \E a \in Action, c \in ChallengeId : GetChallenge(r, a, c)
             \/ Refuse(r)
      PROVE  IInv'
      BY <1>3, PlainStep
<1>4. ASSUME NEW r \in Request, Enroll(r) PROVE IInv'
      BY <1>4, EnrollStep, FilingStep DEF Enroll
<1>5. ASSUME NEW r \in Request, Authenticate(r) PROVE IInv'
      BY <1>5, AuthenticateStep, FilingStep DEF Authenticate
<1>6. ASSUME NEW r \in Request, RevokeDevice(r) PROVE IInv'
      BY <1>6, RevokeLoadStep, FilingStep DEF RevokeDevice
<1>7. CASE UNCHANGED vars
      BY <1>7 DEF vars, IInv, TypeOK, EntriesAreStored, RequestsAreAdmitted,
                  PointersAreStored, PointersAreOwn, ChallengesAreStored, KeysAreOwn
<1> QED
    BY <1>1, <1>2, <1>3, <1>4, <1>5, <1>6, <1>7 DEF Next, AskChallenge

\* The inductive invariant holds in every reachable state.
THEOREM Invariance == Spec => []IInv
BY InitIInv, IInvStep, PTL DEF Spec

\* The repositories and the requests always have their types.
THEOREM TypeCorrect == Spec => []TypeOK
<1>1. IInv => TypeOK
      BY DEF IInv
<1> QED
    BY <1>1, Invariance, PTL

\* A key only ever works for the user who enrolled it, whatever EnableBiometric,
\* Authenticate and the logins of other users on the device do at once.
THEOREM KeysAreNeverShared == Spec => []KeyBelongsToOwner
<1>1. IInv => KeyBelongsToOwner
      BY DEF IInv, KeyBelongsToOwner, KeysAreOwn, PointersAreOwn, PointersAreStored
<1> QED
    BY <1>1, Invariance, PTL

\* RevokeDevice is final for the record it marks: no later write of
\* EnableBiometric, UpdateLastSeen or RegisterDevice makes it active.
THEOREM RevocationIsFinal == Spec => RevokedRecordStaysRevoked
<1>1. IInv /\ [Next]_vars =>
        [\A p \in Ptr : (rec[p] # NoRecord /\ rec[p].status = "revoked") =>
                           rec'[p] # NoRecord /\ rec'[p].status = "revoked"]_vars
  <2> SUFFICES ASSUME IInv, Next, NEW p \in Ptr, rec[p] # NoRecord, rec[p].status = "revoked"
               PROVE  rec'[p] # NoRecord /\ rec'[p].status = "revoked"
      BY DEF vars
  <2>0. rec[p] \in Record
        BY DEF IInv, TypeOK
  <2>1. CASE rec' = rec
        BY <2>1
  <2>2. ASSUME NEW u \in User, NEW d \in Device, NEW b \in BOOLEAN, NEW q \in Ptr,
               RegisterDevice(u, d, b, q)
        PROVE  rec'[p] = rec[p]
        BY <2>2 DEF RegisterDevice, IInv, TypeOK
  <2>3. ASSUME NEW r \in Request, EnableStore(r) \/ RevokeStore(r)
        PROVE  rec'[p] # NoRecord /\ rec'[p].status = "revoked"
    <3> DEFINE q == req[r].ptr
    <3>1. q \in Ptr /\ rec[q] \in Record
          BY <2>3 DEF EnableStore, RevokeStore, IInv, TypeOK, PointersAreStored
    <3>2. /\ rec'[q] \in {[rec[q] EXCEPT !.key = req[r].user, !.rooted = FALSE],
                         [rec[q] EXCEPT !.status = "revoked", !.key = None]}
          /\ q # p => rec'[p] = rec[p]
          BY <2>3, <3>1 DEF EnableStore, RevokeStore, IInv, TypeOK
    <3>3. q = p => rec'[p].status = "revoked" /\ rec'[p].user = rec[p].user
          BY <3>1, <3>2 DEF Record
    <3>4. rec[p].user \in User
          BY <2>0 DEF Record
    <3> QED
        BY <3>2, <3>3, <3>4, NoneAssumption DEF NoRecord
  <2> QED
      BY <2>1, <2>2, <2>3
         DEF Next, Enroll, Authenticate, RevokeDevice, Lapse, ValidateDevice, AskChallenge, GetChallenge,
             Refuse, EnrollCheck, EnrollConsume, EnrollVerify, Consume, EnableLoad,
             AuthLoad, AuthCheck, AuthConsume, AuthVerify, TouchLoad, TouchStore, RevokeLoad
<1> QED
    BY <1>1, Invariance, PTL DEF Spec, RevokedRecordStaysRevoked

-----------------------------------------------------------------------------
(***************************************************************************)
(* ReuseNeedsARace.  A challenge is accepted by the requests that found it *)
(* unused and have not yet marked it; while it is unused nobody has been   *)
(* accepted, and once it is used nobody joins them: those accepted and     *)
(* those still to be accepted are together no more than the racers.        *)
(***************************************************************************)
Unused(c) == challenge[c] = NoChallenge \/ challenge[c].used = FALSE

RaceInv ==
  \A c \in ChallengeId :
    /\ Unused(c) => accepted[c] = 0
    /\ ~Unused(c) => accepted[c] + Cardinality(Fresh(c)) <= racers[c]

\* Nobody is in the race at the start.
LEMMA InitRace == Init => RaceInv
<1> SUFFICES ASSUME Init, NEW c \in ChallengeId PROVE Unused(c) /\ accepted[c] = 0
    BY DEF RaceInv
<1> QED
    BY DEF Init, Unused

\* A challenge nobody newly finds unused, and nobody marks.
LEMMA RaceShrinks ==
  ASSUME IInv, RaceInv, NEW c \in ChallengeId, Fresh(c)' \subseteq Fresh(c),
         accepted'[c] = accepted[c], racers'[c] = racers[c], Unused(c)' <=> Unused(c)
  PROVE  /\ Unused(c)' => accepted'[c] = 0
         /\ ~Unused(c)' => accepted'[c] + Cardinality(Fresh(c)') <= racers'[c]
<1>1. accepted[c] \in Nat /\ racers[c] \in Nat
      BY DEF IInv, TypeOK
<1>2. Cardinality(Fresh(c)') <= Cardinality(Fresh(c)) /\ Cardinality(Fresh(c)') \in Nat
      BY FreshIsFinite, FS_Subset, FS_CardinalityType
<1>3. Cardinality(Fresh(c)) \in Nat
      BY FreshIsFinite
<1>4. ~Unused(c) => accepted[c] + Cardinality(Fresh(c)) <= racers[c]
      BY DEF RaceInv
<1>5. Unused(c)' => accepted'[c] = 0
      BY DEF RaceInv
<1>6. ~Unused(c)' => accepted'[c] + Cardinality(Fresh(c)') <= racers'[c]
      BY <1>1, <1>2, <1>3, <1>4
<1> QED
    BY <1>5, <1>6

\* The race of a step in which request r only goes on, to no challenge's race.
LEMMA LeavingRace ==
  ASSUME IInv, RaceInv, NEW r \in Request, NEW x \in ReqState,
         req' = [req EXCEPT ![r] = x], x.pc \notin {"enrollFresh", "authFresh"},
         UNCHANGED <<accepted, racers>>, \A c \in ChallengeId : Unused(c)' <=> Unused(c)
  PROVE  RaceInv'
<1>1. \A c \in ChallengeId : Fresh(c)' \subseteq Fresh(c)
      BY DEF IInv, TypeOK, Fresh
<1> QED
    BY <1>1, RaceShrinks DEF RaceInv

\* A request finds challenge c unused.
LEMMA JoiningRace ==
  ASSUME IInv, RaceInv, NEW r \in Request, NEW x \in ReqState, NEW c \in ChallengeId,
         req' = [req EXCEPT ![r] = x], x.ch = c, Unused(c), UNCHANGED <<accepted, racers, challenge>>
  PROVE  RaceInv'
<1> SUFFICES ASSUME NEW b \in ChallengeId
             PROVE  /\ Unused(b)' => accepted'[b] = 0
                    /\ ~Unused(b)' => accepted'[b] + Cardinality(Fresh(b)') <= racers'[b]
    BY DEF RaceInv
<1>1. CASE b = c
  <2>1. accepted'[b] = 0 /\ Unused(b)'
        BY <1>1 DEF RaceInv, Unused
  <2> QED
      BY <2>1
<1>2. CASE b # c
  <2>1. Fresh(b)' \subseteq Fresh(b)
        BY <1>2 DEF IInv, TypeOK, Fresh
  <2>2. Unused(b)' <=> Unused(b)
        BY DEF Unused
  <2> QED
      BY <2>1, <2>2, RaceShrinks
<1> QED
    BY <1>1, <1>2

\* A request marks its challenge as used, and has been accepted.
LEMMA MarkingRace ==
  ASSUME IInv, RaceInv, NEW r \in Request, NEW pc,
         req[r].pc \in {"enrollFresh", "authFresh"},
         pc \in {"enrollConsumed", "authConsumed"}, Consume(r, pc)
  PROVE  RaceInv'
<1> DEFINE c == req[r].ch
<1>1. /\ c \in ChallengeId /\ challenge[c] \in Challenge
      /\ accepted \in [ChallengeId -> Nat] /\ req[r] \in ReqState
      BY DEF IInv, TypeOK, ChallengesAreStored
<1>2. /\ challenge' = [challenge EXCEPT ![c].used = TRUE]
      /\ accepted' = [accepted EXCEPT ![c] = @ + 1]
      /\ racers' = [racers EXCEPT ![c] =
                      IF challenge[c].used THEN @ ELSE Cardinality(Fresh(c))]
      /\ req' = [req EXCEPT ![r].pc = pc]
      BY DEF Consume
<1>3. \A q \in Request : q # r => req'[q] = req[q]
      BY <1>2 DEF IInv, TypeOK
<1>4. req'[r].pc = pc
      BY <1>1, <1>2 DEF IInv, TypeOK, ReqState
<1> SUFFICES ASSUME NEW b \in ChallengeId
             PROVE  /\ Unused(b)' => accepted'[b] = 0
                    /\ ~Unused(b)' => accepted'[b] + Cardinality(Fresh(b)') <= racers'[b]
    BY DEF RaceInv
<1>5. CASE b = c
  <2>1. ~Unused(b)'
    <3>1. challenge'[c] = [challenge[c] EXCEPT !.used = TRUE]
          BY <1>1, <1>2 DEF IInv, TypeOK
    <3>2. challenge'[c] \in Challenge /\ challenge'[c].used = TRUE
          BY <1>1, <3>1 DEF Challenge
    <3> QED
        BY <1>5, <3>2, ChallengesArePresent DEF Unused
  <2>2. Fresh(b)' = Fresh(b) \ {r} /\ r \in Fresh(b)
        BY <1>3, <1>4, <1>5 DEF Fresh
  <2>3. Cardinality(Fresh(b)') = Cardinality(Fresh(b)) - 1
        BY <2>2, FreshIsFinite, FS_RemoveElement
  <2>4. accepted'[b] = accepted[b] + 1 /\ accepted[b] \in Nat
        BY <1>1, <1>2, <1>5
  <2>5. racers'[b] = IF challenge[b].used THEN racers[b] ELSE Cardinality(Fresh(b))
        BY <1>1, <1>2, <1>5 DEF IInv, TypeOK
  <2>6. racers[b] \in Nat /\ challenge[b].used \in BOOLEAN
        BY <1>1, <1>5 DEF IInv, TypeOK, Challenge
  <2>7. CASE challenge[b].used = TRUE
    <3>1. ~Unused(b)
          BY <1>1, <1>5, <2>7, ChallengesArePresent DEF Unused
    <3>2. accepted[b] + Cardinality(Fresh(b)) <= racers[b]
          BY <3>1 DEF RaceInv
    <3> QED
        BY <2>1, <2>3, <2>4, <2>5, <2>6, <2>7, <3>2, FreshIsFinite
  <2>8. CASE challenge[b].used = FALSE
    <3>1. accepted[b] = 0
          BY <2>8 DEF RaceInv, Unused
    <3> QED
        BY <2>1, <2>3, <2>4, <2>5, <2>8, <3>1, FreshIsFinite
  <2> QED
      BY <2>6, <2>7, <2>8
<1>6. CASE b # c
  <2>1. Fresh(b)' \subseteq Fresh(b)
        BY <1>3, <1>4, <1>6 DEF Fresh
  <2>2. /\ accepted'[b] = accepted[b] /\ racers'[b] = racers[b]
        /\ challenge'[b] = challenge[b]
        BY <1>1, <1>2, <1>6 DEF IInv, TypeOK
  <2>3. Unused(b)' <=> Unused(b)
        BY <2>2 DEF Unused
  <2> QED
      BY <2>1, <2>2, <2>3, RaceShrinks
<1> QED
    BY <1>5, <1>6

\* Every step keeps the race in bounds.
LEMMA RaceStep == IInv /\ RaceInv /\ [Next]_vars => RaceInv'
<1> SUFFICES ASSUME IInv, RaceInv, [Next]_vars PROVE RaceInv'
    OBVIOUS
<1>1. CASE UNCHANGED <<req, accepted, racers, challenge>>
  <2>1. \A c \in ChallengeId : Fresh(c)' \subseteq Fresh(c) /\ (Unused(c)' <=> Unused(c))
        BY <1>1 DEF Fresh, Unused
  <2> QED
      BY <1>1, <2>1, RaceShrinks DEF RaceInv
<1>2. ASSUME NEW r \in Request, EndRequest(r), UNCHANGED <<accepted, racers>>,
             \A c \in ChallengeId : Unused(c)' <=> Unused(c)
      PROVE  RaceInv'
  <2>1. Idle \in ReqState /\ Idle.pc = "idle"
        BY DEF Idle, ReqState, PC
  <2> QED
      BY <1>2, <2>1, LeavingRace DEF EndRequest
<1>3. ASSUME NEW r \in Request, NEW x \in ReqState, req' = [req EXCEPT ![r] = x],
             x.pc \notin {"enrollFresh", "authFresh"}, UNCHANGED <<accepted, racers, challenge>>
      PROVE  RaceInv'
  <2>1. \A c \in ChallengeId : Unused(c)' <=> Unused(c)
        BY <1>3 DEF Unused
  <2> QED
      BY <1>3, <2>1, LeavingRace
<1>4. ASSUME NEW r \in Request, NEW u \in User, NEW d \in Device, ValidateDevice(r, u, d)
      PROVE  RaceInv'
  <2> DEFINE x == [Idle EXCEPT !.pc = "admitted", !.user = u, !.device = d]
  <2>1. x \in ReqState /\ x.pc = "admitted"
        BY DEF Idle, ReqState, PC
  <2> HIDE DEF x
  <2> QED
      BY <1>3, <1>4, <2>1 DEF ValidateDevice, x
<1>5. ASSUME NEW r \in Request, NEW a \in Action, NEW c \in ChallengeId, GetChallenge(r, a, c)
      PROVE  RaceInv'
  <2>1. \A b \in ChallengeId : Unused(b)' <=> Unused(b)
        BY <1>5 DEF GetChallenge, Unused, IInv, TypeOK
  <2> QED
      BY <1>2, <1>5, <2>1 DEF GetChallenge
<1>6. ASSUME NEW r \in Request, EndRequest(r), UNCHANGED <<accepted, racers, challenge>>
      PROVE  RaceInv'
  <2>1. \A c \in ChallengeId : Unused(c)' <=> Unused(c)
        BY <1>6 DEF Unused
  <2> QED
      BY <1>2, <1>6, <2>1
<1>7. ASSUME NEW r \in Request, NEW pc \in PC \ {"enrollFresh", "authFresh"},
             NEW p \in Ptr \union {None}, NEW t \in Device \union {None},
             req' = [req EXCEPT ![r].pc = pc, ![r].ptr = p, ![r].target = t],
             UNCHANGED <<accepted, racers, challenge>>
      PROVE  RaceInv'
  <2> DEFINE x == [req[r] EXCEPT !.pc = pc, !.ptr = p, !.target = t]
  <2>1. req[r] \in ReqState
        BY DEF IInv, TypeOK
  <2>2. x \in ReqState /\ x.pc = pc
        BY <2>1 DEF ReqState
  <2>3. req' = [req EXCEPT ![r] = x]
        BY <1>7
  <2> HIDE DEF x
  <2> QED
      BY <1>3, <1>7, <2>2, <2>3
<1>8. ASSUME NEW r \in Request, Enroll(r) PROVE RaceInv'
  <2>0. req[r] \in ReqState
        BY DEF IInv, TypeOK
  <2>1. ASSUME NEW c \in ChallengeId, NEW sig \in Signed, EnrollCheck(r, c, sig) PROVE RaceInv'
    <3> DEFINE x == [req[r] EXCEPT !.pc = "enrollFresh", !.ch = c, !.sig = sig]
    <3>1. x \in ReqState /\ x.ch = c
          BY <2>0 DEF ReqState, PC
    <3>2. /\ req' = [req EXCEPT ![r] = x] /\ UNCHANGED <<accepted, racers, challenge>>
          /\ challenge[c] # NoChallenge /\ ~challenge[c].used
          BY <2>1 DEF EnrollCheck, ChallengeOK
    <3>3. Unused(c)
          BY <3>2 DEF Unused, IInv, TypeOK, Challenge
    <3> HIDE DEF x
    <3> QED
        BY <3>1, <3>2, <3>3, JoiningRace
  <2>2. CASE EnrollConsume(r)
        BY <2>2, MarkingRace DEF EnrollConsume
  <2>3. CASE EnrollVerify(r)
    <3>1. CASE EndRequest(r)
          BY <1>6, <2>3, <3>1 DEF EnrollVerify
    <3>2. CASE req' = [req EXCEPT ![r].pc = "enrollVerified"]
      <4> DEFINE x == [req[r] EXCEPT !.pc = "enrollVerified"]
      <4>1. x \in ReqState /\ x.pc = "enrollVerified" /\ req' = [req EXCEPT ![r] = x]
            BY <2>0, <3>2 DEF ReqState, PC
      <4> HIDE DEF x
      <4> QED
          BY <1>3, <2>3, <4>1 DEF EnrollVerify
    <3> QED
        BY <2>3, <3>1, <3>2 DEF EnrollVerify
  <2>4. CASE EnableLoad(r)
    <3> DEFINE x == [req[r] EXCEPT !.pc = "enableLoaded", !.ptr = entry[req[r].device]]
    <3>1. req[r].device \in Device /\ entry[req[r].device] \in Ptr \union {None}
          BY <2>4 DEF EnableLoad, IInv, TypeOK, RequestsAreAdmitted
    <3>2. x \in ReqState /\ x.pc = "enableLoaded"
          BY <2>0, <3>1 DEF ReqState, PC
    <3>3. req' = [req EXCEPT ![r] = x] /\ UNCHANGED <<accepted, racers, challenge>>
          BY <2>4 DEF EnableLoad
    <3> HIDE DEF x
    <3> QED
        BY <1>3, <3>2, <3>3
  <2>5. CASE EnableStore(r)
        BY <1>6, <2>5 DEF EnableStore
  <2> QED
      BY <1>8, <2>1, <2>2, <2>3, <2>4, <2>5 DEF Enroll
<1>9. ASSUME NEW r \in Request, Authenticate(r) PROVE RaceInv'
  <2>0. req[r] \in ReqState
        BY DEF IInv, TypeOK
  <2>1. CASE AuthLoad(r) \/ TouchLoad(r)
    <3> DEFINE x(pc) == [req[r] EXCEPT !.pc = pc, !.ptr = entry[req[r].device]]
    <3>1. req[r].device \in Device /\ entry[req[r].device] \in Ptr \union {None}
          BY <2>1 DEF AuthLoad, TouchLoad, IInv, TypeOK, RequestsAreAdmitted
    <3>2. \A pc \in {"authLoaded", "touchLoaded"} : x(pc) \in ReqState /\ x(pc).pc = pc
          BY <2>0, <3>1 DEF ReqState, PC
    <3>3. /\ \E pc \in {"authLoaded", "touchLoaded"} : req' = [req EXCEPT ![r] = x(pc)]
          /\ UNCHANGED <<accepted, racers, challenge>>
          BY <2>1 DEF AuthLoad, TouchLoad
    <3> HIDE DEF x
    <3> QED
        BY <1>3, <3>2, <3>3
  <2>2. ASSUME NEW c \in ChallengeId, AuthCheck(r, c) PROVE RaceInv'
    <3> DEFINE x == [req[r] EXCEPT !.pc = "authFresh", !.ch = c]
    <3>1. x \in ReqState /\ x.ch = c
          BY <2>0 DEF ReqState, PC
    <3>2. /\ req' = [req EXCEPT ![r] = x] /\ UNCHANGED <<accepted, racers, challenge>>
          /\ challenge[c] # NoChallenge /\ ~challenge[c].used
          BY <2>2 DEF AuthCheck, ChallengeOK
    <3>3. Unused(c)
          BY <3>2 DEF Unused, IInv, TypeOK, Challenge
    <3> HIDE DEF x
    <3> QED
        BY <3>1, <3>2, <3>3, JoiningRace
  <2>3. CASE AuthConsume(r)
        BY <2>3, MarkingRace DEF AuthConsume
  <2>4. CASE AuthVerify(r)
    <3> DEFINE x == [req[r] EXCEPT !.pc = "verified"]
    <3>1. x \in ReqState /\ x.pc = "verified"
          BY <2>0 DEF ReqState, PC
    <3>2. req' = [req EXCEPT ![r] = x] /\ UNCHANGED <<accepted, racers, challenge>>
          BY <2>4 DEF AuthVerify
    <3> HIDE DEF x
    <3> QED
        BY <1>3, <3>1, <3>2
  <2>5. CASE TouchStore(r)
        BY <1>6, <2>5 DEF TouchStore
  <2> QED
      BY <1>9, <2>1, <2>2, <2>3, <2>4, <2>5 DEF Authenticate
<1>10. ASSUME NEW r \in Request, RevokeDevice(r) PROVE RaceInv'
  <2>1. ASSUME NEW d \in Device, RevokeLoad(r, d) PROVE RaceInv'
    <3>1. entry[d] \in Ptr \union {None}
          BY DEF IInv, TypeOK
    <3> QED
        BY <1>7, <2>1, <3>1 DEF RevokeLoad, PC
  <2>2. CASE RevokeStore(r)
        BY <1>6, <2>2 DEF RevokeStore
  <2> QED
      BY <1>10, <2>1, <2>2 DEF RevokeDevice
<1> QED
    BY <1>1, <1>4, <1>5, <1>6, <1>8, <1>9, <1>10
       DEF Next, AskChallenge, RegisterDevice, Lapse, Refuse, vars

\* consumeChallenge accepts a challenge no more often than requests had found it
\* unused when it was first marked, for any number of requests at once or in a row.
THEOREM ReuseIsBounded == Spec => []ReuseNeedsARace
<1>1. IInv /\ RaceInv => ReuseNeedsARace
  <2> SUFFICES ASSUME IInv, RaceInv, NEW c \in ChallengeId
               PROVE  accepted[c] <= racers[c]
      BY DEF ReuseNeedsARace
  <2>1. accepted[c] \in Nat /\ racers[c] \in Nat
        BY DEF IInv, TypeOK
  <2>2. CASE Unused(c)
        BY <2>1, <2>2 DEF RaceInv
  <2>3. CASE ~Unused(c)
    <3>1. accepted[c] + Cardinality(Fresh(c)) <= racers[c]
          BY <2>3 DEF RaceInv
    <3> QED
        BY <2>1, <3>1, FreshIsFinite
  <2> QED
      BY <2>2, <2>3
<1> QED
    BY <1>1, InitIInv, IInvStep, InitRace, RaceStep, PTL DEF Spec

=============================================================================
