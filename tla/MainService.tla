------------------------------ MODULE MainService ------------------------------
(***************************************************************************)
(* The main auth service: accounts in memory, signed tokens nobody stores, *)
(* one-time codes, face checks, and the idempotency middleware in front of *)
(* every route that changes something.                                     *)
(*                                                                         *)
(* A request is a step through the middleware (Begin), which calls         *)
(* Evaluate, and then either a step of the handler and a step that stores  *)
(* the answer under the key (Finish), or a second lookup of the key for    *)
(* the answer to replay; each store is guarded by one lock, so a handler   *)
(* is atomic.  The idempotency manager is a library: its records and the   *)
(* meaning of LockTTL are modelled from how the middleware configures and  *)
(* calls it, and are external.  No handler answers 500 or more, so Fail is *)
(* never called.                                                           *)
(*                                                                         *)
(* A token is a function of what it claims, two issued in one tick are the *)
(* same token, and it outlives the process.  Its fields proved and acct    *)
(* are history: the password that was proved when its chain began, and     *)
(* that of the account it was issued for.                                  *)
(***************************************************************************)
EXTENDS Naturals, FiniteSets

CONSTANTS
  Request,      \* requests that can be under way at once
  Email, UserID, Password,
  IdOf,         \* the user ID of an email: two emails may share one
  Challenge,    \* IDs of one-time codes
  Key,          \* idempotency keys
  None,         \* no key, no password, no user
  Provider,     \* configuration: is there a face provider?
  TTL,          \* configuration: life of a key's record
  LockTTL,      \* configuration: how long a record in flight is locked
  CodeTTL,      \* life of a one-time code whose client asks for none
  AskedTTL,     \* the ttl_seconds a client may send; 0 is none
  AccessTTL, RefreshTTL,
  MaxTime,      \* bound: how far the clock runs
  CodeCost, OtherCost, \* bound: what a request for a one-time code, and
                        \* any other request, takes of MaxCost
  MaxCost,      \* bound: requests made, by their cost
  MaxBoots      \* bound: restarts

ASSUME IdAssumption == IdOf \in [Email -> UserID]

ASSUME FiniteAssumption == IsFiniteSet(Request) /\ IsFiniteSet(Challenge)

ASSUME NoneAssumption == None \notin Key \union Password \union UserID

ASSUME ConfigAssumption ==
  /\ Provider \in BOOLEAN
  /\ {TTL, LockTTL, CodeTTL, AccessTTL, RefreshTTL} \subseteq Nat \ {0}
  /\ AskedTTL \subseteq Nat
  /\ LockTTL < TTL

ASSUME BoundAssumption == {MaxTime, CodeCost, OtherCost, MaxCost, MaxBoots} \subseteq Nat

VARIABLES
  now,       \* the clock
  byEmail,   \* the accounts: the password of an email
  tokens,    \* the tokens that were issued
  otp,       \* the one-time codes
  audits,    \* how many events of each kind the service's own log has
  records,   \* the idempotency manager's records
  req,       \* the requests under way
  made,      \* history: the cost of the requests made
  boots,     \* history: how often the process was started again
  runs,      \* history: how often the handler ran in the life of a record
  takeovers, \* history: how often a lock that was over was taken over
  given,     \* history: what clients sent and were given in the life of a record
  outlived,  \* history: the keys under which a request outlived its record
  told,      \* history: who was told that a code is verified
  registered \* history: the passwords under which an email was ever registered

memory == <<byEmail, otp, audits, records>>
history == <<runs, takeovers, given, outlived, told, registered>>
vars == <<now, memory, tokens, req, made, boots, history>>

-----------------------------------------------------------------------------
Token == [type : {"access", "refresh"}, email : Email, sub : UserID,
          expires : Nat, proved : Password, acct : Password]

Code == [user : UserID \union {None}, expires : Nat, status : {"pending", "verified"}]
NoCode == [user |-> None, expires |-> 0, status |-> "pending"]

Kind == {"otp.challenge", "otp.verify", "face.verify"}

\* The bodies of requests, with the route.
AuthCmd == [op : {"register", "login"}, email : Email, password : Password]
TokenCmd == [op : {"refresh", "logout", "me"}, token : Token]
CreateCmd == [op : {"createOTP"}, user : UserID, ttl : AskedTTL]
VerifyCmd == [op : {"verifyOTP"}, user : UserID, ch : Challenge, right : BOOLEAN]
FaceCmd == [op : {"face"}, live : BOOLEAN]
BadCmd == [op : {"malformed"}]
Cmd == AuthCmd \union TokenCmd \union CreateCmd \union VerifyCmd \union FaceCmd \union BadCmd

\* Answers: a status, and what the body says; or a status and no body at all.
Statuses == {200, 201, 400, 401, 409}
TokenAnswer == [status : {200, 201}, token : Token]
Answer == [status : Statuses] \union TokenAnswer
          \union [status : {201}, ch : Challenge] \union [status : {200}, ok : BOOLEAN]
EmptyAnswer == [status : Statuses, empty : {TRUE}]

Given == [cmd : Cmd, answer : Answer \union EmptyAnswer]

NoRecord == [state |-> "none"]
InFlight(c, until) == [state |-> "inFlight", cmd |-> c, lock |-> until, expires |-> now + TTL]
Record == [state : {"none"}]
          \union [state : {"inFlight"}, cmd : Cmd, lock : Nat, expires : Nat]
          \union [state : {"completed"}, cmd : Cmd, answer : Answer, expires : Nat]

Idle == [pc |-> "idle"]
ReqState == [pc : {"idle"}]
            \union [pc : {"handling"}, cmd : Cmd, key : Key \union {None}]
            \union [pc : {"finishing"}, cmd : Cmd, key : Key \union {None}, answer : Answer]
            \union [pc : {"replaying"}, cmd : Cmd, key : Key, status : Statuses]

TypeOK ==
  /\ now \in Nat /\ made \in Nat /\ boots \in Nat
  /\ byEmail \in [Email -> Password \union {None}]
  /\ \A t \in tokens : t \in Token
  /\ otp \in [Challenge -> Code]
  /\ audits \in [Kind -> Nat]
  /\ \A k \in Key : records[k] \in Record /\ \A x \in given[k] : x \in Given
  /\ \A r \in Request : req[r] \in ReqState
  /\ runs \in [Key -> Nat] /\ takeovers \in [Key -> Nat]
  /\ outlived \subseteq Key
  /\ told \in [Challenge -> [keys : SUBSET Key, bare : Nat]]
  /\ registered \in [Email -> SUBSET Password]

\* The stores as Bootstrap makes them.
NoUsers == [e \in Email |-> None]
NoCodes == [c \in Challenge |-> NoCode]
NoAudits == [k \in Kind |-> 0]
NoRecords == [k \in Key |-> NoRecord]

Init ==
  /\ byEmail = NoUsers /\ otp = NoCodes /\ audits = NoAudits /\ records = NoRecords
  /\ now = 0 /\ made = 0 /\ boots = 0
  /\ tokens = {}
  /\ req = [r \in Request |-> Idle]
  /\ runs = [k \in Key |-> 0] /\ takeovers = [k \in Key |-> 0]
  /\ given = [k \in Key |-> {}] /\ outlived = {}
  /\ told = [c \in Challenge |-> [keys |-> {}, bare |-> 0]]
  /\ registered = [e \in Email |-> {}]

-----------------------------------------------------------------------------
(* IdempotencyMiddleware and the manager behind it.                        *)

At(r, pc) == req[r].pc = pc

isMutatingMethod(c) == c.op # "me"

\* A record is gone when its time is over.
Live(k) == records[k].state # "none" /\ now < records[k].expires

\* What Evaluate says of a request: StrictPayloadCheck compares the command.
Evaluate(c, k) ==
  IF ~Live(k) THEN "new"
  ELSE IF records[k].cmd # c THEN "conflict"
  ELSE IF records[k].state = "completed" THEN "cached"
  ELSE IF now < records[k].lock THEN "inFlight" ELSE "expired"

\* A request arrives.
Arrive(r, c) ==
  /\ At(r, "idle")
  /\ made' = made + (IF c.op \in {"createOTP", "verifyOTP"} THEN CodeCost ELSE OtherCost)
  /\ made' <= MaxCost
  /\ UNCHANGED <<now, byEmail, tokens, otp, audits, boots>>

\* A client is given answer a for command c, under key k or without one.
Give(k, c, a) ==
  given' = IF k = None THEN given
           ELSE [given EXCEPT ![k] = @ \union {[cmd |-> c, answer |-> a]}]

Told(k, c, a) ==
  told' = IF c.op # "verifyOTP" \/ a # [status |-> 200, ok |-> TRUE] THEN told
          ELSE IF k = None THEN [told EXCEPT ![c.ch].bare = @ + 1]
          ELSE [told EXCEPT ![c.ch].keys = @ \union {k}]

\* No key, or a method that changes nothing: c.Next().
Pass(r, c, k) ==
  /\ ~isMutatingMethod(c) \/ k = None
  /\ req' = [req EXCEPT ![r] = [pc |-> "handling", cmd |-> c, key |-> None]]
  /\ UNCHANGED <<records, history>>

\* The requests under key k, and those of them for which the handler runs.
Busy(k) == {q \in Request : ~At(q, "idle") /\ req[q].key = k}
Working(k) == {q \in Busy(k) : ~At(q, "replaying")}

\* The record is new, or its lock is over: the handler runs under the key.  A
\* handler of an earlier record that is still running is a takeover, too.
Lock(r, c, k) ==
  /\ isMutatingMethod(c) /\ k # None
  /\ Evaluate(c, k) \in {"new", "expired"}
  /\ records' = [records EXCEPT ![k] = InFlight(c, now + LockTTL)]
  /\ req' = [req EXCEPT ![r] = [pc |-> "handling", cmd |-> c, key |-> k]]
  /\ IF Evaluate(c, k) = "new"
       THEN /\ takeovers' = [takeovers EXCEPT ![k] = Cardinality(Working(k))]
            /\ runs' = [runs EXCEPT ![k] = 0] /\ given' = [given EXCEPT ![k] = {}]
            /\ outlived' = IF Busy(k) = {} THEN outlived ELSE outlived \union {k}
       ELSE /\ takeovers' = [takeovers EXCEPT ![k] = @ + 1]
            /\ UNCHANGED <<runs, given, outlived>>
  /\ UNCHANGED <<told, registered>>

\* 409: another payload under the key, or the same one in flight.
Refuse(r, c, k) ==
  /\ isMutatingMethod(c) /\ k # None
  /\ Evaluate(c, k) \in {"conflict", "inFlight"}
  /\ UNCHANGED <<req, records, history>>

\* A slip: without the Abort the handler runs after the cached answer.
ReplayGoesOn(r, c, k) ==
  /\ isMutatingMethod(c) /\ k # None
  /\ Evaluate(c, k) = "cached"
  /\ req' = [req EXCEPT ![r] = [pc |-> "handling", cmd |-> c, key |-> k]]
  /\ UNCHANGED <<records, history>>

\* Evaluate found an answer, and result.Record has its status ...
Replay(r, c, k) ==
  /\ isMutatingMethod(c) /\ k # None
  /\ Evaluate(c, k) = "cached"
  /\ req' = [req EXCEPT ![r] = [pc |-> "replaying", cmd |-> c, key |-> k,
                                status |-> records[k].answer.status]]
  /\ UNCHANGED <<records, history>>

\* ... GetCachedResponse looks the key up again, and whatever command the
\* record is now about, its answer is sent and the chain aborted ...
ReplayCached(r) ==
  LET k == req[r].key
  IN /\ At(r, "replaying")
     /\ Live(k) /\ records[k].state = "completed"
     /\ Give(k, req[r].cmd, records[k].answer)
     /\ Told(k, req[r].cmd, records[k].answer)
     /\ req' = [req EXCEPT ![r] = Idle]
     /\ UNCHANGED <<now, memory, tokens, made, boots, runs, takeovers, outlived, registered>>

\* A slip: ok is not looked at, and the zero answer is sent.
ReplayZero(r) ==
  LET k == req[r].key
  IN /\ At(r, "replaying")
     /\ ~Live(k) \/ records[k].state # "completed"
     /\ Give(k, req[r].cmd, [status |-> 0])
     /\ req' = [req EXCEPT ![r] = Idle]
     /\ UNCHANGED <<now, memory, tokens, made, boots, runs, takeovers, outlived, told,
                    registered>>

\* ... or there is none by now, or the lookup fails: the status, and no body.
ReplayEmpty(r) ==
  /\ At(r, "replaying")
  /\ Give(req[r].key, req[r].cmd, [status |-> req[r].status, empty |-> TRUE])
  /\ req' = [req EXCEPT ![r] = Idle]
  /\ UNCHANGED <<now, memory, tokens, made, boots, runs, takeovers, outlived, told,
                 registered>>

\* A token was issued before it is sent.
Begin(r) ==
  \E k \in Key \union {None} :
    \E c \in AuthCmd \union CreateCmd \union VerifyCmd \union FaceCmd \union BadCmd
            \union [op : {"refresh", "logout", "me"}, token : tokens] :
      /\ Arrive(r, c)
      /\ Pass(r, c, k) \/ Lock(r, c, k) \/ Refuse(r, c, k) \/ Replay(r, c, k)

\* The handler returned: Complete stores the answer, the last one wins.
Complete(r) ==
  LET k == req[r].key
  IN records' = IF k # None /\ Live(k)
                THEN [records EXCEPT ![k] = [state |-> "completed", cmd |-> @.cmd,
                                             answer |-> req[r].answer, expires |-> @.expires]]
                ELSE records

Finish(r) ==
  /\ At(r, "finishing")
  /\ Complete(r)
  /\ Give(req[r].key, req[r].cmd, req[r].answer)
  /\ Told(req[r].key, req[r].cmd, req[r].answer)
  /\ req' = [req EXCEPT ![r] = Idle]
  /\ UNCHANGED <<now, byEmail, otp, audits, tokens, made, boots, runs, takeovers, outlived,
                 registered>>

\* The client is gone and Complete fails with its context; the error is
\* dropped and the record stays in flight.
CompleteFails(r) ==
  /\ At(r, "finishing")
  /\ req[r].key # None
  /\ req' = [req EXCEPT ![r] = Idle]
  /\ UNCHANGED <<now, memory, tokens, made, boots, history>>

-----------------------------------------------------------------------------
(* The handlers.                                                           *)

\* The handler of r answers a.
Handled(r, a) ==
  /\ req' = [req EXCEPT ![r] = [pc |-> "finishing", cmd |-> @.cmd, key |-> @.key, answer |-> a]]
  /\ runs' = IF req[r].key = None THEN runs ELSE [runs EXCEPT ![req[r].key] = @ + 1]
  /\ UNCHANGED <<now, records, made, boots, takeovers, given, outlived, told>>

\* The accounts, and the history of their passwords.
accounts == <<byEmail, registered>>

Handling(r, op) == At(r, "handling") /\ req[r].cmd.op = op

\* ParseJWT checks the signature and the expiry.
ParseJWT(t) == now < t.expires

GenerateJWT(type, e, w, ttl) ==
  [type |-> type, email |-> e, sub |-> IdOf[e], expires |-> now + ttl,
   proved |-> w, acct |-> byEmail'[e]]

\* A pair of tokens for the account of e, after password w was proved.
buildAuthResponse(r, status, e, w) ==
  LET refresh == GenerateJWT("refresh", e, w, RefreshTTL)
  IN /\ tokens' = tokens \union {GenerateJWT("access", e, w, AccessTTL), refresh}
     /\ Handled(r, [status |-> status, token |-> refresh])

\* An answer that changes nothing.
Reject(r, status) ==
  /\ Handled(r, [status |-> status])
  /\ UNCHANGED <<accounts, tokens, otp, audits>>

\* The store refuses an email it has, under its lock.
CreateEmailUser(e, w) ==
  /\ byEmail[e] = None
  /\ byEmail' = [byEmail EXCEPT ![e] = w]
  /\ registered' = [registered EXCEPT ![e] = @ \union {w}]

\* AuthService.RegisterEmail.
Registers(r, c) ==
  /\ CreateEmailUser(c.email, c.password)
  /\ buildAuthResponse(r, 201, c.email, c.password)
  /\ UNCHANGED <<otp, audits>>

RegisterEmail(r) ==
  /\ Handling(r, "register")
  /\ \/ Registers(r, req[r].cmd)
     \/ byEmail[req[r].cmd.email] # None /\ Reject(r, 400)

\* AuthService.LoginEmail.
LogsIn(r, c) ==
  /\ byEmail[c.email] = c.password
  /\ UNCHANGED <<accounts, otp, audits>>
  /\ buildAuthResponse(r, 200, c.email, c.password)

LoginEmail(r) ==
  /\ Handling(r, "login")
  /\ \/ LogsIn(r, req[r].cmd)
     \/ byEmail[req[r].cmd.email] # req[r].cmd.password /\ Reject(r, 401)

\* A slip: the account is looked up by the token's subject.
GetUserBySubject(t) == {e \in Email : byEmail[e] # None /\ IdOf[e] = t.sub}

\* The account a token names, if there is one.
GetUserByEmail(t) == {e \in Email : byEmail[e] # None /\ e = t.email}

\* AuthService.RefreshToken: the token is not spent, it can be refreshed again
\* until it expires.
Refreshes(r, t) ==
  /\ ParseJWT(t) /\ t.type = "refresh"
  /\ \E e \in GetUserByEmail(t) :
       /\ IdOf[e] = t.sub
       /\ UNCHANGED <<accounts, otp, audits>>
       /\ buildAuthResponse(r, 200, e, t.proved)

RefreshToken(r) ==
  LET t == req[r].cmd.token
  IN /\ Handling(r, "refresh")
     /\ \/ Refreshes(r, t)
        \/ /\ ParseJWT(t) /\ t.type = "refresh" => GetUserByEmail(t) = {}
           /\ Reject(r, 401)

\* Logout returns nil; AuthService.Me answers from the claims alone.
Logout(r) == Handling(r, "logout") /\ Reject(r, 200)

Profile(t) == ParseJWT(t) /\ t.type = "access"

Me(r) ==
  Handling(r, "me") /\ Reject(r, IF Profile(req[r].cmd.token) THEN 200 ELSE 401)

\* A body that does not parse or lacks a field.
Malformed(r) == Handling(r, "malformed") /\ Reject(r, 400)

Audit(kind) == audits' = [audits EXCEPT ![kind] = @ + 1]

\* VerificationService.CreateOTP: a fresh ID, and a code that lives for as long
\* as its client asked; it is sent after the lock is released, its error dropped.
Challenged(ch, u, ttl) ==
  /\ otp[ch].user = None
  /\ otp' = [otp EXCEPT ![ch] = [user |-> u,
                                 expires |-> now + (IF ttl = 0 THEN CodeTTL ELSE ttl),
                                 status |-> "pending"]]
  /\ Audit("otp.challenge")

CreateOTP(r) ==
  /\ Handling(r, "createOTP")
  /\ \E ch \in Challenge :
       /\ Challenged(ch, req[r].cmd.user, req[r].cmd.ttl)
       /\ Handled(r, [status |-> 201, ch |-> ch])
  /\ UNCHANGED <<accounts, tokens>>

\* A slip: the copy of the challenge is changed and not stored.
MarkCopy(ch) == otp

\* s.otp[challengeID] = ch
Mark(ch) == [otp EXCEPT ![ch].status = "verified"]

\* VerificationService.VerifyOTP: is the code good?
Good(c) ==
  /\ otp[c.ch].user = c.user /\ now <= otp[c.ch].expires
  /\ otp[c.ch].status = "pending" /\ c.right

VerifyOTP(r) ==
  LET c == req[r].cmd
  IN /\ Handling(r, "verifyOTP")
     /\ Handled(r, [status |-> 200, ok |-> Good(c)])
     /\ IF Good(c) THEN otp' = Mark(c.ch) /\ Audit("otp.verify")
                   ELSE UNCHANGED <<otp, audits>>
     /\ UNCHANGED <<accounts, tokens>>

\* The provider answers, or fails.
dispatchFace == IF Provider THEN {"approved", "denied", "failed"} ELSE {"failed"}

\* VerificationService.VerifyFace: when the provider does not answer, the
\* prefix of the token decides.
Approved(d, live) == (d = "approved") \/ (d = "failed" /\ live)

VerifyFace(r) ==
  /\ Handling(r, "face")
  /\ \E d \in dispatchFace :
       Handled(r, [status |-> 200, ok |-> Approved(d, req[r].cmd.live)])
  /\ Audit("face.verify")
  /\ UNCHANGED <<accounts, tokens, otp>>

-----------------------------------------------------------------------------
Tick ==
  /\ now < MaxTime
  /\ now' = now + 1
  /\ UNCHANGED <<memory, tokens, req, made, boots, history>>

\* The process dies and is started again; the tokens are with the clients.
Restart ==
  /\ boots < MaxBoots
  /\ boots' = boots + 1
  /\ byEmail' = NoUsers /\ otp' = NoCodes /\ audits' = NoAudits /\ records' = NoRecords
  /\ req' = [r \in Request |-> Idle]
  /\ runs' = [k \in Key |-> 0] /\ takeovers' = [k \in Key |-> 0]
  /\ given' = [k \in Key |-> {}] /\ outlived' = {}
  /\ told' = [c \in Challenge |-> [keys |-> {}, bare |-> 0]]
  /\ UNCHANGED <<now, tokens, made, registered>>

Handler(r) ==
  \/ RegisterEmail(r) \/ LoginEmail(r) \/ RefreshToken(r) \/ Logout(r) \/ Me(r)
  \/ Malformed(r) \/ CreateOTP(r) \/ VerifyOTP(r) \/ VerifyFace(r)

Next ==
  \/ Tick \/ Restart
  \/ \E r \in Request :
       \/ Begin(r) \/ ReplayCached(r) \/ ReplayEmpty(r)
       \/ Handler(r) \/ Finish(r) \/ CompleteFails(r)

Spec == Init /\ [][Next]_vars

-----------------------------------------------------------------------------
\* The answers with a body that were given under key k.
Bodies(k) == {x.answer : x \in {y \in given[k] : y.answer \in Answer}}

(***************************************************************************)
(* What the middleware makes of a key, in the life of a record.  The       *)
(* handler runs once and clients are given one body, but for the times a   *)
(* lock ran out under a handler that was slow or whose Complete was lost:  *)
(* each of these adds at most one of either.  Whoever is given an answer   *)
(* sent the command it was made for; and one that comes without its body,  *)
(* because the record was gone at the second lookup, has the status of one *)
(* that came with it.  These two fail under a key on which a request       *)
(* outlived its record: the second lookup asks for the key alone, and      *)
(* Complete stores under it whatever it finds there.                       *)
(***************************************************************************)
KeyedOnce ==
  \A k \in Key :
    /\ runs[k] <= 1 + takeovers[k]
    /\ Cardinality(Bodies(k)) <= 1 + takeovers[k]
    /\ k \notin outlived => \A x \in given[k] :
         /\ \A y \in given[k] : y.cmd = x.cmd
         /\ \E a \in Bodies(k) : a.status = x.answer.status

\* Command c proves, by a password or by a token, what token t needs.
Proves(c, t) ==
  \/ c.op \in {"register", "login"} /\ c.email = t.email /\ c.password = t.proved
  \/ c.op = "refresh" /\ c.token.email = t.email /\ c.token.proved = t.proved

(***************************************************************************)
(* Tokens and passwords, with two emails of one user ID and through any    *)
(* number of refreshes and restarts.  The chain of a token began with a    *)
(* password under which its own email was registered, and so was the       *)
(* account that the token was issued for; an email has one password in the *)
(* life of a process, so that the two are the same until a restart.  And   *)
(* whoever is given a token, by the handler or from a record, sent that    *)
(* password or a token of that chain, but for a key on which a request     *)
(* outlived its record.                                                    *)
(***************************************************************************)
ProvedForItsEmail ==
  /\ \A t \in tokens : {t.proved, t.acct} \subseteq registered[t.email]
  /\ \A e \in Email : Cardinality(registered[e]) <= 1 + boots
  /\ \A k \in Key \ outlived : \A x \in given[k] :
       x.answer \in TokenAnswer => Proves(x.cmd, x.answer.token)

(***************************************************************************)
(* A one-time code convinces one client: whoever is told it is verified,   *)
(* by a handler or by a stored answer, shares one key or is alone without  *)
(* one, also when the lock of the key ran out and the handler ran twice.   *)
(* The exception are keys under which a request outlived its record: its   *)
(* answer is stored for the next one, whatever that asked.  And the log    *)
(* has one entry for each verified code.                                   *)
(***************************************************************************)
VerifiedOnce ==
  /\ \A ch \in Challenge : Cardinality(told[ch].keys \ outlived) + told[ch].bare <= 1
  /\ audits["otp.verify"] = Cardinality({ch \in Challenge : otp[ch].status = "verified"})

=============================================================================
