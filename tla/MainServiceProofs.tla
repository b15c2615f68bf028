--------------------------- MODULE MainServiceProofs ---------------------------
(***************************************************************************)
(* Proofs about MainService, for any number of requests, emails, one-time  *)
(* codes and keys, and any life of records, locks, codes and tokens.       *)
(*                                                                         *)
(* Every handler is first reduced to what it does to its request and to    *)
(* the one-time codes (HandlerShape); the invariants of the idempotency    *)
(* records then have to look at nine handlers only once.                   *)
(***************************************************************************)
EXTENDS MainService, FiniteSetTheorems, TLAPS

-----------------------------------------------------------------------------
(* The data.                                                               *)

\* The type invariant, with the shape of the functions.
TInv ==
  /\ TypeOK
  /\ records \in [Key -> Record]
  /\ given \in [Key -> SUBSET Given]
  /\ req \in [Request -> ReqState]

\* What a record of the idempotency manager holds, by its state.
LEMMA RecordFacts ==
  ASSUME NEW x \in Record
  PROVE  \/ x.state = "none"
         \/ /\ x.state = "inFlight" /\ x.cmd \in Cmd /\ x.lock \in Nat /\ x.expires \in Nat
         \/ /\ x.state = "completed" /\ x.cmd \in Cmd /\ x.answer \in Answer
            /\ x.expires \in Nat
  BY DEF Record

\* What a request holds, by where it is.
LEMMA ReqFacts ==
  ASSUME NEW x \in ReqState
  PROVE  \/ x.pc = "idle"
         \/ x.pc = "handling" /\ x.cmd \in Cmd /\ x.key \in Key \union {None}
         \/ /\ x.pc = "finishing" /\ x.cmd \in Cmd /\ x.key \in Key \union {None}
            /\ x.answer \in Answer
         \/ /\ x.pc = "replaying" /\ x.cmd \in Cmd /\ x.key \in Key
            /\ x.status \in Statuses
  BY DEF ReqState

\* The route of a command tells what its body holds.
LEMMA CmdFacts ==
  ASSUME NEW c \in Cmd
  PROVE  /\ c.op \in {"register", "login"} => c.email \in Email /\ c.password \in Password
         /\ c.op \in {"refresh", "logout", "me"} => c.token \in Token
         /\ c.op = "createOTP" => c.user \in UserID /\ c.ttl \in Nat
         /\ c.op = "verifyOTP" => /\ c.user \in UserID /\ c.ch \in Challenge
                                  /\ c.right \in BOOLEAN
  <1>1. CASE c \in AuthCmd  BY <1>1 DEF AuthCmd
  <1>2. CASE c \in TokenCmd  BY <1>2 DEF TokenCmd
  <1>3. CASE c \in CreateCmd  BY <1>3, ConfigAssumption DEF CreateCmd
  <1>4. CASE c \in VerifyCmd  BY <1>4 DEF VerifyCmd
  <1>5. CASE c \in FaceCmd  BY <1>5 DEF FaceCmd
  <1>6. CASE c \in BadCmd  BY <1>6 DEF BadCmd
  <1> QED  BY <1>1, <1>2, <1>3, <1>4, <1>5, <1>6 DEF Cmd

\* The answers the handlers give, and which of them carry a token.
LEMMA AnswerFacts ==
  /\ \A s \in {200, 400, 401, 409} : [status |-> s] \in Answer \ TokenAnswer
  /\ \A s \in {200, 201}, t \in Token : [status |-> s, token |-> t] \in Answer
  /\ \A ch \in Challenge : [status |-> 201, ch |-> ch] \in Answer \ TokenAnswer
  /\ \A b \in BOOLEAN : [status |-> 200, ok |-> b] \in Answer \ TokenAnswer
  BY DEF Answer, TokenAnswer, Statuses

\* Every answer has a status.
LEMMA AnswerStatus ==
  ASSUME NEW a \in Answer PROVE a.status \in Statuses
  BY DEF Answer, TokenAnswer, Statuses

\* An answer without a body is none of those.
LEMMA EmptyFacts ==
  ASSUME NEW s \in Statuses
  PROVE  /\ [status |-> s, empty |-> TRUE] \in EmptyAnswer
         /\ [status |-> s, empty |-> TRUE] \notin Answer
         /\ [status |-> s, empty |-> TRUE] \notin TokenAnswer
  BY DEF EmptyAnswer, Answer, TokenAnswer, Statuses

\* Answer a, if it carries a token, is for one who proved what it needs.
Fits(c, a) == a \in TokenAnswer => Proves(c, a.token)

\* A token made for an account that there is.
LEMMA TokenFacts ==
  ASSUME TInv, NEW type \in {"access", "refresh"}, NEW e \in Email, NEW w \in Password,
         NEW ttl \in Nat, byEmail'[e] \in Password
  PROVE  GenerateJWT(type, e, w, ttl) \in Token
  BY IdAssumption DEF TInv, TypeOK, GenerateJWT, Token

\* What Evaluate says, and of which record.
LEMMA EvaluateFacts ==
  ASSUME TInv, NEW k \in Key, NEW c \in Cmd
  PROVE  /\ Evaluate(c, k) = "new" => ~Live(k)
         /\ Evaluate(c, k) = "expired" => Live(k) /\ records[k].cmd = c /\ records[k].state = "inFlight"
         /\ Evaluate(c, k) = "cached" => Live(k) /\ records[k].cmd = c /\ records[k].state = "completed"
  <1>1. CASE ~Live(k)
    BY <1>1 DEF Evaluate
  <1>2. CASE Live(k)
    <2>1. records[k].state \in {"inFlight", "completed"}
      BY <1>2, RecordFacts DEF TInv, Live
    <2>2. CASE records[k].cmd # c  BY <1>2, <2>1, <2>2 DEF Evaluate
    <2>3. CASE records[k].cmd = c /\ records[k].state = "completed"
      BY <1>2, <2>3 DEF Evaluate
    <2>4. CASE records[k].cmd = c /\ records[k].state = "inFlight"
      BY <1>2, <2>4 DEF Evaluate
    <2> QED  BY <2>1, <2>2, <2>3, <2>4
  <1> QED  BY <1>1, <1>2

-----------------------------------------------------------------------------
(* What a handler does.                                                    *)

\* Answer a tells whoever sent c that the code is verified.
Verifies(c, a) == c.op = "verifyOTP" /\ a = [status |-> 200, ok |-> TRUE]

\* An ID that no code has is not verified.
FreshPending == \A ch \in Challenge : otp[ch].user = None => otp[ch].status = "pending"

\* A handler that answers a verifies one code and logs it, or none.
Settles(c, a) ==
  IF Verifies(c, a)
  THEN Good(c) /\ otp' = Mark(c.ch) /\ Audit("otp.verify")
  ELSE /\ \A ch \in Challenge : otp'[ch].status = otp[ch].status
       /\ audits'["otp.verify"] = audits["otp.verify"]

\* The types of what only handlers write.
StoreTypes ==
  /\ byEmail \in [Email -> Password \union {None}]
  /\ \A t \in tokens : t \in Token
  /\ otp \in [Challenge -> Code]
  /\ audits \in [Kind -> Nat]
  /\ registered \in [Email -> SUBSET Password]

\* All that is left of a handler of r that answers a.
Shape(r, a) ==
  /\ At(r, "handling") /\ Handled(r, a) /\ Settles(req[r].cmd, a)
  /\ StoreTypes' /\ FreshPending' /\ tokens \subseteq tokens'
  /\ Fits(req[r].cmd, a)

\* An answer that changes nothing has the shape of a handler's.
LEMMA RejectShape ==
  ASSUME TInv, FreshPending, NEW r \in Request, NEW s \in {200, 400, 401, 409},
         At(r, "handling"), req[r].cmd.op # "verifyOTP", Reject(r, s)
  PROVE  [status |-> s] \in Answer /\ Shape(r, [status |-> s])
  <1>1. [status |-> s] \in Answer \ TokenAnswer  BY AnswerFacts
  <1>2. UNCHANGED <<byEmail, registered, tokens, otp, audits>> /\ Handled(r, [status |-> s])
    BY DEF Reject, accounts
  <1>3. Settles(req[r].cmd, [status |-> s])
    BY <1>2 DEF Settles, Verifies
  <1>4. StoreTypes' /\ FreshPending' /\ tokens \subseteq tokens'
    BY <1>2 DEF StoreTypes, FreshPending, TInv, TypeOK
  <1> QED  BY <1>1, <1>2, <1>3, <1>4 DEF Shape, Fits

\* A pair of tokens for an account that there is.
LEMMA PairShape ==
  ASSUME TInv, FreshPending, NEW r \in Request, NEW s \in {200, 201},
         NEW e \in Email, NEW w \in Password,
         At(r, "handling"), req[r].cmd.op # "verifyOTP",
         byEmail' \in [Email -> Password \union {None}], byEmail'[e] \in Password,
         registered' \in [Email -> SUBSET Password],
         buildAuthResponse(r, s, e, w), UNCHANGED <<otp, audits>>,
         \A t \in Token : t.email = e /\ t.proved = w => Proves(req[r].cmd, t)
  PROVE  \E a \in Answer : Shape(r, a)
  <1> DEFINE t == GenerateJWT("refresh", e, w, RefreshTTL)
             u == GenerateJWT("access", e, w, AccessTTL)
             a == [status |-> s, token |-> t]
  <1>1. t \in Token /\ u \in Token
    BY TokenFacts, ConfigAssumption
  <1>e. t.email = e /\ t.proved = w
    BY DEF GenerateJWT
  <1> HIDE DEF t, u
  <1>2. a \in Answer
    BY <1>1, AnswerFacts
  <1>3. tokens' = tokens \union {u, t} /\ Handled(r, a)
    BY DEF buildAuthResponse, t, u
  <1>4. Settles(req[r].cmd, a)
    BY DEF Settles, Verifies
  <1>5. StoreTypes' /\ FreshPending' /\ tokens \subseteq tokens'
    BY <1>1, <1>3 DEF StoreTypes, FreshPending, TInv, TypeOK
  <1>f. Fits(req[r].cmd, a)
    BY <1>1, <1>e DEF Fits
  <1>6. Shape(r, a)
    BY <1>3, <1>4, <1>5, <1>f DEF Shape
  <1> QED  BY <1>2, <1>6

\* Every handler answers, and does to its request, its key and the codes
\* what Shape says.
LEMMA HandlerShape ==
  ASSUME TInv, FreshPending, NEW r \in Request, Handler(r)
  PROVE  \E a \in Answer : Shape(r, a)
  <1> DEFINE c == req[r].cmd
  <1>1. At(r, "handling")
    BY DEF Handler, Handling, RegisterEmail, LoginEmail, RefreshToken, Logout, Me, Malformed,
           CreateOTP, VerifyOTP, VerifyFace
  <1>2. c \in Cmd
    BY <1>1, ReqFacts DEF At, TInv
  <1>t. /\ c.op \in {"register", "login"} => c.email \in Email /\ c.password \in Password
        /\ c.op \in {"refresh", "logout", "me"} => c.token \in Token
        /\ c.op = "createOTP" => c.user \in UserID /\ c.ttl \in Nat
        /\ c.op = "verifyOTP" => c.user \in UserID /\ c.ch \in Challenge /\ c.right \in BOOLEAN
    BY <1>2, CmdFacts
  <1> USE DEF Handling, accounts
  <1>3. CASE RegisterEmail(r)
    <2>1. c.op = "register"  BY <1>3 DEF RegisterEmail
    <2>2. CASE Registers(r, c)
      <3>1. /\ byEmail' = [byEmail EXCEPT ![c.email] = c.password]
            /\ registered' = [registered EXCEPT ![c.email] = @ \union {c.password}]
            /\ buildAuthResponse(r, 201, c.email, c.password) /\ UNCHANGED <<otp, audits>>
        BY <2>2 DEF Registers, CreateEmailUser
      <3>2. byEmail' \in [Email -> Password \union {None}] /\ byEmail'[c.email] \in Password
        BY <3>1, <2>1, <1>t DEF TInv, TypeOK
      <3>3. registered' \in [Email -> SUBSET Password]
        BY <3>1, <2>1, <1>t DEF TInv, TypeOK
      <3>4. \A t \in Token : t.email = c.email /\ t.proved = c.password => Proves(c, t)
        BY <2>1 DEF Proves
      <3> QED  BY <3>1, <3>2, <3>3, <3>4, <2>1, <1>1, <1>t, PairShape
    <2>3. CASE Reject(r, 400)
      BY <2>1, <2>3, <1>1, RejectShape
    <2> QED  BY <1>3, <2>2, <2>3 DEF RegisterEmail
  <1>4. CASE LoginEmail(r)
    <2>1. c.op = "login"  BY <1>4 DEF LoginEmail
    <2>2. CASE LogsIn(r, c)
      <3>1. /\ UNCHANGED <<byEmail, registered>> /\ byEmail[c.email] = c.password
            /\ buildAuthResponse(r, 200, c.email, c.password) /\ UNCHANGED <<otp, audits>>
        BY <2>2 DEF LogsIn
      <3>2. byEmail' \in [Email -> Password \union {None}] /\ byEmail'[c.email] \in Password
        BY <3>1, <2>1, <1>t DEF TInv, TypeOK
      <3>3. registered' \in [Email -> SUBSET Password]
        BY <3>1 DEF TInv, TypeOK
      <3>4. \A t \in Token : t.email = c.email /\ t.proved = c.password => Proves(c, t)
        BY <2>1 DEF Proves
      <3> QED  BY <3>1, <3>2, <3>3, <3>4, <2>1, <1>1, <1>t, PairShape
    <2>3. CASE Reject(r, 401)
      BY <2>1, <2>3, <1>1, RejectShape
    <2> QED  BY <1>4, <2>2, <2>3 DEF LoginEmail
  <1>5. CASE RefreshToken(r)
    <2>1. c.op = "refresh"  BY <1>5 DEF RefreshToken
    <2>2. CASE Refreshes(r, c.token)
      <3>1. PICK e \in GetUserByEmail(c.token) :
              /\ UNCHANGED <<byEmail, registered>> /\ UNCHANGED <<otp, audits>>
              /\ buildAuthResponse(r, 200, e, c.token.proved)
        BY <2>2 DEF Refreshes
      <3>2. e \in Email /\ byEmail[e] # None /\ e = c.token.email
        BY DEF GetUserByEmail
      <3>3. byEmail' \in [Email -> Password \union {None}] /\ byEmail'[e] \in Password
        BY <3>1, <3>2 DEF TInv, TypeOK
      <3>4. c.token.proved \in Password
        BY <2>1, <1>t DEF Token
      <3>5. registered' \in [Email -> SUBSET Password]
        BY <3>1 DEF TInv, TypeOK
      <3>6. \A t \in Token : t.email = e /\ t.proved = c.token.proved => Proves(c, t)
        BY <2>1, <3>2 DEF Proves
      <3> QED  BY <3>1, <3>2, <3>3, <3>4, <3>5, <3>6, <2>1, <1>1, PairShape
    <2>3. CASE Reject(r, 401)
      BY <2>1, <2>3, <1>1, RejectShape
    <2> QED  BY <1>5, <2>2, <2>3 DEF RefreshToken
  <1>6. CASE Logout(r) \/ Me(r) \/ Malformed(r)
    <2>1. c.op # "verifyOTP" /\ \E s \in {200, 400, 401, 409} : Reject(r, s)
      BY <1>6 DEF Logout, Me, Malformed
    <2> QED  BY <2>1, <1>1, RejectShape
  <1>7. CASE CreateOTP(r)
    <2>1. c.op = "createOTP" /\ UNCHANGED <<byEmail, registered, tokens>>
      BY <1>7 DEF CreateOTP
    <2>2. PICK ch \in Challenge : /\ Challenged(ch, c.user, c.ttl)
                                  /\ Handled(r, [status |-> 201, ch |-> ch])
      BY <1>7 DEF CreateOTP
    <2>t. PICK end : end = now + (IF c.ttl = 0 THEN CodeTTL ELSE c.ttl)  OBVIOUS
    <2>3. [user |-> c.user, expires |-> end, status |-> "pending"] \in Code
      BY <1>t, <2>1, <2>t, ConfigAssumption DEF Code, TInv, TypeOK
    <2>4. /\ otp' = [otp EXCEPT ![ch] = [user |-> c.user, expires |-> end,
                                         status |-> "pending"]]
          /\ audits' = [audits EXCEPT !["otp.challenge"] = @ + 1]
      BY <2>2, <2>t DEF Challenged, Audit
    <2>5. Settles(c, [status |-> 201, ch |-> ch])
      BY <2>1, <2>2, <2>4 DEF Settles, Verifies, Challenged, FreshPending, TInv, TypeOK, Kind
    <2>6. StoreTypes' /\ tokens \subseteq tokens'
      BY <2>1, <2>3, <2>4 DEF StoreTypes, TInv, TypeOK, Kind
    <2>7. FreshPending'
      BY <2>4 DEF FreshPending, TInv, TypeOK
    <2>8. Shape(r, [status |-> 201, ch |-> ch])
      BY <1>1, <2>2, <2>5, <2>6, <2>7, AnswerFacts DEF Shape, Fits
    <2> QED  BY <2>8, AnswerFacts
  <1>8. CASE VerifyOTP(r)
    <2>1. /\ c.op = "verifyOTP" /\ UNCHANGED <<byEmail, registered, tokens>>
          /\ Handled(r, [status |-> 200, ok |-> Good(c)])
      BY <1>8 DEF VerifyOTP
    <2>2. CASE Good(c)
      <3>1. otp' = Mark(c.ch) /\ Audit("otp.verify")
        BY <1>8, <2>2 DEF VerifyOTP
      <3>2. Handled(r, [status |-> 200, ok |-> TRUE])
        BY <2>1, <2>2 DEF Handled
      <3>3. Settles(c, [status |-> 200, ok |-> TRUE])
        BY <2>1, <2>2, <3>1 DEF Settles, Verifies
      <3>4. StoreTypes' /\ FreshPending' /\ tokens \subseteq tokens'
        <4>1. otp' = [otp EXCEPT ![c.ch] = [@ EXCEPT !.status = "verified"]]
          BY <3>1 DEF Mark
        <4>2. otp[c.ch] \in Code /\ otp[c.ch].user # None
          BY <2>1, <2>2, <1>t, NoneAssumption DEF Good, TInv, TypeOK
        <4>3. /\ [otp[c.ch] EXCEPT !.status = "verified"] \in Code
              /\ [otp[c.ch] EXCEPT !.status = "verified"].user # None
          BY <4>2 DEF Code
        <4>4. otp' \in [Challenge -> Code]
          BY <4>1, <4>3 DEF TInv, TypeOK
        <4>5. FreshPending'
          BY <4>1, <4>3, <1>t, <2>1 DEF FreshPending, TInv, TypeOK
        <4>6. audits' \in [Kind -> Nat]
          BY <3>1 DEF Audit, TInv, TypeOK, Kind
        <4> QED  BY <4>4, <4>5, <4>6, <2>1 DEF StoreTypes, TInv, TypeOK
      <3>5. Shape(r, [status |-> 200, ok |-> TRUE])
        BY <1>1, <3>2, <3>3, <3>4, AnswerFacts DEF Shape, Fits
      <3> QED  BY <3>5, AnswerFacts
    <2>3. CASE ~Good(c)
      <3>1. UNCHANGED <<otp, audits>>
        BY <1>8, <2>3 DEF VerifyOTP
      <3>2. Handled(r, [status |-> 200, ok |-> FALSE])
        <4>1. Good(c) = FALSE  BY <2>3 DEF Good
        <4> QED  BY <2>1, <4>1
      <3>3. Settles(c, [status |-> 200, ok |-> FALSE])
        BY <3>1 DEF Settles, Verifies
      <3>4. StoreTypes' /\ FreshPending' /\ tokens \subseteq tokens'
        BY <3>1, <2>1 DEF StoreTypes, FreshPending, TInv, TypeOK
      <3>5. Shape(r, [status |-> 200, ok |-> FALSE])
        BY <1>1, <3>2, <3>3, <3>4, AnswerFacts DEF Shape, Fits
      <3> QED  BY <3>5, AnswerFacts
    <2> QED  BY <2>2, <2>3
  <1>9. CASE VerifyFace(r)
    <2>1. /\ c.op = "face" /\ UNCHANGED <<byEmail, registered, tokens, otp>>
          /\ audits' = [audits EXCEPT !["face.verify"] = @ + 1]
      BY <1>9 DEF VerifyFace, Audit
    <2>2. PICK b \in BOOLEAN : Handled(r, [status |-> 200, ok |-> b])
      <3>1. PICK d \in dispatchFace : Handled(r, [status |-> 200, ok |-> Approved(d, c.live)])
        BY <1>9 DEF VerifyFace
      <3>2. CASE Approved(d, c.live)
        <4>1. Handled(r, [status |-> 200, ok |-> TRUE])  BY <3>1, <3>2 DEF Handled
        <4> QED  BY <4>1
      <3>3. CASE ~Approved(d, c.live)
        <4>1. Approved(d, c.live) = FALSE  BY <3>3 DEF Approved
        <4>2. Handled(r, [status |-> 200, ok |-> FALSE])  BY <3>1, <4>1
        <4> QED  BY <4>2
      <3> QED  BY <3>2, <3>3
    <2>3. Settles(c, [status |-> 200, ok |-> b])
      BY <2>1 DEF Settles, Verifies, TInv, TypeOK, Kind
    <2>4. StoreTypes' /\ FreshPending' /\ tokens \subseteq tokens'
      BY <2>1 DEF StoreTypes, FreshPending, TInv, TypeOK, Kind
    <2>5. Shape(r, [status |-> 200, ok |-> b])
      BY <1>1, <2>2, <2>3, <2>4, AnswerFacts DEF Shape, Fits
    <2> QED  BY <2>5, AnswerFacts
  <1> QED  BY <1>3, <1>4, <1>5, <1>6, <1>7, <1>8, <1>9 DEF Handler

-----------------------------------------------------------------------------
(* Types.                                                                  *)

\* A request arrives with a command; one that carries a token carries one
\* that was issued.
LEMMA BeginFacts ==
  ASSUME TInv, NEW r \in Request, Begin(r)
  PROVE  \E k \in Key \union {None}, c \in Cmd :
           /\ c.op \in {"refresh", "logout", "me"} => c.token \in tokens
           /\ Arrive(r, c)
           /\ Pass(r, c, k) \/ Lock(r, c, k) \/ Refuse(r, c, k) \/ Replay(r, c, k)
  <1>1. PICK k \in Key \union {None},
             c \in AuthCmd \union CreateCmd \union VerifyCmd \union FaceCmd \union BadCmd
                   \union [op : {"refresh", "logout", "me"}, token : tokens] :
           /\ Arrive(r, c)
           /\ Pass(r, c, k) \/ Lock(r, c, k) \/ Refuse(r, c, k) \/ Replay(r, c, k)
    BY DEF Begin
  <1>2. tokens \subseteq Token  BY DEF TInv, TypeOK
  <1>3. CASE c \in AuthCmd \union CreateCmd \union VerifyCmd \union FaceCmd \union BadCmd
    <2>1. c \in Cmd  BY <1>3 DEF Cmd
    <2>2. c.op \notin {"refresh", "logout", "me"}
      BY <1>3 DEF AuthCmd, CreateCmd, VerifyCmd, FaceCmd, BadCmd
    <2> QED  BY <1>1, <2>1, <2>2
  <1>4. CASE c \in [op : {"refresh", "logout", "me"}, token : tokens]
    <2>1. c \in TokenCmd /\ c.token \in tokens  BY <1>2, <1>4 DEF TokenCmd
    <2>2. c \in Cmd  BY <2>1 DEF Cmd
    <2> QED  BY <1>1, <2>1, <2>2
  <1> QED  BY <1>3, <1>4

\* What clients are told keeps its type.
LEMMA ToldType ==
  ASSUME TInv, NEW k \in Key \union {None}, NEW c \in Cmd, NEW a, Told(k, c, a)
  PROVE  told' \in [Challenge -> [keys : SUBSET Key, bare : Nat]]
  <1>1. c.op = "verifyOTP" => c.ch \in Challenge  BY CmdFacts
  <1>2. told \in [Challenge -> [keys : SUBSET Key, bare : Nat]]  BY DEF TInv, TypeOK
  <1>3. CASE c.op # "verifyOTP" \/ a # [status |-> 200, ok |-> TRUE]
    BY <1>2, <1>3 DEF Told
  <1>4. CASE c.op = "verifyOTP" /\ k = None /\ told' = [told EXCEPT ![c.ch].bare = @ + 1]
    BY <1>1, <1>2, <1>4
  <1>5. CASE c.op = "verifyOTP" /\ k # None /\ told' = [told EXCEPT ![c.ch].keys = @ \union {k}]
    BY <1>1, <1>2, <1>5
  <1> QED  BY <1>3, <1>4, <1>5 DEF Told


\* What clients are given keeps its type.
LEMMA GiveType ==
  ASSUME TInv, NEW k \in Key \union {None}, NEW c \in Cmd, NEW a \in Answer \union EmptyAnswer,
         Give(k, c, a)
  PROVE  given' \in [Key -> SUBSET Given]
  <1>1. [cmd |-> c, answer |-> a] \in Given  BY DEF Given
  <1> QED  BY <1>1 DEF Give, TInv

\* The second lookup of a replay: it ends the request with an answer of the
\* record or with a status.
Replayed(r, a) ==
  /\ At(r, "replaying")
  /\ \/ a = records[req[r].key].answer /\ records[req[r].key].state = "completed"
     \/ a = [status |-> req[r].status, empty |-> TRUE]
  /\ a \in Answer \union EmptyAnswer
  /\ req[r].cmd \in Cmd /\ req[r].key \in Key /\ req[r].status \in Statuses
  /\ Give(req[r].key, req[r].cmd, a)
  /\ Told(req[r].key, req[r].cmd, a)
  /\ req' = [req EXCEPT ![r] = Idle]
  /\ UNCHANGED <<now, byEmail, otp, audits, records, tokens, made, boots, runs, takeovers,
                 outlived, registered>>

\* Both outcomes of the second lookup.
LEMMA ReplayShape ==
  ASSUME TInv, NEW r \in Request, ReplayCached(r) \/ ReplayEmpty(r)
  PROVE  \E a : Replayed(r, a)
  <1>0. At(r, "replaying") /\ req' = [req EXCEPT ![r] = Idle]
    BY DEF ReplayCached, ReplayEmpty
  <1>1. req[r].cmd \in Cmd /\ req[r].key \in Key /\ req[r].status \in Statuses
    BY <1>0, ReqFacts DEF At, TInv
  <1>2. UNCHANGED <<now, byEmail, otp, audits, records, tokens, made, boots, runs, takeovers,
                    outlived, registered>>
    BY DEF ReplayCached, ReplayEmpty, memory
  <1>3. CASE ReplayCached(r)
    <2>0. PICK a : a = records[req[r].key].answer  OBVIOUS
    <2>1. records[req[r].key].state = "completed"  BY <1>3 DEF ReplayCached
    <2>2. a \in Answer  BY <1>1, <2>0, <2>1, RecordFacts DEF TInv
    <2>3. Give(req[r].key, req[r].cmd, a) /\ Told(req[r].key, req[r].cmd, a)
      BY <1>3, <2>0 DEF ReplayCached
    <2>4. Replayed(r, a)  BY <1>0, <1>1, <1>2, <2>0, <2>1, <2>2, <2>3 DEF Replayed
    <2> QED  BY <2>4
  <1>4. CASE ReplayEmpty(r)
    <2>0. PICK a : a = [status |-> req[r].status, empty |-> TRUE]  OBVIOUS
    <2>1. a \in EmptyAnswer /\ a \notin Answer  BY <1>1, <2>0, EmptyFacts
    <2>2. Give(req[r].key, req[r].cmd, a) /\ UNCHANGED told
      BY <1>4, <2>0 DEF ReplayEmpty
    <2>3. a # [status |-> 200, ok |-> TRUE]  BY <2>1, AnswerFacts
    <2>4. Told(req[r].key, req[r].cmd, a)  BY <2>2, <2>3 DEF Told
    <2>5. Replayed(r, a)  BY <1>0, <1>1, <1>2, <2>0, <2>1, <2>2, <2>4 DEF Replayed
    <2> QED  BY <2>5
  <1> QED  BY <1>3, <1>4

\* Every step keeps the types.
LEMMA TypeStep ==
  ASSUME TInv, FreshPending, [Next]_vars
  PROVE  TInv' /\ FreshPending'
  <1> DEFINE R == Key \union {None}
  <1>0. /\ now \in Nat /\ made \in Nat /\ boots \in Nat /\ StoreTypes
        /\ runs \in [Key -> Nat] /\ takeovers \in [Key -> Nat] /\ outlived \subseteq Key
        /\ told \in [Challenge -> [keys : SUBSET Key, bare : Nat]]
        /\ records \in [Key -> Record] /\ given \in [Key -> SUBSET Given]
        /\ req \in [Request -> ReqState]
    BY DEF TInv, TypeOK, StoreTypes
  <1>i. Idle \in ReqState  BY DEF Idle, ReqState
  <1>h. \A c \in Cmd, k \in R : [pc |-> "handling", cmd |-> c, key |-> k] \in ReqState
    BY DEF ReqState
  <1>1. CASE UNCHANGED vars
    <2>1. UNCHANGED <<now, byEmail, otp, audits, records, tokens, req, made, boots, runs, takeovers,
                      given, outlived, told, registered>>
      BY <1>1 DEF vars, memory, history
    <2>2. StoreTypes' /\ FreshPending'  BY <1>0, <2>1 DEF StoreTypes, FreshPending
    <2> QED  BY <1>0, <2>1, <2>2 DEF TInv, TypeOK, StoreTypes
  <1>2. CASE Tick
    <2>1. /\ UNCHANGED <<byEmail, otp, audits, records, tokens, req, made, boots, runs, takeovers,
                         given, outlived, told, registered>>
          /\ now' \in Nat
      BY <1>0, <1>2 DEF Tick, memory, history
    <2>2. StoreTypes' /\ FreshPending'  BY <1>0, <2>1 DEF StoreTypes, FreshPending
    <2> QED  BY <1>0, <2>1, <2>2 DEF TInv, TypeOK, StoreTypes
  <1>3. CASE Restart
    <2>1. StoreTypes' /\ FreshPending'
      BY <1>0, <1>3 DEF Restart, StoreTypes, FreshPending, NoUsers, NoCodes, NoAudits, NoCode, Code
    <2>2. records' \in [Key -> Record]
      BY <1>3 DEF Restart, NoRecords, NoRecord, Record
    <2>3. req' \in [Request -> ReqState]
      BY <1>3, <1>i DEF Restart
    <2>4. /\ now' \in Nat /\ made' \in Nat /\ boots' \in Nat
          /\ runs' \in [Key -> Nat] /\ takeovers' \in [Key -> Nat] /\ outlived' \subseteq Key
          /\ given' \in [Key -> SUBSET Given]
      BY <1>0, <1>3 DEF Restart
    <2>5. told' \in [Challenge -> [keys : SUBSET Key, bare : Nat]]
      BY <1>3 DEF Restart
    <2> QED  BY <2>1, <2>2, <2>3, <2>4, <2>5 DEF TInv, TypeOK, StoreTypes
  <1>4. ASSUME NEW r \in Request, Begin(r) PROVE TInv' /\ FreshPending'
    <2>1. PICK k \in R, c \in Cmd :
            /\ Arrive(r, c)
            /\ Pass(r, c, k) \/ Lock(r, c, k) \/ Refuse(r, c, k) \/ Replay(r, c, k)
      BY <1>4, BeginFacts
    <2>2. /\ UNCHANGED <<now, byEmail, tokens, otp, audits, boots>>
          /\ made' \in Nat
      BY <2>1, <1>0, BoundAssumption DEF Arrive
    <2>4. /\ req' \in [Request -> ReqState] /\ records' \in [Key -> Record]
          /\ given' \in [Key -> SUBSET Given] /\ UNCHANGED registered
          /\ runs' \in [Key -> Nat] /\ takeovers' \in [Key -> Nat] /\ outlived' \subseteq Key
          /\ told' \in [Challenge -> [keys : SUBSET Key, bare : Nat]]
      <3>1. CASE Pass(r, c, k)
        <4>1. req' \in [Request -> ReqState]
          BY <3>1, <1>0, <1>h DEF Pass
        <4> QED  BY <3>1, <1>0, <4>1 DEF Pass, history
      <3>2. CASE Lock(r, c, k)
        <4>1. k \in Key /\ UNCHANGED <<told, registered>>  BY <3>2 DEF Lock
        <4>2. req' \in [Request -> ReqState]
          BY <3>2, <1>0, <1>h DEF Lock
        <4>3. InFlight(c, now + LockTTL) \in Record
          BY <1>0, ConfigAssumption DEF InFlight, Record
        <4>4. records' \in [Key -> Record]
          BY <3>2, <1>0, <4>3 DEF Lock
        <4>5. Cardinality(Working(k)) \in Nat
          BY FiniteAssumption, FS_Subset, FS_CardinalityType DEF Working, Busy
        <4>6. /\ given' \in [Key -> SUBSET Given] /\ runs' \in [Key -> Nat]
              /\ takeovers' \in [Key -> Nat] /\ outlived' \subseteq Key
          <5>1. CASE Evaluate(c, k) = "new"
            <6>1. /\ takeovers' = [takeovers EXCEPT ![k] = Cardinality(Working(k))]
                  /\ runs' = [runs EXCEPT ![k] = 0] /\ given' = [given EXCEPT ![k] = {}]
                  /\ outlived' \subseteq outlived \union {k}
              BY <3>2, <5>1 DEF Lock
            <6> QED  BY <6>1, <1>0, <4>1, <4>5
          <5>2. CASE Evaluate(c, k) # "new"
            <6>1. /\ takeovers' = [takeovers EXCEPT ![k] = @ + 1]
                  /\ UNCHANGED <<runs, given, outlived>>
              BY <3>2, <5>2 DEF Lock
            <6> QED  BY <6>1, <1>0, <4>1
          <5> QED  BY <5>1, <5>2
        <4> QED  BY <1>0, <4>1, <4>2, <4>4, <4>6
      <3>3. CASE Refuse(r, c, k)
        BY <3>3, <1>0 DEF Refuse, history
      <3>4. CASE Replay(r, c, k)
        <4>1. k \in Key /\ Evaluate(c, k) = "cached"  BY <3>4 DEF Replay
        <4>2. records[k].answer.status \in Statuses
          BY <4>1, <1>0, EvaluateFacts, RecordFacts, AnswerStatus
        <4>3. [pc |-> "replaying", cmd |-> c, key |-> k, status |-> records[k].answer.status]
                \in ReqState
          BY <4>1, <4>2 DEF ReqState
        <4>4. req' \in [Request -> ReqState]
          BY <3>4, <1>0, <4>3 DEF Replay
        <4> QED  BY <3>4, <1>0, <4>4 DEF Replay, history
      <3> QED  BY <2>1, <3>1, <3>2, <3>3, <3>4
    <2>3. StoreTypes' /\ FreshPending'  BY <1>0, <2>2, <2>4 DEF StoreTypes, FreshPending
    <2> QED  BY <1>0, <2>2, <2>3, <2>4 DEF TInv, TypeOK, StoreTypes
  <1>5. ASSUME NEW r \in Request, Handler(r) PROVE TInv' /\ FreshPending'
    <2>1. PICK a \in Answer : Shape(r, a)
      BY <1>5, HandlerShape
    <2>2. /\ Handled(r, a) /\ At(r, "handling") /\ StoreTypes' /\ FreshPending'
          /\ UNCHANGED <<now, records, made, boots, takeovers, given, outlived, told>>
      BY <2>1 DEF Shape, Handled
    <2>3. req[r].cmd \in Cmd /\ req[r].key \in R
      BY <2>2, <1>0, ReqFacts DEF At
    <2>4. [pc |-> "finishing", cmd |-> req[r].cmd, key |-> req[r].key, answer |-> a] \in ReqState
      BY <2>3 DEF ReqState
    <2>5. req' \in [Request -> ReqState] /\ runs' \in [Key -> Nat]
      BY <2>2, <2>3, <2>4, <1>0 DEF Handled
    <2> QED  BY <1>0, <2>2, <2>5 DEF TInv, TypeOK, StoreTypes
  <1>6. ASSUME NEW r \in Request, Finish(r) PROVE TInv' /\ FreshPending'
    <2>1. /\ At(r, "finishing") /\ Complete(r)
          /\ UNCHANGED <<now, byEmail, otp, audits, tokens, made, boots, runs, takeovers, outlived,
                         registered>>
          /\ req' = [req EXCEPT ![r] = Idle]
          /\ Give(req[r].key, req[r].cmd, req[r].answer)
          /\ Told(req[r].key, req[r].cmd, req[r].answer)
      BY <1>6 DEF Finish
    <2>2. req[r].cmd \in Cmd /\ req[r].key \in R /\ req[r].answer \in Answer
      BY <2>1, <1>0, ReqFacts DEF At
    <2>3. StoreTypes' /\ FreshPending'  BY <1>0, <2>1 DEF StoreTypes, FreshPending
    <2>4. told' \in [Challenge -> [keys : SUBSET Key, bare : Nat]]
      BY <2>1, <2>2, ToldType
    <2>5. records' \in [Key -> Record]
      <3>1. CASE req[r].key # None /\ Live(req[r].key)
        <4> DEFINE k == req[r].key
                   x == [state |-> "completed", cmd |-> records[k].cmd,
                         answer |-> req[r].answer, expires |-> records[k].expires]
        <4>1. records' = [records EXCEPT ![k] = x]
          BY <2>1, <3>1 DEF Complete
        <4>2. k \in Key  BY <2>2, <3>1
        <4>3. records[k].cmd \in Cmd /\ records[k].expires \in Nat
          BY <4>2, <3>1, <1>0, RecordFacts DEF Live
        <4>4. x \in Record
          BY <4>3, <2>2 DEF Record
        <4> QED  BY <4>1, <4>4, <1>0
      <3> QED  BY <2>1, <3>1, <1>0 DEF Complete
    <2>6. req' \in [Request -> ReqState] /\ given' \in [Key -> SUBSET Given]
      BY <2>1, <2>2, <1>0, <1>i, GiveType
    <2> QED  BY <1>0, <2>1, <2>3, <2>4, <2>5, <2>6 DEF TInv, TypeOK, StoreTypes
  <1>7. ASSUME NEW r \in Request, CompleteFails(r) PROVE TInv' /\ FreshPending'
    <2>1. /\ UNCHANGED <<now, byEmail, otp, audits, records, tokens, made, boots, runs, takeovers,
                         given, outlived, told, registered>>
          /\ req' = [req EXCEPT ![r] = Idle]
      BY <1>7 DEF CompleteFails, memory, history
    <2>2. StoreTypes' /\ FreshPending'  BY <1>0, <2>1 DEF StoreTypes, FreshPending
    <2>3. req' \in [Request -> ReqState]  BY <2>1, <1>0, <1>i
    <2> QED  BY <1>0, <2>1, <2>2, <2>3 DEF TInv, TypeOK, StoreTypes
  <1>8. ASSUME NEW r \in Request, ReplayCached(r) \/ ReplayEmpty(r) PROVE TInv' /\ FreshPending'
    <2>1. PICK a : Replayed(r, a)  BY <1>8, ReplayShape
    <2>2. /\ UNCHANGED <<now, byEmail, otp, audits, records, tokens, made, boots, runs, takeovers,
                         outlived, registered>>
          /\ req' = [req EXCEPT ![r] = Idle]
      BY <2>1 DEF Replayed
    <2>3. StoreTypes' /\ FreshPending'  BY <1>0, <2>2 DEF StoreTypes, FreshPending
    <2>4. given' \in [Key -> SUBSET Given]
      BY <2>1, GiveType DEF Replayed
    <2>5. told' \in [Challenge -> [keys : SUBSET Key, bare : Nat]]
      BY <2>1, ToldType DEF Replayed
    <2>6. req' \in [Request -> ReqState]  BY <2>2, <1>0, <1>i
    <2> QED  BY <1>0, <2>2, <2>3, <2>4, <2>5, <2>6 DEF TInv, TypeOK, StoreTypes
  <1> QED  BY <1>1, <1>2, <1>3, <1>4, <1>5, <1>6, <1>7, <1>8 DEF Next

-----------------------------------------------------------------------------
(* Tokens and the passwords behind them.                                   *)

\* A request to refresh carries a token that was issued.
Issued ==
  \A r \in Request :
    At(r, "handling") /\ req[r].cmd.op = "refresh" => req[r].cmd.token \in tokens

\* A token's password, and that of its account, was registered for its email.
Chained == \A t \in tokens : t.proved \in registered[t.email] /\ t.acct \in registered[t.email]

\* An email has one password in the life of a process, and that is on record.
OneAccount ==
  \A e \in Email :
    /\ IsFiniteSet(registered[e])
    /\ byEmail[e] # None => byEmail[e] \in registered[e]
    /\ Cardinality(registered[e]) <= IF byEmail[e] = None THEN boots ELSE 1 + boots

\* A pair of tokens made for passwords that were registered.
LEMMA PairChained ==
  ASSUME NEW r, NEW s, NEW e, NEW w, buildAuthResponse(r, s, e, w),
         w \in registered'[e], byEmail'[e] \in registered'[e],
         \A t \in tokens : t.proved \in registered'[t.email] /\ t.acct \in registered'[t.email]
  PROVE  Chained'
  <1> DEFINE u == GenerateJWT("access", e, w, AccessTTL)
             v == GenerateJWT("refresh", e, w, RefreshTTL)
  <1>1. tokens' = tokens \union {u, v}  BY DEF buildAuthResponse
  <1>2. \A t \in {u, v} : t.proved = w /\ t.acct = byEmail'[e] /\ t.email = e
    BY DEF GenerateJWT
  <1> HIDE DEF u, v
  <1> QED  BY <1>1, <1>2 DEF Chained

\* One element more, and one less.
LEMMA AddOne ==
  ASSUME NEW S, NEW x, IsFiniteSet(S)
  PROVE  /\ IsFiniteSet(S \union {x})
         /\ Cardinality(S) \in Nat /\ Cardinality(S \union {x}) \in Nat
         /\ Cardinality(S \union {x}) <= Cardinality(S) + 1
  <1>1. Cardinality(S) \in Nat  BY FS_CardinalityType
  <1>2. /\ IsFiniteSet(S \union {x})
        /\ Cardinality(S \union {x}) = IF x \in S THEN Cardinality(S) ELSE Cardinality(S) + 1
    BY FS_AddElement
  <1> QED  BY <1>1, <1>2

\* See AddOne.
LEMMA TakeOne ==
  ASSUME NEW S, NEW x \in S, IsFiniteSet(S)
  PROVE  Cardinality(S \ {x}) = Cardinality(S) - 1
  BY FS_RemoveElement

\* Every step keeps the passwords behind the tokens.
LEMMA ProvedStep ==
  ASSUME TInv, FreshPending, Issued, Chained, OneAccount, [Next]_vars
  PROVE  Issued' /\ Chained' /\ OneAccount'
  <1>0. /\ req \in [Request -> ReqState] /\ tokens \subseteq Token /\ boots \in Nat
        /\ byEmail \in [Email -> Password \union {None}]
        /\ registered \in [Email -> SUBSET Password]
    BY DEF TInv, TypeOK
  <1>1. CASE UNCHANGED vars \/ Tick
    <2>1. UNCHANGED <<req, tokens, byEmail, boots, registered>>
      BY <1>1 DEF vars, Tick, memory, history
    <2> QED  BY <2>1 DEF Issued, Chained, OneAccount, At
  <1>2. CASE Restart
    <2>1. /\ boots' = boots + 1 /\ req' = [r \in Request |-> Idle]
          /\ UNCHANGED <<tokens, registered>> /\ \A e \in Email : byEmail'[e] = None
      BY <1>2 DEF Restart, NoUsers
    <2>2. Issued' /\ Chained'
      BY <2>1 DEF Issued, Chained, At, Idle
    <2>3. ASSUME NEW e \in Email
          PROVE  IsFiniteSet(registered[e]) /\ Cardinality(registered[e]) <= boots + 1
      <3>1. IsFiniteSet(registered[e])  BY DEF OneAccount
      <3>2. Cardinality(registered[e]) \in Nat  BY <3>1, FS_CardinalityType
      <3> QED  BY <3>1, <3>2, <1>0 DEF OneAccount
    <2> QED  BY <2>1, <2>2, <2>3 DEF OneAccount
  <1>3. ASSUME NEW r \in Request, Begin(r) PROVE Issued' /\ Chained' /\ OneAccount'
    <2>1. PICK k \in Key \union {None}, c \in Cmd :
            /\ c.op \in {"refresh", "logout", "me"} => c.token \in tokens
            /\ Arrive(r, c)
            /\ Pass(r, c, k) \/ Lock(r, c, k) \/ Refuse(r, c, k) \/ Replay(r, c, k)
      BY <1>3, BeginFacts
    <2>2. UNCHANGED <<tokens, byEmail, boots>>  BY <2>1 DEF Arrive
    <2>r. UNCHANGED registered  BY <2>1 DEF Pass, Lock, Refuse, Replay, history
    <2>3. \/ UNCHANGED req
          \/ \E x \in Key \union {None} :
               req' = [req EXCEPT ![r] = [pc |-> "handling", cmd |-> c, key |-> x]]
          \/ \E x : req' = [req EXCEPT ![r] = [pc |-> "replaying", cmd |-> c, key |-> k,
                                              status |-> x]]
      BY <2>1 DEF Pass, Lock, Refuse, Replay
    <2>4. Issued'
      BY <2>1, <2>2, <2>3, <1>0 DEF Issued, At
    <2> QED  BY <2>2, <2>r, <2>4 DEF Chained, OneAccount
  <1>4. ASSUME NEW r \in Request, Handler(r) PROVE Issued' /\ Chained' /\ OneAccount'
    <2> DEFINE c == req[r].cmd
    <2>1. PICK a \in Answer : Shape(r, a)
      BY <1>4, HandlerShape
    <2>2. /\ tokens \subseteq tokens' /\ UNCHANGED boots /\ At(r, "handling")
          /\ req' = [req EXCEPT ![r] = [pc |-> "finishing", cmd |-> c, key |-> req[r].key, answer |-> a]]
      BY <2>1 DEF Shape, Handled
    <2>3. Issued'
      BY <2>2, <1>0 DEF Issued, At
    <2>4. Chained' /\ OneAccount'
      <3>0. \A t \in tokens : /\ t.proved \in registered[t.email] /\ t.acct \in registered[t.email]
                              /\ t.email \in Email
        BY <1>0 DEF Chained, Token
      <3>c. c \in Cmd  BY <2>2, <1>0, ReqFacts DEF At
      <3>1. CASE Registers(r, c) /\ RegisterEmail(r)
        <4>1. c.email \in Email /\ c.password \in Password
          BY <3>1, <3>c, CmdFacts DEF RegisterEmail, Handling
        <4>2. /\ byEmail[c.email] = None /\ byEmail' = [byEmail EXCEPT ![c.email] = c.password]
              /\ registered' = [registered EXCEPT ![c.email] = registered[c.email] \union {c.password}]
              /\ buildAuthResponse(r, 201, c.email, c.password)
          BY <3>1 DEF Registers, CreateEmailUser
        <4>3. \A t \in tokens : t.proved \in registered'[t.email] /\ t.acct \in registered'[t.email]
          BY <3>0, <4>1, <4>2, <1>0
        <4>4. byEmail'[c.email] = c.password /\ c.password \in registered'[c.email]
          BY <4>1, <4>2, <1>0
        <4>5. Chained'  BY <4>2, <4>3, <4>4, PairChained
        <4>6. ASSUME NEW e \in Email, e # c.email
              PROVE  byEmail'[e] = byEmail[e] /\ registered'[e] = registered[e]
          BY <4>6, <4>2, <1>0
        <4>7. /\ IsFiniteSet(registered'[c.email])
              /\ Cardinality(registered'[c.email]) <= 1 + boots
          <5>1. registered'[c.email] = registered[c.email] \union {c.password}
            BY <4>1, <4>2, <1>0
          <5>2. IsFiniteSet(registered[c.email]) /\ Cardinality(registered[c.email]) <= boots
            BY <4>1, <4>2 DEF OneAccount
          <5>3. /\ IsFiniteSet(registered'[c.email])
                /\ Cardinality(registered[c.email]) \in Nat
                /\ Cardinality(registered'[c.email]) \in Nat
                /\ Cardinality(registered'[c.email]) <= Cardinality(registered[c.email]) + 1
            BY <5>1, <5>2, AddOne
          <5> QED  BY <5>2, <5>3, <1>0
        <4>8. byEmail'[c.email] # None  BY <4>1, <4>4, NoneAssumption
        <4>9. OneAccount'
          <5> SUFFICES ASSUME NEW e \in Email
                       PROVE  /\ IsFiniteSet(registered'[e])
                              /\ byEmail'[e] # None => byEmail'[e] \in registered'[e]
                              /\ Cardinality(registered'[e]) <= IF byEmail'[e] = None THEN boots'
                                                                ELSE 1 + boots'
            BY DEF OneAccount
          <5>1. CASE e = c.email  BY <5>1, <4>4, <4>7, <4>8, <2>2
          <5>2. CASE e # c.email  BY <5>2, <4>6, <2>2 DEF OneAccount
          <5> QED  BY <5>1, <5>2
        <4> QED  BY <4>5, <4>9
      <3>2. CASE LogsIn(r, c) /\ LoginEmail(r)
        <4>0. c.email \in Email /\ c.password \in Password
          BY <3>2, <3>c, CmdFacts DEF LoginEmail, Handling
        <4>1. /\ UNCHANGED <<byEmail, registered>> /\ byEmail[c.email] = c.password
              /\ buildAuthResponse(r, 200, c.email, c.password)
          BY <3>2 DEF LogsIn, accounts
        <4>2. c.password \in registered'[c.email] /\ byEmail'[c.email] \in registered'[c.email]
          BY <4>0, <4>1, NoneAssumption DEF OneAccount
        <4>3. Chained'  BY <4>1, <4>2, <3>0, PairChained
        <4>4. OneAccount'  BY <4>1, <2>2 DEF OneAccount
        <4> QED  BY <4>3, <4>4
      <3>3. CASE Refreshes(r, c.token) /\ RefreshToken(r)
        <4>1. c.token \in tokens
          BY <3>3, <2>2 DEF Issued, RefreshToken, Handling
        <4>2. PICK e \in GetUserByEmail(c.token) :
                UNCHANGED <<byEmail, registered>> /\ buildAuthResponse(r, 200, e, c.token.proved)
          BY <3>3 DEF Refreshes, accounts
        <4>3. e \in Email /\ e = c.token.email /\ byEmail[e] # None
          BY DEF GetUserByEmail
        <4>4. c.token.proved \in registered'[e] /\ byEmail'[e] \in registered'[e]
          BY <4>1, <4>2, <4>3, <3>0 DEF OneAccount
        <4>5. Chained'  BY <4>2, <4>4, <3>0, PairChained
        <4>6. OneAccount'  BY <4>2, <2>2 DEF OneAccount
        <4> QED  BY <4>5, <4>6
      <3>4. CASE UNCHANGED <<tokens, byEmail, registered>>
        BY <3>4, <2>2 DEF Chained, OneAccount
      <3>5. \/ Registers(r, c) /\ RegisterEmail(r)
            \/ LogsIn(r, c) /\ LoginEmail(r)
            \/ Refreshes(r, c.token) /\ RefreshToken(r)
            \/ UNCHANGED <<tokens, byEmail, registered>>
        BY <1>4 DEF Handler, RegisterEmail, LoginEmail, RefreshToken, Logout, Me, Malformed,
           CreateOTP, VerifyOTP, VerifyFace, Reject, accounts
      <3> QED  BY <3>1, <3>2, <3>3, <3>4, <3>5
    <2> QED  BY <2>3, <2>4
  <1>5. ASSUME NEW r \in Request, Finish(r) \/ CompleteFails(r) \/ ReplayCached(r) \/ ReplayEmpty(r)
        PROVE  Issued' /\ Chained' /\ OneAccount'
    <2>1. UNCHANGED <<tokens, byEmail, boots, registered>> /\ req' = [req EXCEPT ![r] = Idle]
      BY <1>5 DEF Finish, CompleteFails, ReplayCached, ReplayEmpty, memory, history
    <2>2. Issued'  BY <2>1, <1>0 DEF Issued, At, Idle
    <2> QED  BY <2>1, <2>2 DEF Chained, OneAccount
  <1> QED  BY <1>1, <1>2, <1>3, <1>4, <1>5 DEF Next

-----------------------------------------------------------------------------
(* What is done and said under a key.                                      *)

\* The requests under key k whose handler is still to run.
Running(k) == {q \in Request : At(q, "handling") /\ req[q].key = k}

\* Each run that is still to come, and each body, has its place under the
\* bound, and a stored answer was given.
Keyed ==
  \A k \in Key :
    /\ runs[k] + Cardinality(Running(k)) <= 1 + takeovers[k]
    /\ IsFiniteSet(Bodies(k))
    /\ Cardinality(Bodies(k)) + Cardinality(Working(k)) <= 1 + takeovers[k]
    /\ records[k].state = "completed" => records[k].answer \in Bodies(k)

\* The sets are finite, and whoever runs is working.
LEMMA WorkingFacts ==
  ASSUME NEW k
  PROVE  /\ IsFiniteSet(Working(k)) /\ Cardinality(Working(k)) \in Nat
         /\ IsFiniteSet(Running(k)) /\ Cardinality(Running(k)) \in Nat
         /\ Cardinality(Running(k)) <= Cardinality(Working(k))
  <1>1. Working(k) \in SUBSET Request  BY DEF Working, Busy
  <1>2. IsFiniteSet(Working(k)) /\ Cardinality(Working(k)) \in Nat
    BY <1>1, FiniteAssumption, FS_Subset, FS_CardinalityType
  <1>3. Running(k) \in SUBSET Working(k)  BY DEF Running, Working, Busy, At
  <1> QED  BY <1>2, <1>3, FS_Subset, FS_CardinalityType

\* What an answer adds to the bodies of its key.
LEMMA BodiesGive ==
  ASSUME TInv, NEW k \in Key \union {None}, NEW c, NEW a, Give(k, c, a)
  PROVE  /\ k \in Key => /\ given'[k] = given[k] \union {[cmd |-> c, answer |-> a]}
                         /\ Bodies(k)' = IF a \in Answer THEN Bodies(k) \union {a} ELSE Bodies(k)
         /\ \A j \in Key : j # k => given'[j] = given[j] /\ Bodies(j)' = Bodies(j)
  <1>0. given \in [Key -> SUBSET Given]  BY DEF TInv
  <1>1. \A j \in Key : j # k => given'[j] = given[j]
    BY <1>0 DEF Give
  <1>2. ASSUME k \in Key
        PROVE  /\ given'[k] = given[k] \union {[cmd |-> c, answer |-> a]}
               /\ Bodies(k)' = IF a \in Answer THEN Bodies(k) \union {a} ELSE Bodies(k)
    <2>1. given'[k] = given[k] \union {[cmd |-> c, answer |-> a]}
      BY <1>0, <1>2, NoneAssumption DEF Give
    <2>2. PICK x : x = [cmd |-> c, answer |-> a]  OBVIOUS
    <2>3. x.answer = a  BY <2>2
    <2> QED  BY <2>1, <2>2, <2>3 DEF Bodies
  <1> QED  BY <1>1, <1>2 DEF Bodies

\* Every step keeps the bounds of every key.
LEMMA KeyedStep ==
  ASSUME TInv, FreshPending, Keyed, [Next]_vars
  PROVE  Keyed'
  <1>0. /\ req \in [Request -> ReqState] /\ records \in [Key -> Record]
        /\ given \in [Key -> SUBSET Given] /\ runs \in [Key -> Nat] /\ takeovers \in [Key -> Nat]
    BY DEF TInv, TypeOK
  <1>n. None \notin Key  BY NoneAssumption
  <1>1. CASE UNCHANGED vars \/ Tick
    <2>1. UNCHANGED <<req, records, given, runs, takeovers>>
      BY <1>1 DEF vars, Tick, memory, history
    <2>2. \A k \in Key : /\ Working(k)' = Working(k) /\ Running(k)' = Running(k)
                         /\ Bodies(k)' = Bodies(k)
      BY <2>1 DEF Working, Busy, Running, At, Bodies
    <2> QED  BY <2>1, <2>2 DEF Keyed
  <1>2. CASE Restart
    <2>1. \A k \in Key : Working(k)' = {} /\ Running(k)' = {} /\ Bodies(k)' = {}
      BY <1>2 DEF Restart, Working, Busy, Running, At, Idle, Bodies
    <2>2. \A k \in Key : runs'[k] = 0 /\ takeovers'[k] = 0 /\ records'[k].state = "none"
      BY <1>2 DEF Restart, NoRecords, NoRecord
    <2>3. IsFiniteSet({}) /\ Cardinality({}) = 0  BY FS_EmptySet
    <2>4. \A k \in Key :
            /\ runs'[k] + Cardinality(Running(k)') <= 1 + takeovers'[k]
            /\ IsFiniteSet(Bodies(k)')
            /\ Cardinality(Bodies(k)') + Cardinality(Working(k)') <= 1 + takeovers'[k]
      BY <2>1, <2>2, <2>3
    <2> QED  BY <2>2, <2>4 DEF Keyed
  <1>3. ASSUME NEW r \in Request, Begin(r) PROVE Keyed'
    <2>1. PICK k \in Key \union {None}, c \in Cmd :
            /\ Arrive(r, c)
            /\ Pass(r, c, k) \/ Lock(r, c, k) \/ Refuse(r, c, k) \/ Replay(r, c, k)
      BY <1>3, BeginFacts
    <2>i. At(r, "idle")  BY <2>1 DEF Arrive
    <2>2. CASE Pass(r, c, k) \/ Refuse(r, c, k) \/ Replay(r, c, k)
      <3>1. /\ UNCHANGED <<records, given, runs, takeovers>>
            /\ \/ UNCHANGED req
               \/ req' = [req EXCEPT ![r] = [pc |-> "handling", cmd |-> c, key |-> None]]
               \/ \E x : req' = [req EXCEPT ![r] = [pc |-> "replaying", cmd |-> c, key |-> k,
                                                   status |-> x]]
        BY <2>2 DEF Pass, Refuse, Replay, history
      <3>2. \A j \in Key : /\ Working(j)' = Working(j) /\ Running(j)' = Running(j)
                           /\ Bodies(j)' = Bodies(j)
        BY <3>1, <2>i, <1>n, <1>0 DEF Working, Busy, Running, At, Bodies
      <3> QED  BY <3>1, <3>2 DEF Keyed
    <2>3. CASE Lock(r, c, k)
      <3>1. /\ k \in Key
            /\ req' = [req EXCEPT ![r] = [pc |-> "handling", cmd |-> c, key |-> k]]
            /\ records' = [records EXCEPT ![k] = InFlight(c, now + LockTTL)]
        BY <2>3 DEF Lock
      <3>2. \A j \in Key \ {k} : Working(j)' = Working(j) /\ Running(j)' = Running(j)
        BY <3>1, <2>i, <1>0 DEF Working, Busy, Running, At
      <3>3. Working(k)' = Working(k) \union {r} /\ Running(k)' = Running(k) \union {r}
        BY <3>1, <2>i, <1>0 DEF Working, Busy, Running, At
      <3>4. /\ Cardinality(Working(k)') <= Cardinality(Working(k)) + 1
            /\ Cardinality(Running(k)') <= Cardinality(Running(k)) + 1
            /\ Cardinality(Working(k)') \in Nat /\ Cardinality(Running(k)') \in Nat
        BY <3>3, WorkingFacts, AddOne
      <3>5. records'[k].state = "inFlight" /\ \A j \in Key \ {k} : records'[j] = records[j]
        BY <3>1, <1>0 DEF InFlight
      <3>6. CASE Evaluate(c, k) = "new"
        <4>1. /\ takeovers' = [takeovers EXCEPT ![k] = Cardinality(Working(k))]
              /\ runs' = [runs EXCEPT ![k] = 0] /\ given' = [given EXCEPT ![k] = {}]
          BY <2>3, <3>6 DEF Lock
        <4>2. /\ takeovers'[k] = Cardinality(Working(k)) /\ runs'[k] = 0 /\ given'[k] = {}
              /\ \A j \in Key \ {k} : UNCHANGED <<takeovers[j], runs[j], given[j]>>
          BY <3>1, <4>1, <1>0
        <4>b. Bodies(k)' = {} /\ \A j \in Key \ {k} : Bodies(j)' = Bodies(j)
          BY <4>2 DEF Bodies
        <4>3. /\ runs'[k] + Cardinality(Running(k)') <= 1 + takeovers'[k]
              /\ IsFiniteSet(Bodies(k)')
              /\ Cardinality(Bodies(k)') + Cardinality(Working(k)') <= 1 + takeovers'[k]
          BY <3>4, <4>2, <4>b, WorkingFacts, FS_EmptySet
        <4> QED  BY <3>2, <3>5, <4>2, <4>b, <4>3 DEF Keyed
      <3>7. CASE Evaluate(c, k) # "new"
        <4>1. takeovers' = [takeovers EXCEPT ![k] = @ + 1] /\ UNCHANGED <<runs, given>>
          BY <2>3, <3>7 DEF Lock
        <4>2. /\ takeovers'[k] = takeovers[k] + 1
              /\ \A j \in Key \ {k} : UNCHANGED takeovers[j]
          BY <3>1, <4>1, <1>0
        <4>b. \A j \in Key : Bodies(j)' = Bodies(j)  BY <4>1 DEF Bodies
        <4>3. IsFiniteSet(Bodies(k)) /\ Cardinality(Bodies(k)) \in Nat
          BY <3>1, FS_CardinalityType DEF Keyed
        <4>4. /\ runs'[k] + Cardinality(Running(k)') <= 1 + takeovers'[k]
              /\ IsFiniteSet(Bodies(k)')
              /\ Cardinality(Bodies(k)') + Cardinality(Working(k)') <= 1 + takeovers'[k]
          BY <3>1, <3>4, <4>1, <4>2, <4>3, <4>b, <1>0, WorkingFacts DEF Keyed
        <4> QED  BY <3>2, <3>5, <4>1, <4>2, <4>4, <4>b DEF Keyed
      <3> QED  BY <3>6, <3>7
    <2> QED  BY <2>1, <2>2, <2>3
  <1>4. ASSUME NEW r \in Request, Handler(r) PROVE Keyed'
    <2>0. PICK k : k = req[r].key  OBVIOUS
    <2>1. PICK a \in Answer : Shape(r, a)
      BY <1>4, HandlerShape
    <2>2. /\ At(r, "handling") /\ UNCHANGED <<records, takeovers, given>>
          /\ req' = [req EXCEPT ![r] = [pc |-> "finishing", cmd |-> req[r].cmd, key |-> k, answer |-> a]]
          /\ runs' = IF k = None THEN runs ELSE [runs EXCEPT ![k] = @ + 1]
      BY <2>0, <2>1 DEF Shape, Handled
    <2>3. k \in Key \union {None}
      BY <2>0, <2>2, <1>0, ReqFacts DEF At
    <2>4. \A j \in Key : /\ Working(j)' = Working(j) /\ Bodies(j)' = Bodies(j)
                         /\ j # k => Running(j)' = Running(j) /\ runs'[j] = runs[j]
      BY <2>0, <2>2, <2>3, <1>0 DEF Working, Busy, Running, At, Bodies
    <2>5. CASE k = None
      BY <2>2, <2>4, <2>5, <1>n DEF Keyed
    <2>6. CASE k \in Key
      <3>1. Running(k)' = Running(k) \ {r} /\ r \in Running(k)
        BY <2>0, <2>2, <2>6, <1>0 DEF Running, At
      <3>2. Cardinality(Running(k)') = Cardinality(Running(k)) - 1
        BY <3>1, WorkingFacts, TakeOne
      <3>3. runs'[k] = runs[k] + 1
        BY <2>2, <2>6, <1>n, <1>0
      <3>4. runs'[k] + Cardinality(Running(k)') <= 1 + takeovers[k]
        BY <2>6, <3>2, <3>3, <1>0, WorkingFacts DEF Keyed
      <3> QED  BY <2>2, <2>4, <2>6, <3>4 DEF Keyed
    <2> QED  BY <2>3, <2>5, <2>6
  <1>5. ASSUME NEW r \in Request, Finish(r) PROVE Keyed'
    <2>0. PICK k : k = req[r].key  OBVIOUS
    <2>a. PICK a : a = req[r].answer  OBVIOUS
    <2>1. /\ At(r, "finishing") /\ Complete(r) /\ UNCHANGED <<runs, takeovers>>
          /\ req' = [req EXCEPT ![r] = Idle] /\ Give(k, req[r].cmd, a)
      BY <1>5, <2>0, <2>a DEF Finish
    <2>2. k \in Key \union {None} /\ a \in Answer
      BY <2>0, <2>a, <2>1, <1>0, ReqFacts DEF At
    <2>b. /\ k \in Key => Bodies(k)' = Bodies(k) \union {a}
          /\ \A j \in Key : j # k => Bodies(j)' = Bodies(j)
      <3>0. PICK c : c = req[r].cmd  OBVIOUS
      <3>1. Give(k, c, a)  BY <2>1, <3>0
      <3> QED  BY <3>1, <2>2, BodiesGive
    <2>3. \A j \in Key : j # k => Working(j)' = Working(j) /\ records'[j] = records[j]
      BY <2>0, <2>1, <2>2, <1>0 DEF Working, Busy, At, Idle, Complete
    <2>4. \A j \in Key : Running(j)' = Running(j)
      BY <2>1, <2>2, <1>0 DEF Running, At, Idle
    <2>5. CASE k = None
      BY <2>1, <2>3, <2>4, <2>5, <2>b, <1>n DEF Keyed
    <2>6. CASE k \in Key
      <3>1. Working(k)' = Working(k) \ {r} /\ r \in Working(k)
        BY <2>0, <2>1, <2>6, <1>0 DEF Working, Busy, At, Idle
      <3>2. Cardinality(Working(k)') = Cardinality(Working(k)) - 1
        BY <3>1, WorkingFacts, TakeOne
      <3>4. /\ IsFiniteSet(Bodies(k)') /\ Cardinality(Bodies(k)') <= Cardinality(Bodies(k)) + 1
            /\ Cardinality(Bodies(k)') \in Nat /\ Cardinality(Bodies(k)) \in Nat
        <4>1. IsFiniteSet(Bodies(k))  BY <2>6 DEF Keyed
        <4>2. PICK b : b = Bodies(k)  OBVIOUS
        <4>3. PICK d : d = Bodies(k)'  OBVIOUS
        <4>4. d = b \union {a}  BY <2>b, <2>6, <4>2, <4>3
        <4>5. /\ IsFiniteSet(d) /\ Cardinality(d) <= Cardinality(b) + 1
              /\ Cardinality(d) \in Nat /\ Cardinality(b) \in Nat
          BY <4>1, <4>2, <4>4, AddOne
        <4> QED  BY <4>2, <4>3, <4>5
      <3>5. Cardinality(Bodies(k)') + Cardinality(Working(k)') <= 1 + takeovers[k]
        BY <2>6, <3>2, <3>4, <1>0, WorkingFacts DEF Keyed
      <3>6. records'[k].state = "completed" => records'[k].answer \in Bodies(k)'
        BY <2>0, <2>a, <2>1, <2>6, <2>b, <1>n, <1>0 DEF Complete, Keyed
      <3> QED  BY <2>1, <2>3, <2>4, <2>6, <2>b, <3>4, <3>5, <3>6 DEF Keyed
    <2> QED  BY <2>2, <2>5, <2>6
  <1>6. ASSUME NEW r \in Request, CompleteFails(r) PROVE Keyed'
    <2>1. /\ UNCHANGED <<records, runs, takeovers, given>> /\ At(r, "finishing")
          /\ req' = [req EXCEPT ![r] = Idle]
      BY <1>6 DEF CompleteFails, memory, history
    <2>2. \A j \in Key : Running(j)' = Running(j) /\ Bodies(j)' = Bodies(j)
      BY <2>1, <1>0 DEF Running, At, Idle, Bodies
    <2>3. ASSUME NEW j \in Key
          PROVE  Cardinality(Working(j)') <= Cardinality(Working(j)) /\ Cardinality(Working(j)') \in Nat
      <3>1. Working(j)' \in SUBSET Working(j)
        BY <2>1, <1>0 DEF Working, Busy, At, Idle
      <3> QED  BY <3>1, WorkingFacts, FS_Subset, FS_CardinalityType
    <2>4. \A j \in Key : Cardinality(Bodies(j)) \in Nat
      BY FS_CardinalityType DEF Keyed
    <2>5. \A j \in Key : Cardinality(Bodies(j)) + Cardinality(Working(j)') <= 1 + takeovers[j]
      BY <2>3, <2>4, <1>0, WorkingFacts DEF Keyed
    <2> QED  BY <2>1, <2>2, <2>5 DEF Keyed
  <1>7. ASSUME NEW r \in Request, ReplayCached(r) \/ ReplayEmpty(r) PROVE Keyed'
    <2>0. PICK k : k = req[r].key  OBVIOUS
    <2>1. PICK a : Replayed(r, a)  BY <1>7, ReplayShape
    <2>2. /\ At(r, "replaying") /\ UNCHANGED <<records, runs, takeovers>> /\ k \in Key
          /\ req' = [req EXCEPT ![r] = Idle] /\ Give(k, req[r].cmd, a)
          /\ a \in Answer => a \in Bodies(k)
      <3>1. a = [status |-> req[r].status, empty |-> TRUE] => a \notin Answer
        BY <2>1, EmptyFacts DEF Replayed
      <3> QED  BY <2>0, <2>1, <3>1 DEF Replayed, Keyed
    <2>3. \A j \in Key : Bodies(j)' = Bodies(j)
      <3>0. PICK c : c = req[r].cmd  OBVIOUS
      <3>1. Give(k, c, a)  BY <2>2, <3>0
      <3>2. /\ Bodies(k)' = IF a \in Answer THEN Bodies(k) \union {a} ELSE Bodies(k)
            /\ \A j \in Key : j # k => Bodies(j)' = Bodies(j)
        BY <2>2, <3>1, BodiesGive
      <3>3. Bodies(k)' = Bodies(k)  BY <2>2, <3>2
      <3> QED  BY <3>2, <3>3
    <2>4. \A j \in Key : Running(j)' = Running(j) /\ Working(j)' = Working(j)
      BY <2>2, <1>0 DEF Running, Working, Busy, At, Idle
    <2> QED  BY <2>2, <2>3, <2>4 DEF Keyed
  <1> QED  BY <1>1, <1>2, <1>3, <1>4, <1>5, <1>6, <1>7 DEF Next

-----------------------------------------------------------------------------
(* What clients are given under a key on which no request outlived its     *)
(* record.                                                                 *)

\* A key's record is about what all who hold the key asked for, and about
\* what all who were given an answer had asked for.
SameCommand ==
  \A k \in Key \ outlived :
    /\ \A r \in Request : ~At(r, "idle") /\ req[r].key = k
         => records[k].state # "none" /\ records[k].cmd = req[r].cmd
    /\ \A x \in given[k] : records[k].state # "none" /\ x.cmd = records[k].cmd

\* A status that is replayed, or was given, is that of an answer with a body.
Statused ==
  \A k \in Key \ outlived :
    /\ \A r \in Request : At(r, "replaying") /\ req[r].key = k
         => \E a \in Bodies(k) : a.status = req[r].status
    /\ \A x \in given[k] : \E a \in Bodies(k) : a.status = x.answer.status

\* An answer fits the command it is for, before it is stored, in the record
\* and when it is given.
OwnTokens ==
  /\ \A r \in Request : At(r, "finishing") => Fits(req[r].cmd, req[r].answer)
  /\ \A k \in Key \ outlived :
       /\ records[k].state = "completed" => Fits(records[k].cmd, records[k].answer)
       /\ \A x \in given[k] : Fits(x.cmd, x.answer)

\* Every step keeps a key's record, its requests and its answers together.
LEMMA AnsweredStep ==
  ASSUME TInv, FreshPending, Keyed, SameCommand, Statused, OwnTokens, [Next]_vars
  PROVE  SameCommand' /\ Statused' /\ OwnTokens'
  <1>0. /\ req \in [Request -> ReqState] /\ records \in [Key -> Record] /\ outlived \subseteq Key
        /\ given \in [Key -> SUBSET Given]
    BY DEF TInv, TypeOK
  <1>n. None \notin Key  BY NoneAssumption
  <1>1. CASE UNCHANGED vars \/ Tick
    <2>1. UNCHANGED <<req, records, outlived, given>>
      BY <1>1 DEF vars, Tick, memory, history
    <2>2. \A k \in Key : Bodies(k)' = Bodies(k)  BY <2>1 DEF Bodies
    <2>3. SameCommand'  BY <2>1 DEF SameCommand, At
    <2>4. Statused'  BY <2>1, <2>2 DEF Statused, At
    <2>5. OwnTokens'  BY <2>1 DEF OwnTokens, At
    <2> QED  BY <2>3, <2>4, <2>5
  <1>2. CASE Restart
    <2>1. /\ \A r \in Request : req'[r].pc = "idle"
          /\ \A k \in Key : given'[k] = {} /\ records'[k].state = "none"
      BY <1>2 DEF Restart, Idle, NoRecords, NoRecord
    <2> QED  BY <2>1 DEF SameCommand, Statused, OwnTokens, At
  <1>3. ASSUME NEW r \in Request, Begin(r) PROVE SameCommand' /\ Statused' /\ OwnTokens'
    <2>1. PICK k \in Key \union {None}, c \in Cmd :
            /\ Arrive(r, c)
            /\ Pass(r, c, k) \/ Lock(r, c, k) \/ Refuse(r, c, k) \/ Replay(r, c, k)
      BY <1>3, BeginFacts
    <2>i. At(r, "idle")  BY <2>1 DEF Arrive
    <2>2. CASE Pass(r, c, k) \/ Refuse(r, c, k)
      <3>1. /\ UNCHANGED <<records, outlived, given>>
            /\ \/ UNCHANGED req
               \/ req' = [req EXCEPT ![r] = [pc |-> "handling", cmd |-> c, key |-> None]]
        BY <2>2 DEF Pass, Refuse, history
      <3>2. \A q \in Request :
              \/ req'[q] = req[q]
              \/ req'[q].pc = "handling" /\ req'[q].key \notin Key
        BY <3>1, <1>n, <1>0
      <3>3. \A j \in Key : Bodies(j)' = Bodies(j)  BY <3>1 DEF Bodies
      <3>4. SameCommand'  BY <3>1, <3>2 DEF SameCommand, At
      <3>5. Statused'  BY <3>1, <3>2, <3>3 DEF Statused, At
      <3>6. OwnTokens'  BY <3>1, <3>2 DEF OwnTokens, At
      <3> QED  BY <3>4, <3>5, <3>6
    <2>3. CASE Lock(r, c, k)
      <3>1. /\ k \in Key
            /\ req' = [req EXCEPT ![r] = [pc |-> "handling", cmd |-> c, key |-> k]]
            /\ records' = [records EXCEPT ![k] = InFlight(c, now + LockTTL)]
        BY <2>3 DEF Lock
      <3>2. /\ records'[k].state = "inFlight" /\ records'[k].cmd = c
            /\ \A j \in Key \ {k} : records'[j] = records[j]
        BY <3>1, <1>0 DEF InFlight
      <3>3. /\ \A q \in Request \ {r} : req'[q] = req[q]
            /\ req'[r].pc = "handling" /\ req'[r].cmd = c /\ req'[r].key = k
        BY <3>1, <1>0
      <3>4. CASE Evaluate(c, k) = "new"
        <4>1. /\ outlived' = IF Busy(k) = {} THEN outlived ELSE outlived \union {k}
              /\ given' = [given EXCEPT ![k] = {}]
          BY <2>3, <3>4 DEF Lock
        <4>2. given'[k] = {} /\ \A j \in Key \ {k} : given'[j] = given[j]
          BY <3>1, <4>1, <1>0
        <4>3. \A j \in Key \ {k} : Bodies(j)' = Bodies(j)  BY <4>2 DEF Bodies
        <4>4. ASSUME k \notin outlived'
              PROVE  \A q \in Request \ {r} : ~At(q, "idle") => req[q].key # k
          BY <4>1, <4>4, <3>1 DEF Busy
        <4>5. outlived \subseteq outlived'  BY <4>1
        <4>6. SameCommand'
          BY <3>2, <3>3, <4>2, <4>4, <4>5 DEF SameCommand, At
        <4>7. Statused'
          <5>1. ASSUME NEW j \in Key \ outlived', NEW q \in Request, At(q, "replaying")',
                       req'[q].key = j
                PROVE  \E a \in Bodies(j)' : a.status = req'[q].status
            <6>1. q # r /\ req'[q] = req[q] /\ At(q, "replaying")  BY <3>3, <5>1 DEF At
            <6>2. j # k  BY <4>4, <5>1, <6>1 DEF At
            <6> QED  BY <4>3, <4>5, <5>1, <6>1, <6>2 DEF Statused
          <5>2. ASSUME NEW j \in Key \ outlived', NEW x \in given'[j]
                PROVE  \E a \in Bodies(j)' : a.status = x.answer.status
            <6>1. j # k /\ x \in given[j]  BY <4>2, <5>2
            <6> QED  BY <4>3, <4>5, <5>2, <6>1 DEF Statused
          <5> QED  BY <5>1, <5>2 DEF Statused
        <4>8. OwnTokens'
          BY <3>2, <3>3, <4>2, <4>5 DEF OwnTokens, At
        <4> QED  BY <4>6, <4>7, <4>8
      <3>5. CASE Evaluate(c, k) # "new"
        <4>1. UNCHANGED <<outlived, given>> /\ Evaluate(c, k) = "expired"
          BY <2>3, <3>5 DEF Lock
        <4>2. records[k].cmd = c  BY <3>1, <4>1, EvaluateFacts
        <4>3. \A j \in Key : Bodies(j)' = Bodies(j)  BY <4>1 DEF Bodies
        <4>4. SameCommand'
          BY <3>2, <3>3, <4>1, <4>2 DEF SameCommand, At
        <4>5. Statused'  BY <3>3, <4>1, <4>3 DEF Statused, At
        <4>6. OwnTokens'  BY <3>2, <3>3, <4>1 DEF OwnTokens, At
        <4> QED  BY <4>4, <4>5, <4>6
      <3> QED  BY <3>4, <3>5
    <2>4. CASE Replay(r, c, k)
      <3>0. PICK s : s = records[k].answer.status  OBVIOUS
      <3>1. /\ k \in Key /\ Evaluate(c, k) = "cached"
            /\ UNCHANGED <<records, outlived, given>>
            /\ req' = [req EXCEPT ![r] = [pc |-> "replaying", cmd |-> c, key |-> k, status |-> s]]
        BY <2>4, <3>0 DEF Replay, history
      <3>2. records[k].state = "completed" /\ records[k].cmd = c
        BY <3>1, EvaluateFacts
      <3>3. records[k].answer \in Bodies(k)  BY <3>1, <3>2 DEF Keyed
      <3>4. /\ \A q \in Request \ {r} : req'[q] = req[q]
            /\ req'[r].pc = "replaying" /\ req'[r].cmd = c /\ req'[r].key = k /\ req'[r].status = s
        BY <3>1, <1>0
      <3>5. \A j \in Key : Bodies(j)' = Bodies(j)  BY <3>1 DEF Bodies
      <3>6. SameCommand'  BY <3>1, <3>2, <3>4 DEF SameCommand, At
      <3>7. Statused'
        <4>1. ASSUME NEW j \in Key \ outlived', NEW q \in Request, At(q, "replaying")',
                     req'[q].key = j
              PROVE  \E a \in Bodies(j)' : a.status = req'[q].status
          <5>1. CASE q = r  BY <5>1, <4>1, <3>0, <3>3, <3>4, <3>5
          <5>2. CASE q # r  BY <5>2, <4>1, <3>1, <3>4, <3>5 DEF Statused, At
          <5> QED  BY <5>1, <5>2
        <4>2. \A j \in Key \ outlived' : \A x \in given'[j] :
                \E a \in Bodies(j)' : a.status = x.answer.status
          BY <3>1, <3>5 DEF Statused
        <4> QED  BY <4>1, <4>2 DEF Statused
      <3>8. OwnTokens'  BY <3>1, <3>4 DEF OwnTokens, At
      <3> QED  BY <3>6, <3>7, <3>8
    <2> QED  BY <2>1, <2>2, <2>3, <2>4
  <1>4. ASSUME NEW r \in Request, Handler(r) PROVE SameCommand' /\ Statused' /\ OwnTokens'
    <2>1. PICK a \in Answer : Shape(r, a)
      BY <1>4, HandlerShape
    <2>2. /\ At(r, "handling") /\ UNCHANGED <<records, outlived, given>>
          /\ req' = [req EXCEPT ![r] = [pc |-> "finishing", cmd |-> req[r].cmd,
                                        key |-> req[r].key, answer |-> a]]
          /\ Fits(req[r].cmd, a)
      BY <2>1 DEF Shape, Handled
    <2>3. /\ \A q \in Request \ {r} : req'[q] = req[q]
          /\ req'[r].pc = "finishing" /\ req'[r].cmd = req[r].cmd /\ req'[r].key = req[r].key
          /\ req'[r].answer = a
      BY <2>2, <1>0
    <2>4. \A j \in Key : Bodies(j)' = Bodies(j)  BY <2>2 DEF Bodies
    <2>5. SameCommand'  BY <2>2, <2>3 DEF SameCommand, At
    <2>6. Statused'  BY <2>2, <2>3, <2>4 DEF Statused, At
    <2>7. OwnTokens'  BY <2>2, <2>3 DEF OwnTokens, At
    <2> QED  BY <2>5, <2>6, <2>7
  <1>5. ASSUME NEW r \in Request, Finish(r) \/ ReplayCached(r) \/ ReplayEmpty(r)
        PROVE  SameCommand' /\ Statused' /\ OwnTokens'
    <2>1. PICK k \in Key \union {None}, c \in Cmd, a \in Answer \union EmptyAnswer :
            /\ k = req[r].key /\ c = req[r].cmd
            /\ ~At(r, "idle") /\ req' = [req EXCEPT ![r] = Idle] /\ UNCHANGED outlived
            /\ Give(k, c, a)
            /\ \A j \in Key : \/ records'[j] = records[j]
                              \/ /\ j = k /\ records[j].state # "none"
                                 /\ records'[j].state = "completed"
                                 /\ records'[j].cmd = records[j].cmd /\ records'[j].answer = a
            /\ k \in Key \ outlived =>
                 /\ Fits(c, a)
                 /\ a \in Answer \/ \E b \in Bodies(k) : b.status = a.status
      <3>1. CASE Finish(r)
        <4>1. PICK k, c, a : k = req[r].key /\ c = req[r].cmd /\ a = req[r].answer  OBVIOUS
        <4>2. At(r, "finishing") /\ Complete(r)  BY <3>1 DEF Finish
        <4>3. k \in Key \union {None} /\ c \in Cmd /\ a \in Answer /\ Fits(c, a)
          BY <4>1, <4>2, <1>0, ReqFacts DEF At, OwnTokens
        <4>4. \A j \in Key : \/ records'[j] = records[j]
                             \/ /\ j = k /\ records[j].state # "none"
                                /\ records'[j].state = "completed"
                                /\ records'[j].cmd = records[j].cmd /\ records'[j].answer = a
          BY <4>1, <4>2, <1>0 DEF Complete, Live
        <4>5. /\ ~At(r, "idle") /\ req' = [req EXCEPT ![r] = Idle] /\ UNCHANGED outlived
              /\ Give(k, c, a)
          BY <3>1, <4>1, <4>2 DEF Finish, At
        <4> QED  BY <4>1, <4>3, <4>4, <4>5
      <3>2. CASE ReplayCached(r) \/ ReplayEmpty(r)
        <4>0. PICK k, c : k = req[r].key /\ c = req[r].cmd  OBVIOUS
        <4>1. PICK a : Replayed(r, a)  BY <3>2, ReplayShape
        <4>2. /\ k \in Key /\ c \in Cmd /\ a \in Answer \union EmptyAnswer
              /\ req[r].status \in Statuses
          BY <4>0, <4>1 DEF Replayed
        <4>3. /\ ~At(r, "idle") /\ req' = [req EXCEPT ![r] = Idle] /\ UNCHANGED <<outlived, records>>
              /\ Give(k, c, a) /\ At(r, "replaying")
          BY <4>0, <4>1 DEF Replayed, At
        <4>4. ASSUME k \notin outlived
              PROVE  Fits(c, a) /\ (a \in Answer \/ \E b \in Bodies(k) : b.status = a.status)
          <5>1. CASE a = records[k].answer /\ records[k].state = "completed"
            <6>1. records[k].cmd = c  BY <4>0, <4>2, <4>3, <4>4 DEF SameCommand
            <6>2. Fits(c, a)  BY <4>2, <4>4, <5>1, <6>1 DEF OwnTokens
            <6>3. a \in Bodies(k)  BY <4>2, <5>1 DEF Keyed
            <6> QED  BY <6>2, <6>3
          <5>2. CASE a = [status |-> req[r].status, empty |-> TRUE]
            <6>1. Fits(c, a)  BY <4>2, <5>2, EmptyFacts DEF Fits
            <6>2. PICK b \in Bodies(k) : b.status = req[r].status
              BY <4>0, <4>2, <4>3, <4>4 DEF Statused
            <6>3. a.status = req[r].status  BY <5>2
            <6> QED  BY <6>1, <6>2, <6>3
          <5> QED  BY <4>0, <4>1, <5>1, <5>2 DEF Replayed
        <4> QED  BY <4>0, <4>2, <4>3, <4>4
      <3> QED  BY <1>5, <3>1, <3>2
    <2>2. /\ \A q \in Request \ {r} : req'[q] = req[q]
          /\ req'[r].pc = "idle"
      BY <2>1, <1>0 DEF Idle
    <2>3. PICK x : x = [cmd |-> c, answer |-> a]  OBVIOUS
    <2>x. x.cmd = c /\ x.answer = a  BY <2>3
    <2>4. /\ k \in Key => /\ given'[k] = given[k] \union {x}
                          /\ Bodies(k)' = IF a \in Answer THEN Bodies(k) \union {a} ELSE Bodies(k)
          /\ \A j \in Key : j # k => given'[j] = given[j] /\ Bodies(j)' = Bodies(j)
      BY <2>1, <2>3, BodiesGive
    <2>5. \A j \in Key : /\ records'[j].state # "completed" => records'[j] = records[j]
                         /\ records[j].state # "none"
                              => records'[j].state # "none" /\ records'[j].cmd = records[j].cmd
      BY <2>1
    <2>6. k \in Key \ outlived => records[k].state # "none" /\ records[k].cmd = c
      BY <2>1 DEF SameCommand
    <2>7. SameCommand'
      <3>1. ASSUME NEW j \in Key \ outlived', NEW q \in Request, ~At(q, "idle")', req'[q].key = j
            PROVE  records'[j].state # "none" /\ records'[j].cmd = req'[q].cmd
        <4>1. q # r /\ req'[q] = req[q] /\ ~At(q, "idle")  BY <2>2, <3>1 DEF At
        <4> QED  BY <2>1, <2>5, <3>1, <4>1 DEF SameCommand
      <3>2. ASSUME NEW j \in Key \ outlived', NEW y \in given'[j]
            PROVE  records'[j].state # "none" /\ y.cmd = records'[j].cmd
        <4>1. y \in given[j] \/ (j = k /\ y = x)  BY <2>4
        <4> QED  BY <2>1, <2>5, <2>6, <2>x, <3>2, <4>1 DEF SameCommand
      <3> QED  BY <3>1, <3>2 DEF SameCommand
    <2>8. Statused'
      <3>0. \A j \in Key : Bodies(j) \subseteq Bodies(j)'  BY <2>1, <2>4
      <3>1. ASSUME NEW j \in Key \ outlived', NEW q \in Request, At(q, "replaying")',
                   req'[q].key = j
            PROVE  \E b \in Bodies(j)' : b.status = req'[q].status
        <4>1. q # r /\ req'[q] = req[q] /\ At(q, "replaying")  BY <2>2, <3>1 DEF At
        <4> QED  BY <2>1, <3>0, <3>1, <4>1 DEF Statused
      <3>2. ASSUME NEW j \in Key \ outlived', NEW y \in given'[j]
            PROVE  \E b \in Bodies(j)' : b.status = y.answer.status
        <4>1. y \in given[j] \/ (j = k /\ y = x)  BY <2>4
        <4>2. CASE y \in given[j]  BY <2>1, <3>0, <3>2, <4>2 DEF Statused
        <4>3. CASE j = k /\ y = x /\ a \in Answer
          <5>1. a \in Bodies(j)'  BY <2>4, <4>3
          <5> QED  BY <5>1, <4>3, <2>x
        <4>4. CASE j = k /\ y = x /\ a \notin Answer
          <5>1. \E b \in Bodies(k) : b.status = a.status  BY <2>1, <3>2, <4>4
          <5> QED  BY <5>1, <4>4, <2>x, <3>0
        <4> QED  BY <4>1, <4>2, <4>3, <4>4
      <3> QED  BY <3>1, <3>2 DEF Statused
    <2>9. OwnTokens'
      <3>1. \A q \in Request : At(q, "finishing")' => Fits(req'[q].cmd, req'[q].answer)
        BY <2>2 DEF OwnTokens, At
      <3>2. ASSUME NEW j \in Key \ outlived', records'[j].state = "completed"
            PROVE  Fits(records'[j].cmd, records'[j].answer)
        <4>1. CASE records'[j] = records[j]  BY <2>1, <3>2, <4>1 DEF OwnTokens
        <4>2. CASE j = k /\ records'[j].cmd = records[j].cmd /\ records'[j].answer = a
          BY <2>1, <2>6, <3>2, <4>2
        <4> QED  BY <2>1, <4>1, <4>2
      <3>3. ASSUME NEW j \in Key \ outlived', NEW y \in given'[j]
            PROVE  Fits(y.cmd, y.answer)
        <4>1. y \in given[j] \/ (j = k /\ y = x)  BY <2>4
        <4> QED  BY <2>1, <2>x, <3>3, <4>1 DEF OwnTokens
      <3> QED  BY <3>1, <3>2, <3>3 DEF OwnTokens
    <2> QED  BY <2>7, <2>8, <2>9
  <1>6. ASSUME NEW r \in Request, CompleteFails(r) PROVE SameCommand' /\ Statused' /\ OwnTokens'
    <2>1. UNCHANGED <<records, outlived, given>> /\ req' = [req EXCEPT ![r] = Idle]
      BY <1>6 DEF CompleteFails, history, memory
    <2>2. \A q \in Request : req'[q] = req[q] \/ req'[q].pc = "idle"
      BY <2>1, <1>0 DEF Idle
    <2>3. \A j \in Key : Bodies(j)' = Bodies(j)  BY <2>1 DEF Bodies
    <2>4. SameCommand'  BY <2>1, <2>2 DEF SameCommand, At
    <2>5. Statused'  BY <2>1, <2>2, <2>3 DEF Statused, At
    <2>6. OwnTokens'  BY <2>1, <2>2 DEF OwnTokens, At
    <2> QED  BY <2>4, <2>5, <2>6
  <1> QED  BY <1>1, <1>2, <1>3, <1>4, <1>5, <1>6 DEF Next

-----------------------------------------------------------------------------
(* Who is told that a code is verified.                                    *)

\* Request r, and the record of key k, are about to say that ch is verified.
Claims(r, ch) ==
  At(r, "finishing") /\ Verifies(req[r].cmd, req[r].answer) /\ req[r].cmd.ch = ch
Stored(k, ch) ==
  /\ records[k].state = "completed" /\ Verifies(records[k].cmd, records[k].answer)
  /\ records[k].cmd.ch = ch

\* All that says so of ch comes from one request, made under h.
Held(ch, h) ==
  /\ told[ch].keys \ outlived \subseteq {h}
  /\ told[ch].bare <= 1
  /\ told[ch].bare = 1 => h = None /\ \A r \in Request : ~Claims(r, ch)
  /\ \A r \in Request : Claims(r, ch) => req[r].key = h
  /\ \A r, q \in Request : Claims(r, ch) /\ Claims(q, ch) => r = q
  /\ \A k \in Key \ outlived : Stored(k, ch) => k = h

\* Nothing says so of ch.
Untouched(ch) ==
  /\ told[ch].keys \subseteq outlived /\ told[ch].bare = 0
  /\ \A r \in Request : ~Claims(r, ch)
  /\ \A k \in Key \ outlived : ~Stored(k, ch)

OneHolder ==
  \A ch \in Challenge :
    /\ \E h \in Key \union {None} : Held(ch, h)
    /\ otp[ch].status = "pending" => Untouched(ch)

\* A step after which no more is said of ch than before.
LEMMA Fewer ==
  ASSUME TInv, NEW ch \in Challenge,
         told'[ch] = told[ch], outlived \subseteq outlived',
         \A q \in Request : Claims(q, ch)' => Claims(q, ch) /\ req'[q].key = req[q].key,
         \A k \in Key \ outlived' : Stored(k, ch)' => Stored(k, ch)
  PROVE  /\ \A h \in Key \union {None} : Held(ch, h) => Held(ch, h)'
         /\ Untouched(ch) => Untouched(ch)'
  <1>1. ASSUME NEW h \in Key \union {None}, Held(ch, h) PROVE Held(ch, h)'
    BY <1>1 DEF Held
  <1>2. ASSUME Untouched(ch) PROVE Untouched(ch)'
    BY <1>2 DEF Untouched
  <1> QED  BY <1>1, <1>2

\* Every step keeps every code with one holder.
LEMMA HolderStep ==
  ASSUME TInv, FreshPending, SameCommand, OneHolder, [Next]_vars
  PROVE  OneHolder'
  <1>0. /\ req \in [Request -> ReqState] /\ records \in [Key -> Record] /\ outlived \subseteq Key
        /\ told \in [Challenge -> [keys : SUBSET Key, bare : Nat]] /\ otp \in [Challenge -> Code]
    BY DEF TInv, TypeOK
  <1>n. None \notin Key  BY NoneAssumption
  <1> SUFFICES ASSUME NEW ch \in Challenge
               PROVE  /\ \E h \in Key \union {None} : Held(ch, h)'
                      /\ otp'[ch].status = "pending" => Untouched(ch)'
    BY DEF OneHolder
  <1>h. PICK h \in Key \union {None} : Held(ch, h)
    BY DEF OneHolder
  <1>p. otp[ch].status = "pending" => Untouched(ch)
    BY DEF OneHolder
  <1>1. CASE UNCHANGED vars \/ Tick
    <2>1. UNCHANGED <<req, records, outlived, told, otp>>
      BY <1>1 DEF vars, Tick, memory, history
    <2>2. Held(ch, h)' /\ (Untouched(ch) => Untouched(ch)')
      BY <2>1, <1>h, Fewer DEF Claims, Stored, At
    <2> QED  BY <2>1, <2>2, <1>p
  <1>2. CASE Restart
    <2>1. /\ \A q \in Request : ~Claims(q, ch)'
          /\ \A k \in Key : ~Stored(k, ch)'
          /\ told'[ch].keys = {} /\ told'[ch].bare = 0
      BY <1>2 DEF Restart, Claims, Stored, At, Idle, NoRecords, NoRecord
    <2>2. Held(ch, None)' /\ Untouched(ch)'
      BY <2>1 DEF Held, Untouched
    <2> QED  BY <2>2
  <1>3. ASSUME NEW r \in Request, Begin(r)
        PROVE  /\ \E g \in Key \union {None} : Held(ch, g)'
               /\ otp'[ch].status = "pending" => Untouched(ch)'
    <2>1. PICK k \in Key \union {None}, c \in Cmd :
            /\ Arrive(r, c)
            /\ Pass(r, c, k) \/ Lock(r, c, k) \/ Refuse(r, c, k) \/ Replay(r, c, k)
      BY <1>3, BeginFacts
    <2>i. At(r, "idle") /\ UNCHANGED otp  BY <2>1 DEF Arrive
    <2>3. UNCHANGED told /\ outlived \subseteq outlived'
      BY <2>1 DEF Pass, Lock, Refuse, Replay, history
    <2>4. \A q \in Request : req'[q] = req[q] \/ req'[q].pc \in {"handling", "replaying"}
      BY <2>1, <1>0 DEF Pass, Lock, Refuse, Replay
    <2>5. \A q \in Request : Claims(q, ch)' => Claims(q, ch) /\ req'[q].key = req[q].key
      BY <2>4 DEF Claims, At
    <2>6. UNCHANGED records \/ records' = [records EXCEPT ![k] = InFlight(c, now + LockTTL)]
      BY <2>1 DEF Pass, Lock, Refuse, Replay
    <2>7. \A j \in Key : Stored(j, ch)' => Stored(j, ch)
      BY <2>6, <1>0 DEF Stored, InFlight
    <2>8. Held(ch, h)' /\ (Untouched(ch) => Untouched(ch)')
      BY <2>3, <2>5, <2>7, <1>h, Fewer
    <2> QED  BY <2>8, <2>i, <1>p
  <1>4. ASSUME NEW r \in Request, Handler(r)
        PROVE  /\ \E g \in Key \union {None} : Held(ch, g)'
               /\ otp'[ch].status = "pending" => Untouched(ch)'
    <2>1. PICK a \in Answer : Shape(r, a)
      BY <1>4, HandlerShape
    <2>2. /\ At(r, "handling") /\ UNCHANGED <<records, outlived, told>> /\ Settles(req[r].cmd, a)
          /\ req' = [req EXCEPT ![r] = [pc |-> "finishing", cmd |-> req[r].cmd,
                                        key |-> req[r].key, answer |-> a]]
      BY <2>1 DEF Shape, Handled
    <2>3. req[r].cmd \in Cmd /\ req[r].key \in Key \union {None}
      BY <2>2, <1>0, ReqFacts DEF At
    <2>4. /\ \A q \in Request \ {r} : req'[q] = req[q]
          /\ req'[r].pc = "finishing" /\ req'[r].cmd = req[r].cmd /\ req'[r].key = req[r].key
          /\ req'[r].answer = a
      BY <2>2, <1>0
    <2>5. /\ \A q \in Request \ {r} : (Claims(q, ch)' <=> Claims(q, ch)) /\ req'[q].key = req[q].key
          /\ Claims(r, ch)' <=> Verifies(req[r].cmd, a) /\ req[r].cmd.ch = ch
          /\ \A k \in Key : Stored(k, ch)' <=> Stored(k, ch)
      BY <2>2, <2>4 DEF Claims, Stored, At, Verifies
    <2>6. CASE Verifies(req[r].cmd, a) /\ req[r].cmd.ch = ch
      <3>1. Good(req[r].cmd) /\ otp' = Mark(ch)
        BY <2>2, <2>6 DEF Settles
      <3>2. Untouched(ch)
        BY <3>1, <2>6, <1>p DEF Good
      <3>3. otp'[ch].status = "verified"
        BY <3>1, <1>0 DEF Mark, Code
      <3>5. \E g \in Key \union {None} : Held(ch, g)'
        <4>1. PICK g \in Key \union {None} : g = req[r].key  BY <2>3
        <4>2. Held(ch, g)'
          BY <3>2, <4>1, <2>2, <2>4, <2>5 DEF Held, Untouched
        <4> QED  BY <4>2
      <3> QED  BY <3>3, <3>5
    <2>7. CASE ~(Verifies(req[r].cmd, a) /\ req[r].cmd.ch = ch)
      <3>1. otp'[ch].status = otp[ch].status
        <4>1. CASE ~Verifies(req[r].cmd, a)
          BY <4>1, <2>2 DEF Settles
        <4>2. CASE Verifies(req[r].cmd, a) /\ req[r].cmd.ch # ch
          <5>1. otp' = [otp EXCEPT ![req[r].cmd.ch].status = "verified"]
            BY <4>2, <2>2 DEF Settles, Mark
          <5> QED  BY <4>2, <5>1, <1>0
        <4> QED  BY <2>7, <4>1, <4>2
      <3>2. Held(ch, h)' /\ (Untouched(ch) => Untouched(ch)')
        BY <2>2, <2>5, <2>7, <1>h, Fewer
      <3> QED  BY <3>1, <3>2, <1>p
    <2> QED  BY <2>6, <2>7
  <1>5. ASSUME NEW r \in Request, Finish(r)
        PROVE  /\ \E g \in Key \union {None} : Held(ch, g)'
               /\ otp'[ch].status = "pending" => Untouched(ch)'
    <2>0. PICK k : k = req[r].key  OBVIOUS
    <2>1. /\ At(r, "finishing") /\ Complete(r) /\ UNCHANGED <<otp, outlived>>
          /\ req' = [req EXCEPT ![r] = Idle]
          /\ Told(k, req[r].cmd, req[r].answer)
      BY <1>5, <2>0 DEF Finish
    <2>2. k \in Key \union {None}
      BY <2>0, <2>1, <1>0, ReqFacts DEF At
    <2>3. /\ \A q \in Request \ {r} : (Claims(q, ch)' <=> Claims(q, ch)) /\ req'[q].key = req[q].key
          /\ ~Claims(r, ch)'
      BY <2>1, <1>0 DEF Claims, At, Idle
    <2>4. \A j \in Key \ outlived : Stored(j, ch)' => Stored(j, ch) \/ (j = k /\ Claims(r, ch))
      <3> SUFFICES ASSUME NEW j \in Key \ outlived, Stored(j, ch)', ~Stored(j, ch)
                   PROVE  j = k /\ Claims(r, ch)
        OBVIOUS
      <3>1. j = k /\ records'[j] = [state |-> "completed", cmd |-> records[j].cmd,
                                    answer |-> req[r].answer, expires |-> records[j].expires]
        BY <2>0, <2>1, <2>2, <1>0 DEF Complete, Stored
      <3>2. records[j].cmd = req[r].cmd
        BY <2>0, <2>1, <3>1 DEF SameCommand, At
      <3> QED  BY <2>1, <3>1, <3>2 DEF Stored, Claims
    <2>5. CASE ~Claims(r, ch)
      <3>1. told'[ch] = told[ch]
        BY <2>1, <2>5, <1>0 DEF Told, Claims, Verifies
      <3>2. Held(ch, h)' /\ (Untouched(ch) => Untouched(ch)')
        BY <2>1, <2>3, <2>4, <2>5, <3>1, <1>h, Fewer
      <3> QED  BY <2>1, <3>2, <1>p
    <2>6. CASE Claims(r, ch)
      <3>1. h = k /\ told[ch].bare # 1 /\ \A q \in Request \ {r} : ~Claims(q, ch)
        BY <2>0, <2>6, <1>h DEF Held
      <3>2. ~Untouched(ch)
        BY <2>6 DEF Untouched
      <3>3. \A q \in Request : ~Claims(q, ch)'
        BY <2>3, <3>1
      <3>4. told[ch].bare = 0
        BY <3>1, <1>h, <1>0 DEF Held
      <3>5. CASE k = None
        <4>1. told'[ch].keys = told[ch].keys /\ told'[ch].bare = 1
          BY <2>1, <2>6, <3>4, <3>5, <1>0 DEF Told, Claims, Verifies
        <4>2. Held(ch, h)'
          BY <4>1, <3>1, <3>3, <3>5, <2>1, <2>4, <1>h DEF Held
        <4> QED  BY <4>2, <3>2, <2>1, <1>p
      <3>6. CASE k # None
        <4>1. told'[ch].keys = told[ch].keys \union {k} /\ told'[ch].bare = 0
          BY <2>1, <2>6, <3>4, <3>6, <1>0 DEF Told, Claims, Verifies
        <4>2. Held(ch, h)'
          BY <4>1, <3>1, <3>3, <2>1, <2>4, <1>h DEF Held
        <4> QED  BY <4>2, <3>2, <2>1, <1>p
      <3> QED  BY <3>5, <3>6
    <2> QED  BY <2>5, <2>6
  <1>6. ASSUME NEW r \in Request, CompleteFails(r)
        PROVE  /\ \E g \in Key \union {None} : Held(ch, g)'
               /\ otp'[ch].status = "pending" => Untouched(ch)'
    <2>1. UNCHANGED <<otp, records, outlived, told>> /\ req' = [req EXCEPT ![r] = Idle]
      BY <1>6 DEF CompleteFails, memory, history
    <2>2. /\ \A q \in Request : Claims(q, ch)' => Claims(q, ch) /\ req'[q].key = req[q].key
          /\ \A k \in Key : Stored(k, ch)' => Stored(k, ch)
      BY <2>1, <1>0 DEF Claims, Stored, At, Idle
    <2>3. Held(ch, h)' /\ (Untouched(ch) => Untouched(ch)')
      BY <2>1, <2>2, <1>h, Fewer
    <2> QED  BY <2>1, <2>3, <1>p
  <1>7. ASSUME NEW r \in Request, ReplayCached(r) \/ ReplayEmpty(r)
        PROVE  /\ \E g \in Key \union {None} : Held(ch, g)'
               /\ otp'[ch].status = "pending" => Untouched(ch)'
    <2>0. PICK k, c : k = req[r].key /\ c = req[r].cmd  OBVIOUS
    <2>a. PICK a : Replayed(r, a)  BY <1>7, ReplayShape
    <2>1. /\ At(r, "replaying") /\ k \in Key /\ c \in Cmd /\ req[r].status \in Statuses
          /\ UNCHANGED <<otp, records, outlived>>
          /\ req' = [req EXCEPT ![r] = Idle] /\ Told(k, c, a)
          /\ \/ a = records[k].answer /\ records[k].state = "completed"
             \/ a = [status |-> req[r].status, empty |-> TRUE]
      BY <2>0, <2>a DEF Replayed
    <2>2. /\ \A q \in Request : Claims(q, ch)' => Claims(q, ch) /\ req'[q].key = req[q].key
          /\ \A j \in Key : Stored(j, ch)' <=> Stored(j, ch)
      BY <2>1, <1>0 DEF Claims, Stored, At, Idle
    <2>3. CASE told'[ch] = told[ch]
      <3>1. Held(ch, h)' /\ (Untouched(ch) => Untouched(ch)')
        BY <2>1, <2>2, <2>3, <1>h, Fewer
      <3> QED  BY <3>1, <2>1, <1>p
    <2>4. CASE told'[ch] # told[ch]
      <3>1. Verifies(c, a) /\ told' = [told EXCEPT ![c.ch].keys = @ \union {k}]
        BY <2>1, <2>4, <1>n DEF Told, Verifies
      <3>2. c.ch = ch /\ told'[ch].keys = told[ch].keys \union {k} /\ told'[ch].bare = told[ch].bare
        BY <2>4, <3>1, <1>0
      <3>3. a \in Answer  BY <3>1, AnswerFacts DEF Verifies
      <3>4. a = records[k].answer /\ records[k].state = "completed"
        BY <2>1, <3>3, EmptyFacts
      <3>5. ASSUME k \notin outlived PROVE Stored(k, ch)
        <4>1. records[k].cmd = c  BY <2>0, <2>1, <3>5 DEF SameCommand, At
        <4> QED  BY <3>1, <3>2, <3>4, <4>1 DEF Stored
      <3>6. Held(ch, h)'
        BY <2>1, <2>2, <3>2, <3>5, <1>h DEF Held
      <3>7. Untouched(ch) => Untouched(ch)'
        BY <2>1, <2>2, <3>2, <3>5 DEF Untouched
      <3> QED  BY <3>6, <3>7, <2>1, <1>p
    <2> QED  BY <2>3, <2>4
  <1> QED  BY <1>1, <1>2, <1>3, <1>4, <1>5, <1>6, <1>7 DEF Next

\* The log of the service has one entry for each verified code.
Verified == {ch \in Challenge : otp[ch].status = "verified"}
Logged == audits["otp.verify"] = Cardinality(Verified)

\* Every step keeps the log and the codes together.
LEMMA LoggedStep ==
  ASSUME TInv, FreshPending, Logged, [Next]_vars
  PROVE  Logged'
  <1>0. otp \in [Challenge -> Code] /\ audits \in [Kind -> Nat]  BY DEF TInv, TypeOK
  <1>1. CASE UNCHANGED <<otp, audits>>
    BY <1>1 DEF Logged, Verified
  <1>2. CASE Restart
    <2>1. Verified' = {} /\ audits'["otp.verify"] = 0
      BY <1>2 DEF Restart, Verified, NoCodes, NoCode, NoAudits, Kind
    <2> QED  BY <2>1, FS_EmptySet DEF Logged
  <1>3. ASSUME NEW r \in Request, Handler(r) PROVE Logged'
    <2>1. PICK a \in Answer : Shape(r, a)
      BY <1>3, HandlerShape
    <2>2. Settles(req[r].cmd, a) /\ At(r, "handling")  BY <2>1 DEF Shape
    <2>3. CASE ~Verifies(req[r].cmd, a)
      <3>1. Verified' = Verified /\ audits'["otp.verify"] = audits["otp.verify"]
        BY <2>2, <2>3 DEF Settles, Verified
      <3> QED  BY <3>1 DEF Logged
    <2>4. CASE Verifies(req[r].cmd, a)
      <3> DEFINE ch == req[r].cmd.ch
      <3>1. ch \in Challenge
        <4>1. req[r].cmd \in Cmd  BY <2>2, ReqFacts DEF At, TInv
        <4> QED  BY <4>1, <2>4, CmdFacts DEF Verifies
      <3>2. /\ otp[ch].status = "pending" /\ otp' = [otp EXCEPT ![ch].status = "verified"]
            /\ audits' = [audits EXCEPT !["otp.verify"] = @ + 1]
        BY <2>2, <2>4 DEF Settles, Good, Mark, Audit
      <3>3. Verified' = Verified \union {ch} /\ ch \notin Verified
        BY <3>1, <3>2, <1>0 DEF Verified, Code
      <3>4. IsFiniteSet(Verified)
        BY FiniteAssumption, FS_Subset DEF Verified
      <3>5. Cardinality(Verified') = Cardinality(Verified) + 1
        BY <3>3, <3>4, FS_AddElement
      <3>6. audits'["otp.verify"] = audits["otp.verify"] + 1
        BY <3>2, <1>0 DEF Kind
      <3> QED  BY <3>5, <3>6 DEF Logged
    <2> QED  BY <2>3, <2>4
  <1>4. UNCHANGED <<otp, audits>> \/ Restart \/ \E r \in Request : Handler(r)
    BY DEF Next, vars, memory, Tick, Begin, Arrive, ReplayCached, ReplayEmpty, Finish,
           CompleteFails
  <1> QED  BY <1>1, <1>2, <1>3, <1>4

-----------------------------------------------------------------------------
(* The theorems.                                                           *)

IInv ==
  /\ TInv /\ FreshPending /\ Issued /\ Chained /\ OneAccount /\ Keyed
  /\ SameCommand /\ Statused /\ OwnTokens /\ OneHolder /\ Logged

\* The service starts with nothing in its stores, and with the invariant.
LEMMA InitIInv ==
  ASSUME Init
  PROVE  IInv
  <1>1. TInv
    <2>1. /\ records \in [Key -> Record] /\ req \in [Request -> ReqState]
          /\ given \in [Key -> SUBSET Given] /\ registered \in [Email -> SUBSET Password]
      BY DEF Init, NoRecords, NoRecord, Record, Idle, ReqState
    <2>2. /\ otp \in [Challenge -> Code] /\ byEmail \in [Email -> Password \union {None}]
          /\ audits \in [Kind -> Nat] /\ tokens = {}
      BY DEF Init, NoCodes, NoCode, Code, NoUsers, NoAudits
    <2>3. told \in [Challenge -> [keys : SUBSET Key, bare : Nat]]
      BY DEF Init
    <2>4. /\ runs \in [Key -> Nat] /\ takeovers \in [Key -> Nat] /\ outlived \subseteq Key
          /\ now \in Nat /\ made \in Nat /\ boots \in Nat
      BY DEF Init
    <2> QED  BY <2>1, <2>2, <2>3, <2>4 DEF TInv, TypeOK
  <1>2. FreshPending  BY DEF Init, FreshPending, NoCodes, NoCode
  <1>3. /\ \A r \in Request : req[r].pc = "idle"
        /\ \A k \in Key : /\ runs[k] = 0 /\ takeovers[k] = 0 /\ given[k] = {}
                         /\ records[k].state = "none"
    BY DEF Init, Idle, NoRecords, NoRecord
  <1>a. Issued /\ SameCommand /\ Statused /\ OwnTokens
    BY <1>3 DEF Issued, SameCommand, Statused, OwnTokens, At
  <1>4. Chained /\ OneAccount
    <2>1. tokens = {} /\ boots = 0 /\ \A e \in Email : byEmail[e] = None /\ registered[e] = {}
      BY DEF Init, NoUsers
    <2>2. IsFiniteSet({}) /\ Cardinality({}) = 0  BY FS_EmptySet
    <2> QED  BY <2>1, <2>2 DEF Chained, OneAccount
  <1>5. Keyed
    <2>1. \A k \in Key : Working(k) = {} /\ Running(k) = {} /\ Bodies(k) = {}
      BY <1>3 DEF Working, Busy, Running, At, Bodies
    <2>2. IsFiniteSet({}) /\ Cardinality({}) = 0  BY FS_EmptySet
    <2>3. ASSUME NEW k \in Key
          PROVE  /\ runs[k] + Cardinality(Running(k)) <= 1 + takeovers[k]
                 /\ IsFiniteSet(Bodies(k))
                 /\ Cardinality(Bodies(k)) + Cardinality(Working(k)) <= 1 + takeovers[k]
      <3>1. runs[k] = 0 /\ takeovers[k] = 0  BY <1>3
      <3>2. Cardinality(Running(k)) = 0 /\ Cardinality(Bodies(k)) = 0 /\ Cardinality(Working(k)) = 0
        BY <2>1, <2>2
      <3>3. IsFiniteSet(Bodies(k))  BY <2>1, <2>2
      <3> QED  BY <3>1, <3>2, <3>3
    <2> QED  BY <1>3, <2>3 DEF Keyed
  <1>6. OneHolder
    <2>1. \A ch \in Challenge :
            /\ \A q \in Request : ~Claims(q, ch)
            /\ \A k \in Key : ~Stored(k, ch)
            /\ told[ch].keys = {} /\ told[ch].bare = 0
      BY DEF Init, Claims, Stored, At, Idle, NoRecords, NoRecord
    <2>2. \A ch \in Challenge : Held(ch, None) /\ Untouched(ch)
      BY <2>1 DEF Held, Untouched
    <2> QED  BY <2>2 DEF OneHolder
  <1>7. Logged
    <2>1. Verified = {} /\ audits["otp.verify"] = 0
      BY DEF Init, Verified, NoCodes, NoCode, NoAudits, Kind
    <2> QED  BY <2>1, FS_EmptySet DEF Logged
  <1> QED  BY <1>1, <1>2, <1>a, <1>4, <1>5, <1>6, <1>7 DEF IInv

\* The invariant is inductive.
THEOREM Invariance == Spec => []IInv
  <1>1. Init => IInv
    BY InitIInv
  <1>2. IInv /\ [Next]_vars => IInv'
    BY TypeStep, ProvedStep, KeyedStep, AnsweredStep, HolderStep, LoggedStep DEF IInv
  <1> QED  BY <1>1, <1>2, PTL DEF Spec

\* Every variable keeps its type: the stores, the records of the idempotency
\* manager and the requests under way.
THEOREM TypeCorrect == Spec => []TypeOK
  <1>1. IInv => TypeOK
    BY DEF IInv, TInv
  <1> QED  BY <1>1, Invariance, PTL

\* In the life of a record under an idempotency key the handler runs once and
\* gives one body, but for one more for each time a lock ran out; whoever is
\* given an answer sent the command it was made for, and an answer without a
\* body has the status of one with it, unless a request outlived its record.
THEOREM KeysRunOnce == Spec => []KeyedOnce
  <1>1. IInv => KeyedOnce
    <2> SUFFICES ASSUME IInv, NEW k \in Key
                 PROVE  /\ runs[k] <= 1 + takeovers[k]
                        /\ Cardinality(Bodies(k)) <= 1 + takeovers[k]
                        /\ k \notin outlived => \A x \in given[k] :
                             /\ \A y \in given[k] : y.cmd = x.cmd
                             /\ \E a \in Bodies(k) : a.status = x.answer.status
      BY DEF KeyedOnce
    <2>1. /\ runs[k] \in Nat /\ takeovers[k] \in Nat
          /\ Cardinality(Working(k)) \in Nat /\ Cardinality(Running(k)) \in Nat
      BY WorkingFacts DEF IInv, TInv, TypeOK
    <2>2. IsFiniteSet(Bodies(k))
      BY DEF IInv, Keyed
    <2>3. Cardinality(Bodies(k)) \in Nat
      BY <2>2, FS_CardinalityType
    <2>4. /\ runs[k] + Cardinality(Running(k)) <= 1 + takeovers[k]
          /\ Cardinality(Bodies(k)) + Cardinality(Working(k)) <= 1 + takeovers[k]
      BY DEF IInv, Keyed
    <2>5. ASSUME k \notin outlived, NEW x \in given[k]
          PROVE  /\ \A y \in given[k] : y.cmd = x.cmd
                 /\ \E a \in Bodies(k) : a.status = x.answer.status
      BY <2>5 DEF IInv, SameCommand, Statused
    <2> QED  BY <2>1, <2>3, <2>4, <2>5
  <1> QED  BY <1>1, Invariance, PTL

\* The password at the beginning of a token's chain, and that of its account,
\* was registered for the token's own email, which has one in the life of a
\* process; and whoever is given a token sent that password or a token of the
\* chain, unless a request outlived its record.
THEOREM TokensAreProved == Spec => []ProvedForItsEmail
  <1>1. IInv => ProvedForItsEmail
    <2> SUFFICES ASSUME IInv PROVE ProvedForItsEmail
      OBVIOUS
    <2>1. \A t \in tokens : {t.proved, t.acct} \subseteq registered[t.email]
      BY DEF IInv, Chained
    <2>2. ASSUME NEW e \in Email PROVE Cardinality(registered[e]) <= 1 + boots
      <3>1. IsFiniteSet(registered[e]) /\ boots \in Nat
        BY DEF IInv, OneAccount, TInv, TypeOK
      <3>2. Cardinality(registered[e]) \in Nat  BY <3>1, FS_CardinalityType
      <3>3. Cardinality(registered[e]) <= IF byEmail[e] = None THEN boots ELSE 1 + boots
        BY DEF IInv, OneAccount
      <3> QED  BY <3>1, <3>2, <3>3
    <2>3. \A k \in Key \ outlived : \A x \in given[k] :
            x.answer \in TokenAnswer => Proves(x.cmd, x.answer.token)
      BY DEF IInv, OwnTokens, Fits
    <2> QED  BY <2>1, <2>2, <2>3 DEF ProvedForItsEmail
  <1> QED  BY <1>1, Invariance, PTL

\* A one-time code convinces one client, and is logged once.
THEOREM CodesConvinceOnce == Spec => []VerifiedOnce
  <1>1. IInv => VerifiedOnce
    <2> SUFFICES ASSUME IInv PROVE VerifiedOnce
      OBVIOUS
    <2>1. ASSUME NEW ch \in Challenge
          PROVE  Cardinality(told[ch].keys \ outlived) + told[ch].bare <= 1
      <3>0. told[ch].keys \subseteq Key /\ told[ch].bare \in Nat
        BY DEF IInv, TInv, TypeOK
      <3>1. PICK h \in Key \union {None} : Held(ch, h)
        BY DEF IInv, OneHolder
      <3>2. /\ told[ch].keys \ outlived \subseteq {h} /\ told[ch].bare <= 1
            /\ told[ch].bare = 1 => h = None
        BY <3>1 DEF Held
      <3>3. CASE told[ch].keys \ outlived = {}
        <4>1. Cardinality(told[ch].keys \ outlived) = 0  BY <3>3, FS_EmptySet
        <4> QED  BY <4>1, <3>0, <3>2
      <3>4. CASE told[ch].keys \ outlived = {h}
        <4>1. Cardinality(told[ch].keys \ outlived) = 1  BY <3>4, FS_Singleton
        <4>2. told[ch].bare = 0  BY <3>0, <3>2, <3>4, NoneAssumption
        <4> QED  BY <4>1, <4>2
      <3> QED  BY <3>2, <3>3, <3>4
    <2>2. audits["otp.verify"] = Cardinality({ch \in Challenge : otp[ch].status = "verified"})
      BY DEF IInv, Logged, Verified
    <2> QED  BY <2>1, <2>2 DEF VerifiedOnce
  <1> QED  BY <1>1, Invariance, PTL

=============================================================================
