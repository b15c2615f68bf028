----------------------------- MODULE AccessControl -----------------------------
(***************************************************************************)
(* The access control service: users, roles, permissions, grants and       *)
(* assignments as rows of a database, each changed by one statement, and   *)
(* the event published after it, whose error is dropped.                   *)
(*                                                                         *)
(* A request is up to three steps, the decoding of its body (the routes    *)
(* that create something), the statement and the publication, with the ten *)
(* seconds of http.TimeoutHandler running beside them: when they are over  *)
(* the client is answered 503 and the handler goes on without it.  A       *)
(* statement can fail, and can be committed although its caller is told it *)
(* failed (its context was cancelled, its connection broke).  On shutdown  *)
(* Run closes the event connection first and then waits until every        *)
(* connection is idle: its client answered and its body arrived, for which *)
(* the server sets no deadline.  The process can also die at any time and  *)
(* be started again.                                                       *)
(*                                                                         *)
(* told is what a subscriber has that applies every event it gets, in      *)
(* order; it is external.  Users are named by their unique email, roles by *)
(* their unique name, permissions by their unique key.                     *)
(***************************************************************************)
EXTENDS Naturals

CONSTANTS
  Request,     \* requests that can be under way at once
  User,
  Tenant,
  Role,
  Permission,
  Wildcard,    \* the permission key "*"
  MaxRequests  \* bound: requests made

ASSUME WildcardAssumption == Wildcard \in Permission

ASSUME BoundAssumption == MaxRequests \in Nat

VARIABLES
  db,          \* the rows
  told,        \* what the events have told a subscriber
  req,         \* the requests under way
  arriving,    \* the requests whose client has still to send some of the body
  server,      \* the process
  made,        \* history: how many requests were made
  lost,        \* history: was something written and its event not published?
  overlap      \* history: users with two changes written and not published

vars == <<db, told, req, arriving, server, made, lost, overlap>>

-----------------------------------------------------------------------------
Status == {"none", "pending", "active", "locked"}

Rows == [status : [User -> Status], roles : SUBSET Role, perms : SUBSET Permission,
         grants : SUBSET (Role \X Permission),
         assigned : SUBSET (User \X Tenant \X Role)]

NoRows == [status |-> [u \in User |-> "none"], roles |-> {}, perms |-> {},
           grants |-> {}, assigned |-> {}]

\* The commands; of the fields a command has no use for, any value will do.
CreateCmd == [op : {"createUser"}, user : User]
StatusCmd == [op : {"activateUser", "lockUser"}, user : User]
UserCmd == CreateCmd \union StatusCmd
RoleCmd == [op : {"createRole"}, role : Role]
PermCmd == [op : {"createPermission"}, perm : Permission]
GrantCmd == [op : {"grant"}, role : Role, perm : Permission]
AssignCmd == [op : {"assign"}, user : User, tenant : Tenant, role : Role]
Cmd == UserCmd \union RoleCmd \union PermCmd \union GrantCmd \union AssignCmd

\* The handlers of these decode a body; the others leave theirs, if any, unread.
BodyCmd == CreateCmd \union RoleCmd \union PermCmd

\* waiting: the client has no answer yet.
ReqState == [pc : {"reading", "writing", "publishing"}, cmd : Cmd, waiting : BOOLEAN]
            \union {[pc |-> "idle", waiting |-> FALSE]}

Idle == [pc |-> "idle", waiting |-> FALSE]

TypeOK ==
  /\ db \in Rows /\ told \in Rows
  /\ req \in [Request -> ReqState] /\ arriving \in SUBSET Request
  /\ server \in {"up", "closing", "down"}
  /\ made \in Nat /\ lost \in BOOLEAN /\ overlap \in SUBSET User

\* A new database, or one in which every role and permission was created, and
\* told of, in an earlier life of the service.
Init ==
  /\ db \in {NoRows, [NoRows EXCEPT !.roles = Role, !.perms = Permission]}
  /\ told = db
  /\ req = [r \in Request |-> Idle] /\ arriving = {}
  /\ server = "up"
  /\ made = 0 /\ lost = FALSE /\ overlap = {}

-----------------------------------------------------------------------------
(* The statements.                                                         *)

\* UNIQUE(email), UNIQUE(name), UNIQUE(key), and the foreign keys; user_roles
\* has none on its user, and an update of no row is no error.
Accepted(c) ==
  CASE c.op = "createUser"       -> db.status[c.user] = "none"
    [] c.op = "createRole"       -> c.role \notin db.roles
    [] c.op = "createPermission" -> c.perm \notin db.perms
    [] c.op = "grant"            -> c.role \in db.roles /\ c.perm \in db.perms
    [] c.op = "assign"           -> c.role \in db.roles
    [] OTHER                     -> TRUE

\* A slip: whoever is locked or activated starts again without roles.
SetUserStatusUnassigns(d, u, st) ==
  [d EXCEPT !.assigned = {a \in @ : a[1] # u}]

SetUserStatus(d, u, st) ==
  IF d.status[u] = "none" THEN d ELSE [d EXCEPT !.status[u] = st]

\* A slip: the key of user_roles without its tenant.
AssignRoleAnywhere(d, c) == [d EXCEPT !.assigned = @ \union {<<c.user, c.role>>}]

AssignRole(d, c) == [d EXCEPT !.assigned = @ \union {<<c.user, c.tenant, c.role>>}]

CreateUser(d, c) == [d EXCEPT !.status[c.user] = "pending"]
ActivateUser(d, c) == SetUserStatus(d, c.user, "active")
LockUser(d, c) == SetUserStatus(d, c.user, "locked")
CreateRole(d, c) == [d EXCEPT !.roles = @ \union {c.role}]
CreatePermission(d, c) == [d EXCEPT !.perms = @ \union {c.perm}]
Grant(d, c) == [d EXCEPT !.grants = @ \union {<<c.role, c.perm>>}]

Apply(d, c) ==
  CASE c.op = "createUser"       -> CreateUser(d, c)
    [] c.op = "activateUser"     -> ActivateUser(d, c)
    [] c.op = "lockUser"         -> LockUser(d, c)
    [] c.op = "createRole"       -> CreateRole(d, c)
    [] c.op = "createPermission" -> CreatePermission(d, c)
    [] c.op = "grant"            -> Grant(d, c)
    [] c.op = "assign"           -> AssignRole(d, c)

\* UserPermissions is one join, and Check looks for the key or the wildcard.
UserPermissions(d, u, t) ==
  {p \in d.perms : \E o \in Role : <<u, t, o>> \in d.assigned /\ <<o, p>> \in d.grants}

Check(d, u, t, p) ==
  p \in UserPermissions(d, u, t) \/ Wildcard \in UserPermissions(d, u, t)

-----------------------------------------------------------------------------
(* Requests.                                                               *)

At(r, pc) == req[r].pc = pc
End(r) == req' = [req EXCEPT ![r] = Idle]

\* Commands about u that are written and not published.
Unpublished(u) ==
  {r \in Request : At(r, "publishing") /\ req[r].cmd \in UserCmd /\ req[r].cmd.user = u}

\* The headers are in; of the body, some may be still to come.
Accept(r) ==
  /\ server = "up"
  /\ At(r, "idle") /\ r \notin arriving
  /\ made < MaxRequests
  /\ made' = made + 1
  /\ \E c \in Cmd :
       req' = [req EXCEPT ![r] =
                 [pc |-> IF c \in BodyCmd THEN "reading" ELSE "writing",
                  cmd |-> c, waiting |-> TRUE]]
  /\ arriving' \in {arriving, arriving \union {r}}
  /\ UNCHANGED <<db, told, server, lost, overlap>>

\* The client sends the rest of the body, or gives up and closes the connection.
\* Nothing makes it do either.
Arrive(r) ==
  /\ r \in arriving
  /\ arriving' = arriving \ {r}
  /\ UNCHANGED <<db, told, req, server, made, lost, overlap>>

\* Decode returns: with a first JSON value, which may be in before the rest of
\* the body, or with the error that only createUser looks at.
Decode(r) ==
  /\ At(r, "reading")
  /\ req' = [req EXCEPT ![r].pc = "writing"]
  /\ UNCHANGED <<db, told, arriving, server, made, lost, overlap>>

DecodeFails(r) ==
  /\ At(r, "reading")
  /\ req[r].cmd \in CreateCmd
  /\ End(r)
  /\ UNCHANGED <<db, told, arriving, server, made, lost, overlap>>

\* The statement succeeds; the event comes next.
Write(r) ==
  /\ At(r, "writing")
  /\ req[r].waiting
  /\ Accepted(req[r].cmd)
  /\ db' = Apply(db, req[r].cmd)
  /\ req' = [req EXCEPT ![r].pc = "publishing"]
  /\ overlap' = IF req[r].cmd \in UserCmd /\ Unpublished(req[r].cmd.user) # {}
                THEN overlap \union {req[r].cmd.user} ELSE overlap
  /\ UNCHANGED <<told, arriving, server, made, lost>>

\* The statement violates a constraint, or fails, or its context is cancelled.
WriteFails(r) ==
  /\ At(r, "writing")
  /\ End(r)
  /\ UNCHANGED <<db, told, arriving, server, made, lost, overlap>>

\* The statement is committed and its caller sees an error: no event follows.
WriteUnseen(r) ==
  /\ At(r, "writing")
  /\ Accepted(req[r].cmd)
  /\ db' = Apply(db, req[r].cmd)
  /\ lost' = TRUE
  /\ End(r)
  /\ UNCHANGED <<told, arriving, server, made, overlap>>

\* A slip: the event before the statement.
PublishEarly(r) ==
  /\ At(r, "writing")
  /\ server = "up"
  /\ told' = Apply(told, req[r].cmd)
  /\ UNCHANGED <<db, req, arriving, server, made, lost, overlap>>

Publish(r) ==
  /\ At(r, "publishing")
  /\ server = "up"
  /\ told' = Apply(told, req[r].cmd)
  /\ End(r)
  /\ UNCHANGED <<db, arriving, server, made, lost, overlap>>

\* The connection is closed or its buffer full; the error is dropped.
PublishFailsUnnoticed(r) ==
  /\ At(r, "publishing")
  /\ End(r)
  /\ UNCHANGED <<db, told, arriving, server, made, lost, overlap>>

PublishFails(r) ==
  /\ At(r, "publishing")
  /\ lost' = TRUE
  /\ End(r)
  /\ UNCHANGED <<db, told, arriving, server, made, overlap>>

\* A slip: the timer stops when the statement returns.
TimeoutOfStatement(r) ==
  /\ ~At(r, "publishing")
  /\ req[r].waiting
  /\ req' = [req EXCEPT ![r].waiting = FALSE]
  /\ UNCHANGED <<db, told, arriving, server, made, lost, overlap>>

\* The client is answered 503; the handler goes on.
Timeout(r) ==
  /\ req[r].waiting
  /\ req' = [req EXCEPT ![r].waiting = FALSE]
  /\ UNCHANGED <<db, told, arriving, server, made, lost, overlap>>

-----------------------------------------------------------------------------
(* The process.                                                            *)

\* Whatever was to be published is lost with the process.
Die ==
  /\ server' = "down"
  /\ lost' = (lost \/ \E r \in Request : At(r, "publishing"))
  /\ req' = [r \in Request |-> Idle] /\ arriving' = {}
  /\ UNCHANGED <<db, told, made, overlap>>

\* Run, on a signal: the event connection is closed ...
Close ==
  /\ server = "up"
  /\ server' = "closing"
  /\ UNCHANGED <<db, told, req, arriving, made, lost, overlap>>

\* ... and Shutdown, which has no deadline, returns when every connection is
\* idle: the client has its answer and the server the whole of the request.
Stop ==
  /\ server = "closing"
  /\ \A r \in Request : ~req[r].waiting /\ r \notin arriving
  /\ Die

Crash == server # "down" /\ Die

Restart ==
  /\ server = "down"
  /\ server' = "up"
  /\ UNCHANGED <<db, told, req, arriving, made, lost, overlap>>

Next ==
  \/ Close \/ Stop \/ Crash \/ Restart
  \/ \E r \in Request :
       \/ Accept(r) \/ Arrive(r) \/ Decode(r) \/ DecodeFails(r) \/ Write(r) \/ WriteFails(r) \/ WriteUnseen(r)
       \/ Publish(r) \/ PublishFails(r) \/ Timeout(r)

\* The timer of TimeoutHandler fires, and Shutdown, which looks at its
\* connections again and again, returns when it can.  The clients, the database
\* and the event server owe nothing.
Fairness == WF_vars(Stop) /\ \A r \in Request : WF_vars(Timeout(r))

Spec == Init /\ [][Next]_vars /\ Fairness

-----------------------------------------------------------------------------
(***************************************************************************)
(* A subscriber never knows more than the rows: what an event told is in   *)
(* the database, whatever crashed, timed out or failed, because the        *)
(* publication comes after the statement and no row is deleted.            *)
(***************************************************************************)
ToldWasWritten ==
  /\ told.roles \subseteq db.roles /\ told.perms \subseteq db.perms
  /\ told.grants \subseteq db.grants /\ told.assigned \subseteq db.assigned
  /\ \A u \in User : db.status[u] = "none" => told.status[u] = "none"

(***************************************************************************)
(* The two ways in which subscribers come to disagree with the rows.  When *)
(* no event is under way and none was lost, they agree on every grant and  *)
(* assignment; and on every user whose changes were published one by one,  *)
(* never two written before the first of them was published.               *)
(***************************************************************************)
SubscribersAgree ==
  (\A r \in Request : ~At(r, "publishing")) /\ ~lost =>
    /\ told.roles = db.roles /\ told.perms = db.perms
    /\ told.grants = db.grants /\ told.assigned = db.assigned
    /\ \A u \in User \ overlap : told.status[u] = db.status[u]

\* The triples for which Check answers yes.
Allowed == {x \in User \X Tenant \X Permission : Check(db, x[1], x[2], x[3])}

Relation == INSTANCE PermissionRelation WITH can <- Allowed

(***************************************************************************)
(* The rows implement the abstract relation: through failures, crashes and *)
(* the wildcard, what Check allows only grows, and by one block of members *)
(* times permissions with every step.                                      *)
(***************************************************************************)
PermissionRefinement == Relation!Spec

(***************************************************************************)
(* What a shutdown waits for: the clients, and nothing else.  If every     *)
(* client sends what it has begun to send, or goes away, a shutdown ends,  *)
(* also when the database or the event server hangs, because the timer of  *)
(* TimeoutHandler answers every request.  Without the premise it need not  *)
(* end: the server has no read timeout and Shutdown no deadline.           *)
(***************************************************************************)
ShutdownEnds ==
  (\A r \in Request : []<>(r \notin arriving))
    => ((server = "closing") ~> (server = "down"))

=============================================================================
