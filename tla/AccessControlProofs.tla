-------------------------- MODULE AccessControlProofs --------------------------
(***************************************************************************)
(* Proofs about AccessControl, for any number of requests, users, tenants, *)
(* roles and permissions.                                                  *)
(***************************************************************************)
EXTENDS AccessControl, TLAPS

\* Rows d are contained in rows e: nothing in d is missing from e.
Within(d, e) ==
  /\ d.roles \subseteq e.roles /\ d.perms \subseteq e.perms
  /\ d.grants \subseteq e.grants /\ d.assigned \subseteq e.assigned
  /\ \A u \in User : e.status[u] = "none" => d.status[u] = "none"

\* Rows d show that command c was executed.
Shows(d, c) ==
  /\ c \in CreateCmd => d.status[c.user] # "none"
  /\ c \in RoleCmd => c.role \in d.roles
  /\ c \in PermCmd => c.perm \in d.perms
  /\ c \in GrantCmd => <<c.role, c.perm>> \in d.grants
  /\ c \in AssignCmd => <<c.user, c.tenant, c.role>> \in d.assigned

\* What is about to be published was written.
PublishedIsWritten ==
  \A r \in Request : At(r, "publishing") => Shows(db, req[r].cmd)

IInv == TypeOK /\ ToldWasWritten /\ PublishedIsWritten

-----------------------------------------------------------------------------
(* The commands.                                                           *)

\* A command is of one of five kinds, which its operation tells apart.
LEMMA Kinds ==
  ASSUME NEW c \in Cmd
  PROVE  \/ c \in CreateCmd /\ c.op = "createUser" /\ c.user \in User
         \/ c \in StatusCmd /\ c.op \in {"activateUser", "lockUser"} /\ c.user \in User
         \/ c \in RoleCmd /\ c.op = "createRole" /\ c.role \in Role
         \/ c \in PermCmd /\ c.op = "createPermission" /\ c.perm \in Permission
         \/ c \in GrantCmd /\ c.op = "grant" /\ c.role \in Role /\ c.perm \in Permission
         \/ /\ c \in AssignCmd /\ c.op = "assign"
            /\ c.user \in User /\ c.tenant \in Tenant /\ c.role \in Role
BY DEF Cmd, UserCmd, CreateCmd, StatusCmd, RoleCmd, PermCmd, GrantCmd, AssignCmd

\* What a command does to rows, column by column.
Columns(d, c, e) ==
  /\ e \in Rows
  /\ e.roles = IF c \in RoleCmd THEN d.roles \union {c.role} ELSE d.roles
  /\ e.perms = IF c \in PermCmd THEN d.perms \union {c.perm} ELSE d.perms
  /\ e.grants = IF c \in GrantCmd THEN d.grants \union {<<c.role, c.perm>>} ELSE d.grants
  /\ e.assigned = IF c \in AssignCmd THEN d.assigned \union {<<c.user, c.tenant, c.role>>}
                  ELSE d.assigned
  /\ c \notin UserCmd => e.status = d.status
  /\ c \in UserCmd => \A u \in User : u # c.user => e.status[u] = d.status[u]
  /\ c \in CreateCmd => e.status[c.user] = "pending"
  /\ c \in StatusCmd =>
       e.status[c.user] = IF d.status[c.user] = "none" THEN "none"
                          ELSE IF c.op = "lockUser" THEN "locked" ELSE "active"

\* Apply changes the columns as said.
LEMMA ApplyColumns ==
  ASSUME NEW d \in Rows, NEW c \in Cmd
  PROVE  Columns(d, c, Apply(d, c))
<1> USE DEF Columns, Apply, Rows, UserCmd, CreateCmd, StatusCmd, RoleCmd, PermCmd,
            GrantCmd, AssignCmd
<1>1. CASE c \in CreateCmd
      BY <1>1 DEF CreateUser, Status
<1>2. CASE c \in StatusCmd
      BY <1>2 DEF ActivateUser, LockUser, SetUserStatus, Status
<1>3. CASE c \in RoleCmd
      BY <1>3 DEF CreateRole
<1>4. CASE c \in PermCmd
      BY <1>4 DEF CreatePermission
<1>5. CASE c \in GrantCmd
      BY <1>5 DEF Grant
<1>6. CASE c \in AssignCmd
      BY <1>6 DEF AssignRole
<1> QED
    BY <1>1, <1>2, <1>3, <1>4, <1>5, <1>6 DEF Cmd

\* A command adds to the rows and shows in them, and what shows goes on showing.
LEMMA ApplyGrows ==
  ASSUME NEW d \in Rows, NEW c \in Cmd
  PROVE  /\ Within(d, Apply(d, c))
         /\ Shows(Apply(d, c), c)
         /\ \A b \in Cmd : Shows(d, b) => Shows(Apply(d, c), b)
<1>1. Columns(d, c, Apply(d, c))
      BY ApplyColumns
<1> HIDE DEF Apply
<1> DEFINE e == Apply(d, c)
<1> HIDE DEF e
<1>2. Columns(d, c, e)
      BY <1>1 DEF e
<1>3. c \in CreateCmd \union StatusCmd => c.user \in User
      BY DEF CreateCmd, StatusCmd
<1>4. Within(d, e)
      BY <1>2, <1>3 DEF Columns, Within, UserCmd, Cmd
<1>5. Shows(e, c)
      BY <1>2 DEF Columns, Shows
<1>6. ASSUME NEW b \in Cmd, Shows(d, b) PROVE Shows(e, b)
      <2>1. b \in CreateCmd => b.user \in User
            BY DEF CreateCmd
      <2> QED
          BY <1>4, <1>6, <2>1 DEF Shows, Within
<1> QED
    BY <1>4, <1>5, <1>6 DEF e

\* An event whose command shows in the rows tells nothing that is not there.
LEMMA ApplyWithin ==
  ASSUME NEW d \in Rows, NEW e \in Rows, NEW c \in Cmd, Within(d, e), Shows(e, c)
  PROVE  Within(Apply(d, c), e)
<1> DEFINE f == Apply(d, c)
<1>1. Columns(d, c, f)
      BY ApplyColumns
<1> HIDE DEF f
<1>2. c \in CreateCmd \union StatusCmd => c.user \in User
      BY DEF CreateCmd, StatusCmd
<1>3. /\ f.roles \subseteq e.roles /\ f.perms \subseteq e.perms
      /\ f.grants \subseteq e.grants /\ f.assigned \subseteq e.assigned
      BY <1>1 DEF Columns, Within, Shows
<1>4. ASSUME NEW u \in User, e.status[u] = "none" PROVE f.status[u] = "none"
      <2>1. d.status[u] = "none"
            BY <1>4 DEF Within
      <2>2. CASE c \in CreateCmd
            BY <1>1, <1>4, <2>1, <2>2 DEF Columns, Shows, UserCmd
      <2>3. CASE c \in StatusCmd
            BY <1>1, <2>1, <2>3 DEF Columns, UserCmd
      <2>4. CASE c \notin UserCmd
            BY <1>1, <2>1, <2>4 DEF Columns
      <2> QED
          BY <2>2, <2>3, <2>4 DEF UserCmd
<1> QED
    BY <1>3, <1>4 DEF Within, f

\* To be contained is transitive.
LEMMA WithinTransitive ==
  ASSUME NEW a, NEW b, NEW c, Within(a, b), Within(b, c)
  PROVE  Within(a, c)
BY DEF Within

\* ToldWasWritten in terms of Within.
LEMMA ToldIsWithin == ToldWasWritten <=> Within(told, db)
BY DEF ToldWasWritten, Within

-----------------------------------------------------------------------------
(* Types.                                                                  *)

\* The service starts with rows, requests and counters of their types.
LEMMA InitTyped == Init => TypeOK
<1> SUFFICES ASSUME Init PROVE TypeOK
    OBVIOUS
<1>1. db \in {NoRows, [NoRows EXCEPT !.roles = Role, !.perms = Permission]}
      BY DEF Init
<1>2. db \in Rows
      <2>1. NoRows \in Rows
            BY DEF Rows, NoRows, Status
      <2>2. [NoRows EXCEPT !.roles = Role, !.perms = Permission] \in Rows
            BY <2>1 DEF Rows
      <2> QED
          BY <1>1, <2>1, <2>2
<1>3. req \in [Request -> ReqState]
      BY DEF Init, Idle, ReqState
<1> QED
    BY <1>2, <1>3 DEF Init, TypeOK

\* A request that is not idle has a command.
LEMMA Commands ==
  ASSUME TypeOK, NEW r \in Request, ~At(r, "idle")
  PROVE  req[r].cmd \in Cmd /\ req[r].waiting \in BOOLEAN
BY DEF TypeOK, ReqState, At

\* Every step keeps the types.
LEMMA TypeStep ==
  ASSUME TypeOK, [Next]_vars PROVE TypeOK'
<1>1. db' \in Rows /\ told' \in Rows
      <2>1. ASSUME NEW r \in Request, At(r, "writing") \/ At(r, "publishing")
            PROVE  Apply(db, req[r].cmd) \in Rows /\ Apply(told, req[r].cmd) \in Rows
            BY <2>1, Commands, ApplyColumns DEF TypeOK, Columns, At
      <2> QED
          BY <2>1 DEF TypeOK, Next, vars, Close, Stop, Crash, Die, Restart, Accept,
                      Arrive, Decode, DecodeFails, Write, WriteFails, WriteUnseen,
                      Publish, PublishFails, Timeout
<1>2. req' \in [Request -> ReqState]
      <2> USE DEF TypeOK, ReqState, Idle, At, End
      <2>1. CASE Close \/ Stop \/ Crash \/ Restart \/ UNCHANGED vars
            BY <2>1 DEF vars, Close, Stop, Crash, Die, Restart
      <2>2. ASSUME NEW r \in Request, Accept(r) PROVE req' \in [Request -> ReqState]
            BY <2>2 DEF Accept
      <2>2a. ASSUME NEW r \in Request, Arrive(r) \/ Decode(r) \/ DecodeFails(r)
             PROVE  req' \in [Request -> ReqState]
             BY <2>2a DEF Arrive, Decode, DecodeFails
      <2>3. ASSUME NEW r \in Request, Write(r) PROVE req' \in [Request -> ReqState]
            BY <2>3 DEF Write
      <2>4. ASSUME NEW r \in Request, Timeout(r) PROVE req' \in [Request -> ReqState]
            <3> DEFINE Busy == [pc : {"reading", "writing", "publishing"}, cmd : Cmd,
                                waiting : BOOLEAN]
            <3>1. req[r] \in Busy
                  BY <2>4 DEF Timeout
            <3>2. [req[r] EXCEPT !.waiting = FALSE] \in Busy
                  BY <3>1
            <3> QED
                BY <2>4, <3>2 DEF Timeout
      <2>5. ASSUME NEW r \in Request,
                   WriteFails(r) \/ WriteUnseen(r) \/ Publish(r) \/ PublishFails(r)
            PROVE  req' \in [Request -> ReqState]
            BY <2>5 DEF WriteFails, WriteUnseen, Publish, PublishFails
      <2> QED
          BY <2>1, <2>2, <2>2a, <2>3, <2>4, <2>5 DEF Next
<1>3. server' \in {"up", "closing", "down"} /\ made' \in Nat
      BY BoundAssumption
         DEF TypeOK, Next, vars, Close, Stop, Crash, Die, Restart, Accept, Arrive,
             Decode, DecodeFails, Write, WriteFails, WriteUnseen, Publish,
             PublishFails, Timeout
<1>4. lost' \in BOOLEAN
      BY DEF TypeOK, Next, vars, Close, Stop, Crash, Die, Restart, Accept, Arrive,
             Decode, DecodeFails, Write, WriteFails, WriteUnseen, Publish,
             PublishFails, Timeout
<1>5. overlap' \in SUBSET User
      <2>1. ASSUME NEW r \in Request, Write(r) PROVE overlap' \in SUBSET User
            <3>1. req[r].cmd \in UserCmd => req[r].cmd.user \in User
                  BY DEF UserCmd, CreateCmd, StatusCmd
            <3> QED
                BY <2>1, <3>1 DEF Write, TypeOK
      <2> QED
          BY <2>1 DEF TypeOK, Next, vars, Close, Stop, Crash, Die, Restart, Accept,
                      Arrive, Decode, DecodeFails, WriteFails, WriteUnseen, Publish,
                      PublishFails, Timeout
<1>6. arriving' \in SUBSET Request
      BY DEF TypeOK, Next, vars, Close, Stop, Crash, Die, Restart, Accept, Arrive, Decode,
             DecodeFails, Write, WriteFails, WriteUnseen, Publish, PublishFails, Timeout
<1> QED
    BY <1>1, <1>2, <1>3, <1>4, <1>5, <1>6 DEF TypeOK

-----------------------------------------------------------------------------
(* The inductive invariant.                                                *)

\* Nothing is told that the initial rows do not have.
LEMMA InitIInv == Init => IInv
<1> SUFFICES ASSUME Init PROVE IInv
    OBVIOUS
<1>1. ToldWasWritten
      BY DEF Init, ToldWasWritten
<1>2. PublishedIsWritten
      BY DEF Init, PublishedIsWritten, At, Idle
<1> QED
    BY <1>1, <1>2, InitTyped DEF IInv

\* Every step leaves the rows or executes the command of a request, and leaves
\* what was told or publishes one.
LEMMA StepKinds ==
  ASSUME TypeOK, [Next]_vars
  PROVE  /\ \/ db' = db
            \/ \E r \in Request : /\ req[r].cmd \in Cmd /\ Accepted(req[r].cmd)
                                  /\ db' = Apply(db, req[r].cmd) /\ told' = told
         /\ \/ told' = told
            \/ \E r \in Request : /\ At(r, "publishing") /\ req[r].cmd \in Cmd
                                  /\ told' = Apply(told, req[r].cmd) /\ db' = db
<1>1. ASSUME NEW r \in Request, Write(r) \/ WriteUnseen(r)
      PROVE  req[r].cmd \in Cmd /\ Accepted(req[r].cmd) /\ db' = Apply(db, req[r].cmd)
             /\ told' = told
      BY <1>1, Commands DEF Write, WriteUnseen, At
<1>2. ASSUME NEW r \in Request, Publish(r)
      PROVE  At(r, "publishing") /\ req[r].cmd \in Cmd /\ told' = Apply(told, req[r].cmd)
             /\ db' = db
      BY <1>2, Commands DEF Publish, At
<1>3. CASE ~\E r \in Request : Write(r) \/ WriteUnseen(r) \/ Publish(r)
      BY <1>3 DEF Next, vars, Close, Stop, Crash, Die, Restart, Accept, Arrive, Decode,
                  DecodeFails, WriteFails, PublishFails, Timeout
<1> QED
    BY <1>1, <1>2, <1>3

\* A step that writes adds to the rows; one that publishes tells what is there.
LEMMA ToldStep ==
  ASSUME IInv, [Next]_vars PROVE ToldWasWritten'
<1>0. TypeOK /\ TypeOK' /\ Within(told, db) /\ PublishedIsWritten
      BY TypeStep, ToldIsWithin DEF IInv
<1>1. CASE db' = db /\ told' = told
      BY <1>1 DEF IInv, ToldWasWritten
<1>2. ASSUME NEW r \in Request, req[r].cmd \in Cmd, db' = Apply(db, req[r].cmd), told' = told
      PROVE  ToldWasWritten'
      <2>1. Within(db, db')
            BY <1>0, <1>2, ApplyGrows DEF TypeOK
      <2>2. Within(told', db')
            BY <1>0, <1>2, <2>1, WithinTransitive
      <2> QED
          BY <2>2 DEF ToldWasWritten, Within
<1>3. ASSUME NEW r \in Request, At(r, "publishing"), req[r].cmd \in Cmd,
             told' = Apply(told, req[r].cmd), db' = db
      PROVE  ToldWasWritten'
      <2>1. Shows(db, req[r].cmd)
            BY <1>0, <1>3 DEF PublishedIsWritten
      <2>2. Within(told', db')
            BY <1>0, <1>3, <2>1, ApplyWithin DEF TypeOK
      <2> QED
          BY <2>2 DEF ToldWasWritten, Within
<1> QED
    BY <1>0, <1>1, <1>2, <1>3, StepKinds

\* A request about to publish was about to before the step, or has written in it.
LEMMA PublishingKinds ==
  ASSUME TypeOK, [Next]_vars, NEW q \in Request, At(q, "publishing")'
  PROVE  /\ req[q].cmd \in Cmd /\ req'[q].cmd = req[q].cmd
         /\ At(q, "publishing") \/ db' = Apply(db, req[q].cmd)
<1> USE DEF TypeOK, At
<1>1. CASE Close \/ Stop \/ Crash \/ Restart \/ UNCHANGED vars
      BY <1>1, Commands DEF vars, Close, Stop, Crash, Die, Restart, Idle
<1>2. ASSUME NEW r \in Request, Accept(r) PROVE At(q, "publishing") /\ req'[q] = req[q]
      BY <1>2 DEF Accept
<1>2a. ASSUME NEW r \in Request, Arrive(r) \/ Decode(r) \/ DecodeFails(r)
       PROVE  At(q, "publishing") /\ req'[q] = req[q]
       BY <1>2a DEF Arrive, Decode, DecodeFails, End, Idle, ReqState
<1>3. ASSUME NEW r \in Request, Write(r)
      PROVE  /\ ~At(q, "idle") /\ req'[q].cmd = req[q].cmd
             /\ At(q, "publishing") \/ db' = Apply(db, req[q].cmd)
      BY <1>3, Commands DEF Write
<1>4. ASSUME NEW r \in Request, Timeout(r)
      PROVE  At(q, "publishing") /\ req'[q].cmd = req[q].cmd
      <2>1. req[r].pc # "idle"
            BY <1>4 DEF Timeout, ReqState
      <2> QED
          BY <1>4, <2>1, Commands DEF Timeout, ReqState
<1>5. ASSUME NEW r \in Request,
             WriteFails(r) \/ WriteUnseen(r) \/ Publish(r) \/ PublishFails(r)
      PROVE  At(q, "publishing") /\ req'[q] = req[q]
      BY <1>5 DEF WriteFails, WriteUnseen, Publish, PublishFails, End, Idle
<1> QED
    BY <1>1, <1>2, <1>2a, <1>3, <1>4, <1>5, Commands DEF Next

\* What was written stays written until it is published, and after.
LEMMA PublishedStep ==
  ASSUME IInv, [Next]_vars PROVE PublishedIsWritten'
<1>0. TypeOK /\ PublishedIsWritten
      BY DEF IInv
<1> SUFFICES ASSUME NEW q \in Request, At(q, "publishing")'
             PROVE  Shows(db', req'[q].cmd)
    BY DEF PublishedIsWritten
<1>1. /\ req[q].cmd \in Cmd /\ req'[q].cmd = req[q].cmd
      /\ At(q, "publishing") \/ db' = Apply(db, req[q].cmd)
      BY <1>0, PublishingKinds
<1>2. CASE db' = Apply(db, req[q].cmd)
      BY <1>0, <1>1, <1>2, ApplyGrows DEF TypeOK
<1>3. CASE At(q, "publishing")
      <2>1. Shows(db, req[q].cmd)
            BY <1>0, <1>3 DEF PublishedIsWritten
      <2>2. ASSUME NEW r \in Request, req[r].cmd \in Cmd, db' = Apply(db, req[r].cmd)
            PROVE  Shows(db', req[q].cmd)
            BY <1>0, <1>1, <2>1, <2>2, ApplyGrows DEF TypeOK
      <2> QED
          BY <1>0, <1>1, <2>1, <2>2, StepKinds
<1> QED
    BY <1>1, <1>2, <1>3

\* Every step keeps the invariant.
LEMMA IInvStep == IInv /\ [Next]_vars => IInv'
BY TypeStep, ToldStep, PublishedStep DEF IInv

\* The inductive invariant holds in every reachable state.
THEOREM Invariance == Spec => []IInv
BY InitIInv, IInvStep, PTL DEF Spec

\* The rows, what was told of them and the requests keep their types.
THEOREM TypeCorrect == Spec => []TypeOK
<1>1. IInv => TypeOK
      BY DEF IInv
<1> QED
    BY <1>1, Invariance, PTL

\* A subscriber never knows more than the rows, whatever fails or crashes.
THEOREM EventsTellTheTruth == Spec => []ToldWasWritten
<1>1. IInv => ToldWasWritten
      BY DEF IInv
<1> QED
    BY <1>1, Invariance, PTL

-----------------------------------------------------------------------------
(* When subscribers agree with the rows.                                   *)

\* A command is written and not published.
Due(c) == \E r \in Request : At(r, "publishing") /\ req[r].cmd = c

\* The status of a user after command c about it.
After(c, st) ==
  IF c \in CreateCmd THEN "pending"
  ELSE IF st = "none" THEN "none" ELSE IF c.op = "lockUser" THEN "locked" ELSE "active"

\* What the rows show of roles, permissions, grants and assignments was told
\* or will be.
RowsAreTold ==
  ~lost => \A c \in Cmd \ UserCmd : Shows(db, c) => Shows(told, c) \/ Due(c)

\* At most one change of u is to be published, and brings its subscribers up
\* to date.
UpToDate(u) ==
  /\ \A r, q \in Unpublished(u) : r = q
  /\ \A r \in Unpublished(u) : db.status[u] = After(req[r].cmd, told.status[u])
  /\ Unpublished(u) = {} => db.status[u] = told.status[u]

StatusIsTold == ~lost => \A u \in User \ overlap : UpToDate(u)

Behind == RowsAreTold /\ StatusIsTold

\* Only command c itself makes c show.
LEMMA ShowsOnlyItself ==
  ASSUME NEW d \in Rows, NEW b \in Cmd, NEW c \in Cmd \ UserCmd,
         Shows(Apply(d, b), c), ~Shows(d, c)
  PROVE  b = c
<1> DEFINE e == Apply(d, b)
<1>1. Columns(d, b, e)
      BY ApplyColumns
<1> HIDE DEF e
<1>2. Shows(e, c)
      BY DEF e
<1>3. CASE c \in RoleCmd
      BY <1>1, <1>2, <1>3 DEF Columns, Shows, RoleCmd, CreateCmd, PermCmd, GrantCmd, AssignCmd
<1>4. CASE c \in PermCmd
      BY <1>1, <1>2, <1>4 DEF Columns, Shows, RoleCmd, CreateCmd, PermCmd, GrantCmd, AssignCmd
<1>5. CASE c \in GrantCmd
      BY <1>1, <1>2, <1>5 DEF Columns, Shows, RoleCmd, CreateCmd, PermCmd, GrantCmd, AssignCmd
<1>6. CASE c \in AssignCmd
      BY <1>1, <1>2, <1>6 DEF Columns, Shows, RoleCmd, CreateCmd, PermCmd, GrantCmd, AssignCmd
<1> QED
    BY <1>3, <1>4, <1>5, <1>6 DEF Cmd

\* Nothing is lost in a step that leaves lost alone: what was due still is, or
\* has been told.
LEMMA DueStep ==
  ASSUME TypeOK, [Next]_vars, ~lost', NEW r \in Request, At(r, "publishing")
  PROVE  \/ At(r, "publishing")' /\ req'[r].cmd = req[r].cmd
         \/ Publish(r)
<1> USE DEF TypeOK, At
<1>1. CASE Close \/ Stop \/ Crash \/ Restart \/ UNCHANGED vars
      BY <1>1 DEF vars, Close, Stop, Crash, Die, Restart
<1>2. ASSUME NEW q \in Request,
             \/ Accept(q) \/ Arrive(q) \/ Decode(q) \/ DecodeFails(q)
             \/ WriteFails(q) \/ WriteUnseen(q) \/ PublishFails(q)
      PROVE  At(r, "publishing")' /\ req'[r].cmd = req[r].cmd
      BY <1>2 DEF Accept, Arrive, Decode, DecodeFails, WriteFails, WriteUnseen,
                  PublishFails, End
<1>3. ASSUME NEW q \in Request, Write(q)
      PROVE  At(r, "publishing")' /\ req'[r].cmd = req[r].cmd
      BY <1>3 DEF Write
<1>4. ASSUME NEW q \in Request, Timeout(q)
      PROVE  At(r, "publishing")' /\ req'[r].cmd = req[r].cmd
      <2>1. q # r => req'[r] = req[r]
            BY <1>4 DEF Timeout
      <2>2. q = r => req'[r] = [req[r] EXCEPT !.waiting = FALSE]
            BY <1>4 DEF Timeout
      <2>3. req[r] \in [pc : {"reading", "writing", "publishing"}, cmd : Cmd, waiting : BOOLEAN]
            BY DEF ReqState
      <2> QED
          BY <2>1, <2>2, <2>3
<1>5. ASSUME NEW q \in Request, Publish(q)
      PROVE  q # r => At(r, "publishing")' /\ req'[r].cmd = req[r].cmd
      BY <1>5 DEF Publish, End
<1> QED
    BY <1>1, <1>2, <1>3, <1>4, <1>5 DEF Next

\* A write that is not lost is due.
LEMMA WriteIsDue ==
  ASSUME TypeOK, [Next]_vars, ~lost', db' # db
  PROVE  \E r \in Request : Write(r)
BY DEF Next, vars, Close, Stop, Crash, Die, Restart, Accept, Arrive, Decode,
       DecodeFails, WriteFails, WriteUnseen, Publish, PublishFails, Timeout

\* A loss is never made good.
LEMMA LostStays ==
  ASSUME TypeOK, [Next]_vars, lost PROVE lost'
BY DEF TypeOK, Next, vars, Close, Stop, Crash, Die, Restart, Accept, Arrive, Decode,
       DecodeFails, Write, WriteFails, WriteUnseen, Publish, PublishFails, Timeout

\* Every write is followed by its event, unless that is lost.
LEMMA RowsAreToldStep ==
  ASSUME IInv, RowsAreTold, [Next]_vars PROVE RowsAreTold'
<1>0. TypeOK /\ TypeOK'
      BY TypeStep DEF IInv
<1> SUFFICES ASSUME ~lost', NEW c \in Cmd \ UserCmd, Shows(db', c), ~Due(c)'
             PROVE  Shows(told', c)
    BY DEF RowsAreTold
<1>1. ~lost
      BY <1>0, LostStays
<1>2. CASE Shows(db, c)
      <2>1. CASE Due(c)
            <3>1. PICK r \in Request : At(r, "publishing") /\ req[r].cmd = c
                  BY <2>1 DEF Due
            <3>2. Publish(r)
                  BY <1>0, <3>1, DueStep DEF Due, At
            <3>3. told' = Apply(told, c)
                  BY <3>1, <3>2 DEF Publish
            <3> QED
                BY <1>0, <3>3, ApplyGrows DEF TypeOK
      <2>2. CASE Shows(told, c)
            <3>1. ASSUME NEW r \in Request, req[r].cmd \in Cmd,
                         told' = Apply(told, req[r].cmd)
                  PROVE  Shows(told', c)
                  BY <1>0, <2>2, <3>1, ApplyGrows DEF TypeOK
            <3> QED
                BY <1>0, <2>2, <3>1, StepKinds
      <2> QED
          BY <1>1, <1>2, <2>1, <2>2 DEF RowsAreTold
<1>3. CASE ~Shows(db, c)
      <2>1. PICK r \in Request : Write(r)
            BY <1>0, <1>3, WriteIsDue
      <2>2. req[r].cmd \in Cmd /\ db' = Apply(db, req[r].cmd)
            BY <1>0, <2>1, Commands DEF Write, At
      <2>3. req[r].cmd = c
            BY <1>0, <1>3, <2>2, ShowsOnlyItself DEF TypeOK
      <2>4. At(r, "publishing")' /\ req'[r].cmd = req[r].cmd
            BY <1>0, <2>1 DEF Write, At, TypeOK, ReqState
      <2> QED
          BY <2>3, <2>4 DEF Due, At
<1> QED
    BY <1>2, <1>3

\* A command about u does to its status what After says, and others nothing.
LEMMA StatusAfter ==
  ASSUME NEW d \in Rows, NEW c \in Cmd, NEW u \in User
  PROVE  Apply(d, c).status[u] = IF c \in UserCmd /\ c.user = u THEN After(c, d.status[u])
                                 ELSE d.status[u]
<1> DEFINE e == Apply(d, c)
<1>1. Columns(d, c, e)
      BY ApplyColumns
<1> HIDE DEF e
<1>2. e.status[u] = IF c \in UserCmd /\ c.user = u THEN After(c, d.status[u])
                    ELSE d.status[u]
      BY <1>1 DEF Columns, After, UserCmd
<1> QED
    BY <1>2 DEF e

\* A step that writes nothing about u, loses nothing and publishes nothing
\* about u leaves its subscribers as they were.
LEMMA UpToDateStays ==
  ASSUME NEW u \in User, UpToDate(u),
         db'.status[u] = db.status[u], told'.status[u] = told.status[u],
         Unpublished(u)' = Unpublished(u),
         \A r \in Unpublished(u) : req'[r].cmd = req[r].cmd
  PROVE  UpToDate(u)'
BY DEF UpToDate

\* What is unpublished after a step was unpublished before, or was written in it.
LEMMA UnpublishedStep ==
  ASSUME TypeOK, [Next]_vars, ~lost', NEW u \in User
  PROVE  /\ \A r \in Unpublished(u)' : req'[r].cmd = req[r].cmd
         /\ \A r \in Unpublished(u)' : r \in Unpublished(u) \/ Write(r)
         /\ \A r \in Unpublished(u) : r \in Unpublished(u)' \/ Publish(r)
<1>1. ASSUME NEW r \in Unpublished(u)'
      PROVE  req'[r].cmd = req[r].cmd /\ (r \in Unpublished(u) \/ Write(r))
      <2>1. r \in Request /\ At(r, "publishing")'
            BY <1>1 DEF Unpublished
      <2>2. req'[r].cmd = req[r].cmd
            BY <2>1, PublishingKinds
      <2>3. ASSUME ~At(r, "publishing") PROVE Write(r)
            <3>1. CASE Close \/ Stop \/ Crash \/ Restart \/ UNCHANGED vars
                  BY <2>1, <2>3, <3>1 DEF vars, Close, Stop, Crash, Die, Restart, Idle, At
            <3>2. ASSUME NEW q \in Request,
                         Accept(q) \/ Arrive(q) \/ Decode(q) \/ DecodeFails(q)
                  PROVE  FALSE
                  BY <2>1, <2>3, <3>2
                     DEF Accept, Arrive, Decode, DecodeFails, End, Idle, At, TypeOK,
                         ReqState
            <3>3. ASSUME NEW q \in Request,
                         \/ WriteFails(q) \/ WriteUnseen(q) \/ Publish(q) \/ PublishFails(q)
                         \/ Timeout(q)
                  PROVE  FALSE
                  BY <2>1, <2>3, <3>3
                     DEF WriteFails, WriteUnseen, Publish, PublishFails, Timeout, End, Idle,
                         At, TypeOK, ReqState
            <3>4. ASSUME NEW q \in Request, Write(q) PROVE Write(r)
                  BY <2>1, <2>3, <3>4 DEF Write, At, TypeOK, ReqState
            <3> QED
                BY <3>1, <3>2, <3>3, <3>4 DEF Next
      <2> QED
          BY <1>1, <2>1, <2>2, <2>3 DEF Unpublished
<1>2. ASSUME NEW r \in Unpublished(u)
      PROVE  r \in Unpublished(u)' \/ Publish(r)
      <2>1. r \in Request /\ At(r, "publishing")
            BY DEF Unpublished
      <2> QED
          BY <1>2, <2>1, DueStep DEF Unpublished
<1> QED
    BY <1>1, <1>2

\* Changes of a user that do not overlap are told in the order they were written.
LEMMA StatusIsToldStep ==
  ASSUME IInv, StatusIsTold, [Next]_vars PROVE StatusIsTold'
<1>0. TypeOK /\ TypeOK'
      BY TypeStep DEF IInv
<1> SUFFICES ASSUME ~lost', NEW u \in User, u \notin overlap'
             PROVE  UpToDate(u)'
    BY DEF StatusIsTold
<1>1. u \notin overlap
      BY DEF Next, vars, Close, Stop, Crash, Die, Restart, Accept, Arrive, Decode,
             DecodeFails, Write, WriteFails, WriteUnseen, Publish, PublishFails,
             Timeout
<1>2. UpToDate(u)
      BY <1>0, <1>1, LostStays DEF StatusIsTold
<1>3. /\ \A r \in Unpublished(u)' : req'[r].cmd = req[r].cmd
      /\ \A r \in Unpublished(u)' : r \in Unpublished(u) \/ Write(r)
      /\ \A r \in Unpublished(u) : r \in Unpublished(u)' \/ Publish(r)
      BY <1>0, UnpublishedStep
<1>4. ASSUME NEW r \in Request, Write(r) PROVE UpToDate(u)'
      <2>1. /\ req[r].cmd \in Cmd /\ db' = Apply(db, req[r].cmd) /\ told' = told
            /\ At(r, "writing")
            BY <1>0, <1>4, Commands DEF Write, At
      <2>2. ASSUME NEW q \in Request, q # r PROVE ~Write(q)
            <3>1. req'[q] = req[q]
                  BY <1>0, <1>4, <2>2 DEF Write, TypeOK
            <3>2. Write(q) => req[q].pc = "writing" /\ req'[q].pc = "publishing"
                  BY <1>0 DEF Write, TypeOK, At, ReqState
            <3> QED
                BY <3>1, <3>2
      <2>3. \A q \in Request : ~Publish(q)
            BY <1>4, <1>0 DEF Write, Publish, TypeOK, At, End, Idle
      <2>4. CASE req[r].cmd \in UserCmd /\ req[r].cmd.user = u
            <3>1. Unpublished(u) = {}
                  BY <1>4, <2>4 DEF Write
            <3>2. Unpublished(u)' \subseteq {r}
                  BY <1>3, <2>2, <3>1 DEF Unpublished
            <3>3. r \in Unpublished(u)'
                  BY <1>0, <1>4, <2>4 DEF Unpublished, Write, At, TypeOK, ReqState
            <3>4. db'.status[u] = After(req[r].cmd, told.status[u])
                  BY <1>0, <1>2, <2>1, <2>4, <3>1, StatusAfter DEF TypeOK, UpToDate
            <3> QED
                BY <1>3, <2>1, <3>2, <3>3, <3>4 DEF UpToDate
      <2>5. CASE ~(req[r].cmd \in UserCmd /\ req[r].cmd.user = u)
            <3>1. r \notin Unpublished(u)'
                  BY <1>3, <2>5 DEF Unpublished
            <3>2. Unpublished(u)' = Unpublished(u)
                  BY <1>3, <2>2, <2>3, <3>1 DEF Unpublished
            <3>3. db'.status[u] = db.status[u]
                  BY <1>0, <2>1, <2>5, StatusAfter DEF TypeOK
            <3> QED
                BY <1>2, <1>3, <2>1, <3>2, <3>3, UpToDateStays
      <2> QED
          BY <2>4, <2>5
<1>5. ASSUME NEW r \in Request, Publish(r) PROVE UpToDate(u)'
      <2>1. /\ req[r].cmd \in Cmd /\ told' = Apply(told, req[r].cmd) /\ db' = db
            /\ At(r, "publishing")
            BY <1>0, <1>5, Commands DEF Publish, At
      <2>2. \A q \in Request : ~Write(q)
            BY <1>0, <1>5 DEF Write, Publish, TypeOK, At, End, Idle
      <2>3. \A q \in Request : q # r => ~Publish(q)
            BY <1>0, <1>5 DEF Publish, TypeOK, At, End, Idle
      <2>4. r \notin Unpublished(u)'
            BY <1>0, <1>5 DEF Publish, Unpublished, TypeOK, At, End, Idle
      <2>5. CASE r \in Unpublished(u)
            <3>1. Unpublished(u)' = {}
                  BY <1>2, <1>3, <2>2, <2>4, <2>5 DEF UpToDate, Unpublished
            <3>2. told'.status[u] = db'.status[u]
                  BY <1>0, <1>2, <2>1, <2>5, StatusAfter DEF TypeOK, UpToDate, Unpublished
            <3> QED
                BY <3>1, <3>2 DEF UpToDate
      <2>6. CASE r \notin Unpublished(u)
            <3>1. ~(req[r].cmd \in UserCmd /\ req[r].cmd.user = u)
                  BY <2>1, <2>6 DEF Unpublished
            <3>2. told'.status[u] = told.status[u]
                  BY <1>0, <2>1, <3>1, StatusAfter DEF TypeOK
            <3>3. Unpublished(u)' = Unpublished(u)
                  BY <1>3, <2>2, <2>3, <2>6, <2>4 DEF Unpublished
            <3> QED
                BY <1>2, <1>3, <2>1, <3>2, <3>3, UpToDateStays
      <2> QED
          BY <2>5, <2>6
<1>6. CASE ~\E r \in Request : Write(r) \/ Publish(r)
      <2>1. Unpublished(u)' = Unpublished(u)
            BY <1>3, <1>6 DEF Unpublished
      <2>2. db' = db /\ told' = told
            BY <1>0, <1>6, WriteIsDue
               DEF Next, vars, Close, Stop, Crash, Die, Restart, Accept, Arrive,
                   Decode, DecodeFails, WriteFails, WriteUnseen, PublishFails, Timeout
      <2> QED
          BY <1>2, <1>3, <2>1, <2>2, UpToDateStays
<1> QED
    BY <1>4, <1>5, <1>6

\* At the start nothing is to be told.
LEMMA InitBehind == Init => Behind
BY DEF Init, Behind, RowsAreTold, StatusIsTold, UpToDate, Unpublished, At, Idle

\* In every reachable state what is written was told or will be.
THEOREM NothingIsForgotten == Spec => [](IInv /\ Behind)
<1>1. Init => IInv /\ Behind
      BY InitIInv, InitBehind
<1>2. IInv /\ Behind /\ [Next]_vars => (IInv /\ Behind)'
      BY IInvStep, RowsAreToldStep, StatusIsToldStep DEF Behind
<1> QED
    BY <1>1, <1>2, PTL DEF Spec

\* With nothing under way and nothing lost, what is written was told.
LEMMA BehindAgrees == IInv /\ Behind => SubscribersAgree
<1> SUFFICES ASSUME IInv, Behind, \A r \in Request : ~At(r, "publishing"), ~lost
             PROVE  /\ told.roles = db.roles /\ told.perms = db.perms
                    /\ told.grants = db.grants /\ told.assigned = db.assigned
                    /\ \A u \in User \ overlap : told.status[u] = db.status[u]
    BY DEF SubscribersAgree
<1>0. db \in Rows /\ told \in Rows /\ ToldWasWritten
      BY DEF IInv, TypeOK
<1>1. \A c \in Cmd \ UserCmd : Shows(db, c) => Shows(told, c)
      BY DEF Behind, RowsAreTold, Due
<1>2. ASSUME NEW o \in db.roles PROVE o \in told.roles
      <2> DEFINE c == [op |-> "createRole", role |-> o]
      <2>1. c \in RoleCmd /\ c \notin UserCmd \union CreateCmd \union PermCmd \union GrantCmd
                                   \union AssignCmd
            BY <1>0 DEF RoleCmd, UserCmd, CreateCmd, StatusCmd, PermCmd, GrantCmd, AssignCmd, Rows
      <2>2. c.role = o
            OBVIOUS
      <2> HIDE DEF c
      <2> QED
          BY <1>1, <2>1, <2>2 DEF Shows, Cmd
<1>3. ASSUME NEW p \in db.perms PROVE p \in told.perms
      <2> DEFINE c == [op |-> "createPermission", perm |-> p]
      <2>1. c \in PermCmd /\ c \notin UserCmd \union CreateCmd \union RoleCmd \union GrantCmd
                                   \union AssignCmd
            BY <1>0 DEF RoleCmd, UserCmd, CreateCmd, StatusCmd, PermCmd, GrantCmd, AssignCmd, Rows
      <2>2. c.perm = p
            OBVIOUS
      <2> HIDE DEF c
      <2> QED
          BY <1>1, <2>1, <2>2 DEF Shows, Cmd
<1>4. ASSUME NEW g \in db.grants PROVE g \in told.grants
      <2>0. PICK o \in Role, p \in Permission : g = <<o, p>>
            BY <1>0 DEF Rows
      <2> DEFINE c == [op |-> "grant", role |-> o, perm |-> p]
      <2>1. c \in GrantCmd /\ c \notin UserCmd \union CreateCmd \union RoleCmd \union PermCmd
                                   \union AssignCmd
            BY <2>0 DEF RoleCmd, UserCmd, CreateCmd, StatusCmd, PermCmd, GrantCmd, AssignCmd
      <2>2. c.role = o /\ c.perm = p
            OBVIOUS
      <2> HIDE DEF c
      <2> QED
          BY <1>1, <2>0, <2>1, <2>2 DEF Shows, Cmd
<1>5. ASSUME NEW a \in db.assigned PROVE a \in told.assigned
      <2>0. PICK u \in User, t \in Tenant, o \in Role : a = <<u, t, o>>
            BY <1>0 DEF Rows
      <2> DEFINE c == [op |-> "assign", user |-> u, tenant |-> t, role |-> o]
      <2>1. c \in AssignCmd /\ c \notin UserCmd \union CreateCmd \union RoleCmd \union PermCmd
                                   \union GrantCmd
            BY <2>0 DEF RoleCmd, UserCmd, CreateCmd, StatusCmd, PermCmd, GrantCmd, AssignCmd
      <2>2. c.user = u /\ c.tenant = t /\ c.role = o
            OBVIOUS
      <2> HIDE DEF c
      <2> QED
          BY <1>1, <2>0, <2>1, <2>2 DEF Shows, Cmd
<1>6. \A u \in User \ overlap : told.status[u] = db.status[u]
      BY DEF Behind, StatusIsTold, UpToDate, Unpublished
<1> QED
    BY <1>0, <1>2, <1>3, <1>4, <1>5, <1>6 DEF ToldWasWritten

\* With no event under way and none lost, subscribers agree with the rows on
\* all but the users with two unpublished changes at once.
THEOREM Agreement == Spec => []SubscribersAgree
BY BehindAgrees, NothingIsForgotten, PTL

-----------------------------------------------------------------------------
(* The rows implement the relation.                                        *)

\* The foreign key of role_permissions.
GrantsArePermissions(d) ==
  \A o \in Role, p \in Permission : <<o, p>> \in d.grants => p \in d.perms

\* A block of the relation.
Block(members, perms) == {<<m[1], m[2], p>> : m \in members, p \in perms}

\* The triples of a block.
LEMMA BlockMembers ==
  ASSUME NEW members \in SUBSET (User \X Tenant), NEW perms \in SUBSET Permission,
         NEW u \in User, NEW t \in Tenant, NEW p \in Permission
  PROVE  <<u, t, p>> \in Block(members, perms) <=> <<u, t>> \in members /\ p \in perms
<1>1. ASSUME <<u, t>> \in members, p \in perms PROVE <<u, t, p>> \in Block(members, perms)
      <2> DEFINE m == <<u, t>>
      <2>1. m \in members /\ m[1] = u /\ m[2] = t
            BY <1>1
      <2> QED
          BY <1>1, <2>1 DEF Block
<1>2. ASSUME <<u, t, p>> \in Block(members, perms) PROVE <<u, t>> \in members /\ p \in perms
      <2>1. PICK m \in members, q \in perms : <<u, t, p>> = <<m[1], m[2], q>>
            BY <1>2 DEF Block
      <2>2. m \in User \X Tenant
            OBVIOUS
      <2>3. m = <<m[1], m[2]>>
            BY <2>2
      <2> QED
          BY <2>1, <2>3
<1> QED
    BY <1>1, <1>2

\* The triples that rows d allow.
AllowedBy(d) == {x \in User \X Tenant \X Permission : Check(d, x[1], x[2], x[3])}

\* The triples that rows allow are those Check answers yes for.
LEMMA AllowedByMembers ==
  ASSUME NEW d, NEW u \in User, NEW t \in Tenant, NEW p \in Permission
  PROVE  <<u, t, p>> \in AllowedBy(d) <=> Check(d, u, t, p)
BY DEF AllowedBy

\* Role o gives user u in tenant t permission p, or the wildcard does.
Through(d, o, p) ==
  \/ p \in d.perms /\ <<o, p>> \in d.grants
  \/ Wildcard \in d.perms /\ <<o, Wildcard>> \in d.grants

\* Check looks for a role of the user that gives the permission or the wildcard.
LEMMA CheckThrough ==
  ASSUME NEW d, NEW u, NEW t, NEW p
  PROVE  Check(d, u, t, p) <=> \E o \in Role : <<u, t, o>> \in d.assigned /\ Through(d, o, p)
BY DEF Check, UserPermissions, Through

\* Rows e allow what rows d do, and a block more.
Adds(d, e, members, perms) ==
  \A u \in User, t \in Tenant, p \in Permission :
    Check(e, u, t, p) <=> Check(d, u, t, p) \/ (<<u, t>> \in members /\ p \in perms)

AddsBlock(d, e) ==
  \E members \in SUBSET (User \X Tenant), perms \in SUBSET Permission :
    Adds(d, e, members, perms)

\* A command of the service adds a block.
LEMMA CommandAddsBlock ==
  ASSUME NEW d \in Rows, NEW c \in Cmd, GrantsArePermissions(d),
         c \in GrantCmd => c.perm \in d.perms
  PROVE  GrantsArePermissions(Apply(d, c)) /\ AddsBlock(d, Apply(d, c))
<1> DEFINE e == Apply(d, c)
<1>1. Columns(d, c, e)
      BY ApplyColumns
<1> HIDE DEF e
<1>2. ASSUME c \notin GrantCmd, c \notin AssignCmd
      PROVE  GrantsArePermissions(e) /\ AddsBlock(d, e)
      <2>1. e.grants = d.grants /\ e.assigned = d.assigned /\ d.perms \subseteq e.perms
            BY <1>1, <1>2 DEF Columns
      <2>2. \A o \in Role, p \in Permission : Through(e, o, p) <=> Through(d, o, p)
            BY <2>1, WildcardAssumption DEF Through, GrantsArePermissions
      <2>3. Adds(d, e, {}, {})
            BY <2>1, <2>2, CheckThrough DEF Adds
      <2>4. AddsBlock(d, e)
            BY <2>3 DEF AddsBlock
      <2> QED
          BY <2>1, <2>4 DEF GrantsArePermissions
<1>3. ASSUME c \in GrantCmd
      PROVE  GrantsArePermissions(e) /\ AddsBlock(d, e)
      <2>1. c.role \in Role /\ c.perm \in Permission /\ c.perm \in d.perms
            BY <1>3 DEF GrantCmd
      <2>2. /\ e.grants = d.grants \union {<<c.role, c.perm>>}
            /\ e.assigned = d.assigned /\ e.perms = d.perms
            BY <1>1, <1>3 DEF Columns, GrantCmd, PermCmd, AssignCmd
      <2> DEFINE members == {m \in User \X Tenant : <<m[1], m[2], c.role>> \in d.assigned}
                 perms == {p \in Permission : p = c.perm \/ c.perm = Wildcard}
      <2>3. \A o \in Role, p \in Permission :
              Through(e, o, p) <=> Through(d, o, p) \/ (o = c.role /\ p \in perms)
            BY <2>1, <2>2, WildcardAssumption DEF Through
      <2>4. \A u \in User, t \in Tenant :
              <<u, t>> \in members <=> <<u, t, c.role>> \in d.assigned
            OBVIOUS
      <2>5. members \in SUBSET (User \X Tenant) /\ perms \in SUBSET Permission
            OBVIOUS
      <2> HIDE DEF members, perms
      <2>6. Adds(d, e, members, perms)
            <3> SUFFICES ASSUME NEW u \in User, NEW t \in Tenant, NEW p \in Permission
                         PROVE  Check(e, u, t, p) <=>
                                  Check(d, u, t, p) \/ (<<u, t>> \in members /\ p \in perms)
                BY DEF Adds
            <3> QED
                BY <2>1, <2>2, <2>3, <2>4, CheckThrough
      <2>7. GrantsArePermissions(e)
            BY <2>1, <2>2 DEF GrantsArePermissions
      <2> QED
          BY <2>5, <2>6, <2>7 DEF AddsBlock
<1>4. ASSUME c \in AssignCmd
      PROVE  GrantsArePermissions(e) /\ AddsBlock(d, e)
      <2>1. c.user \in User /\ c.tenant \in Tenant /\ c.role \in Role
            BY <1>4 DEF AssignCmd
      <2>2. /\ e.assigned = d.assigned \union {<<c.user, c.tenant, c.role>>}
            /\ e.grants = d.grants /\ e.perms = d.perms
            BY <1>1, <1>4 DEF Columns, GrantCmd, PermCmd, AssignCmd
      <2> DEFINE members == {<<c.user, c.tenant>>}
                 perms == {p \in Permission : Through(d, c.role, p)}
      <2>3. \A o \in Role, p \in Permission : Through(e, o, p) <=> Through(d, o, p)
            BY <2>2 DEF Through
      <2>4. members \in SUBSET (User \X Tenant) /\ perms \in SUBSET Permission
            BY <2>1
      <2>5. Adds(d, e, members, perms)
            <3> SUFFICES ASSUME NEW u \in User, NEW t \in Tenant, NEW p \in Permission
                         PROVE  Check(e, u, t, p) <=>
                                  Check(d, u, t, p) \/ (<<u, t>> \in members /\ p \in perms)
                BY DEF Adds
            <3>1. <<u, t>> \in members <=> u = c.user /\ t = c.tenant
                  OBVIOUS
            <3>2. \A o \in Role : <<u, t, o>> \in e.assigned <=>
                    <<u, t, o>> \in d.assigned \/ (u = c.user /\ t = c.tenant /\ o = c.role)
                  BY <2>2
            <3> QED
                BY <2>1, <2>3, <3>1, <3>2, CheckThrough
      <2>6. GrantsArePermissions(e)
            BY <2>2 DEF GrantsArePermissions
      <2> QED
          BY <2>4, <2>5, <2>6 DEF AddsBlock
<1>5. GrantsArePermissions(e) /\ AddsBlock(d, e)
      BY <1>2, <1>3, <1>4
<1> QED
    BY <1>5 DEF e

\* A step of the service is a step of the relation.
LEMMA RelationStep ==
  ASSUME TypeOK, GrantsArePermissions(db), [Next]_vars
  PROVE  GrantsArePermissions(db') /\ [Relation!Next]_Allowed
<1>0. Allowed = AllowedBy(db) /\ Allowed' = AllowedBy(db')
      BY DEF Allowed, AllowedBy
<1>1. CASE db' = db
      BY <1>0, <1>1
<1>2. ASSUME NEW r \in Request, req[r].cmd \in Cmd, Accepted(req[r].cmd),
             db' = Apply(db, req[r].cmd)
      PROVE  GrantsArePermissions(db') /\ Relation!Next
      <2> DEFINE c == req[r].cmd
      <2>1. c \in GrantCmd => c.perm \in db.perms
            BY <1>2 DEF GrantCmd, Accepted
      <2>2. GrantsArePermissions(db')
            BY <1>2, <2>1, CommandAddsBlock DEF TypeOK
      <2>2a. AddsBlock(db, db')
            BY <1>2, <2>1, CommandAddsBlock DEF TypeOK
      <2>3. PICK members \in SUBSET (User \X Tenant), perms \in SUBSET Permission :
              Adds(db, db', members, perms)
            BY <2>2a DEF AddsBlock
      <2>4. ASSUME NEW u \in User, NEW t \in Tenant, NEW p \in Permission
            PROVE  <<u, t, p>> \in AllowedBy(db') <=>
                     <<u, t, p>> \in AllowedBy(db) \/ <<u, t, p>> \in Block(members, perms)
            BY <2>3, AllowedByMembers, BlockMembers DEF Adds
      <2>5. ASSUME NEW x PROVE x \in AllowedBy(db') \/ x \in AllowedBy(db) =>
                                 \E u \in User, t \in Tenant, p \in Permission : x = <<u, t, p>>
            BY DEF AllowedBy
      <2>6. ASSUME NEW x \in Block(members, perms)
            PROVE  \E u \in User, t \in Tenant, p \in Permission : x = <<u, t, p>>
            BY DEF Block
      <2>7. AllowedBy(db') = AllowedBy(db) \union Block(members, perms)
            BY <2>4, <2>5, <2>6
      <2>8. Relation!Give(members, perms)
            BY <1>0, <2>7 DEF Relation!Give, Block
      <2> QED
          BY <2>2, <2>8 DEF Relation!Next
<1> QED
    BY <1>1, <1>2, StepKinds

\* The rows implement PermissionRelation: what Check allows only grows, by one
\* block of members times permissions with every step.
THEOREM Refinement == Spec => PermissionRefinement
<1>1. Init => Relation!Init /\ GrantsArePermissions(db)
      <2> SUFFICES ASSUME Init PROVE Relation!Init /\ GrantsArePermissions(db)
          OBVIOUS
      <2>1. db.grants = {} /\ db.assigned = {}
            <3>1. CASE db = NoRows
                  BY <3>1 DEF NoRows
            <3>2. CASE db = [NoRows EXCEPT !.roles = Role, !.perms = Permission]
                  BY <3>2 DEF NoRows
            <3> QED
                BY <3>1, <3>2 DEF Init
      <2>2. Allowed = {}
            BY <2>1 DEF Allowed, Check, UserPermissions
      <2> QED
          BY <2>1, <2>2 DEF Relation!Init, GrantsArePermissions
<1>2. IInv /\ GrantsArePermissions(db) /\ [Next]_vars => GrantsArePermissions(db)'
      BY RelationStep DEF IInv
<1>3. IInv /\ GrantsArePermissions(db) /\ [Next]_vars => [Relation!Next]_Allowed
      BY RelationStep DEF IInv
<1> QED
    BY <1>1, <1>2, <1>3, Invariance, PTL DEF Spec, PermissionRefinement, Relation!Spec

=============================================================================
