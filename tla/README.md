# TLA+ verification of dift_backend_auth

This directory models the authentication backend in TLA+: the modules follow the
Go code, TLC checks them on small instances, and TLAPS proves the main safety
properties for every value of the constants. `PROJECT.json` lists the runs, the
lines each definition stands for, the mutants, the hazards and the theorems.

Run a model with `tlc -config MCSessions.cfg MCSessions`, check a proof with
`tlapm SessionsProofs.tla`.

## 1. The system

The repository holds four programs that share no state with one another.

| | program | state | concurrency |
|---|---|---|---|
| A | `auth-service-main/biometric-auth` | in-memory maps of users, devices, sessions, challenges, audit entries; a rate-limit table | one goroutine per request, cleanup goroutine |
| B | `auth-service-main` (main service) | local identity map, OTP map under a mutex, external idempotency store | one goroutine per request |
| C | `auth-service-main/docs/legacy-auth-engine-v2` | PostgreSQL rows (users, sessions, audit), Redis keys (OTP, limits) | one goroutine per request, scheduled worker |
| D | `access-control-service` | PostgreSQL rows (users, roles, permissions, grants), NATS events | one goroutine per request |

### A. biometric-auth

* **Sessions and refresh tokens** (`service/token.go`, `service/auth.go`). State:
  a record per session with its status, owner and the hash of its current refresh
  token. Operations: `createSession` (end of a login), `RotateRefreshToken`,
  `ExchangeBiometricToken`, `Logout`, `LogoutAll`. Correct when a rotated token is
  worthless, a replay ends the session for good, an honest client is never
  condemned, and an ended session never comes back.
* **Devices and challenges** (`service/device.go`, `service/biometric.go`). State:
  a map from device id to a record (owner, status, key, rooted) and a map of
  challenges (device, action, used, expiry). Operations: `RegisterDevice`,
  `ValidateDevice` (the middleware), `GetChallenge`, `Enroll`, `Authenticate` with
  `UpdateLastSeen`, `StepUp`, `RevokeDevice`. Correct when a key works only for
  the user who enrolled it, a challenge works once, and a revoked device stays
  revoked. The second and the third do not hold when requests race (section 4).
* **Login lockout** (`Login`, `handleFailedLogin`). State: `FailedAttempts`,
  `LockedUntil` and `Status` of the account. Correct when an account is locked only
  for cause and the number of passwords that can be tried is bounded.
* **Rate limiter** (`middleware.go`). State: count and window start per client
  address. Operations: `Limit`, `cleanup`. Correct when a client gets no more than
  its budget and removing old entries is invisible.
* **Step-up and payment**, **OTP** (a placeholder that accepts), **crypto**,
  **audit**, **configuration**.

The parts interact by direct calls and, what matters, by sharing records: every
in-memory repository locks only inside `GetByID`, `Store` and `Update` and hands out
the *pointer* it stores. Between those calls handlers read and write the same
record with no lock held, and `Update` re-files the pointer it is given. That is
where the hard behaviours are: check-then-act on `Status`, `RefreshToken`,
`UsedAt`; a lost `FailedAttempts++`; a stale pointer filed over a newer record.
(`biometric.go` names `domain.EnableBiometricParams`, which is declared in the
service package; the models take the call as it is meant.)

### B. Main auth service

* **Accounts and tokens** (`auth_service.go`, `local_identity_store.go`, `jwt.go`).
  State: a map of accounts by email, in memory; the tokens are signed and stored
  nowhere. Operations: register, login, refresh, a `Logout` that does nothing, me.
* **Verification** (`verification_service.go`). State: one-time codes and the
  service's own log, under one mutex. Operations: `CreateOTP`, `VerifyOTP`,
  `VerifyFace`, a pure `EvaluateRisk`, a listing.
* **Idempotency** (`idempotency.go`). State: a record per key, kept by a library.
  The middleware runs in front of every handler: evaluate, handler, complete.

Hard: a handler that outlives its lock or its record and whose answer is stored for
another request; a replay that looks the record up twice; a `Complete` that is lost with its client; a restart, which forgets
the accounts and not the tokens. Correct when a key runs its handler once, a code
convinces one client, and a token opens the account whose password was proved.

### C. Legacy auth engine

* **Accounts** (`auth/service.go`, `admin/handler.go`, `repository/user.go`). State:
  the row of `users` and of `oauth_providers`. Operations: register, password and
  OAuth login with lockout, MFA with backup codes, password reset, the
  administrator's status, lock, unlock and delete.
* **Sessions** (`repository/session.go`, `worker/scheduler.go`). State: the rows of
  `sessions`. Operations: issue (with a limit), refresh, logout, logout-all, the
  cleanup worker.
* **One-time codes** (`otp/service.go`, `repository/stores.go`) and the **sliding
  window** of `middleware.go`, both in Redis.

Hard: `Update` is a gorm `Save`, which writes every column of a copy of the row that
may be old; the session limit is tested before the insert; `IncrAttempts` and
`MarkVerified` write keys nobody reads; a pipeline is no transaction and is sent any
time after its stamp was read; errors of the counting, locking and spending statements
are dropped; a request can end between any two statements. Correct when decisions about an account last, limits
hold up to a known excess, a backup code works once, and the newest code can be used.

### D. Access control service

`application/access/service.go`: users, roles, permissions, grants, role
assignments and `Check`, each one SQL statement followed by a published event
whose error is dropped, under a ten-second `http.TimeoutHandler`; `bootstrap/app.go`
closes the event connection before it waits for the requests under way. Hard: a
crash, a timeout or a failed publish between the two, events in another order than
writes, a statement or a client's body that hangs during shutdown. Correct when
subscribers know nothing that is not in the rows, when it is known what makes them
disagree, when permissions come only from grants and assignments, and when a shutdown
waits for the clients and for nothing else.

## 2. The plan

Most important first. All nine steps are done.

1. `Sessions`, refining `SessionLifecycle`; `SessionsProofs`.
2. `Devices`; `DevicesProofs`.
3. `LoginLockout`.
4. `RateLimiter`, refining `WindowLimiter`, on the same `Clock`; `LoginLimitsProofs`,
   about both.
5. `BearerAccess`: the sessions' tokens, the clock and the routes' middlewares, with
   step-up and payment; `BearerAccessProofs`.
6. `LegacyAccounts`: accounts and sessions over rows, with whole-row saves;
   `LegacyAccountsProofs`.
7. `LegacyOTP`: the codes and the sliding window in Redis; `LegacyOTPProofs`.
8. `AccessControl`, refining `PermissionRelation`: rows, events, timeouts, shutdown
   and crashes; `AccessControlProofs`.
9. `MainService`: accounts, tokens, one-time codes and the idempotency middleware in
   front of them; `MainServiceProofs`.

Left: an instance of `LegacyAccounts` with three requests at once,
which is beyond what TLC explores in minutes; the API keys and the face enrolment of
the legacy engine, if they get a caller that makes more than one write of them; a
bound on the guesses per one-time code of the legacy engine, once its counters are read.

## 3. The modules and the code

Data is abstracted to what the properties tell apart: ids and random values are
numbered in the order in which they are drawn, a hash equals a stored one only for
the same token, a signature is right or wrong, a password is right or wrong.
A request that is refused and writes nothing is a stuttering step. Audit entries and
logging are left out: no decision reads them.

**`Sessions`.** `status`, `owner`, `current` are the fields `Status`, `UserID` and
`RefreshToken` of the session records; `pair` holds the claims in every token pair
issued, `expired` the tokens past `Exp`, `req` the refreshes in flight.
`RotateRefreshToken` is split where other goroutines can come in between:
`RotateCheck` (verify, device, status), `RotateCompare` (the hash), then
`RotateCommit` (new pair, new hash), `RotateFail` (no randomness) or
`RotateRevokeFamily`. A fresh pair is private to its goroutine until the handler
returns, so drawing it and storing its hash is one step. `createSession`,
`ExchangeBiometricToken`, `Logout` and `LogoutAll` are one step each: each changes
shared session state by one field write or under one hold of the lock. `presented`
and `exchanged` are history for the properties.

**`SessionLifecycle`** is what that amounts to: a session is created once, active,
and once ended never active again. The refinement mapping is the identity on
`status`.

**`Devices`.** `entry` is the repository's map and `rec` the records it points (or
pointed) to, so a request can hold a pointer to a record that has been replaced.
A handler is split at each lookup and each shared write: `EnrollCheck`,
`EnrollConsume`, `EnrollVerify`, `EnableLoad`, `EnableStore`; `AuthLoad`, `AuthCheck`,
`AuthConsume`, `AuthVerify`, `TouchLoad`, `TouchStore`; `RevokeLoad`, `RevokeStore`.
`Refuse` is every early return. The assignments to a record's fields and the
`Update` that files it again are one step. The middleware also guards
`Authenticate`, `Enroll` and `RevokeDevice`. The action "step_up" stands for every action string
other than the two the handlers ask for. `consumeChallenge` is two steps: all tests,
then the write of `UsedAt`. `accepted` and `racers` are history: how often a challenge
was accepted, and how many requests were between the test and the write when it was
first marked.

**`LoginLockout`.** One account. A login is the lockout test, the password check,
then either the read of `FailedAttempts`, its write, and the test of the limit, or
the two writes of the reset. `LockedUntil` is tested for nil and then dereferenced;
if a reset comes in between, the handler panics, the router recovers, and nothing is
written, which is a refused login. `streak` counts the wrong passwords since the
account was last locked or reset. **`Clock`** is the time it shares with the limiter.

**`RateLimiter`.** `Limit` holds the mutex throughout, so its two outcomes,
`LimitNewWindow` and `LimitCount`, are one step each; `cleanup` too. The code runs
cleanup every five minutes; the model lets it run at any time, which includes that.
`admitted` is history: the requests let through, by client and tick. The
specification is called `LimiterSpec`, so that one module can reason about it and
about the lockout.
**`WindowLimiter`** is the same limiter with no table: the mapping computes what is
left of a client's open window from its entry.

**`BearerAccess`** asks how long the holder of a session's tokens gets in once the
session has ended. Requests are served in steps and the clock runs between them. A
refresh is `RotateCheck` (the token and the session's status), `RotateCompare` (the
hash), `RotateIssue` (the pair, stamped with the time it is then) and `Store` (the new
hash; the client holds the pair), or `RotateRevokeFamily`. On every other route
`Authenticate` stands for the middlewares, which look at the access token and the
device's record and never at the session, and the handler runs later: `Logout`,
`LogoutAll`, `ExchangeBiometricToken`, `PostPayment` behind `RequireStepUp`, or
`Answer`. What the device middleware and a biometric proof decide is left open, since
device records and challenges are the subject of `Devices` with all their races: the
model lets both outcomes happen. `ended`, `overtaken` and `renewed` are history: when a
session left the status active, how many refreshes had passed the test of its status and
issued nothing yet at that time, and which ended sessions `ExchangeBiometricToken` gave
new tokens to.

**`LegacyAccounts`.** One account: `row` is its row of `users`, `linked` whether
`oauth_providers` names it, `sess` the rows of `sessions`. A request in `req` holds
the copy of the row it loaded. Every SQL statement is a step: login is `LoginLoad`,
then `LoginWrong` and `LoginLock`, or `LoginRight`; `issueTokens` counts (`IssueCount`)
and inserts (`IssueCreate`); every whole-row write is `Save`; a second statement such
as the revocation after a reset is `RevokeAfter`. `Abandon` ends a request between
any two of them, and `ErrorDropped` is a statement that fails where the code drops the
error and goes on: the increment, the lock and the reset of the count (`service.go:183`,
`:186`, `:192`), the save of a spent backup code (`:597`), the count of the sessions,
which then reads 0 (`:514`). A session remembers whether its login got its count. The
administrator may write any status: `admin/handler.go:122` has a `validate` tag, which
gin does not enforce, so the values are the constant `AdminStatus`.
A Save decides the columns its operation is about (`SaveDecides`), and `fresh` and `stale` record whether it overwrote what another request wrote.
`main.go` of the engine injects nil repositories; the model takes the repositories
its comments name.

**`LegacyOTP`.** One purpose and one client address, several recipients. `zset` is the
limiter's sorted set, whose members are milliseconds. A request reads its clock
(`LimitStamp`), and any time later Redis runs the commands of its pipeline, among those
of others: `LimitTrim`, `LimitAdd`, `LimitCount` (with the expiry). So stamps reach Redis
late and out of order. `LimitFailOpen` is a Redis error. `Send` lists the keys, deletes
them (or fails to, its error dropped), and stores; `Verify` loads and compares, and
`ResetPassword` does so without a limiter. The counters written by `IncrAttempts` and
`MarkVerified` are read by nobody and are no state. `passed`, `newest` and `dropped` are
history.

**`AccessControl`.** `db` is the rows, `told` what a subscriber that applies every
event has. `arriving` are the requests whose client has still to send some of the body:
`Accept` reads the headers, `Arrive` is the rest of the body or the end of the
connection, and `Decode` (or `DecodeFails`) is the handler's reading of it, which may be
over before the rest has arrived. Then come `Write` (or `WriteFails`, or `WriteUnseen`:
committed, but the caller is told it failed) and `Publish` (or `PublishFails`), with
`Timeout` beside them, which answers the client and leaves the body where it is; the process is
closed, stops when every client is answered and every body read (`Stop`), dies, and is
started again. `Check` reads the rows.
**`PermissionRelation`** is what that amounts to: a relation that only grows, by
one block of members times permissions at a time. The mapping computes the triples for
which `Check` says yes. (Locking a user is not read by `Check`.)

**`MainService`.** Accounts, codes, the log and the records are in memory and gone
after a `Restart`; `tokens` are not. A request is `Begin` (the middleware up to
`c.Next()`, which ends in `Pass`, `Lock`, `Refuse` or `Replay`), its handler, atomic
because each store has one lock, and `Finish` or `CompleteFails`. `Replay` is only what
`Evaluate` says; the answer is looked up in a second step, by the key alone, and is the
stored one (`ReplayCached`) or, when the record is gone by then, a status without a body
(`ReplayEmpty`, `idempotency.go:92`). A client chooses the life of its one-time code
(`AskedTTL`). The manager of
the records is a library that is not in the repository: what `Evaluate` answers, and
that a lock over its `LockTTL` can be taken over, is modelled from its configuration
and the middleware's use of it. `Fail` is never reached, since no handler answers 500.
A record that is stored keeps the payload it was opened for. `runs`, `takeovers`,
`given` (the answers given under a key, with the commands they were given to),
`outlived` (the keys on which a request outlived its record), `told` and `registered`
are history. `middleware.go` declares
`IdempotencyMiddleware` and `AuditMiddleware` a second time; the one of
`idempotency.go` is modelled.

Definitions whose comment begins "A slip" are mutated forms of the definition that
follows them, used only by the mutants of `PROJECT.json`.

## 4. The runs

| run | instance | shows |
|---|---|---|
| `sessions` | 2 sessions, 3 pairs, 1 user, 2 refreshes at once, 1 expiry; 193k states, fairness | `CurrentIsOwnToken`: no interleaving files one session's token under another; `SessionsRefinement`: late writes never revive an ended session; `NoFalseAlarm`, `NoTokenResurrection`, and that a detected replay leads to a session that is ended and stays ended (`ReplayEndsSession`) |
| `devices` | 1 device, 2 users, 2 requests, 2 registrations, 2 challenges; 180k states | `KeyBelongsToOwner` while a device changes hands; `ReuseNeedsARace`: a challenge is accepted again only by a request that had found it unused when it was first marked; `RevokedRecordStaysRevoked` |
| `lockout` | 3 logins at once, limit 2, 11 guesses; 385k states | `NoFalseLock`; `GuessBound`, the exact price of the lost updates |
| `rate_limiter` | 2 addresses, limit 2, window 2, 6 ticks; 57k states | `SlidingBound`: at most twice the limit in any window's length; `TableIsInvisible` |
| `bearer_access` | 2 sessions, 3 requests at once, 3 pairs, 2 ticks; 624k states | `LogoutGrace`: the access tokens of an ended session are over within `AccessTTL`, but for one of each refresh that had passed the test of the status by then, and for sessions a biometric exchange renewed |
| `legacy_accounts` | 2 requests at once, 3 in all, 2 sessions, 1 backup code, limits 1 and 2; 596k states | `DecisionsHold`, `CodeReuseNeedsARace`, `OldSessionsNeedARace`: only a Save of an old copy (or a reset cut short, or a login under way) undoes a decision; `GateHasSecret`: never MFA without a secret; `SessionLimit`, `WrongAnswersBound`: the exact excess of the two limits where the statements succeed |
| `legacy_otp` | 2 requests, 2 recipients, limit 2, window 3, 4 ticks, 2 codes; 2.1M states | `PassedInstants`: what the limiter bounds is stamps, not requests, whatever order they reach Redis in; `NewestCodeStands`: the deletes of others spare the newest code |
| `access_control` | 2 requests at once, 3 in all, 1 user, role and tenant, a permission and the wildcard; 389k states | `ToldWasWritten`, `SubscribersAgree`, `PermissionRefinement`, and that a shutdown ends even if the database hangs, as long as no client stalls for ever (`ShutdownEnds`) |
| `main_service` | 2 requests, 2 emails of one user ID, 2 passwords, 1 key, 1 code, 1 restart; 1.1M states | `KeyedOnce`: one run and one body per key, plus one for each lock that ran out, and one command; `ProvedForItsEmail`: what was proved for a token, and by whom it is held; `VerifiedOnce` |

`GuessBound` deserves a word. `FailedAttempts++` loses updates, so the limit is not
the number of wrong passwords a sequential test would count: with n logins at once
and limit m, as many as C(m+n, n) - 1 wrong passwords are tried before the account is
locked, and never more. For n = 1 that is m. TLC reaches the bound for n up to 3.
The property counts the set `HeldUp` of the ways in which logins can be held up between
the read and the write; that this set has C(m+n, n) elements is the assumption
`HeldUpCounted` of `MCLoginLockout`, which TLC evaluates for the run's limit.

Two more properties say less than their names may suggest. `PassedInstants` is about the
requests that have passed by a given time: one that is stamped in a window and passes
after it is over is not among them, so a window looked at long afterwards may turn out to
hold more stamps. And the exceptions for `outlived` keys in `KeyedOnce`,
`ProvedForItsEmail` and `VerifiedOnce` are needed: without them TLC finds a client that is
given the answer to another client's command, a token among them, because the second
lookup and `Complete` go by the key alone (for `VerifiedOnce` it takes a request more than
the run has: a cost of 16, with one email and one password). The run has one key; the
records of two keys do not meet.

Three runs compare the code with what its comments say, and fail:

| run | the comment | what happens |
|---|---|---|
| `single_use_rotation` | `token.go:101` "single-use token rotation" | two refreshes with one token compare before either writes; both get a pair |
| `revoked_device` | `device.go:109` "device can no longer authenticate" | a request that looked the device up before a login and a revocation files its old, active record with a key over the revoked one |
| `challenge_single_use` | `biometric.go:363` "(single-use)", `:391` "prevents replay" | two authentications with one challenge test `UsedAt` before either sets it; both are accepted |

Differences seen while reading that need no search are in section 6.

**Bounds.** Two requests are the smallest number that race, and every race found
needs two; the lockout run uses three because its bound grows with their number.
Two sessions are needed for one session's token to be filed under another, two users
for a device to change hands; three pairs are a session's first, its successor and a
racing or replaying one. Two records of one
device are what a stale pointer needs; a second device shares no record with the
first. Eleven guesses go past the bound of nine for three logins with limit two,
and the clock runs past a lockout. Six ticks hold three windows of two ticks, so
stretches over two windows and entries old enough to be cleaned up both occur, and
a count of three goes past the limit of two. In `bearer_access` a life of one tick for
access tokens and two for refresh tokens lets one expire while the other is good,
three pairs are a login, its refresh and an exchange, and three requests are two
refreshes and the logout that overtakes them. In `legacy_accounts` three
requests are two that race after one that prepared the account, and
limits of one session and two attempts are passed by two logins. In `legacy_otp` the
window is longer than a code's life, as configured, the clock runs past it, a limit of
two lets an older stamp count after a newer one, and two codes are an old and a
new one. In `access_control` three requests are two changes of one user that overlap
and one more, or a grant, an assignment and one more on roles and permissions that were
there before; a second user or tenant adds nothing to a race, because commands about
different rows commute. In `main_service` two emails that share a user
ID are what the local store's ids allow, the clock runs past a lock and a record,
and the cost of a request for a code is less than that of others, so that four of
them or three others fit. The proofs of section 5 do not depend on these bounds.

**Deadlock** is checked in the runs of `Sessions`, `RateLimiter` and `AccessControl`.
The other models bound the clock and the number of registrations, guesses or requests
made, so they can come to a rest the program does not have.

**Fairness.** In `Sessions` only `WF_vars(Rotate(r))`: a goroutine that has begun to
serve a refresh runs on to its end, as the Go scheduler guarantees and since no step
of it waits for anything but a briefly held lock. Nothing obliges a client to call or a
token to expire. In `AccessControl` weak fairness of `Timeout(r)`, the timer of
`http.TimeoutHandler`, and of `Stop`, the return of `Shutdown` once its connections are
idle; none of the database and the event server, which may hang for ever, nor of the
clients: the server sets no read timeout (`app.go:33`) and `Shutdown` gets no deadline
(`app.go:41`), so that no client stalls its body for ever is the premise of
`ShutdownEnds`, and not an assumption of the specification.

**Symmetry.** Users and requests (addresses in the rate limiter) are
interchangeable, and so are devices, sessions, challenges, codes and passwords where
the modules only compare them, and the two emails of `main_service`. The runs with a
liveness property use no symmetry.

## 5. The proofs

All hold for any number of sessions, devices, users, challenges and concurrent
requests, and any limits, given the named assumptions: `None` is not a number, a
user or a device, the bounds are naturals, the set of requests is finite where it is
counted, limit and window are positive.

* **`SessionsProofs`.** Inductive invariant `IInv`. `CurrentIsOwnToken` needs that a
  request in flight holds an issued token (`RequestsHoldTokens`) and that tokens
  name stored sessions. `NoFalseAlarm` is far from inductive: it needs that in a
  session with no exchange and no token presented twice, every token but the
  current one has been presented and its request is over, so that a mismatch is
  impossible there. Theorems: `TypeCorrect`, `OwnTokenAlways`,
  `AlarmsAreJustified`, the action property `ReplacedForGood`, and `Refinement`
  to `SessionLifecycle`.
* **`DevicesProofs`.** `KeyBelongsToOwner` follows from: entries point to stored
  records; an admitted request has a device with an entry; the pointer a request
  holds is stored and, where it is about to write or use a key, to a record of its
  own user; owners never change. `ReuseIsBounded` rests on `RaceInv`: an unmarked
  challenge has not been accepted, and the acceptances of a marked one plus the requests
  that found it fresh and have not marked it yet are at most the `racers` of its first
  mark, since nobody finds it fresh any more. Theorems: `TypeCorrect`,
  `KeysAreNeverShared`, `RevocationIsFinal`, `ReuseIsBounded`.
* **`LoginLimitsProofs`.** `NoFalseLock` from `CountIsJustified`: neither
  `FailedAttempts` nor a value read from it exceeds the wrong passwords tried.
  `GuessBound` from `FewGuesses`. The logins that hold a read they have not written yet
  are a staircase (`Holding`: how many hold a read of at most w), a member of `HeldUp`.
  `Seen` is the set of staircases that are behind the present one in the order in which
  the lowest reads count first, and `FewGuesses` says that it has more members than
  there were wrong passwords. A wrong password adds a read of the present count, which
  puts one more staircase behind (`GuessIsNew`); a write gives back a read and makes the
  count one more than it, which leaves all that was behind (`SeenReleased`, `SeenUp`),
  even when it sets the count far back. At the limit the logins that have counted and
  can now only lock are still held (`Held`), since another's late write may take the
  count down again before they look. `LimiterRefinement`: every step of
  the table is a step of `WindowLimiter` or a stutter, cleanup always a stutter; it needs
  that windows were opened in the past (`OpenedInThePast`). `SlidingBound` from
  `WindowsInv`: every client has a last window, known from its entry or over
  (`LastWindow`, which survives the removal of the entry), with at most `limit` passes
  in it and none after it, and a stretch of a window's length that reaches its start has
  at most `limit` passes before it, because it meets one earlier window at most.
  Theorems: `TypeCorrect`, `LocksAreJustified`,
  `GuessesAreLimited`, `LimiterTypeCorrect`, `LimiterRefinement`, `AtMostTwice`.
* **`LegacyOTPProofs`.** `PassedInstants` needs that no stamp is of the future
  (`NoFuture`), so that a request that trims by its own stamp removes nothing that is
  still in the window, and with it that every stamp that passed and is still in the
  window is in the sorted set, whose key does not expire before it (`PassedKept`); then
  the count a request reads includes all of them. `NewestCodeStands` from
  `NewestOrStoring`: whoever deletes the newest code is about to store its own. Theorems:
  `TypeCorrect`, `LimiterBounds`, `NewestStands`.
* **`BearerAccessProofs`.** `LogoutGrace` counts: in an ended session that no exchange
  renewed, the late tokens that clients hold, plus those that refreshes past the test of
  the status hold or may still issue, are at most `overtaken` (`Grace`). It needs that
  tokens, held by clients or by requests, name sessions that were created and were issued
  by now (`Held`), and that the pair of an exchange under way that did not renew the
  session is no later than its end (`Exchanging`). Theorems: `TypeCorrect`, `LogoutEndsAccess`.
* **`AccessControlProofs`.** `ToldWasWritten` needs that what is about to be published
  is in the rows (`PublishedIsWritten`), which holds because no row is ever removed.
  `SubscribersAgree` is not inductive: while events are under way, every row that is
  not told has its event due, and the status a user without overlapping changes will
  have once the due event is applied is that of the row (`RowsAreTold`, `StatusIsTold`).
  `Refinement`: every statement adds one block to what `Check` allows, everything else
  is a stutter; a lemma per statement names the block. Theorems: `TypeCorrect`,
  `EventsTellTheTruth`, `Agreement`, `Refinement`.
* **`LegacyAccountsProofs`.** The core is `CopiesInOrder`: a fresh copy agrees with the
  row but for what its own request changed, and copies, fresh or not, have a secret
  where they have MFA. From it and `Recorded` (what was decided is in the row unless
  a stale Save came by), `NothingBefore` and `OldAwaitReset` follow the properties about
  decisions, codes and old sessions. The two limits count: sessions whose login got its
  count plus those about to be created, wrong answers plus the logins that loaded a count
  below the limit (`AnswersBounded`). A statement that fails leaves the row alone and is
  not counted, which is the exception the properties name. Theorems: `TypeCorrect`,
  `DecisionsAreKept`, `TheGateIsReal`, `CodesAreSpent`, `SessionsAreLimited`, `AnswersAreLimited`,
  `OldSessionsAreRevoked`.
* **`MainServiceProofs`.** Each of the nine handlers is first shown to have one shape
  (`HandlerShape`), and each of the ways of replaying another (`ReplayShape`). `KeyedOnce`
  counts the runs still to come and the bodies still to be given (`Keyed`), and needs that
  a key's record, the requests about to answer and those answered are about one command
  (`SameCommand`) with one status (`Statused`), unless a request outlived the record.
  `ProvedForItsEmail` needs that every token was issued for an account whose passwords
  were registered for its email (`Issued`, `Chained`, `OneAccount`), and that the tokens
  in requests, records and clients' hands are those the commands prove (`OwnTokens`).
  `VerifiedOnce` needs that all that says a code is verified comes from one request
  (`OneHolder`) and that the log follows the marks (`Logged`). Theorems: `TypeCorrect`,
  `KeysRunOnce`, `TokensAreProved`, `CodesConvinceOnce`.

Only model-checked: `ReplayEndsSession` and `ShutdownEnds` (liveness, which needs
`ENABLED`), and that `HeldUp` has C(m+n, n) members (a binomial coefficient, which needs
an induction over data). Every invariant and every other action property or refinement
that a run checks is proved.

## 6. What is not modelled

Cryptography, key formats and password hashing (decisions enter as choices); HTTP
decoding, headers, logging, wiring, health, metrics and configuration loading; audit
logs, which no decision reads; password rules; pure functions such as `EvaluateRisk`.
Calls to outside services (OAuth, face, messaging, payment providers) enter as what
they may answer. Code with no caller: `authengine.go`, the token bucket and the
fixed window of `pkg/ratelimit`, `LimitByUser`, `DeleteExpired` (so used challenges stay
in the map, which changes no outcome), `RemoveRole`, the
servicecore bundle of the access control service; the gRPC identity client is not
wired in. API keys and face enrolment of the legacy engine are single-row writes.
biometric-auth's OTP keeps no state.

Some things the code does differently from what is said of it show on reading and
need no search; the models follow the code:

* `Enroll` verifies a signature over the challenge's id (`biometric.go:161`), where
  `biometric.go:118` and `mobile_integration.go:292` tell the client to sign the nonce.
* The legacy login compares a TOTP with the encrypted secret (`auth/service.go:199`;
  it was encrypted at 373-378), so codes of an app do not pass there.
* The documented step-up flow (`mobile_integration.go:319-340`, `main.go:93`,
  `biometric.go:321-322`) cannot begin: `/payment/authorize`, the only route that issues a
  step-up token, is behind `RequireStepUp`.
* Revoking a device touches no session, where `device.go:94` says "all sessions on it
  become invalid".
* A backup code is accepted also when the save of its removal fails
  (`auth/service.go:597`), where the legacy README, line 162, says one-time use.
* The legacy engine counts the wrong guesses of a one-time code in keys that nobody reads,
  so `max_attempts` and `ErrOTPMaxAttempts` (`otp/service.go:98`) never apply.
* The `validate` tag of `admin/handler.go:122` is not enforced; any status is accepted.
* The legacy refresh does not rotate (its README, line 161, says "rotated on use").
* `MaxDevicesPerUser` is configured and never enforced, and the biometric audit listing
  pages the oldest fifty entries.
* Replayed and refused requests of the main service end before `AuditMiddleware`.

The Go memory model allows more than interleavings of whole reads and writes of a
word in a data race; the models interleave those, which is what the build produces
for pointers, integers and strings short of tearing.
