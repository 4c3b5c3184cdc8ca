# A formal model of go-production-boilerplate

TLA+ specifications of the Go API in this repository, TLC configurations that
model-check them on small instances, and TLAPS proofs of the theorems that
matter most.  Paths below are relative to `go-production-boilerplate/`.

## 1. The system

An HTTP API (`net/http`) over PostgreSQL: registration, login with JWT access
tokens and rotating refresh tokens, e-mail verification, password reset,
profile and avatar, and user administration.  The server keeps almost no state
of its own; what makes it hard is that every request runs on its own goroutine
and talks to the database in several statements, most of them outside of any
transaction.

### Inventory

| Component | State it keeps | Operations | Talks to |
|---|---|---|---|
| Database schema and repositories (`migrations/`, `internal/repository/`) | tables `users`, `refresh_tokens`, `email_verification_tokens`, `password_reset_tokens`; row locks | one SQL statement each; `Rotate`, `consume` and the `Create…` of the one-time tokens are transactions | every service |
| Transactions (`internal/database/transaction.go`) | the open `*sql.Tx` | `WithTx`: commit, or roll back on an error | repositories |
| AuthService (`internal/service/auth_service.go`) | none (Go variables between statements) | Register, Login, Refresh, Logout, LogoutAll, VerifyEmail, ResendVerification, ForgotPassword, ResetPassword | repositories, mailer, JWT |
| UserService (`internal/service/user_service.go`) | none | GetMe, UpdateProfile, ChangePassword, UpdateAvatar, DeleteAvatar | repositories, storage |
| AdminService (`internal/service/admin_service.go`) | none | ListUsers, GetUser, SetStatus, SetRole, DeleteUser | repositories, storage |
| Authentication middleware (`internal/middleware/auth.go`, `role.go`) | none: the JWT's claims and the user's row decide | RequireAuth, RequireRole | users |
| Handlers and routes (`internal/handler/`, `internal/app/routes.go`) | none; the refresh token is a cookie at the client | decode, call the service, answer | services |
| Rate limiter (`internal/middleware/rate_limit.go`) | a map of counters under a mutex, a ticker | `allow`, `cleanup` | every route behind it |
| Avatar storage (`internal/storage/`) | files on disk or at Cloudinary | UploadImage, Delete | UserService, AdminService |
| User listing (`internal/query/`, `UserRepository.List`) | none | Parse, Offset, NewMeta, COUNT + SELECT | AdminService |
| Process lifecycle (`cmd/api/main.go`, `internal/app/app.go`, `internal/database/postgres.go`) | the pool, the listener, the error channel, the signal | start, serve, drain, exit | everything |
| Request timeout (`internal/middleware/timeout.go`) | the context's deadline | cancels every statement of a request | everything |
| Seed command (`cmd/seed/`) | none; another process | one upsert | users |
| Passwords and random tokens (`internal/security/`) | none | Hash, Compare, RandomToken, HashToken | services |
| Mailer (`internal/mailer/`) | one SMTP conversation per Send, its deadlines | `SMTPMailer.Send`, `LogMailer.Send` | AuthService, a mail server |
| Configuration (`internal/config/`) | none after the start | MustLoad: read, trim, default, check | process, storage, mailer |
| Validation and errors (`internal/dto/`, `internal/apperror/`, `internal/httpx/`) | none | DecodeJSON, Validate; JSON, Success, Error | handlers |
| Other middleware (`request_id.go`, `recover.go`, `logger.go`, `security_headers.go`, `cors.go`, `chain.go`) | one `statusWriter` per request | a layer each, down and up | every request |
| Health (`internal/handler/health.go`) | none | Liveness, Readiness (a ping) | the pool |
| Migration command (`cmd/migrate/`) | the migration table of golang-migrate | up, down | the schema |

The parts meet in four places.  *Calls*: the middleware call handlers, these services,
these repositories, mailer and storage, all on the request's goroutine.  *The database*:
what requests know of each other is in its tables and row locks.  *The pool*: every
statement borrows a connection.  *The browser*: several requests of one user share the
refresh cookie, and their answers overwrite each other's.

### What is hard in it

*Requests interleave between any two statements.*  A login compares a password
and inserts a session later; in between a password change can revoke "all"
sessions.  `RevokeAllForUser` is one UPDATE, and an UPDATE sees the rows of its
snapshot.  Only `token_version`, read at the beginning and stored with the
token, makes these interleavings harmless.
*Row locks.*  Rotation locks the token and then the user; deletion locks the
user and then, through the cascades, the tokens: the two deadlock.
*Several steps without a transaction.*  One-time tokens are spent in one
transaction and their work is done in a later statement; avatars live in two
stores; the listing counts and selects in two statements.
*Stale checks.*  The checks of RequireAuth and the `actorID == id` checks
of the administration are made when the request arrives.
*The pool.*  A request that waits for a row lock keeps its connection; if what would
release the lock had to wait for the pool, the server would stand still.
*The cookie.*  Tabs refresh and log out at once; answers are late, reordered or lost,
and each of them may set or clear the cookie.
*The mail server* may be silent at every command, or take a message over and then
fail.
*Layers.*  What a client gets depends on the order of seven middleware, on what was
written before an error or a panic, and on who had to count, authenticate and set a
deadline before.
*Clocks.*  The limiter reads the clock before it waits for its mutex.
*Configuration.*  Rules for production depend on how twenty variables are written.
*Shutdown.*  The drain (10 s) is shorter than the request timeout (20 s).

`PROJECT.json` lists these hazards with their lines and the properties that
would show them going wrong.

### What makes the components correct

* Sessions: what was obtained with an old password is worthless once the
  password has changed; of the tokens of one login one at most is good; a token
  that died stays dead.
* One-time tokens: spent once, however many requests present them together.
* Accounts: one per address; nothing survives its user; there is an
  administrator as long as administrators do not race; nobody gets a session
  without having confirmed the address.
* Requests: each is answered, deadlocks included.
* Limiter: never more than the limit per window, never a refusal before it.
* Avatars: a profile never links to a file that is gone; a file is left over only for something
  that went wrong, one for one.
* Listing: the pages together show everyone, and nobody twice, from any page on, but for one
  user per write that moves rows meanwhile.
* Pool: who waits for a connection holds nothing; a pool that is lent out moves.
* Browser: a logout lasts unless a late answer undoes it, what it revoked stays dead, a session
  survives refreshes, a dead cookie goes.
* Mailer: no password in the clear, success only for a mail that was handed over, and an
  answer in time from a server that says nothing.
* Layers: the log has what the client got, refusals are readable in a browser, a handler
  runs only behind its guards, everybody is answered.
* Process: only a checked configuration listens, status 0 means that nothing was cut off,
  a signal ends the process.

## 2. The modules

```
Database ← Requests ← AuthService ← AdminService ← Api ← ApiInvariant ← MCApi (TLC), ApiProofs (TLAPS)
                                                    SessionProofs (TLAPS) EXTENDS ApiProofs
SessionTable  ···· implemented by Api, and the server of BrowserSession ← BrowserProofs
MailTransport ···· implemented by SmtpMailer ← SmtpProofs
Configuration ← Lifecycle ← MCLifecycle (TLC), LifecycleProofs (TLAPS)
ConnPool, UserListing ← RepositoryProofs      RateLimiter, Pipeline ← MiddlewareProofs
AvatarStore ← MCAvatarStore (TLC), AvatarProofs (TLAPS)
```
(← EXTENDS; ···· INSTANCE)

**Database** holds the tables and one operator per SQL statement.  A table is a
function from all keys to records; `st` tells a row that is not there yet from
one that is and one that was deleted.  `family`, `cred` and `uses` are history
variables: the login a token descends from, the password that login presented,
and how often a one-time token let a request through.  Constraints of the schema
are guards (`EmailTaken` for the unique index, `Insertable` for the foreign
keys) and `DeleteCascade` is the ON DELETE CASCADE.

**Requests** is the concurrency: `req[r]` is a goroutine, `pc` the statement it
will send next, the other fields its Go variables.  An action is one statement
and the Go code up to the next one.  Row locks are not a variable: who
holds what follows from where the requests stand (`LocksToken`, `LocksUser`,
`LocksOnce`), which is what "until the end of the transaction" means.
`RevokeAllForUser` is two steps, the snapshot and the write, since rows that are
committed between the two escape it.  `Abort` ends a request at any statement:
an error of the database, the timeout, a client that went away, a crash of the
process, a token that has expired.  What was committed stays.

**AuthService**, **AdminService** translate the services, method by method, in
the order of their statements; ChangePassword and `cmd/seed` are with
AdminService.  A claim of a JWT is a record in `access`, which only grows, as
JWTs cannot be taken back; `held` is what clients know of refresh tokens.
A mail is nothing but the existence of a token that clients may present.

**Api** says which route runs what (`Arrive`), how a request goes on
(`Proceed`), and states the properties.  `Kinds` chooses the routes of a run;
the proofs hold for all of them together.  `SignedIn` are the users whose access tokens were
issued before the run, which lets a small run begin in the middle of things.

**SessionTable** is the abstract specification: each user has a set of live
tokens; a login that proved the password after the last "kill all" adds one, a
rotation exchanges one, nothing else adds, and the dead stay dead.  There are no
versions, locks, snapshots or statements in it.  `Api` implements it with
`live` = the tokens Rotate would accept, `dead` = the other tokens ever issued
and `pending` = the logins whose version is still current.

**RateLimiter** models `allow` (two steps: the clock is read before the mutex is
taken) and `cleanup` with its ticker.  `spent` is the counter that never forgets
before a window is over, against which the map is compared.

**AvatarStore** models the row and the storage provider, with a request's copy
of the row, failed statements and uploads, those that are carried out and lose their answer,
the deadline that makes the compensation fail, and death at any point.  `mishaps` counts what
befell the requests of a user: a beginning beside another request, an expiry, a death, a
lost answer.

**BrowserSession** puts a browser in front of SessionTable: the handlers of
`internal/handler/auth.go` turn answers into Set-Cookie headers, the tabs share a jar, a
request takes the cookie of the jar when it is sent and the jar that of the answer when it
arrives.  The server's steps are actions of SessionTable, so what Api implements is what
the browser talks to.  `active` is users.is_active, and `overtaken` are the rotations whose
token_version is no longer the user's: after Rotate the service looks at these two, and not at
whether the new token has been revoked meanwhile.  `Elsewhere` is what others do to the user:
a logout-all or a deletion moves the version (`SessionsEndElsewhere`), SetRole and SetStatus only
revoke what there is (`RevokedElsewhere`), so that a login in flight keeps its session.  `parted`,
`out`, `late`, `signedIn` and `calm` are history: what was presented to logouts, whether the
answer to one came and was undone, by whom it could be, and whether anything went wrong.

**ConnPool** abstracts all routes to what they borrow: `Program` gives for each the
sequence of its units, a statement or a transaction with the rows it locks in their
order, or a call outside of the database (bcrypt, SMTP, Cloudinary), for which no connection
is held.  `sql.DB` lends at most `MaxOpenConns`; PostgreSQL ends cycles of lock waits.

**Pipeline** is the order of `app.New` and `registerRoutes` as data (`Root`, `Route`) and
one action per layer: a request goes down, answers somewhere, and comes up by returns or
by a panic.  `headers` is `w.Header()` and `sent` what left, since net/http sends the headers of
the first WriteHeader and ignores later ones; `recorded` is the statusWriter's field, which
remembers the last.  `Chain` is the order in which the wrapped handlers are entered: the
middlewares, then the handler.  The counters stand for the limiters, `NewWindow` for RateLimiter.

**MailTransport** is the promise of the Mailer interface: a message is handed over once at
most, success means that it was, an error leaves it open.  **SmtpMailer** is `Send` command by
command with the deadline of the dial and of the connection, the context's, a server that
answers, refuses, breaks or says nothing, and LogMailer beside it.  An SMTP_TIMEOUT of 0, which
config.go accepts, is no timeout for the dialer (`DialDeadline`) and one that has passed for
SetDeadline (`ConnDeadline`): no mail can be sent with it.  SmtpMailer implements
MailTransport with `sending` = a Send that has not returned.

**UserListing** is a client that walks the pages from any page until `hasNext` is false while
others write.  A row is its `key`, the value of the sort column, with 0 for one that does not exist
or does not match the filters; ties are broken by the id, as in the SQL.  `Insert`, `Update` and
`Delete` are a row that appears, moves or goes, at any place: the sort column may be `updated_at`,
which every UPDATE of a user moves, the name or the role, and even by `created_at` a
row can appear in front of others that are older, as the time is that of the INSERT's beginning.  The offset is
computed in an int of `-(MaxInt+1)..MaxInt`, which wraps.  `walk.got` counts how often each user was
shown; `stayed`, `earlier` and `moved` are who was on the walk's pages when it began, who in front of
them, and who was written since; `pushes` and `pulls` count the writes that moved rows of others back or forward.

**Configuration** has a variable of the environment as a word and the way it is written
(plain, padded with blanks, in upper case, blank): `TrimSpace` and `ToLower` are what the
readers of config.go do to it, which is not the same for all variables.  `Acceptable` are MustLoad's checks,
`Built` those of `storage.New` and `mailer.New`.  **Lifecycle** is `main` and `App.Run`:
it loads an environment, connects, builds, serves and drains, with the listener's
goroutine, the connections and signals.

Line by line correspondence: `map` in `PROJECT.json`.

## 3. The runs

| Run | Question | Instance |
|---|---|---|
| `sessions` | Do logins, rotations, logouts, password changes, resets and the seed command of one user, in every interleaving, keep one good token per login, cut off everything older, spend a reset token once, and implement the abstract session table? | 1 user, 2 passwords, 3 tokens, 2 reset tokens, 2 requests, 2 versions |
| `admins` | Does deletion leave anything behind? Can the last administrator go, and only by a stale request? Is the invariant of the proofs an invariant? Is every request answered although rotation and deletion deadlock? | 2 administrators, one signed in from before (`SignedIn`), 2 tokens, 2 requests, fairness |
| `registration` | Do racing registrations, mails and deletions keep addresses unique, and sessions behind a confirmed address? | 2 users, 3 spellings of 2 addresses, 2 tokens, 3 verification tokens, 2 requests |
| `browser` | Do logouts last and sessions survive while tabs overlap and answers get lost? Does a dead cookie go? | 2 tabs, 2 tokens, fairness; 181 356 states |
| `pool` | Can a pool that is lent out completely stand still? Is everybody served? | 3 requests, 2 connections, 5 routes that have every kind of unit and the deadlock, fairness |
| `pipeline` | What do client and log get from every route, caller, error and panic? | limits 2 and 1, every kind of route, fairness |
| `limiter` | Does the fixed window hold with late calls and cleanup? | 2 addresses, 2 calls, limit 2, clock to 8 |
| `smtp` | Is the password safe, the report true and Send back in time, whatever the server does? | SMTP_TIMEOUT 0 and 2, contexts with 0, 1, 3 or 9, fairness; 1 458 states |
| `avatars` | Do overlapping uploads and deletions keep the linked file, and leave no more over than went wrong? | 2 users, 3 files, 3 requests, 2 mishaps per user; 863 830 states |
| `listing` | Does the walk show everyone, once, from any page on, but for one user per write that moves rows? | up to 3 users, 2 values of the sort column, 2 writes that move others, ints up to `MaxInt` = 31, limits and pages missing, small, too large, and with an offset that wraps to a negative or to another page; 467 465 states |
| `lifecycle` | What can a listening server be sure of? Does status 0 mean a clean end, and does a signal end the process? | every way to write what the rules look at, numbers at their boundaries and beyond (image limits that wrap), 2 connections, fairness; 256 404 states |
| `stale_write` | README.md:285 says invalidated sessions stop "immediately": is a password ever written for one? | finding, below |

**Why these bounds.**  Each hazard of the sessions is a race of two requests.  A rotated
token is a second row of its family and the race of two rotations a third; two
passwords tell old from new, and a password change and a reset after it need two versions.
Two users are the least for a deletion or a demotion by another.  Rows, tokens and
versions are finite; a request only starts when the rows it may need are free (`SpareToken`,
`SpareReset`, `SpareVerif`, `SpareVersion`, `SpareRow`), so that no request in flight is ever
stopped by a bound, which matters to `RequestsFinish`.  Three requests on two
connections are the least for a pool with a holder, a waiter for its lock and a waiter for
the pool.  The requests of Pipeline only meet in the two counters, and NewWindow and an
arrival after a finished request move these as others would: one slot is enough.
Three requests of avatars are one that overlaps two others, and two mishaps per user let a
request that has lost a step meet one that overlaps it.  Three users on pages of one or more let
rows move over the end of a page before and after it was fetched, in both directions;
a second write undoes or repeats what the first has done.
`MaxVersion` bounds `token_version`, `MaxTime` the clocks, `MaxUser` and `MaxKey` the table of
the listing, `MaxShifts` the writes during a walk, `MaxMishaps` what goes wrong for a user of
avatars, `MaxInt` and `MaxInt64` the ints of the listing and of the configuration, and
`Megabyte` (a small power of two in place of 2^20) the product that is checked.  A mail
server's time is in units of half an SMTP_TIMEOUT.

The theorems of section 4 hold for all values of these constants.  Symmetry is
used for tokens and requests in `sessions` and `registration`, and for users and files too in
`avatars`, never in a run with a liveness property.

Deadlock is checked except in `avatars` (all users may be deleted and nothing is
left to do) and `lifecycle` (the process ends).  In the runs of Api a state without a
step would be a lock that is never released.

**Fairness.**
* Api (`RequestsFinish`): for each request strong fairness of `Proceed \/ DeadlockVictim`: a
  goroutine that can run does (weak would do for that), a statement that waits for a
  row is not overtaken for ever, as PostgreSQL queues the waiters of a lock, and
  `deadlock_timeout` always fires.  Nothing is assumed
  about arrivals, `Abort` or which of two is the victim.
* ConnPool: strong fairness of `Acquire` (sql.DB serves its waiters) and `Lock`, weak fairness of
  the rest: statements and outside calls end, the latter because they have timeouts.
* BrowserSession (`DeadCookieGoes`): one tab keeps refreshing, its requests come to an end, and not
  every refresh is lost.  Nothing about the other tabs.
* Pipeline (`AllAnswered`): the runtime goes on with a goroutine; one that waits for others goes
  on only if its context has a deadline.
* SmtpMailer (`SendReturns`): time passes, and a goroutine whose deadline has passed wakes up.
  Nothing about the mail server.
* Lifecycle (`SignalEnds`): `main` goes on and Shutdown's timer fires; no handler has to return.

### Finding

*A request of a revoked session can still change the password*
(`internal/service/user_service.go:71`; run `stale_write`).  RequireAuth checks
`token_version` when the request arrives; `UpdatePassword` has no condition on it.
A ChangePassword in flight when a logout-all, a reset or another change
commits is carried out after it, against README.md:285
("immediately").  `SessionsKnowPassword` still holds: the late write moves the
version and so cuts off everybody.

What the code does and no document denies is not a finding but shows in the
premises of the properties:

* the last administrator *can* go when two demote each other
  (`LastAdminFallsToStaleRequest` says that this is the only way);
* an UPDATE whose success is taken for a failure leaves a profile with a dead avatar (`lost`
  in `AvatarsServed`), requests that overlap, expire, die or lose an answer leave a file each
  (`mishaps` in `NoStrayFiles`);
* a refresh that was under way when a logout was answered can put a live cookie back (`late` in
  `LogoutSticks`), two tabs that refresh at once can log their user out (`calm` in
  `SessionSurvives`);
* a refresh whose new token is revoked by SetRole between Rotate and the answer is answered with
  that dead token (`RefreshDone`); the next refresh is refused and clears it;
* a MAX_IMAGE_MB below 1 is refused unless it is so low that the product wraps to a positive number
  (`ServersAreComplete`); with SMTP_TIMEOUT=0 no mail is ever sent (`ReturnsInTime`);
* a panic after the answer appends a second body (`mixed` in `OneRecord`);
* a row that moves during a walk over the list makes it miss or repeat another, one per write (`pulls`
  and `pushes` in `WalkComplete`, `NoRepeats` and `OnlyItsPages`), and an offset that is no int
  ends in an error or in another page;
* a drain that times out cuts off requests and, since `os.Exit` skips deferred calls, leaves
  the pool to the operating system (`code = 0` in `CleanExit`);
* `APP_ENV=Production` is not production: the value is trimmed, not lowered
  (`ProductionIsStrict` speaks of the word as it is compared).

## 4. What is proved

The eight proof modules are checked by TLAPS for all values of the constants under the named
assumptions of the modules: any number of users, tokens, concurrent requests, tabs,
connections, and all routes together.

**Sessions** (ApiProofs).  `Invariance` proves `Spec => []IInv`.  `SessionsKnowPassword` is not
inductive: it speaks of live tokens, and says nothing of the requests that will
insert the next one.  `IInv` (module ApiInvariant) adds

* `Bound(u, v, c)` for everything that carries a version (a token, a claim, a
  login between its read and its insert, a rotation): if `v` is still the current
  version, `c` is the password.  Every write of a password moves the version on, so
  the premise fails at once, whatever the interleaving, and cannot come true again
  because `v` is never above the current version.
* `LocksOK` (a row has one holder) and `HoldersOK` (what the holder has checked under
  the lock stays true until it commits).  These two carry `OneTokenPerLogin`:
  between the check of `revoked_at` and the UPDATE nobody else can revoke or rotate,
  and the family has no second good token when the new one comes.  They also
  carry `ConsumedOnce`.
* `RowsOK`, `OnceOK`, `EmailsOK`, `CarryOK`: references have their target, addresses
  are lower case and unique, requests carry what their place requires.

`StepInvariant` has one lemma per action.  `TypeCorrect`, `SessionsKnowPasswordAlways`,
`OneTokenPerLoginAlways`, `TokensOfExistingUsersAlways`, `ConsumedOnceAlways` and
`UniqueEmailAlways` follow.  Two properties need more than `IInv`:

* `LastAdminFallsToStaleRequestAlways`: `TargetsOK`, what an administrator asked for about himself
  leaves him one.  So a write that takes an administrator away is another's, and if
  nobody is left, that other is none any more.
* `SessionsOnlyAfterMailAlways`: `MailInv` follows the confirmation from the spent token over
  `is_verified` and the copy a login read to the row in refresh_tokens; spent tokens are
  neither replaced nor spent again, and a request between the two statements of VerifyEmail
  has spent a token of the user it will mark.

**Refinement** (SessionProofs).  `ApiImplementsSessionTable`: every step of Api is a step of
SessionTable or a stutter.  The mapping is read off the tables: live are the tokens that
Rotate would accept, pending the logins whose version is still the current one.  A login's read is
`Authenticate`, its INSERT `Grant`, or `GrantDead` if the version has moved on in between; the
commit of a rotation is `Rotate`; `Logout`, `RevokeNew` and `RevokeApply` are `Revoke`; whatever
moves a version on, or deletes a user, is `KillAll`, which also takes the pending logins; the
end of a request is `Drop`.  `IInv` supplies that no version is above the user's (what was dead
cannot come back to life) and what a rotation has checked under its locks; `FreeOK`
adds that keys never inserted belong to nobody.  What the table promises the handlers
inherit: `DeadStayDeadAlways` (a token that Rotate would refuse is never accepted again) and
`SessionsHaveOriginAlways` (a session begins with a login that holds the current version,
or in exchange for one that ends) are proved of SessionTable's steps and carried over; no run
needs them, as `ImplementsSessionTable` checks more.  So the server of BrowserSession,
which is SessionTable, has the behaviours of the handlers over the real tables among its own.

**Browser** (BrowserProofs).  `BInv` relates the jar, the requests in flight and the session
table.  For `LogoutSticks`: `StickOK`, once a logout was answered no request but those of `late`
has or can bring a token, because whatever is sent afterwards takes the empty jar along and can
only be refused; an answer of a late one that does set a token is noticed (`undone`).  For `SessionSurvives`: in a calm
history the one request in flight carries the jar's token, that token is live until the
request rotates it, and neither the version nor `is_active` has changed (`Undisturbed`).

**Pool** (RepositoryProofs).  `PoolInv` says where a connection and a lock can be: only with a
request that runs a unit.  `PoolTypeCorrect` (never more connections than the limit, one holder
per row) and `NoHoldAndWaitAlways` follow for every route of `Program`.
`ExhaustedPoolMovesAlways` needs a fact about waits besides: if every borrower is blocked, each
waits for a row of another borrower, as `PoolInv` leaves rows nowhere else; the smallest set of
borrowers that waits only within itself exists, because the subsets of a finite set are
well-founded, and in it everybody is also waited for, which is what `Deadlocked` says
(`CycleInside`).

**Listing** (RepositoryProofs).  The three properties of a walk count users at its end; `ListingInv`
counts, between two statements, what can still become of them.  `Lost` are those who stayed and now
are on a page that has passed without showing them, at most one per pull.  `Uncounted`, between COUNT
and SELECT, are those behind `total`: one per push.  `Again` are those shown twice, or shown and still
ahead, and `Strayed` those of the pages in front that were shown or are now behind the first
offset: one per push each.  A write moves a row that it does not write by a place at most
(`OnePlaceAtMost`), and no two rows have one place (`OnePlaceEach`), so that each write carries at most
one row over the boundary in question, and is then counted (`Crossing`); a SELECT turns `Uncounted`
and `Again` into what the walk has missed and repeated.  A walk that goes on has a start that is an int
(`NextPage`: hasNext was true, so the next offset is below a total), where `Offset` is exact
(`OffsetExact`); a start that is none can only be that of the first page, and then nobody is
behind it.  `ListingTypeCorrect`, `WalkCompleteAlways`, `NoRepeatsAlways` and
`OnlyItsPagesAlways` hold for every list, sort column, limit, width of int and number of writes,
under `ListingAssumption`: the table fits into an int.

**Limiter** (MiddlewareProofs).  `LInv` relates the map to the ideal counter: a known key has the same
window and the same count, and an unknown one's window is over, even for a
call that read the clock `MaxDelay` ago.  The second half needs
`Window + 2 * MaxDelay <= IdleTTL`: `cleanup` drops a counter ten minutes after
`seenAt`, which can be `MaxDelay` older than the window's start.  `config.go` does not
refuse a `RATE_LIMIT_WINDOW` above ten minutes; the default of one is far below.
`AtMostLimitAlways` and `RefusedOnlyAtLimitAlways` follow.

**Layers** (MiddlewareProofs).  `PipelineInv` is about one request, whose `depth` says which frames
have been entered.  `WayDown` is what each of them has added (the request id from 1 on, the
security headers from 4, CORS from 5, the count from 6, the deadline from 7, the guards of the route
from 8) and that nothing is written or logged yet.  `WayBack` is what is still to come: above
the Logger's frame nothing is logged and `recorded` is the client's status, below it there is one
true record; a panic starts in a handler and is not past Recover.  An
answer comes only from within CORS, which is why it is dressed.  The lemmas `RouteFrames`,
`Frame` and `Places` turn the chain, a concatenation, into the place of each frame, from
which all the rest follows; there is one lemma per action.  `LogTellsAnswerAlways`,
`OneRecordAlways`, `AnswersDressedAlways`, `HandlersGuardedAlways` and `RefusedForCauseAlways`
hold for any number of requests and any limits.

**Mailer** (SmtpProofs).  `SmtpInv` ties the deadline in force to the two bounds (never beyond
the context's; with a positive timeout never beyond it after the dial ended, which was within it
itself; with a timeout of 0 no answer after the dial comes in time) and the commands to the
channel (after `starttls` it is TLS).  `NoPlainPasswordAlways`,
`ReturnsInTimeAlways`, and `SmtpImplementsTransport`: every step of Send is a step of
MailTransport or a stutter.

**Process** (LifecycleProofs).  `LcInv` adds to `CleanExit` that from Shutdown on the listener is
closed, so that a drained server stays drained until `main` returns, and that whoever
has passed a check of the configuration still has the environment it was made on.
`CleanExitAlways`, `ProductionIsStrictAlways` and `ServersAreCompleteAlways` follow; the last two for every
environment, not only those of the run.

**Avatars** (AvatarProofs).  `AvatarsServed` needs to know who holds which file (`AvInv`): a name
that is still to be drawn is nowhere, rows and requests refer to files of their own user, an
uploaded file is in one request's hands until it is written, and what is about to be removed is in
no row, unless its UPDATE was taken for a failure.  `NoStrayFiles` needs an account of every file
(`OwedTo`): the files that no request will remove (`Loose`) and the requests that have not
written the row yet (`Early`), each of which can make the avatar it replaces loose, together are
no more than the mishaps, plus one for a request that found nobody else when it began.
The exception is over when the avatar is not the one that request has read (`Stale`), since whoever
changed it has overlapped it, or there is no early request: then the account is exact.
`AvatarsServedAlways` and `NoStrayFilesAlways` hold for any number of overlapping requests and any
number of mishaps.

**Only model-checked.**  Liveness (`RequestsFinish` twice, `AllAnswered`, `SendReturns`,
`DeadCookieGoes`, `SignalEnds`), which TLAPS cannot prove, and the finding.  Every other property of
a run is a theorem.  No proof needs an induction over data; where one would be natural (the cycle
in a finite graph of waits) the smallest set takes its place.

## 5. What is left out, and abstractions

* DecodeJSON, Validate and the decoding of forms look at one body and keep nothing; a request
  they refuse does not arrive.  Lengths are not modelled (bytes against characters, bcrypt's 72
  bytes, columns without a matching maximum): each is one comparison.
* GetMe and GetUser only read.  UpdateProfile overwrites the name, which nothing else looks at but
  the order of the listing (`Update` in UserListing); its connection and its row lock are in ConnPool.
  `CleanupExpired` has no caller.
* The migration command runs golang-migrate; the schema it leaves is Database.
* Times of tokens.  An expired token is refused, which is a request that does not
  arrive, or an `Abort`.
* Hashes and signatures.  A hash matches its password only; a JWT is the claims
  this server put into it; random values are fresh.
* Mails arrive in any order or not at all: a mail is a token its reader may present or
  never present.
* A statement of Api that locks several rows takes them at once when all are
  free.  PostgreSQL takes them one by one; ConnPool does too, with the deadlocks this adds, and in
  Api `Abort` covers their outcome for safety.
* `Lower` is idempotent and stands for both `strings.ToLower` and SQL's `LOWER()`.
* Panics, crashes and lost answers to clients are the end of a request after some
  step (`Abort`, `Die`); Pipeline has the panic itself.
* In Pipeline a handler is one step, bodies are what kind of body they are, and the requests
  of one address share their counters; `clientIP` and the growth of the limiter's map
  between two cleanups are left out.
* In ConnPool all requests are about one user, so that they meet at the same rows, and
  connections do not break.
* In UserListing the order of the rows within a page is left out (nothing depends on it; which rows
  are on a page does).  A write changes one row, as every statement on `users` does, and one that has
  moved no row of others is not bounded.
* In Configuration durations only have to parse; variables that are passed on unchecked, the content
  of a placeholder secret beyond "contains replace-this", and spellings other than the
  four forms are left out.
* The limiter is one process; a restart forgets everybody, and several
  instances count separately.

## 6. Plan

Done, in this order: the session core with its proofs, the limiter with its proofs,
avatars, listing, lifecycle; then the pool, the browser, the mailer, the layers and the
configuration, each with what it composes; then the proofs of avatars,
of the refinement of the session table, of the last two safety properties of Api, of the
listing, of the layers and of the exhausted pool.  Next:

1. Requests: locks taken row by row in Api as they are in ConnPool.
2. RateLimiter: keys as `clientIP` derives them behind a trusted proxy, and restarts.
