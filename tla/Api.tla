--------------------------------- MODULE Api ----------------------------------
(***************************************************************************)
(* The server: the routes of internal/app/routes.go whose handlers change  *)
(* the database, served concurrently, the seed command beside them, and    *)
(* the properties of the whole.                                            *)
(***************************************************************************)
EXTENDS AdminService

CONSTANT Kinds  \* the routes a run exercises

Routes == {"login", "refresh", "logout", "logoutAll", "changePassword",
           "forgotPassword", "resetPassword", "register", "resend",
           "verifyEmail", "status", "role", "delete", "seed"}

ASSUME KindsAssumption == Kinds \subseteq Routes

Served(kind) == kind \in Kinds

\* A request arrives: its handler decodes it and calls the service, up to the
\* first statement.
Arrive(r) ==
  \/ Served("login") /\ \E s \in Spellings, p \in Passwords : LoginRead(r, s, p)
  \/ Served("refresh") /\ \E t \in Tokens : RotateLock(r, t)
  \/ Served("logoutAll") /\ \E a \in access : LogoutAll(r, a)
  \/ Served("changePassword") /\ \E a \in access, p, q \in Passwords : ChangePassword(r, a, p, q)
  \/ Served("forgotPassword") /\ \E s \in Spellings : ForgotPassword(r, s)
  \/ Served("resetPassword") /\ \E o \in Resets, p \in Passwords : ResetPassword(r, o, p)
  \/ Served("register") /\ \E s \in Spellings, p \in Passwords : RegisterRead(r, s, p)
  \/ Served("resend") /\ \E s \in Spellings : ResendVerification(r, s)
  \/ Served("verifyEmail") /\ \E o \in Verifs : VerifyEmail(r, o)
  \/ Served("status") /\ \E a \in access, u \in Users : SetStatus(r, a, u)
  \/ Served("role") /\ \E a \in access, u \in Users : SetRole(r, a, u)
  \/ Served("delete") /\ \E a \in access, u \in Users : DeleteUser(r, a, u)

\* A request in flight sends its next statement.
Proceed(r) ==
  \/ \E t \in Tokens : CreateSession(r, t)
  \/ CreateSessionFails(r)
  \/ RotateUser(r)
  \/ \E n \in Tokens : RotateCommit(r, n)
  \/ RefreshRead(r)
  \/ RevokeNew(r)
  \/ Increment(r)
  \/ RevokeAll(r)
  \/ RevokeApply(r)
  \/ Replace(r)
  \/ \E o \in OneTime : InsertOnce(r, o)
  \/ InsertOnceFails(r)
  \/ \E u \in Users : RegisterInsert(r, u)
  \/ ConsumeCommit(r)
  \/ MarkVerified(r)
  \/ ChangeRead(r)
  \/ UpdatePassword(r)
  \/ SetActive(r)
  \/ WriteRole(r)
  \/ DeleteLock(r)
  \/ DeleteCommit(r)

Init == DatabaseInit /\ RequestsInit

Next ==
  \/ \E r \in Reqs : Arrive(r)
  \/ \E r \in Reqs : Proceed(r)
  \/ \E r \in Reqs : DeadlockVictim(r)
  \/ \E r \in Reqs : Abort(r)
  \/ Served("logout") /\ \E t \in Tokens \cup {None} : Logout(t)
  \/ Served("seed") /\ \E s \in Spellings, p \in Passwords : Seed(s, p)

Spec == Init /\ [][Next]_vars

\* A goroutine that can run does; row locks are granted in order of arrival,
\* so a waiting statement is not passed over for ever; deadlock_timeout ends
\* a deadlock.  Nothing makes requests arrive or fail.
Fairness ==
  \A r \in Reqs : SF_vars(Proceed(r) \/ DeadlockVictim(r))

FairSpec == Spec /\ Fairness

-----------------------------------------------------------------------------
(* Safety *)

\* Every variable has its type.
TypeOK == DatabaseTypeOK /\ RequestsTypeOK

\* A session that the server would still honour goes back to a login that
\* presented the password the user has now: however a password change, a
\* reset, a seed or a logout-all interleaves with logins and rotations under
\* way, it cuts off everything obtained with an older password.
SessionsKnowPassword ==
  /\ \A t \in Tokens : Live(t) => refresh[t].cred = users[refresh[t].user].pw
  /\ \A a \in access :
       Exists(a.user) /\ a.version = users[a.user].version => a.cred = users[a.user].pw

\* However often and however concurrently a client replays the tokens of one
\* login, at most one of them is unrevoked (AUTH_FLOW.md:49).
OneTokenPerLogin ==
  \A t, n \in Tokens :
    Unrevoked(t) /\ Unrevoked(n) /\ refresh[t].family = refresh[n].family => t = n

\* No request leaves a token of a user that is gone, whatever it had read
\* before the DELETE.
TokensOfExistingUsers ==
  /\ \A t \in Tokens : refresh[t].st = "row" => Exists(refresh[t].user)
  /\ \A o \in OneTime : once[o].st = "row" => Exists(once[o].user)

\* A mailed token lets one request through, never two at the same time.
ConsumedOnce == \A o \in OneTime : once[o].uses <= 1

\* Registrations that looked at the same time do not make two accounts of one
\* address, however it is spelled.
UniqueEmail ==
  \A u, v \in Users :
    Exists(u) /\ Exists(v) /\ Lower[users[u].email] = Lower[users[v].email] => u = v

\* With REQUIRE_EMAIL_VERIFICATION nobody has a session without having spent
\* a token that was mailed to the account, except the administrators cmd/seed
\* makes (whom the premise keeps from being demoted to members).
MailConfirmed(u) ==
  InitUsers[u].verified \/ \E o \in Verifs : once[o].user = u /\ once[o].used
SessionsOnlyAfterMail ==
  RequireEmailVerification /\ ~Served("role") =>
    \A t \in Tokens :
      refresh[t].st = "row" =>
        MailConfirmed(refresh[t].user) \/ users[refresh[t].user].role = "admin"

-----------------------------------------------------------------------------
(* Action properties *)

ActiveAdmins == {u \in Users : Exists(u) /\ users[u].active /\ users[u].role = "admin"}

\* The checks on actorID keep an administrator while requests do not overlap:
\* the last one can fall only to a request that was admitted when its actor
\* was still one and is carried out when it no longer is.
LastAdminFallsToStaleRequest ==
  [][ ActiveAdmins # {} /\ ActiveAdmins' = {} =>
        \E r \in Reqs : /\ req[r].pc \in {"setActive", "setRole", "deleteCommit"}
                        /\ req[r] # req'[r]
                        /\ req[r].actor \notin ActiveAdmins ]_vars

\* Once the version has moved on, an earlier session is of no use: whoever
\* changes a password with an access token does it on a version that is valid
\* when the change is written (README.md:285, "immediately").
PasswordWriteNeedsLiveSession ==
  [][ \A r \in Reqs :
        At(r, "updatePassword") /\ req'[r].pc = "revokeAll" /\ req[r].actor # None =>
          req[r].version = users[req[r].user].version ]_vars

-----------------------------------------------------------------------------
(* Liveness *)

\* Every request is answered: no wait for a row lock lasts for ever.
RequestsFinish == \A r \in Reqs : ~At(r, "idle") ~> At(r, "idle")

-----------------------------------------------------------------------------
(* Refinement *)

LiveTokens == [u \in Users |-> {t \in Tokens : Live(t) /\ refresh[t].user = u}]
DeadTokens == {t \in Tokens : refresh[t].st # "free" /\ ~Live(t)}
Pending ==
  [r \in Reqs |->
     IF /\ At(r, "createSession")
        /\ Exists(req[r].user)
        /\ req[r].version = users[req[r].user].version
     THEN req[r].user ELSE None]

Sessions == INSTANCE SessionTable
              WITH live <- LiveTokens, dead <- DeadTokens, pending <- Pending

\* The tables, the locks and the steps of the requests implement the session
\* table.
ImplementsSessionTable == Sessions!Spec
=============================================================================
