----------------------------- MODULE AuthService ------------------------------
(***************************************************************************)
(* internal/service/auth_service.go: registration, login, refresh token    *)
(* rotation, logout, e-mail verification and password reset.  Each action  *)
(* is one SQL statement or transaction together with the Go code up to the *)
(* next one.  A request that is refused by its first read changes nothing  *)
(* and is no step.                                                         *)
(***************************************************************************)
EXTENDS Requests

CONSTANT RequireEmailVerification

ASSUME AuthAssumption == RequireEmailVerification \in BOOLEAN

-----------------------------------------------------------------------------
(* Login *)

\* Mutant: is_verified is not looked at.
LoginAllowed_Unverified(u, p) == users[u].pw = p /\ users[u].active
\* Compare, is_active and is_verified of the copy that was read.
LoginAllowed(u, p) ==
  /\ users[u].pw = p
  /\ users[u].active
  /\ RequireEmailVerification => users[u].verified

LoginRead(r, s, p) ==
  /\ At(r, "idle")
  /\ SpareToken
  /\ \E u \in GetByEmail(s) :
       /\ LoginAllowed(u, p)
       /\ Become(r, [Idle EXCEPT !.pc = "createSession", !.user = u,
                                 !.version = users[u].version, !.cred = p])
  /\ UNCHANGED <<tables, clients>>

\* Mutant: no foreign key.
Insertable_NoForeignKey(u) == UserFree(u)
\* The foreign key check share-locks the user's row; without it the INSERT
\* fails.
Insertable(u) == UserFree(u) /\ Exists(u)

\* createSession: the INSERT carries the version the login read.
CreateSession(r, t) ==
  LET u == req[r].user  v == req[r].version  c == req[r].cred IN
  /\ At(r, "createSession")
  /\ refresh[t].st = "free"
  /\ Insertable(u)
  /\ refresh' = [refresh EXCEPT ![t] = NewRefresh(u, v, t, c)]
  /\ access' = access \cup {[user |-> u, version |-> v, cred |-> c]}
  /\ held' = held \cup {t}
  /\ Finish(r)
  /\ UNCHANGED <<users, once>>

CreateSessionFails(r) ==
  /\ At(r, "createSession")
  /\ ~Exists(req[r].user)
  /\ Finish(r)
  /\ UNCHANGED <<tables, clients>>

-----------------------------------------------------------------------------
(* Refresh *)

\* Rotate, SELECT ... FOR UPDATE OF rt, u: the token's row is locked first.
RotateLock(r, t) ==
  /\ At(r, "idle")
  /\ SpareToken
  /\ t \in held
  /\ refresh[t].st = "row"
  /\ TokenFree(t)
  /\ Become(r, [Idle EXCEPT !.pc = "rotateUser", !.token = t])
  /\ UNCHANGED <<tables, clients>>

\* Mutant: revoked_at is not looked at.
RotationAllowed_Revoked(t) ==
  /\ refresh[t].st = "row"
  /\ refresh[t].version = users[refresh[t].user].version
\* revoked_at IS NULL and rt.token_version = u.token_version (l.48).
RotationAllowed(t) == Live(t)

\* Then the user's row is locked and the values under both locks are checked.
RotateUser(r) ==
  LET t == req[r].token  u == refresh[t].user IN
  /\ At(r, "rotateUser")
  /\ UserFree(u)
  /\ \/ /\ RotationAllowed(t)
        /\ Become(r, [req[r] EXCEPT !.pc = "rotateCommit", !.user = u,
                        !.version = users[u].version, !.cred = refresh[t].cred])
     \/ ~RotationAllowed(t) /\ Rollback(r)
  /\ UNCHANGED <<tables, clients>>

\* The old token is revoked and n inserted in one transaction.
RotateCommit(r, n) ==
  LET t == req[r].token IN
  /\ At(r, "rotateCommit")
  /\ refresh[n].st = "free"
  /\ refresh' = [refresh EXCEPT
       ![t].revoked = TRUE,
       ![n] = NewRefresh(req[r].user, req[r].version, refresh[t].family, req[r].cred)]
  /\ Become(r, [req[r] EXCEPT !.pc = "refreshRead", !.token = n])
  /\ UNCHANGED <<users, once, clients>>

\* Back in Refresh: the user is read again, without a lock.
RefreshRead(r) ==
  LET u == req[r].user  v == req[r].version IN
  /\ At(r, "refreshRead")
  /\ \/ /\ ~Exists(u)
        /\ Finish(r)
        /\ UNCHANGED clients
     \/ /\ Exists(u) /\ ~users[u].active
        /\ Goto(r, "revokeAll")
        /\ UNCHANGED clients
     \/ /\ Exists(u) /\ users[u].active /\ users[u].version # v
        /\ Goto(r, "revokeNew")
        /\ UNCHANGED clients
     \/ /\ Exists(u) /\ users[u].active /\ users[u].version = v
        /\ access' = access \cup {[user |-> u, version |-> v, cred |-> req[r].cred]}
        /\ held' = held \cup {req[r].token}
        /\ Finish(r)
  /\ UNCHANGED tables

\* Revoke of the token the rotation inserted.
RevokeNew(r) ==
  /\ At(r, "revokeNew")
  /\ TokenFree(req[r].token)
  /\ Revoke({req[r].token})
  /\ Finish(r)
  /\ UNCHANGED <<users, once, clients>>

-----------------------------------------------------------------------------
(* Logout, LogoutAll *)

\* Logout is a single UPDATE; without a token it does nothing.
Logout(t) ==
  /\ t \in held \cup {None}
  /\ t # None => TokenFree(t)
  /\ Revoke({t})
  /\ UNCHANGED <<users, once, clients, req>>

LogoutAll(r, a) ==
  /\ At(r, "idle")
  /\ RequireAuth(a)
  /\ SpareVersion(a.user)
  /\ Become(r, [Idle EXCEPT !.pc = "increment", !.user = a.user])
  /\ UNCHANGED <<tables, clients>>

Increment(r) ==
  LET u == req[r].user IN
  /\ At(r, "increment")
  /\ UserFree(u)
  /\ \/ Exists(u) /\ IncrementTokenVersion(u) /\ Goto(r, "revokeAll")
     \/ ~Exists(u) /\ Finish(r) /\ UNCHANGED users
  /\ UNCHANGED <<refresh, once, clients>>

-----------------------------------------------------------------------------
(* ForgotPassword, ResendVerification, Register *)

SpareReset == SpareRow(Resets, once, {"replaceReset", "insertReset"})
SpareVerif == SpareRow(Verifs, once, {"insertUser", "replaceVerif", "insertVerif"})

ForgotPassword(r, s) ==
  /\ At(r, "idle")
  /\ SpareReset
  /\ \E u \in GetByEmail(s) : Become(r, [Idle EXCEPT !.pc = "replaceReset", !.user = u])
  /\ UNCHANGED <<tables, clients>>

ResendVerification(r, s) ==
  /\ At(r, "idle")
  /\ SpareVerif
  /\ \E u \in GetByEmail(s) :
       /\ ~users[u].verified
       /\ Become(r, [Idle EXCEPT !.pc = "replaceVerif", !.user = u])
  /\ UNCHANGED <<tables, clients>>

\* CreatePasswordReset and CreateEmailVerification: the DELETE takes its
\* snapshot of the user's unused tokens.
Replace(r) ==
  /\ req[r].pc \in {"replaceReset", "replaceVerif"}
  /\ LET reset == At(r, "replaceReset") IN
     Become(r, [req[r] EXCEPT
       !.pc = IF reset THEN "insertReset" ELSE "insertVerif",
       !.snap = UnusedOf(IF reset THEN Resets ELSE Verifs, req[r].user)])
  /\ UNCHANGED <<tables, clients>>

\* The DELETE has the rows, the INSERT follows, the transaction commits and
\* the new token is mailed.
InsertOnce(r, o) ==
  /\ \/ At(r, "insertReset") /\ o \in Resets
     \/ At(r, "insertVerif") /\ o \in Verifs
  /\ once[o].st = "free"
  /\ \A x \in req[r].snap : OnceFree(x)
  /\ Insertable(req[r].user)
  /\ ReplaceUnused(req[r].snap, o, req[r].user)
  /\ Finish(r)
  /\ UNCHANGED <<users, refresh, clients>>

InsertOnceFails(r) ==
  /\ req[r].pc \in {"insertReset", "insertVerif"}
  /\ ~Exists(req[r].user)
  /\ Finish(r)
  /\ UNCHANGED <<tables, clients>>

\* Register: first it looks whether the address is taken.
RegisterRead(r, s, p) ==
  /\ At(r, "idle")
  /\ SpareVerif
  /\ SpareRow(Users, users, {"insertUser"})
  /\ GetByEmail(Lower[s]) = {}
  /\ Become(r, [Idle EXCEPT !.pc = "insertUser", !.arg = Lower[s], !.pw = p])
  /\ UNCHANGED <<tables, clients>>

\* The INSERT; the unique index refuses a second row (ErrEmailExists).
RegisterInsert(r, u) ==
  LET s == req[r].arg IN
  /\ At(r, "insertUser")
  /\ users[u].st = "free"
  /\ \/ /\ ~EmailTaken(Lower[s])
        /\ InsertUser(u, s, req[r].pw)
        /\ Become(r, [Idle EXCEPT !.pc = "replaceVerif", !.user = u])
     \/ EmailTaken(Lower[s]) /\ Finish(r) /\ UNCHANGED users
  /\ UNCHANGED <<refresh, once, clients>>

-----------------------------------------------------------------------------
(* VerifyEmail, ResetPassword *)

\* Mutant: the SELECT of consume without FOR UPDATE.
Consumable_NoForUpdate(o) == Unused(o)
\* consume: SELECT ... FOR UPDATE locks the row and used_at is checked.
Consumable(o) == OnceFree(o) /\ Unused(o)

Consume(r, o, p) ==
  /\ At(r, "idle")
  /\ Consumable(o)
  /\ Become(r, [Idle EXCEPT !.pc = "consume", !.token = o,
                            !.user = once[o].user, !.pw = p])
  /\ UNCHANGED <<tables, clients>>

VerifyEmail(r, o) == Consume(r, o, None)

ResetPassword(r, o, p) == Consume(r, o, p) /\ SpareVersion(once[o].user)

\* UPDATE ... SET used_at and COMMIT; the token's work is a later statement.
ConsumeCommit(r) ==
  /\ At(r, "consume")
  /\ SpendOnce(req[r].token)
  /\ Goto(r, IF req[r].token \in Resets THEN "updatePassword" ELSE "markVerified")
  /\ UNCHANGED <<users, refresh, clients>>

MarkVerified(r) ==
  LET u == req[r].user IN
  /\ At(r, "markVerified")
  /\ UserFree(u)
  /\ \/ Exists(u) /\ users' = [users EXCEPT ![u].verified = TRUE]
     \/ ~Exists(u) /\ UNCHANGED users
  /\ Finish(r)
  /\ UNCHANGED <<refresh, once, clients>>
=============================================================================
