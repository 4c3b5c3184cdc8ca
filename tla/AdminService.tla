----------------------------- MODULE AdminService -----------------------------
(***************************************************************************)
(* internal/service/admin_service.go (status, role, delete),               *)
(* UserService.ChangePassword, and the seed command, which writes the same *)
(* database from another process.                                          *)
(***************************************************************************)
EXTENDS AuthService

ASSUME AdminAssumption == None \notin {"enable", "admin"}

-----------------------------------------------------------------------------
(* ChangePassword *)

\* RequireAuth has let the request through; q is the new password.
ChangePassword(r, a, p, q) ==
  /\ At(r, "idle")
  /\ RequireAuth(a)
  /\ SpareVersion(a.user)
  /\ Become(r, [Idle EXCEPT !.pc = "changeRead", !.actor = a.user, !.user = a.user,
                            !.version = a.version, !.cred = p, !.pw = q])
  /\ UNCHANGED <<tables, clients>>

\* The current password is compared with a copy of the row.
ChangeRead(r) ==
  LET u == req[r].user IN
  /\ At(r, "changeRead")
  /\ IF Exists(u) /\ users[u].pw = req[r].cred
     THEN Goto(r, "updatePassword") ELSE Finish(r)
  /\ UNCHANGED <<tables, clients>>

-----------------------------------------------------------------------------
(* Administration of user u by the owner of claim a *)

\* Mutant: actors may do anything to themselves.
MayTarget_Self(actor, u, arg) == TRUE
\* actorID == id is refused, unless the change leaves the actor an admin.
MayTarget(actor, u, arg) == actor = u => arg \in {"enable", "admin"}

AdminRequest(r, a, u, pc, arg) ==
  /\ At(r, "idle")
  /\ RequireAdmin(a)
  /\ MayTarget(a.user, u, arg)
  /\ Become(r, [Idle EXCEPT !.pc = pc, !.actor = a.user, !.user = u, !.arg = arg])
  /\ UNCHANGED <<tables, clients>>

SetStatus(r, a, u) ==
  \E status \in {"enable", "disable"} : AdminRequest(r, a, u, "setActive", status)
SetRole(r, a, u) == \E role \in Roles : AdminRequest(r, a, u, "setRole", role)
DeleteUser(r, a, u) == AdminRequest(r, a, u, "deleteUser", None)

\* UPDATE users SET is_active; only disabling revokes the sessions.
SetActive(r) ==
  LET u == req[r].user  active == req[r].arg = "enable" IN
  /\ At(r, "setActive")
  /\ UserFree(u)
  /\ \/ /\ Exists(u)
        /\ users' = [users EXCEPT ![u].active = active]
        /\ IF active THEN Finish(r) ELSE Goto(r, "revokeAll")
     \/ ~Exists(u) /\ Finish(r) /\ UNCHANGED users
  /\ UNCHANGED <<refresh, once, clients>>

\* UPDATE users SET role.
WriteRole(r) ==
  LET u == req[r].user IN
  /\ At(r, "setRole")
  /\ UserFree(u)
  /\ \/ /\ Exists(u)
        /\ users' = [users EXCEPT ![u].role = req[r].arg]
        /\ Goto(r, "revokeAll")
     \/ ~Exists(u) /\ Finish(r) /\ UNCHANGED users
  /\ UNCHANGED <<refresh, once, clients>>

\* DELETE FROM users locks the user's row, and then, for the cascades, every
\* row that refers to it.
DeleteLock(r) ==
  LET u == req[r].user IN
  /\ At(r, "deleteUser")
  /\ UserFree(u)
  /\ IF Exists(u) THEN Goto(r, "deleteCommit") ELSE Finish(r)
  /\ UNCHANGED <<tables, clients>>

DeleteCommit(r) ==
  LET u == req[r].user IN
  /\ At(r, "deleteCommit")
  /\ \A t \in Tokens : refresh[t].user = u => TokenFree(t)
  /\ \A o \in OneTime : once[o].user = u => OnceFree(o)
  /\ DeleteCascade(u)
  /\ Finish(r)
  /\ UNCHANGED clients

\* A rotation holds a token's row and waits for the user's; a DELETE holds
\* the user's row and its cascade waits for the token's.  PostgreSQL ends one
\* of the two with an error.
Deadlocked(r, d) ==
  /\ At(r, "rotateUser") /\ At(d, "deleteCommit")
  /\ refresh[req[r].token].user = req[d].user

DeadlockVictim(r) ==
  /\ \E d \in Reqs : Deadlocked(r, d) \/ Deadlocked(d, r)
  /\ Finish(r)
  /\ UNCHANGED <<tables, clients>>

-----------------------------------------------------------------------------
\* cmd/seed: INSERT ... ON CONFLICT (email) DO UPDATE, one statement.
Seeded(row, s, p) ==
  [row EXCEPT !.email = Lower[s], !.pw = p, !.role = "admin",
              !.verified = TRUE, !.active = TRUE]

Seed(s, p) ==
  /\ \/ \E u \in Users :
          /\ Exists(u) /\ users[u].email = Lower[s]
          /\ UserFree(u)
          /\ SpareVersion(u)
          /\ users' = [users EXCEPT ![u] =
                         Seeded([@ EXCEPT !.version = users[u].version + 1], s, p)]
     \/ \E u \in Users :
          /\ ~EmailTaken(Lower[s])
          /\ users[u].st = "free"
          /\ SpareRow(Users, users, {"insertUser"})
          /\ users' = [users EXCEPT ![u] = Seeded(NoUser("row"), s, p)]
  /\ UNCHANGED <<refresh, once, clients, req>>
=============================================================================
