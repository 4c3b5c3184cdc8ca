------------------------------- MODULE Requests -------------------------------
(***************************************************************************)
(* The HTTP requests in flight.  net/http serves each on a goroutine of    *)
(* its own, so requests interleave between any two SQL statements; a       *)
(* request stands at "pc", the statement it is about to send, and carries  *)
(* the Go variables that a later statement uses.                           *)
(*                                                                         *)
(* Row locks follow from where requests stand: FOR UPDATE and DELETE hold  *)
(* their rows until their transaction ends.  A statement that needs a row  *)
(* another transaction holds waits, i.e. its action is not enabled; once   *)
(* enabled it sees the newest version of the row (READ COMMITTED).         *)
(***************************************************************************)
EXTENDS Database

CONSTANTS
  Reqs,        \* requests that can be in flight together
  SignedIn,    \* users with an access token from before; what those logins left in
               \* refresh_tokens is revoked, and nobody presents it any more
  MaxVersion   \* bound: token_version up to which new requests are started

ASSUME RequestsAssumption ==
  /\ MaxVersion \in Nat
  /\ SignedIn \subseteq {u \in Users : InitUsers[u].st = "row"}

VARIABLES
  access,  \* claims of the access tokens answered so far; stateless JWTs
  held,    \* refresh tokens answered so far: what clients can present
  req      \* the requests

clients == <<access, held>>
vars == <<users, refresh, once, access, held, req>>

Claims == [user : Users, version : Nat, cred : Passwords \cup {None}]

PCs == {"idle", "createSession", "rotateUser", "rotateCommit", "refreshRead",
        "revokeNew", "increment", "revokeAll", "revokeApply",
        "replaceReset", "insertReset", "replaceVerif", "insertVerif",
        "insertUser", "consume", "updatePassword", "markVerified",
        "changeRead", "setActive", "setRole", "deleteUser", "deleteCommit"}

Args == {None, "enable", "disable"} \cup Roles \cup Spellings

\* version is the token_version the request read; cred the password it was
\* shown (for a refresh: the history of the token it rotates).
Requests ==
  [pc : PCs, actor : Users \cup {None}, user : Users \cup {None},
   token : Tokens \cup OneTime \cup {None}, version : Nat,
   cred : Passwords \cup {None}, pw : Passwords \cup {None}, arg : Args,
   snap : SUBSET (Tokens \cup OneTime)]

Idle == [pc |-> "idle", actor |-> None, user |-> None, token |-> None,
         version |-> 0, cred |-> None, pw |-> None, arg |-> None, snap |-> {}]

RequestsTypeOK ==
  /\ access \subseteq Claims
  /\ held \subseteq Tokens
  /\ req \in [Reqs -> Requests]

RequestsInit ==
  /\ access = {[user |-> u, version |-> InitUsers[u].version, cred |-> InitUsers[u].pw] :
                u \in SignedIn}
  /\ held = {}
  /\ req = [r \in Reqs |-> Idle]

At(r, pc) == req[r].pc = pc
Become(r, record) == req' = [req EXCEPT ![r] = record]
Goto(r, pc) == req' = [req EXCEPT ![r].pc = pc]
Finish(r) == Become(r, Idle)

\* Mutant: the transaction is left open, with its locks.
Rollback_Forgotten(r) == UNCHANGED req
\* WithTx: an error of the closure rolls the transaction back.
Rollback(r) == Finish(r)

-----------------------------------------------------------------------------
(* Row locks *)

LocksToken(r, t) == req[r].pc \in {"rotateUser", "rotateCommit"} /\ req[r].token = t
LocksUser(r, u) == req[r].pc \in {"rotateCommit", "deleteCommit"} /\ req[r].user = u
LocksOnce(r, o) == req[r].pc = "consume" /\ req[r].token = o

\* Mutant: the SELECT of Rotate without FOR UPDATE.
TokenFree_NoForUpdate(t) == TRUE
TokenFree(t) == \A r \in Reqs : ~LocksToken(r, t)
UserFree(u) == \A r \in Reqs : ~LocksUser(r, u)
OnceFree(o) == \A r \in Reqs : ~LocksOnce(r, o)

-----------------------------------------------------------------------------
(* Bounds: a request starts only if the rows and versions it may use are   *)
(* left, so that no request is ever stopped by a bound.                    *)

SpareVersion(u) ==
  users[u].version + Cardinality({r \in Reqs : req[r].user = u}) < MaxVersion
SpareRow(S, table, pcs) ==
  Cardinality({r \in Reqs : req[r].pc \in pcs}) < Cardinality({x \in S : table[x].st = "free"})
SpareToken == SpareRow(Tokens, refresh, {"createSession", "rotateUser", "rotateCommit"})

-----------------------------------------------------------------------------
(* middleware.RequireAuth: the token must be of a user who still exists, is *)
(* active and has not moved to another token_version.                       *)
RequireAuth(a) ==
  /\ Exists(a.user)
  /\ users[a.user].active
  /\ users[a.user].version = a.version

\* adminOnly: RequireRole looks at the role RequireAuth read, not the claim.
RequireAdmin(a) == RequireAuth(a) /\ users[a.user].role = "admin"

-----------------------------------------------------------------------------
(* Statements that several services send *)

\* RevokeAllForUser, first half: the UPDATE takes its snapshot of the rows.
RevokeAll(r) ==
  /\ At(r, "revokeAll")
  /\ Become(r, [req[r] EXCEPT !.pc = "revokeApply", !.snap = UnrevokedOf(req[r].user)])
  /\ UNCHANGED <<tables, clients>>

\* RevokeAllForUser, second half: it has locked them and revokes them.  Rows
\* committed since the snapshot are not seen.
RevokeApply(r) ==
  /\ At(r, "revokeApply")
  /\ \A t \in req[r].snap : TokenFree(t)
  /\ Revoke(req[r].snap)
  /\ Finish(r)
  /\ UNCHANGED <<users, once, clients>>

\* UserRepository.UpdatePassword; the services go on to RevokeAllForUser.
UpdatePassword(r) ==
  LET u == req[r].user IN
  /\ At(r, "updatePassword")
  /\ UserFree(u)
  /\ \/ Exists(u) /\ WritePassword(u, req[r].pw) /\ Goto(r, "revokeAll")
     \/ ~Exists(u) /\ Finish(r) /\ UNCHANGED users
  /\ UNCHANGED <<refresh, once, clients>>

\* A statement fails, the request times out, the client goes away, the
\* process is killed, or a token is past its expiry: the open transaction is
\* rolled back (WithTx) and the request ends.  What it committed stays.
Abort(r) ==
  /\ ~At(r, "idle")
  /\ Finish(r)
  /\ UNCHANGED <<tables, clients>>
=============================================================================
