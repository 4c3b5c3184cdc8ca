----------------------------- MODULE ApiInvariant ------------------------------
(***************************************************************************)
(* The inductive invariant behind the safety properties of Api.            *)
(***************************************************************************)
EXTENDS Api

\* What a version v read with password c says later: if it is still the
\* current version, c is still the password.
Bound(u, v, c) ==
  /\ users[u].st # "free"
  /\ Exists(u) => /\ v <= users[u].version
                  /\ v = users[u].version => c = users[u].pw

\* What a request x carries: whom it works for, and what it has read.
Carry(x) ==
  /\ x.pc \notin {"idle", "rotateUser", "insertUser"} => x.user \in Users
  /\ x.pc \in {"createSession", "rotateCommit", "refreshRead"} =>
       Bound(x.user, x.version, x.cred)
  /\ x.pc \in {"rotateUser", "rotateCommit", "refreshRead"} => x.token \in Tokens
  /\ x.pc = "consume" => x.token \in OneTime
  /\ x.pc = "insertUser" => x.arg \in Spellings
  /\ x.pc = "setRole" => x.arg \in Roles

CarryOK == \A r \in Reqs : Carry(req[r])

\* Addresses are stored in lower case, once.
EmailsOK ==
  /\ \A u \in Users :
       Exists(u) => users[u].email \in Spellings /\ Lower[users[u].email] = users[u].email
  /\ \A u, v \in Users : Exists(u) /\ Exists(v) /\ users[u].email = users[v].email => u = v

RowsOK ==
  \A t \in Tokens : refresh[t].st = "row" =>
    /\ refresh[t].user \in Users
    /\ Exists(refresh[t].user)
    /\ Bound(refresh[t].user, refresh[t].version, refresh[t].cred)
    /\ refresh[t].family \in Tokens
    /\ refresh[refresh[t].family].st # "free"

OnceOK ==
  \A o \in OneTime :
    /\ once[o].st = "row" => once[o].user \in Users /\ Exists(once[o].user)
    /\ once[o].uses = IF once[o].used THEN 1 ELSE 0

AccessOK == \A a \in access : Bound(a.user, a.version, a.cred)

\* FOR UPDATE: one holder of a row.
LocksOK ==
  \A r, q \in Reqs : r # q =>
    /\ \A t \in Tokens : ~(LocksToken(r, t) /\ LocksToken(q, t))
    /\ \A u \in Users : ~(LocksUser(r, u) /\ LocksUser(q, u))
    /\ \A o \in OneTime : ~(LocksOnce(r, o) /\ LocksOnce(q, o))

\* What the holder of a row has checked stays true while it holds the row.
Checked(x) ==
  /\ x.pc = "rotateUser" => refresh[x.token].st = "row"
  /\ x.pc = "rotateCommit" => /\ Live(x.token)
                              /\ refresh[x.token].user = x.user
                              /\ refresh[x.token].version = x.version
                              /\ refresh[x.token].cred = x.cred
  /\ x.pc = "deleteCommit" => Exists(x.user)
  /\ x.pc = "consume" => Unused(x.token)

HoldersOK == \A r \in Reqs : Checked(req[r])

\* Everything the proofs need; inductive.
IInv ==
  /\ TypeOK
  /\ CarryOK
  /\ EmailsOK
  /\ RowsOK
  /\ OnceOK
  /\ AccessOK
  /\ LocksOK
  /\ HoldersOK
  /\ OneTokenPerLogin
=============================================================================
