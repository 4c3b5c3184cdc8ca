------------------------------- MODULE ApiProofs -------------------------------
(***************************************************************************)
(* The safety properties of Api hold for any number of users, tokens and   *)
(* concurrent requests.                                                    *)
(***************************************************************************)
EXTENDS ApiInvariant, TLAPS

-----------------------------------------------------------------------------
(* Two steps that occur many times *)

\* The request states that IInv says more about than who they work for.
Guarded == {"createSession", "rotateUser", "rotateCommit", "refreshRead",
            "consume", "insertUser", "setRole", "deleteCommit"}

\* A record a request may become without owing the invariant anything else.
Plain(x) ==
  /\ x \in Requests
  /\ x.pc \notin Guarded
  /\ x.pc # "idle" => x.user \in Users

\* Requests keep their record or become plain.
Settled ==
  /\ req' \in [Reqs -> Requests]
  /\ \A q \in Reqs : req'[q] = req[q] \/ Plain(req'[q])

\* A request that becomes plain, and no request at all, leave them settled.
LEMMA BecomeSettles ==
  ASSUME TypeOK, NEW r \in Reqs, NEW x, Plain(x), Become(r, x)
  PROVE  Settled
BY DEF TypeOK, RequestsTypeOK, Become, Settled, Plain

LEMMA FinishSettles ==
  ASSUME TypeOK, NEW r \in Reqs, Finish(r)
  PROVE  Settled
<1>1. Plain(Idle)
  BY DEF Plain, Idle, Requests, Guarded, PCs, Args
<1> QED
  BY <1>1, BecomeSettles DEF Finish

LEMMA NoneSettles ==
  ASSUME TypeOK, UNCHANGED req
  PROVE  Settled
BY DEF TypeOK, RequestsTypeOK, Settled

LEMMA GotoSettles ==
  ASSUME TypeOK, CarryOK, NEW r \in Reqs, NEW pc \in PCs \ Guarded, Goto(r, pc),
         req[r].pc \notin {"idle", "rotateUser", "insertUser"}
  PROVE  Settled
<1>1. Plain([req[r] EXCEPT !.pc = pc])
  BY DEF Plain, TypeOK, RequestsTypeOK, Requests, CarryOK, Carry
<1>2. Become(r, [req[r] EXCEPT !.pc = pc])
  BY DEF Goto, Become
<1> QED
  BY <1>1, <1>2, BecomeSettles

\* A request that has taken the snapshot S is plain.
LEMMA SnapshotPlain ==
  ASSUME NEW x \in Requests, x.user \in Users, NEW pc \in PCs \ Guarded,
         NEW S \in SUBSET (Tokens \cup OneTime)
  PROVE  Plain([x EXCEPT !.pc = pc, !.snap = S])
<1> DEFINE y == [x EXCEPT !.pc = pc, !.snap = S]
<1>1. y \in Requests
  BY DEF Requests
<1>2. y.pc = pc /\ y.user = x.user
  BY DEF Requests
<1> QED
  BY <1>1, <1>2 DEF Plain

\* A request reads, waits or ends: only request records change.
LEMMA Reads ==
  ASSUME IInv, Settled, UNCHANGED <<tables, clients>>
  PROVE  IInv'
<1> USE DEF Settled, Plain, Guarded, tables, clients, IInv, At
<1>1. TypeOK'
  BY DEF TypeOK, DatabaseTypeOK, RequestsTypeOK
<1>2. CarryOK'
  BY DEF CarryOK, Carry, Bound, Exists
<1>3. EmailsOK' /\ RowsOK' /\ OnceOK' /\ AccessOK' /\ OneTokenPerLogin'
  BY DEF EmailsOK, RowsOK, OnceOK, AccessOK, OneTokenPerLogin, Bound, Exists, Unrevoked
<1>4. LocksOK'
  BY DEF LocksOK, LocksToken, LocksUser, LocksOnce
<1>5. HoldersOK'
  BY DEF HoldersOK, Checked, Live, Unrevoked, Unused, Exists
<1> QED
  BY <1>1, <1>2, <1>3, <1>4, <1>5

\* A request reads and goes on to a guarded state with what that state owes.
LEMMA Enters ==
  ASSUME IInv, NEW r \in Reqs, NEW x \in Requests, Become(r, x),
         UNCHANGED <<tables, clients>>, Carry(x), Checked(x),
         x.pc \in {"rotateUser", "rotateCommit"} =>
           \A q \in Reqs \ {r} : ~LocksToken(q, x.token),
         x.pc \in {"rotateCommit", "deleteCommit"} =>
           \A q \in Reqs \ {r} : ~LocksUser(q, x.user),
         x.pc = "consume" => \A q \in Reqs \ {r} : ~LocksOnce(q, x.token)
  PROVE  IInv'
<1> USE DEF tables, clients, IInv
<1>1. \A q \in Reqs : req'[q] = IF q = r THEN x ELSE req[q]
  BY DEF Become, TypeOK, RequestsTypeOK
<1>2. TypeOK'
  BY DEF TypeOK, DatabaseTypeOK, RequestsTypeOK, Become
<1>3. CarryOK'
  BY <1>1 DEF CarryOK, Carry, Bound, Exists
<1>4. EmailsOK' /\ RowsOK' /\ OnceOK' /\ AccessOK' /\ OneTokenPerLogin'
  BY DEF EmailsOK, RowsOK, OnceOK, AccessOK, OneTokenPerLogin, Bound, Exists, Unrevoked
<1>5. LocksOK'
  BY <1>1 DEF LocksOK, LocksToken, LocksUser, LocksOnce
<1>6. HoldersOK'
  BY <1>1 DEF HoldersOK, Checked, Live, Unrevoked, Unused, Exists
<1> QED
  BY <1>2, <1>3, <1>4, <1>5, <1>6

\* What may become of row u of users: a new row with an address of its own, or
\* a change that, if it touches the password, moves to another version.
Grown(u, row) ==
  /\ row \in UserRows
  /\ row.st = "row"
  /\ \/ /\ Exists(u)
        /\ UserFree(u)
        /\ row.email = users[u].email
        /\ \/ row.version = users[u].version /\ row.pw = users[u].pw
           \/ row.version = users[u].version + 1
     \/ /\ users[u].st = "free"
        /\ row.email \in Spellings
        /\ Lower[row.email] = row.email
        /\ ~EmailTaken(row.email)

LEMMA WritesUser ==
  ASSUME IInv, Settled, NEW u \in Users, NEW row, Grown(u, row),
         users' = [users EXCEPT ![u] = row],
         UNCHANGED <<refresh, once, clients>>
  PROVE  IInv'
<1> USE DEF Settled, Plain, Guarded, clients, IInv, At
<1>1. TypeOK'
  BY DEF TypeOK, DatabaseTypeOK, RequestsTypeOK, Grown
<1>2. \A w \in Users : users'[w] = IF w = u THEN row ELSE users[w]
  BY DEF TypeOK, DatabaseTypeOK
<1>3. \A w \in Users, v \in Nat : \A c : Bound(w, v, c) => Bound(w, v, c)'
  BY <1>2 DEF Bound, Exists, Grown, TypeOK, DatabaseTypeOK, UserRows
<1>4. \A w \in Users : Exists(w) => Exists(w)'
  BY <1>2 DEF Exists, Grown
<1>5. CarryOK'
  BY <1>3 DEF CarryOK, Carry, TypeOK, RequestsTypeOK, Requests
<1>6. EmailsOK'
  BY <1>2 DEF EmailsOK, Grown, EmailTaken, Exists
<1>7. RowsOK'
  BY <1>3, <1>4 DEF RowsOK, TypeOK, DatabaseTypeOK, RefreshRows
<1>8. OnceOK' /\ OneTokenPerLogin'
  BY <1>4 DEF OnceOK, OneTokenPerLogin, Unrevoked
<1>9. AccessOK'
  BY <1>3 DEF AccessOK, TypeOK, RequestsTypeOK, Claims
<1>10. LocksOK'
  BY DEF LocksOK, LocksToken, LocksUser, LocksOnce
<1>11. HoldersOK'
  <2> SUFFICES ASSUME NEW q \in Reqs, req'[q] = req[q], req[q].pc \in Guarded
               PROVE  Checked(req[q])'
    BY DEF HoldersOK, Checked
  <2>1. CASE At(q, "rotateCommit")
    <3>1. req[q].user \in Users /\ req[q].user # u
      BY <2>1 DEF CarryOK, Carry, HoldersOK, Checked, Live, Exists, Grown, UserFree, LocksUser
    <3> QED
      BY <2>1, <3>1, <1>2 DEF HoldersOK, Checked, Live, Unrevoked, Unused, Exists
  <2>2. CASE ~At(q, "rotateCommit")
    BY <2>2, <1>4 DEF HoldersOK, Checked, Unused, CarryOK, Carry
  <2> QED
    BY <2>1, <2>2
<1> QED
  BY <1>1, <1>5, <1>6, <1>7, <1>8, <1>9, <1>10, <1>11

\* Tokens nobody holds a lock on are revoked.
LEMMA Revokes ==
  ASSUME IInv, Settled, NEW S, \A t \in S \cap Tokens : TokenFree(t), Revoke(S),
         UNCHANGED <<users, once, clients>>
  PROVE  IInv'
<1> USE DEF Settled, Plain, Guarded, clients, IInv, At
<1>1. TypeOK'
  BY DEF TypeOK, DatabaseTypeOK, RequestsTypeOK, Revoke, RefreshRows
<1>2. \A t \in Tokens : /\ refresh'[t].st = refresh[t].st
                         /\ refresh'[t].user = refresh[t].user
                         /\ refresh'[t].version = refresh[t].version
                         /\ refresh'[t].family = refresh[t].family
                         /\ refresh'[t].cred = refresh[t].cred
  BY DEF TypeOK, DatabaseTypeOK, RefreshRows, Revoke
<1>2a. \A t \in Tokens : /\ Unrevoked(t)' => Unrevoked(t)
                         /\ TokenFree(t) \/ refresh'[t] = refresh[t]
  BY DEF TypeOK, DatabaseTypeOK, RefreshRows, Revoke, Unrevoked
<1>3. CarryOK' /\ EmailsOK' /\ OnceOK' /\ AccessOK'
  BY DEF CarryOK, Carry, EmailsOK, OnceOK, AccessOK, Bound, Exists
<1>4. RowsOK'
  BY <1>2 DEF RowsOK, Bound, Exists
<1>5. LocksOK'
  BY DEF LocksOK, LocksToken, LocksUser, LocksOnce
<1>6. HoldersOK'
  BY <1>2, <1>2a DEF HoldersOK, Checked, CarryOK, Carry, Live, Unrevoked, Unused, Exists, TokenFree, LocksToken
<1>7. OneTokenPerLogin'
  BY <1>2, <1>2a DEF OneTokenPerLogin, Unrevoked
<1> QED
  BY <1>1, <1>3, <1>4, <1>5, <1>6, <1>7

-----------------------------------------------------------------------------
(* The actions of AuthService *)

LEMMA LoginReadStep ==
  ASSUME IInv, NEW r \in Reqs, NEW s \in Spellings, NEW p \in Passwords, LoginRead(r, s, p)
  PROVE  IInv'
<1>1. PICK u \in GetByEmail(s) :
        /\ LoginAllowed(u, p)
        /\ Become(r, [Idle EXCEPT !.pc = "createSession", !.user = u,
                                  !.version = users[u].version, !.cred = p])
  BY DEF LoginRead
<1> DEFINE x == [Idle EXCEPT !.pc = "createSession", !.user = u,
                             !.version = users[u].version, !.cred = p]
<1>2. u \in Users /\ Exists(u) /\ users[u].version \in Nat /\ users[u].pw = p
  BY <1>1 DEF GetByEmail, LoginAllowed, IInv, TypeOK, DatabaseTypeOK, UserRows
<1>3. x \in Requests /\ x.pc = "createSession"
  BY <1>2 DEF Idle, Requests, PCs, Args
<1>4. Carry(x) /\ Checked(x)
  BY <1>2 DEF Carry, Checked, Idle, Bound, Exists
<1> HIDE DEF x
<1> QED
  BY <1>1, <1>3, <1>4, Enters DEF LoginRead, x

LEMMA CreateSessionStep ==
  ASSUME IInv, NEW r \in Reqs, NEW t \in Tokens, CreateSession(r, t)
  PROVE  IInv'
<1> DEFINE u == req[r].user
           v == req[r].version
           c == req[r].cred
<1> USE DEF IInv, CreateSession
<1>1. u \in Users /\ v \in Nat /\ c \in Passwords \cup {None} /\ Exists(u) /\ Bound(u, v, c)
  BY DEF CarryOK, Carry, At, Insertable, TypeOK, RequestsTypeOK, Requests
<1>2. Settled
  BY FinishSettles
<1>3. \A n \in Tokens : refresh'[n] = IF n = t THEN NewRefresh(u, v, t, c) ELSE refresh[n]
  BY DEF TypeOK, DatabaseTypeOK
<1>4. NewRefresh(u, v, t, c) = [st |-> "row", user |-> u, version |-> v, revoked |-> FALSE,
                                family |-> t, cred |-> c]
  BY DEF NewRefresh
<1>5. TypeOK'
  <2>1. NewRefresh(u, v, t, c) \in RefreshRows
    BY <1>1, <1>4 DEF RefreshRows, Life
  <2>2. refresh' \in [Tokens -> RefreshRows]
    BY <2>1 DEF TypeOK, DatabaseTypeOK
  <2>3. access' \subseteq Claims /\ held' \subseteq Tokens
    BY <1>1 DEF TypeOK, RequestsTypeOK, Claims
  <2> QED
    BY <1>2, <2>2, <2>3 DEF TypeOK, DatabaseTypeOK, RequestsTypeOK, Settled
<1>6. CarryOK' /\ EmailsOK' /\ OnceOK'
  BY <1>2 DEF CarryOK, Carry, EmailsOK, OnceOK, Bound, Exists, Settled, Plain, Guarded
<1>7. RowsOK'
  BY <1>1, <1>3, <1>4 DEF RowsOK, Bound, Exists
<1>8. AccessOK'
  BY <1>1 DEF AccessOK, Bound, Exists
<1>9. LocksOK'
  BY <1>2 DEF LocksOK, LocksToken, LocksUser, LocksOnce, Settled, Plain, Guarded
<1>10. HoldersOK'
  <2> SUFFICES ASSUME NEW q \in Reqs, req'[q] = req[q]
               PROVE  Checked(req[q])'
    BY <1>2 DEF HoldersOK, Checked, Settled, Plain, Guarded
  <2>1. Checked(req[q]) /\ Carry(req[q]) /\ users' = users /\ once' = once
    BY DEF HoldersOK, CarryOK
  <2>2. req[q].pc \in {"rotateUser", "rotateCommit"} =>
          req[q].token \in Tokens /\ refresh'[req[q].token] = refresh[req[q].token]
    BY <1>3, <2>1 DEF Checked, Carry, Live, Unrevoked
  <2> QED
    BY <2>1, <2>2 DEF Checked, Live, Unrevoked, Unused, Exists
<1>11. OneTokenPerLogin'
  BY <1>3, <1>4 DEF OneTokenPerLogin, Unrevoked, RowsOK
<1> QED
  BY <1>5, <1>6, <1>7, <1>8, <1>9, <1>10, <1>11

LEMMA RotateLockStep ==
  ASSUME IInv, NEW r \in Reqs, NEW t \in Tokens, RotateLock(r, t)
  PROVE  IInv'
<1> DEFINE x == [Idle EXCEPT !.pc = "rotateUser", !.token = t]
<1>1. x \in Requests /\ x.pc = "rotateUser" /\ x.token = t
  BY DEF Idle, Requests, PCs, Args
<1>2. Carry(x) /\ Checked(x)
  BY <1>1 DEF Carry, Checked, RotateLock
<1> HIDE DEF x
<1> QED
  BY <1>1, <1>2, Enters DEF RotateLock, x, TokenFree

LEMMA RotateUserStep ==
  ASSUME IInv, NEW r \in Reqs, RotateUser(r)
  PROVE  IInv'
<1> DEFINE t == req[r].token
           u == refresh[t].user
           x == [req[r] EXCEPT !.pc = "rotateCommit", !.user = u,
                               !.version = users[u].version, !.cred = refresh[t].cred]
<1>1. CASE Finish(r)
  BY <1>1, FinishSettles, Reads DEF IInv, RotateUser, Rollback
<1>2. CASE RotationAllowed(t) /\ Become(r, x)
  <2> USE DEF IInv
  <2>1. t \in Tokens /\ u \in Users /\ Live(t) /\ UserFree(u)
    BY <1>2 DEF RotateUser, CarryOK, Carry, At, RotationAllowed, RowsOK, Live, Unrevoked
  <2>2. /\ x \in Requests /\ x.pc = "rotateCommit" /\ x.token = t /\ x.user = u
        /\ x.version = users[u].version /\ x.cred = refresh[t].cred
    <3>1. users[u].version \in Nat /\ refresh[t].cred \in Passwords \cup {None}
      BY <2>1 DEF TypeOK, DatabaseTypeOK, UserRows, RefreshRows
    <3>2. req[r] \in Requests
      BY DEF TypeOK, RequestsTypeOK
    <3> QED
      BY <2>1, <3>1, <3>2 DEF Requests, PCs
  <2>3. refresh[t].version = users[u].version /\ Bound(u, users[u].version, refresh[t].cred)
    BY <2>1 DEF Live, RowsOK, Unrevoked
  <2>4. Carry(x) /\ Checked(x)
    BY <2>1, <2>2, <2>3 DEF Carry, Checked
  <2>5. \A q \in Reqs \ {r} : ~LocksToken(q, t)
    BY <2>1 DEF LocksOK, LocksToken, RotateUser, At
  <2> HIDE DEF x
  <2> QED
    BY <1>2, <2>1, <2>2, <2>4, <2>5, Enters DEF RotateUser, UserFree
<1> QED
  BY <1>1, <1>2 DEF RotateUser, Rollback

LEMMA RotateCommitStep ==
  ASSUME IInv, NEW r \in Reqs, NEW n \in Tokens, RotateCommit(r, n)
  PROVE  IInv'
<1> DEFINE t == req[r].token
           u == req[r].user
           v == req[r].version
           c == req[r].cred
           f == refresh[t].family
           x == [req[r] EXCEPT !.pc = "refreshRead", !.token = n]
           row == NewRefresh(u, v, f, c)
<1> USE DEF IInv
<1>1. /\ t \in Tokens /\ u \in Users /\ v \in Nat /\ c \in Passwords \cup {None}
      /\ Bound(u, v, c) /\ Live(t) /\ refresh[t].user = u /\ At(r, "rotateCommit")
      /\ refresh[n].st = "free"
  BY DEF RotateCommit, CarryOK, Carry, HoldersOK, Checked, At, TypeOK, RequestsTypeOK, Requests
<1>2. t # n /\ f \in Tokens /\ refresh[f].st # "free" /\ Exists(u)
  BY <1>1 DEF Live, Unrevoked, RowsOK
<1>3. \A q \in Reqs : req'[q] = IF q = r THEN x ELSE req[q]
  BY DEF RotateCommit, Become, TypeOK, RequestsTypeOK
<1>4. /\ x \in Requests /\ x.pc = "refreshRead" /\ x.token = n
      /\ x.user = u /\ x.version = v /\ x.cred = c
  <2> HIDE DEF IInv
  <2>1. req[r] \in Requests
    BY DEF IInv, TypeOK, RequestsTypeOK
  <2>2. x \in Requests
    BY <2>1 DEF Requests, PCs
  <2>3. /\ x.pc = "refreshRead" /\ x.token = n
        /\ x.user = u /\ x.version = v /\ x.cred = c
    BY <2>1 DEF Requests
  <2> QED
    BY <2>2, <2>3
<1>5. /\ row \in RefreshRows /\ row.st = "row" /\ row.user = u /\ row.version = v
      /\ row.family = f /\ row.cred = c
  BY <1>1, <1>2 DEF NewRefresh, RefreshRows, Life
<1> HIDE DEF x, row
<1>6. \A y \in Tokens :
        refresh'[y] = IF y = n THEN row
                      ELSE IF y = t THEN [refresh[y] EXCEPT !.revoked = TRUE] ELSE refresh[y]
  BY <1>1, <1>2 DEF RotateCommit, TypeOK, DatabaseTypeOK, row
<1>7. \A y \in Tokens \ {n} : /\ refresh'[y].st = refresh[y].st
                               /\ refresh'[y].user = refresh[y].user
                               /\ refresh'[y].version = refresh[y].version
                               /\ refresh'[y].family = refresh[y].family
                               /\ refresh'[y].cred = refresh[y].cred
  <2> SUFFICES ASSUME NEW y \in Tokens \ {n}
               PROVE  /\ refresh'[y].st = refresh[y].st
                      /\ refresh'[y].user = refresh[y].user
                      /\ refresh'[y].version = refresh[y].version
                      /\ refresh'[y].family = refresh[y].family
                      /\ refresh'[y].cred = refresh[y].cred
    OBVIOUS
  <2> HIDE DEF IInv
  <2>1. refresh[y] \in RefreshRows
    BY DEF IInv, TypeOK, DatabaseTypeOK
  <2>2. CASE y = t
    <3>1. refresh'[y] = [refresh[y] EXCEPT !.revoked = TRUE]
      BY <1>6, <2>2
    <3> QED
      BY <2>1, <3>1 DEF RefreshRows
  <2>3. CASE y # t
    BY <1>6, <2>3
  <2> QED
    BY <2>2, <2>3
<1>8. \A y \in Tokens \ {n} : Unrevoked(y)' => y # t /\ Unrevoked(y)
  <2> SUFFICES ASSUME NEW y \in Tokens \ {n}
               PROVE  Unrevoked(y)' => y # t /\ Unrevoked(y)
    OBVIOUS
  <2>1. CASE y = t
    BY <1>6, <2>1 DEF Unrevoked, TypeOK, DatabaseTypeOK, RefreshRows
  <2>2. CASE y # t
    BY <1>6, <2>2 DEF Unrevoked
  <2> QED
    BY <2>1, <2>2
<1>9. TypeOK'
  <2>1. \A y \in Tokens : refresh'[y] \in RefreshRows
    <3> SUFFICES ASSUME NEW y \in Tokens PROVE refresh'[y] \in RefreshRows
      OBVIOUS
    <3> HIDE DEF IInv
    <3>1. refresh[y] \in RefreshRows
      BY DEF IInv, TypeOK, DatabaseTypeOK
    <3>2. [refresh[y] EXCEPT !.revoked = TRUE] \in RefreshRows
      BY <3>1 DEF RefreshRows
    <3> QED
      BY <1>5, <1>6, <3>1, <3>2
  <2>2. refresh' \in [Tokens -> RefreshRows]
    BY <2>1 DEF RotateCommit, TypeOK, DatabaseTypeOK
  <2>3. req' \in [Reqs -> Requests]
    <3> HIDE DEF IInv
    <3>1. req \in [Reqs -> Requests] /\ req' = [req EXCEPT ![r] = x]
      BY DEF IInv, TypeOK, RequestsTypeOK, RotateCommit, Become, x
    <3> QED
      BY <1>4, <3>1
  <2> QED
    BY <2>2, <2>3 DEF RotateCommit, TypeOK, DatabaseTypeOK, RequestsTypeOK, clients
<1>10. CarryOK'
  BY <1>1, <1>3, <1>4 DEF RotateCommit, CarryOK, Carry, Bound, Exists
<1>11. EmailsOK' /\ OnceOK' /\ AccessOK'
  BY DEF RotateCommit, clients, EmailsOK, OnceOK, AccessOK, Bound, Exists
<1>12. RowsOK'
  <2>1. users' = users
    BY DEF RotateCommit
  <2> SUFFICES ASSUME NEW y \in Tokens, refresh'[y].st = "row"
               PROVE  RowsOK!(y)!2'
    BY DEF RowsOK
  <2>2. CASE y = n
    <3>1. refresh'[n] = row
      BY <1>6
    <3>2. refresh'[f].st # "free"
      BY <1>2, <1>7, <1>1
    <3> QED
      BY <1>1, <1>2, <1>5, <2>1, <2>2, <3>1, <3>2 DEF Bound, Exists
  <2>3. CASE y # n
    <3>1. RowsOK!(y)!2
      BY <1>7, <2>3 DEF RowsOK
    <3>2. refresh'[refresh[y].family].st # "free"
      BY <1>1, <1>7, <3>1
    <3> QED
      BY <1>7, <2>1, <2>3, <3>1, <3>2 DEF Bound, Exists
  <2> QED
    BY <2>2, <2>3
<1>13. LocksOK'
  BY <1>3, <1>4 DEF LocksOK, LocksToken, LocksUser, LocksOnce
<1>14. HoldersOK'
  <2> SUFFICES ASSUME NEW q \in Reqs \ {r}, req'[q] = req[q],
                      req[q].pc \in {"rotateUser", "rotateCommit", "deleteCommit", "consume"}
               PROVE  Checked(req[q])'
    BY <1>3, <1>4 DEF HoldersOK, Checked
  <2>1. req[q].pc \in {"rotateUser", "rotateCommit"} =>
          req[q].token \in Tokens \ {t, n} /\ refresh'[req[q].token] = refresh[req[q].token]
    BY <1>1, <1>6 DEF LocksOK, LocksToken, At, CarryOK, Carry, HoldersOK, Checked, Live, Unrevoked
  <2>2. Checked(req[q]) /\ users' = users /\ once' = once
    BY DEF RotateCommit, HoldersOK
  <2> QED
    BY <2>1, <2>2 DEF Checked, Live, Unrevoked, Unused, Exists
<1>15. OneTokenPerLogin'
  <2>1. Unrevoked(t) /\ \A y \in Tokens : y # t /\ Unrevoked(y) => refresh[y].family # f
    BY <1>1 DEF OneTokenPerLogin, Live
  <2>2. refresh'[n].family = f
    BY <1>5, <1>6
  <2> QED
    BY <1>7, <1>8, <2>1, <2>2 DEF OneTokenPerLogin
<1> QED
  BY <1>9, <1>10, <1>11, <1>12, <1>13, <1>14, <1>15

LEMMA RefreshReadStep ==
  ASSUME IInv, NEW r \in Reqs, RefreshRead(r)
  PROVE  IInv'
<1> DEFINE u == req[r].user
           v == req[r].version
           a == [user |-> u, version |-> v, cred |-> req[r].cred]
<1> USE DEF IInv
<1>1. Settled
  <2>1. CASE Finish(r)
    BY <2>1, FinishSettles
  <2>2. CASE Goto(r, "revokeAll")
    BY <2>2, GotoSettles DEF RefreshRead, At, PCs, Guarded
  <2>3. CASE Goto(r, "revokeNew")
    BY <2>3, GotoSettles DEF RefreshRead, At, PCs, Guarded
  <2> QED
    BY <2>1, <2>2, <2>3 DEF RefreshRead
<1>2. CASE UNCHANGED clients
  BY <1>1, <1>2, Reads DEF RefreshRead
<1>3. CASE access' = access \cup {a} /\ held' = held \cup {req[r].token}
  <2>1. Bound(u, v, req[r].cred) /\ u \in Users /\ req[r].token \in Tokens
    BY DEF RefreshRead, At, CarryOK, Carry
  <2>2. req[r] \in Requests
    BY DEF TypeOK, RequestsTypeOK
  <2>3. access' \subseteq Claims /\ held' \subseteq Tokens
    BY <1>3, <2>1, <2>2 DEF TypeOK, RequestsTypeOK, Claims, Requests
  <2>4. TypeOK'
    BY <1>1, <2>3 DEF RefreshRead, tables, TypeOK, DatabaseTypeOK, RequestsTypeOK, Settled
  <2>5. AccessOK'
    BY <1>3, <2>1 DEF RefreshRead, tables, AccessOK, Bound, Exists
  <2>6. users' = users /\ refresh' = refresh /\ once' = once
    BY DEF RefreshRead, tables
  <2>7. CarryOK'
    BY <1>1, <2>6 DEF CarryOK, Carry, Bound, Exists, Settled, Plain, Guarded
  <2>8. EmailsOK' /\ RowsOK' /\ OnceOK' /\ OneTokenPerLogin'
    BY <2>6 DEF EmailsOK, RowsOK, OnceOK, OneTokenPerLogin, Bound, Exists, Unrevoked
  <2>9. LocksOK'
    BY <1>1 DEF LocksOK, LocksToken, LocksUser, LocksOnce, Settled, Plain, Guarded
  <2>10. HoldersOK'
    BY <1>1, <2>6 DEF HoldersOK, Checked, Live, Unrevoked, Unused, Exists, Settled, Plain, Guarded
  <2> QED
    BY <2>4, <2>5, <2>7, <2>8, <2>9, <2>10
<1> QED
  BY <1>2, <1>3 DEF RefreshRead

LEMMA RevokeSteps ==
  ASSUME IInv, NEW r \in Reqs, RevokeNew(r) \/ RevokeApply(r)
  PROVE  IInv'
<1>1. CASE RevokeNew(r)
  BY <1>1, FinishSettles, Revokes DEF RevokeNew, IInv
<1>2. CASE RevokeApply(r)
  BY <1>2, FinishSettles, Revokes DEF RevokeApply, IInv
<1> QED
  BY <1>1, <1>2

LEMMA LogoutStep ==
  ASSUME IInv, NEW t \in Tokens \cup {None}, Logout(t)
  PROVE  IInv'
<1>1. \A x \in {t} \cap Tokens : TokenFree(x)
  BY KeysAssumption DEF Logout
<1> QED
  BY <1>1, NoneSettles, Revokes DEF Logout, IInv

\* The requests that start by reading only: nothing else is owed yet.
LEMMA ArrivalSteps ==
  ASSUME IInv, NEW r \in Reqs,
         \/ \E a \in access : LogoutAll(r, a)
         \/ \E s \in Spellings : ForgotPassword(r, s) \/ ResendVerification(r, s)
         \/ \E a \in access, p, q \in Passwords : ChangePassword(r, a, p, q)
  PROVE  IInv'
<1> USE DEF IInv, Plain, Guarded, Idle, Requests, PCs, Args
<1>1. \A a \in access : a.user \in Users /\ a.version \in Nat
  BY DEF TypeOK, RequestsTypeOK, Claims
<1>2. Settled
  <2>1. ASSUME NEW a \in access, LogoutAll(r, a)  PROVE Settled
    <3>1. Plain([Idle EXCEPT !.pc = "increment", !.user = a.user])
      BY <1>1
    <3> QED
      BY <2>1, <3>1, BecomeSettles DEF LogoutAll
  <2>2. ASSUME NEW s \in Spellings, ForgotPassword(r, s)  PROVE Settled
    <3>1. PICK u \in Users : Become(r, [Idle EXCEPT !.pc = "replaceReset", !.user = u])
      BY <2>2 DEF ForgotPassword, GetByEmail
    <3>2. Plain([Idle EXCEPT !.pc = "replaceReset", !.user = u])
      OBVIOUS
    <3> QED
      BY <3>1, <3>2, BecomeSettles
  <2>3. ASSUME NEW s \in Spellings, ResendVerification(r, s)  PROVE Settled
    <3>1. PICK u \in Users : Become(r, [Idle EXCEPT !.pc = "replaceVerif", !.user = u])
      BY <2>3 DEF ResendVerification, GetByEmail
    <3>2. Plain([Idle EXCEPT !.pc = "replaceVerif", !.user = u])
      OBVIOUS
    <3> QED
      BY <3>1, <3>2, BecomeSettles
  <2>4. ASSUME NEW a \in access, NEW p \in Passwords, NEW q \in Passwords,
               ChangePassword(r, a, p, q)
        PROVE  Settled
    <3> DEFINE x == [Idle EXCEPT !.pc = "changeRead", !.actor = a.user, !.user = a.user,
                                 !.version = a.version, !.cred = p, !.pw = q]
    <3>1. Plain(x)
      BY <1>1
    <3>2. Become(r, x)
      BY <2>4 DEF ChangePassword
    <3> HIDE DEF x
    <3> QED
      BY <3>1, <3>2, BecomeSettles
  <2> QED
    BY <2>1, <2>2, <2>3, <2>4
<1>3. UNCHANGED <<tables, clients>>
  BY DEF LogoutAll, ForgotPassword, ResendVerification, ChangePassword
<1> QED
  BY <1>2, <1>3, Reads

LEMMA ReadSteps ==
  ASSUME IInv, NEW r \in Reqs,
         \/ RevokeAll(r) \/ Replace(r) \/ ChangeRead(r)
         \/ CreateSessionFails(r) \/ InsertOnceFails(r) \/ DeadlockVictim(r) \/ Abort(r)
  PROVE  IInv'
<1> USE DEF IInv, At
<1>1. CASE RevokeAll(r)
  <2> DEFINE x == [req[r] EXCEPT !.pc = "revokeApply", !.snap = UnrevokedOf(req[r].user)]
  <2>1. Plain(x)
    <3>1. req[r] \in Requests /\ req[r].user \in Users
      BY <1>1 DEF RevokeAll, TypeOK, RequestsTypeOK, CarryOK, Carry
    <3>2. UnrevokedOf(req[r].user) \in SUBSET (Tokens \cup OneTime)
      BY DEF UnrevokedOf
    <3>3. "revokeApply" \in PCs \ Guarded
      BY DEF PCs, Guarded
    <3> QED
      BY <3>1, <3>2, <3>3, SnapshotPlain
  <2>2. Become(r, x) /\ UNCHANGED <<tables, clients>>
    BY <1>1 DEF RevokeAll
  <2> HIDE DEF x
  <2> QED
    BY <2>1, <2>2, BecomeSettles, Reads
<1>2. CASE Replace(r)
  <2> DEFINE reset == At(r, "replaceReset")
             x == [req[r] EXCEPT
                     !.pc = IF reset THEN "insertReset" ELSE "insertVerif",
                     !.snap = UnusedOf(IF reset THEN Resets ELSE Verifs, req[r].user)]
  <2>1. UnusedOf(IF reset THEN Resets ELSE Verifs, req[r].user) \subseteq OneTime
    BY DEF UnusedOf, OneTime
  <2>2. Plain(x)
    <3>1. req[r] \in Requests /\ req[r].user \in Users
      BY <1>2 DEF Replace, TypeOK, RequestsTypeOK, CarryOK, Carry
    <3>2. UnusedOf(IF reset THEN Resets ELSE Verifs, req[r].user)
            \in SUBSET (Tokens \cup OneTime)
      BY <2>1
    <3>3. (IF reset THEN "insertReset" ELSE "insertVerif") \in PCs \ Guarded
      BY DEF PCs, Guarded
    <3> HIDE DEF reset
    <3> QED
      BY <3>1, <3>2, <3>3, SnapshotPlain
  <2>3. Become(r, x) /\ UNCHANGED <<tables, clients>>
    BY <1>2 DEF Replace
  <2> HIDE DEF x
  <2> QED
    BY <2>2, <2>3, BecomeSettles, Reads
<1>3. CASE ChangeRead(r)
  <2>1. Settled
    BY <1>3, FinishSettles, GotoSettles DEF ChangeRead, PCs, Guarded
  <2> QED
    BY <1>3, <2>1, Reads DEF ChangeRead
<1>4. CASE CreateSessionFails(r) \/ InsertOnceFails(r) \/ DeadlockVictim(r) \/ Abort(r)
  BY <1>4, FinishSettles, Reads DEF CreateSessionFails, InsertOnceFails, DeadlockVictim, Abort
<1> QED
  BY <1>1, <1>2, <1>3, <1>4

\* Increment, UpdatePassword, MarkVerified, SetActive, WriteRole: one UPDATE of
\* an existing row, or none.
LEMMA UserUpdateSteps ==
  ASSUME IInv, NEW r \in Reqs,
         \/ Increment(r) \/ UpdatePassword(r) \/ MarkVerified(r)
         \/ SetActive(r) \/ WriteRole(r)
  PROVE  IInv'
<1> DEFINE u == req[r].user
           row == users[u]
<1> USE DEF IInv
<1>1. u \in Users /\ req[r] \in Requests /\ row \in UserRows
  BY DEF Increment, UpdatePassword, MarkVerified, SetActive, WriteRole, At,
         TypeOK, DatabaseTypeOK, RequestsTypeOK, CarryOK, Carry
<1>2. Settled
  BY FinishSettles, GotoSettles DEF Increment, UpdatePassword, MarkVerified, SetActive,
                                    WriteRole, At, PCs, Guarded
<1>3. UNCHANGED <<refresh, once, clients>> /\ UserFree(u)
  BY DEF Increment, UpdatePassword, MarkVerified, SetActive, WriteRole
<1>4. CASE UNCHANGED users
  BY <1>2, <1>3, <1>4, Reads DEF tables
<1>5. CASE Exists(u) /\ IncrementTokenVersion(u)
  <2> DEFINE new == [row EXCEPT !.version = row.version + 1]
  <2>1. Grown(u, new)
    BY <1>1, <1>3, <1>5 DEF Grown, Exists, UserRows
  <2>2. users' = [users EXCEPT ![u] = new]
    BY <1>5 DEF IncrementTokenVersion
  <2> HIDE DEF new, row
  <2> QED
    BY <1>1, <1>2, <1>3, <2>1, <2>2, WritesUser
<1>6. CASE At(r, "updatePassword") /\ Exists(u) /\ WritePassword(u, req[r].pw)
  <2> DEFINE new == [row EXCEPT !.pw = req[r].pw, !.version = row.version + 1]
  <2>1. Grown(u, new)
    <3>1. req[r].pw \in Passwords \cup {None} /\ row.version + 1 \in Nat
      BY <1>1 DEF UserRows, Requests
    <3>2. /\ new \in UserRows /\ new.st = row.st /\ new.email = row.email
          /\ new.version = row.version + 1
      BY <1>1, <3>1 DEF UserRows
    <3> QED
      BY <1>3, <1>6, <3>2 DEF Grown, Exists
  <2>2. users' = [users EXCEPT ![u] = new]
    <3>1. users' = [users EXCEPT ![u] = [[row EXCEPT !.pw = req[r].pw] EXCEPT !.version = @ + 1]]
      BY <1>1, <1>6 DEF WritePassword, TypeOK, DatabaseTypeOK
    <3>2. [[row EXCEPT !.pw = req[r].pw] EXCEPT !.version = @ + 1] = new
      BY <1>1 DEF UserRows
    <3> QED
      BY <3>1, <3>2
  <2> HIDE DEF new, row
  <2> QED
    BY <1>1, <1>2, <1>3, <2>1, <2>2, WritesUser
<1>7. CASE Exists(u) /\ users' = [users EXCEPT ![u].verified = TRUE]
  <2> DEFINE new == [row EXCEPT !.verified = TRUE]
  <2>1. Grown(u, new)
    BY <1>1, <1>3, <1>7 DEF Grown, Exists, UserRows
  <2> HIDE DEF new
  <2>2. users' = [users EXCEPT ![u] = new]
    BY <1>7 DEF new
  <2> HIDE DEF row
  <2> QED
    BY <1>1, <1>2, <1>3, <2>1, <2>2, WritesUser
<1>8. CASE Exists(u) /\ users' = [users EXCEPT ![u].active = (req[r].arg = "enable")]
  <2> DEFINE new == [row EXCEPT !.active = (req[r].arg = "enable")]
  <2>1. Grown(u, new)
    BY <1>1, <1>3, <1>8 DEF Grown, Exists, UserRows
  <2> HIDE DEF new
  <2>2. users' = [users EXCEPT ![u] = new]
    BY <1>8 DEF new
  <2> HIDE DEF row
  <2> QED
    BY <1>1, <1>2, <1>3, <2>1, <2>2, WritesUser
<1>9. CASE /\ At(r, "setRole") /\ Exists(u)
           /\ users' = [users EXCEPT ![u].role = req[r].arg]
  <2> DEFINE new == [row EXCEPT !.role = req[r].arg]
  <2>1. Grown(u, new)
    BY <1>1, <1>3, <1>9 DEF Grown, Exists, UserRows, At, CarryOK, Carry
  <2>2. users' = [users EXCEPT ![u] = new]
    BY <1>9
  <2> HIDE DEF new, row
  <2> QED
    BY <1>1, <1>2, <1>3, <2>1, <2>2, WritesUser
<1> QED
  BY <1>4, <1>5, <1>6, <1>7, <1>8, <1>9
    DEF Increment, UpdatePassword, MarkVerified, SetActive, WriteRole

LEMMA RegisterReadStep ==
  ASSUME IInv, NEW r \in Reqs, NEW s \in Spellings, NEW p \in Passwords, RegisterRead(r, s, p)
  PROVE  IInv'
<1> DEFINE x == [Idle EXCEPT !.pc = "insertUser", !.arg = Lower[s], !.pw = p]
<1>1. Lower[s] \in Spellings
  BY LowerAssumption
<1>2. x \in Requests /\ x.pc = "insertUser" /\ x.arg = Lower[s]
  BY <1>1 DEF Idle, Requests, PCs, Args
<1>3. Carry(x) /\ Checked(x)
  BY <1>1, <1>2 DEF Carry, Checked
<1> HIDE DEF x
<1> QED
  BY <1>2, <1>3, Enters DEF RegisterRead, x

LEMMA RegisterInsertStep ==
  ASSUME IInv, NEW r \in Reqs, NEW u \in Users, RegisterInsert(r, u)
  PROVE  IInv'
<1> DEFINE s == req[r].arg
           x == [Idle EXCEPT !.pc = "replaceVerif", !.user = u]
<1> USE DEF IInv
<1>1. CASE Finish(r) /\ UNCHANGED users
  BY <1>1, FinishSettles, Reads DEF RegisterInsert, tables
<1>2. CASE ~EmailTaken(Lower[s]) /\ InsertUser(u, s, req[r].pw) /\ Become(r, x)
  <2> DEFINE new == [st |-> "row", email |-> Lower[s], pw |-> req[r].pw, role |-> "user",
                     verified |-> FALSE, active |-> TRUE, version |-> 0]
  <2>1. s \in Spellings /\ req[r].pw \in Passwords \cup {None}
    BY DEF RegisterInsert, At, CarryOK, Carry, TypeOK, RequestsTypeOK, Requests
  <2>2. Lower[s] \in Spellings /\ Lower[Lower[s]] = Lower[s]
    BY <2>1, LowerAssumption
  <2>3. Grown(u, new)
    BY <1>2, <2>1, <2>2 DEF RegisterInsert, Grown, UserRows, Life, Roles
  <2>4. Settled
    <3>1. Plain(x)
      BY DEF Plain, Guarded, Idle, Requests, PCs, Args
    <3> QED
      BY <1>2, <3>1, BecomeSettles
  <2>5. users' = [users EXCEPT ![u] = new]
    BY <1>2 DEF InsertUser
  <2> HIDE DEF new
  <2> QED
    BY <2>3, <2>4, <2>5, WritesUser DEF RegisterInsert
<1> QED
  BY <1>1, <1>2 DEF RegisterInsert

\* The tables of one-time tokens change; the tables that sessions depend on do
\* not.
LEMMA OnceFrame ==
  ASSUME IInv, Settled, UNCHANGED <<users, refresh, clients>>, once' \in [OneTime -> OnceRows]
  PROVE  /\ TypeOK' /\ CarryOK' /\ EmailsOK' /\ RowsOK' /\ AccessOK' /\ LocksOK'
         /\ OneTokenPerLogin'
<1> USE DEF IInv, Settled, Plain, Guarded, clients
<1>1. TypeOK'
  BY DEF TypeOK, DatabaseTypeOK, RequestsTypeOK
<1>2. CarryOK'
  BY DEF CarryOK, Carry, Bound, Exists
<1>3. EmailsOK' /\ RowsOK' /\ AccessOK' /\ OneTokenPerLogin'
  BY DEF EmailsOK, RowsOK, AccessOK, OneTokenPerLogin, Bound, Exists, Unrevoked
<1>4. LocksOK'
  BY DEF LocksOK, LocksToken, LocksUser, LocksOnce
<1> QED
  BY <1>1, <1>2, <1>3, <1>4

LEMMA InsertOnceStep ==
  ASSUME IInv, NEW r \in Reqs, NEW o \in OneTime, InsertOnce(r, o)
  PROVE  IInv'
<1> DEFINE u == req[r].user
           S == req[r].snap
<1> USE DEF IInv
<1>1. u \in Users /\ Exists(u)
  BY DEF InsertOnce, At, CarryOK, Carry, Insertable
<1>2. Settled /\ UNCHANGED <<users, refresh, clients>>
  BY FinishSettles DEF InsertOnce
<1>3. \A x \in OneTime :
        once'[x] = IF x = o THEN NewOnce(u)
                   ELSE IF x \in S /\ Unused(x) THEN NoOnce("gone")
                   ELSE once[x]
  BY DEF InsertOnce, ReplaceUnused
<1>4. /\ NewOnce(u) \in OnceRows /\ NewOnce(u).st = "row" /\ NewOnce(u).user = u
      /\ NewOnce(u).uses = IF NewOnce(u).used THEN 1 ELSE 0
  BY <1>1 DEF NewOnce, OnceRows, Life
<1>5. /\ NoOnce("gone") \in OnceRows /\ NoOnce("gone").st = "gone"
      /\ NoOnce("gone").uses = IF NoOnce("gone").used THEN 1 ELSE 0
  BY DEF NoOnce, OnceRows, Life
<1>6. once' \in [OneTime -> OnceRows]
  <2>1. \A x \in OneTime : once'[x] \in OnceRows
    BY <1>3, <1>4, <1>5 DEF TypeOK, DatabaseTypeOK
  <2> QED
    BY <2>1 DEF InsertOnce, ReplaceUnused
<1>7. OnceOK'
  BY <1>1, <1>2, <1>3, <1>4, <1>5 DEF OnceOK, Exists
<1>8. HoldersOK'
  <2> SUFFICES ASSUME NEW q \in Reqs, req'[q] = req[q],
                      req[q].pc \in {"rotateUser", "rotateCommit", "deleteCommit", "consume"}
               PROVE  Checked(req[q])'
    BY <1>2 DEF HoldersOK, Checked, Settled, Plain, Guarded
  <2>1. Checked(req[q]) /\ users' = users /\ refresh' = refresh
    BY <1>2 DEF HoldersOK
  <2>2. req[q].pc = "consume" => Unused(req[q].token)'
    <3> SUFFICES ASSUME req[q].pc = "consume"  PROVE Unused(req[q].token)'
      OBVIOUS
    <3> DEFINE x == req[q].token
    <3>1. x \in OneTime /\ Unused(x) /\ ~OnceFree(x)
      BY <2>1 DEF Checked, CarryOK, Carry, OnceFree, LocksOnce
    <3>2. once[o].st = "free" /\ \A y \in S : OnceFree(y)
      BY DEF InsertOnce
    <3>3. x # o /\ x \notin S
      BY <3>1, <3>2 DEF Unused
    <3>4. once'[x] = once[x]
      BY <1>3, <3>1, <3>3
    <3> QED
      BY <3>1, <3>4 DEF Unused
  <2> QED
    BY <2>1, <2>2 DEF Checked, Live, Unrevoked, Unused, Exists
<1> QED
  BY <1>2, <1>6, <1>7, <1>8, OnceFrame

LEMMA ConsumeStartSteps ==
  ASSUME IInv, NEW r \in Reqs, NEW o \in OneTime,
         VerifyEmail(r, o) \/ \E p \in Passwords : ResetPassword(r, o, p)
  PROVE  IInv'
<1> DEFINE y(p) == [Idle EXCEPT !.pc = "consume", !.token = o, !.user = once[o].user, !.pw = p]
<1> USE DEF IInv
<1>1. PICK p \in Passwords \cup {None} : Consume(r, o, p)
  BY DEF VerifyEmail, ResetPassword
<1>2. Consumable(o) /\ Become(r, y(p)) /\ UNCHANGED <<tables, clients>>
  BY <1>1 DEF Consume
<1>3. once[o].user \in Users
  BY <1>2 DEF Consumable, Unused, OnceOK
<1>4. y(p) \in Requests /\ y(p).pc = "consume" /\ y(p).token = o /\ y(p).user = once[o].user
  BY <1>3 DEF Idle, Requests, PCs, Args
<1>5. Carry(y(p)) /\ Checked(y(p))
  BY <1>2, <1>3, <1>4 DEF Carry, Checked, Consumable
<1> HIDE DEF y
<1> QED
  BY <1>2, <1>4, <1>5, Enters DEF Consumable, OnceFree

LEMMA ConsumeCommitStep ==
  ASSUME IInv, NEW r \in Reqs, ConsumeCommit(r)
  PROVE  IInv'
<1> DEFINE o == req[r].token
<1> USE DEF IInv
<1>1. o \in OneTime /\ Unused(o) /\ At(r, "consume")
  BY DEF ConsumeCommit, At, CarryOK, Carry, HoldersOK, Checked
<1>2. Settled /\ UNCHANGED <<users, refresh, clients>>
  BY GotoSettles DEF ConsumeCommit, At, PCs, Guarded
<1>3. \A x \in OneTime \ {o} : once'[x] = once[x]
  BY DEF ConsumeCommit, SpendOnce, TypeOK, DatabaseTypeOK
<1>4. once[o].uses = 0
  BY <1>1 DEF OnceOK, Unused
<1> DEFINE y == [once[o] EXCEPT !.used = TRUE]
           z == [y EXCEPT !.uses = 1]
<1>5. /\ once'[o] = z /\ z \in OnceRows /\ z.st = once[o].st /\ z.user = once[o].user
      /\ z.uses = 1 /\ z.used
  <2>1. y \in OnceRows /\ y.st = once[o].st /\ y.user = once[o].user /\ y.used /\ y.uses = 0
    BY <1>1, <1>4 DEF OnceRows, TypeOK, DatabaseTypeOK
  <2>2. once'[o] = [y EXCEPT !.uses = @ + 1]
    BY <1>1 DEF ConsumeCommit, SpendOnce, TypeOK, DatabaseTypeOK
  <2> HIDE DEF y
  <2>3. once'[o] = z
    BY <2>1, <2>2
  <2>4. z \in OnceRows /\ z.st = y.st /\ z.user = y.user /\ z.uses = 1
    BY <2>1 DEF OnceRows
  <2>5. z.used = y.used
    BY <2>1 DEF OnceRows
  <2> QED
    BY <2>1, <2>3, <2>4, <2>5
<1> HIDE DEF y, z
<1>6. once' \in [OneTime -> OnceRows]
  BY <1>3, <1>5 DEF ConsumeCommit, SpendOnce, TypeOK, DatabaseTypeOK
<1>7. OnceOK'
  BY <1>1, <1>2, <1>3, <1>5 DEF OnceOK, Exists
<1>8. HoldersOK'
  <2> SUFFICES ASSUME NEW q \in Reqs, req'[q] = req[q],
                      req[q].pc \in {"rotateUser", "rotateCommit", "deleteCommit", "consume"}
               PROVE  Checked(req[q])'
    BY <1>2 DEF HoldersOK, Checked, Settled, Plain, Guarded
  <2>1. Checked(req[q]) /\ users' = users /\ refresh' = refresh
    BY <1>2 DEF HoldersOK
  <2>2. req[q].pc = "consume" => req[q].token \in OneTime \ {o}
    <3>1. req'[r].pc \in {"updatePassword", "markVerified"}
      BY DEF ConsumeCommit, Goto, TypeOK, RequestsTypeOK, Requests
    <3>2. q # r
      BY <3>1
    <3> QED
      BY <1>1, <3>2 DEF LocksOK, LocksOnce, At, CarryOK, Carry
  <2> QED
    BY <1>3, <2>1, <2>2 DEF Checked, Live, Unrevoked, Unused, Exists
<1> QED
  BY <1>2, <1>6, <1>7, <1>8, OnceFrame

-----------------------------------------------------------------------------
(* The actions of AdminService *)

LEMMA AdminRequestSteps ==
  ASSUME IInv, NEW r \in Reqs, NEW a \in access, NEW u \in Users,
         SetStatus(r, a, u) \/ SetRole(r, a, u) \/ DeleteUser(r, a, u)
  PROVE  IInv'
<1> DEFINE x(pc, arg) == [Idle EXCEPT !.pc = pc, !.actor = a.user, !.user = u, !.arg = arg]
<1> USE DEF IInv
<1>1. PICK pc, arg :
        /\ \/ pc = "setActive" /\ arg \in {"enable", "disable"}
           \/ pc = "setRole" /\ arg \in Roles
           \/ pc = "deleteUser" /\ arg = None
        /\ AdminRequest(r, a, u, pc, arg)
  BY DEF SetStatus, SetRole, DeleteUser
<1>2. a.user \in Users
  BY DEF TypeOK, RequestsTypeOK, Claims
<1>3. /\ x(pc, arg) \in Requests /\ x(pc, arg).pc = pc /\ x(pc, arg).user = u
      /\ x(pc, arg).arg = arg
  BY <1>1, <1>2 DEF Idle, Requests, PCs, Args
<1>4. Become(r, x(pc, arg)) /\ UNCHANGED <<tables, clients>>
  BY <1>1 DEF AdminRequest
<1> HIDE DEF x
<1>5. Carry(x(pc, arg)) /\ Checked(x(pc, arg))
  BY <1>1, <1>3 DEF Carry, Checked
<1> QED
  BY <1>1, <1>3, <1>4, <1>5, Enters

LEMMA DeleteLockStep ==
  ASSUME IInv, NEW r \in Reqs, DeleteLock(r)
  PROVE  IInv'
<1> DEFINE u == req[r].user
           x == [req[r] EXCEPT !.pc = "deleteCommit"]
<1> USE DEF IInv
<1>1. CASE Finish(r)
  BY <1>1, FinishSettles, Reads DEF DeleteLock
<1>2. CASE Exists(u) /\ Goto(r, "deleteCommit")
  <2>1. u \in Users /\ UserFree(u) /\ UNCHANGED <<tables, clients>>
    BY DEF DeleteLock, At, CarryOK, Carry
  <2>2. x \in Requests /\ x.pc = "deleteCommit" /\ x.user = u
    BY DEF TypeOK, RequestsTypeOK, Requests, PCs
  <2>3. Become(r, x)
    BY <1>2 DEF Goto, Become
  <2> HIDE DEF x
  <2>4. Carry(x) /\ Checked(x)
    BY <1>2, <2>1, <2>2 DEF Carry, Checked
  <2> QED
    BY <2>1, <2>2, <2>3, <2>4, Enters DEF UserFree
<1> QED
  BY <1>1, <1>2 DEF DeleteLock

LEMMA DeleteCommitStep ==
  ASSUME IInv, NEW r \in Reqs, DeleteCommit(r)
  PROVE  IInv'
<1> DEFINE u == req[r].user
<1> USE DEF IInv
<1>1. u \in Users /\ At(r, "deleteCommit")
  BY DEF DeleteCommit, At, CarryOK, Carry
<1>2. Settled /\ UNCHANGED clients
  BY FinishSettles DEF DeleteCommit
<1>3. \A w \in Users : users'[w] = IF w = u THEN NoUser("gone") ELSE users[w]
  BY <1>1 DEF DeleteCommit, DeleteCascade, TypeOK, DatabaseTypeOK
<1>4. \A t \in Tokens :
        refresh'[t] = IF refresh[t].user = u THEN NoRefresh("gone") ELSE refresh[t]
  BY DEF DeleteCommit, DeleteCascade
<1>5. \A o \in OneTime :
        once'[o] = IF once[o].user = u THEN NoOnce("gone") ELSE once[o]
  BY DEF DeleteCommit, DeleteCascade
<1>6. NoUser("gone") \in UserRows /\ NoUser("gone").st = "gone"
  BY DEF NoUser, UserRows, Life, Roles
<1>7. NoRefresh("gone") \in RefreshRows /\ NoRefresh("gone").st = "gone"
  BY DEF NoRefresh, RefreshRows, Life
<1>8. /\ NoOnce("gone") \in OnceRows /\ NoOnce("gone").st = "gone"
      /\ NoOnce("gone").uses = IF NoOnce("gone").used THEN 1 ELSE 0
  BY DEF NoOnce, OnceRows, Life
<1>9. TypeOK'
  <2>1. \A t \in Tokens : refresh'[t] \in RefreshRows
    BY <1>4, <1>7 DEF TypeOK, DatabaseTypeOK
  <2>2. \A o \in OneTime : once'[o] \in OnceRows
    BY <1>5, <1>8 DEF TypeOK, DatabaseTypeOK
  <2>3. refresh' \in [Tokens -> RefreshRows] /\ once' \in [OneTime -> OnceRows]
    BY <2>1, <2>2 DEF DeleteCommit, DeleteCascade
  <2>4. users' \in [Users -> UserRows]
    BY <1>6 DEF DeleteCommit, DeleteCascade, TypeOK, DatabaseTypeOK
  <2> QED
    BY <1>2, <2>3, <2>4 DEF TypeOK, DatabaseTypeOK, RequestsTypeOK, Settled, clients
<1>10. \A w \in Users, v \in Nat : \A c : Bound(w, v, c) => Bound(w, v, c)'
  BY <1>3, <1>6 DEF Bound, Exists
<1>11. CarryOK'
  BY <1>2, <1>10 DEF CarryOK, Carry, Settled, Plain, Guarded, TypeOK, RequestsTypeOK, Requests
<1>12. EmailsOK'
  BY <1>3, <1>6 DEF EmailsOK, Exists
<1>13. RowsOK'
  <2> SUFFICES ASSUME NEW t \in Tokens, refresh'[t].st = "row"
               PROVE  RowsOK!(t)!2'
    BY DEF RowsOK
  <2>1. refresh'[t] = refresh[t] /\ refresh[t].user # u
    BY <1>4, <1>7
  <2>2. RowsOK!(t)!2 /\ refresh[t].version \in Nat
    BY <2>1 DEF RowsOK, TypeOK, DatabaseTypeOK, RefreshRows
  <2>3. Exists(refresh[t].user)' /\ Bound(refresh[t].user, refresh[t].version, refresh[t].cred)'
    BY <1>3, <1>10, <2>1, <2>2 DEF Exists, Bound
  <2>4. refresh'[refresh[t].family].st # "free"
    BY <1>4, <1>7, <2>2
  <2> QED
    BY <2>1, <2>2, <2>3, <2>4
<1>14. OnceOK'
  BY <1>3, <1>5, <1>8 DEF OnceOK, Exists
<1>15. AccessOK'
  BY <1>2, <1>10 DEF AccessOK, clients, TypeOK, RequestsTypeOK, Claims
<1>16. LocksOK'
  BY <1>2 DEF LocksOK, LocksToken, LocksUser, LocksOnce, Settled, Plain, Guarded
<1>17. HoldersOK'
  <2> SUFFICES ASSUME NEW q \in Reqs, req'[q] = req[q], q # r,
                      req[q].pc \in {"rotateUser", "rotateCommit", "deleteCommit", "consume"}
               PROVE  Checked(req[q])'
    <3>1. req'[r].pc = "idle"
      BY DEF DeleteCommit, Finish, Become, Idle, TypeOK, RequestsTypeOK
    <3> QED
      BY <1>2, <3>1 DEF HoldersOK, Checked, Settled, Plain, Guarded
  <2> DEFINE t == req[q].token
  <2>1. Checked(req[q]) /\ Carry(req[q])
    BY DEF HoldersOK, CarryOK
  <2>2. req[q].pc \in {"rotateCommit", "deleteCommit"} =>
          req[q].user \in Users \ {u}
    BY <1>1, <2>1 DEF Carry, LocksOK, LocksUser, At
  <2>3. req[q].pc \in {"rotateUser", "rotateCommit"} =>
          t \in Tokens /\ refresh[t].user # u
    BY <2>1 DEF DeleteCommit, Carry, TokenFree, LocksToken
  <2>4. req[q].pc = "consume" => t \in OneTime /\ once[t].user # u
    BY <2>1 DEF DeleteCommit, Carry, OnceFree, LocksOnce
  <2>5. CASE req[q].pc \in {"rotateUser", "rotateCommit"}
    <3>1. refresh'[t] = refresh[t]
      BY <1>4, <2>3, <2>5
    <3> QED
      BY <1>3, <2>1, <2>2, <2>5, <3>1 DEF Checked, Live, Unrevoked, Exists
  <2>6. CASE req[q].pc = "deleteCommit"
    BY <1>3, <2>1, <2>2, <2>6 DEF Checked, Exists
  <2>7. CASE req[q].pc = "consume"
    <3>1. once'[t] = once[t]
      BY <1>5, <2>4, <2>7
    <3> QED
      BY <2>1, <2>7, <3>1 DEF Checked, Unused
  <2> QED
    BY <2>5, <2>6, <2>7
<1>18. OneTokenPerLogin'
  BY <1>4, <1>7 DEF OneTokenPerLogin, Unrevoked
<1> QED
  BY <1>9, <1>11, <1>12, <1>13, <1>14, <1>15, <1>16, <1>17, <1>18

LEMMA SeededRow ==
  ASSUME LowerAssumption, NEW row \in UserRows, NEW s \in Spellings, NEW p \in Passwords
  PROVE  /\ Seeded(row, s, p) \in UserRows
         /\ Seeded(row, s, p).st = row.st
         /\ Seeded(row, s, p).email = Lower[s]
         /\ Seeded(row, s, p).version = row.version
<1>1. Lower[s] \in Spellings
  BY LowerAssumption
<1> QED
  BY <1>1 DEF Seeded, UserRows, Roles

LEMMA SeedStep ==
  ASSUME IInv, NEW s \in Spellings, NEW p \in Passwords, Seed(s, p)
  PROVE  IInv'
<1> USE DEF IInv
<1>1. Settled /\ UNCHANGED <<refresh, once, clients>>
  BY NoneSettles DEF Seed
<1>2. Lower[s] \in Spellings /\ Lower[Lower[s]] = Lower[s]
  BY LowerAssumption
<1>3. CASE \E u \in Users :
             /\ Exists(u) /\ users[u].email = Lower[s]
             /\ UserFree(u)
             /\ users' = [users EXCEPT ![u] =
                            Seeded([@ EXCEPT !.version = users[u].version + 1], s, p)]
  <2>1. PICK u \in Users :
             /\ Exists(u) /\ users[u].email = Lower[s]
             /\ UserFree(u)
             /\ users' = [users EXCEPT ![u] =
                            Seeded([users[u] EXCEPT !.version = users[u].version + 1], s, p)]
    BY <1>3
  <2> DEFINE row == [users[u] EXCEPT !.version = users[u].version + 1]
  <2>2. row \in UserRows /\ row.st = "row" /\ row.version = users[u].version + 1
    BY <2>1 DEF TypeOK, DatabaseTypeOK, UserRows, Exists
  <2> HIDE DEF row
  <2>3. Grown(u, Seeded(row, s, p))
    BY <2>1, <2>2, SeededRow, LowerAssumption DEF Grown
  <2>4. users' = [users EXCEPT ![u] = Seeded(row, s, p)]
    BY <2>1 DEF row
  <2> QED
    BY <1>1, <2>3, <2>4, WritesUser
<1>4. CASE \E u \in Users :
             /\ ~EmailTaken(Lower[s])
             /\ users[u].st = "free"
             /\ users' = [users EXCEPT ![u] = Seeded(NoUser("row"), s, p)]
  <2>1. PICK u \in Users :
             /\ ~EmailTaken(Lower[s])
             /\ users[u].st = "free"
             /\ users' = [users EXCEPT ![u] = Seeded(NoUser("row"), s, p)]
    BY <1>4
  <2>2. NoUser("row") \in UserRows /\ NoUser("row").st = "row"
    BY DEF NoUser, UserRows, Life, Roles
  <2>3. Grown(u, Seeded(NoUser("row"), s, p))
    BY <1>2, <2>1, <2>2, SeededRow, LowerAssumption DEF Grown
  <2> QED
    BY <1>1, <2>1, <2>3, WritesUser
<1> QED
  BY <1>3, <1>4 DEF Seed

-----------------------------------------------------------------------------
(* The invariant *)

LEMMA InitInvariant == Init => IInv
<1> SUFFICES ASSUME Init  PROVE IInv
  OBVIOUS
<1> USE DEF Init, DatabaseInit, RequestsInit
<1>1. NoRefresh("free") \in RefreshRows /\ NoRefresh("free").st = "free"
  BY DEF NoRefresh, RefreshRows, Life
<1>2. /\ NoOnce("free") \in OnceRows /\ NoOnce("free").st = "free"
      /\ NoOnce("free").uses = IF NoOnce("free").used THEN 1 ELSE 0
  BY DEF NoOnce, OnceRows, Life
<1>3. Idle \in Requests /\ Idle.pc = "idle"
  BY DEF Idle, Requests, PCs, Args
<1>4. TypeOK
  <2>1. ASSUME NEW u \in SignedIn
        PROVE  [user |-> u, version |-> InitUsers[u].version, cred |-> InitUsers[u].pw] \in Claims
    BY InitUsersAssumption, RequestsAssumption DEF Claims, UserRows
  <2>2. access \subseteq Claims
    BY <2>1
  <2> QED
    BY <1>1, <1>2, <1>3, <2>2, InitUsersAssumption DEF TypeOK, DatabaseTypeOK, RequestsTypeOK
<1>5. NoUser("free").st = "free"
  BY DEF NoUser
<1>6. EmailsOK
  BY <1>5, InitUsersAssumption DEF EmailsOK, Exists
<1>7. CarryOK /\ RowsOK /\ OnceOK /\ OneTokenPerLogin
  BY <1>1, <1>2, <1>3 DEF CarryOK, Carry, RowsOK, OnceOK, OneTokenPerLogin, Unrevoked
<1>9. AccessOK
  <2>1. ASSUME NEW u \in SignedIn PROVE Bound(u, InitUsers[u].version, InitUsers[u].pw)
    BY InitUsersAssumption, RequestsAssumption DEF Bound, Exists, UserRows
  <2> QED
    BY <2>1 DEF AccessOK
<1>8. LocksOK /\ HoldersOK
  BY <1>3 DEF LocksOK, LocksToken, LocksUser, LocksOnce, HoldersOK, Checked
<1> QED
  BY <1>4, <1>6, <1>7, <1>8, <1>9 DEF IInv

LEMMA StepInvariant == IInv /\ [Next]_vars => IInv'
<1> SUFFICES ASSUME IInv, [Next]_vars  PROVE IInv'
  OBVIOUS
<1>1. ASSUME NEW r \in Reqs, Arrive(r)  PROVE IInv'
  BY <1>1, LoginReadStep, RotateLockStep, ArrivalSteps, RegisterReadStep, ConsumeStartSteps,
     AdminRequestSteps DEF Arrive, OneTime
<1>2. ASSUME NEW r \in Reqs, Proceed(r)  PROVE IInv'
  BY <1>2, CreateSessionStep, RotateUserStep, RotateCommitStep, RefreshReadStep, RevokeSteps,
     ReadSteps, UserUpdateSteps, InsertOnceStep, RegisterInsertStep, ConsumeCommitStep,
     DeleteLockStep, DeleteCommitStep DEF Proceed
<1>3. ASSUME NEW r \in Reqs, DeadlockVictim(r) \/ Abort(r)  PROVE IInv'
  BY <1>3, ReadSteps
<1>4. ASSUME NEW t \in Tokens \cup {None}, Logout(t)  PROVE IInv'
  BY <1>4, LogoutStep
<1>5. ASSUME NEW s \in Spellings, NEW p \in Passwords, Seed(s, p)  PROVE IInv'
  BY <1>5, SeedStep
<1>6. CASE UNCHANGED vars
  <2>1. Settled
    BY <1>6, NoneSettles DEF vars, IInv
  <2> QED
    BY <1>6, <2>1, Reads DEF vars, tables, clients
<1> QED
  BY <1>1, <1>2, <1>3, <1>4, <1>5, <1>6 DEF Next

\* The inductive invariant holds in every reachable state.
THEOREM Invariance == Spec => []IInv
<1>1. Init => IInv
  BY InitInvariant
<1>2. IInv /\ [Next]_vars => IInv'
  BY StepInvariant
<1> QED
  BY <1>1, <1>2, PTL DEF Spec

-----------------------------------------------------------------------------
(* The properties *)

\* Every variable keeps its type, whatever requests interleave.
THEOREM TypeCorrect == Spec => []TypeOK
<1>1. IInv => TypeOK
  BY DEF IInv
<1> QED
  BY <1>1, Invariance, PTL

\* Whatever interleaves with a change of password (ChangePassword,
\* ResetPassword, cmd/seed) or a logout-all, no session or access token that
\* RequireAuth or Rotate still accepts was obtained with an older password.
THEOREM SessionsKnowPasswordAlways == Spec => []SessionsKnowPassword
<1>1. IInv => SessionsKnowPassword
  BY DEF IInv, SessionsKnowPassword, RowsOK, AccessOK, Bound, Live, Unrevoked
<1> QED
  BY <1>1, Invariance, PTL

\* The FOR UPDATE of Rotate and its check under the lock leave at most one
\* usable refresh token per login, for any number of concurrent replays.
THEOREM OneTokenPerLoginAlways == Spec => []OneTokenPerLogin
<1>1. IInv => OneTokenPerLogin
  BY DEF IInv
<1> QED
  BY <1>1, Invariance, PTL

\* Foreign key checks and cascades leave no token of a deleted user, whatever
\* a request had read before the DELETE.
THEOREM TokensOfExistingUsersAlways == Spec => []TokensOfExistingUsers
<1>1. IInv => TokensOfExistingUsers
  BY DEF IInv, TokensOfExistingUsers, RowsOK, OnceOK
<1> QED
  BY <1>1, Invariance, PTL

\* consume lets one request through per mailed token, however many present it.
THEOREM ConsumedOnceAlways == Spec => []ConsumedOnce
<1>1. IInv => ConsumedOnce
  BY DEF IInv, ConsumedOnce, OnceOK
<1> QED
  BY <1>1, Invariance, PTL

\* Register and the seed command never make two accounts of one address.
THEOREM UniqueEmailAlways == Spec => []UniqueEmail
<1>1. IInv => UniqueEmail
  BY DEF IInv, UniqueEmail, EmailsOK
<1> QED
  BY <1>1, Invariance, PTL
-----------------------------------------------------------------------------
(* Where requests do not go *)

\* The places that the two arguments below look at.
Watched == {"setActive", "setRole", "deleteUser", "deleteCommit",
            "createSession", "consume", "markVerified"}

Elsewhere == \A q \in Reqs : req'[q] = req[q] \/ req'[q].pc \notin Watched

LEMMA ReqIs ==
  ASSUME TypeOK, NEW r \in Reqs
  PROVE  /\ \A x : Become(r, x) => req'[r] = x /\ \A q \in Reqs : q # r => req'[q] = req[q]
         /\ \A pc : Goto(r, pc) => /\ req'[r] = [req[r] EXCEPT !.pc = pc] /\ req'[r].pc = pc
                                   /\ \A q \in Reqs : q # r => req'[q] = req[q]
<1>1. req \in [Reqs -> Requests] /\ req[r] \in Requests
  BY DEF TypeOK, RequestsTypeOK
<1>2. ASSUME NEW pc, Goto(r, pc)
      PROVE  /\ req'[r] = [req[r] EXCEPT !.pc = pc] /\ req'[r].pc = pc
             /\ \A q \in Reqs : q # r => req'[q] = req[q]
  BY <1>1, <1>2 DEF Goto, Requests
<1> QED
  BY <1>1, <1>2 DEF Become

LEMMA BecomeElsewhere ==
  ASSUME TypeOK, NEW r \in Reqs, NEW x, Become(r, x), x.pc \notin Watched
  PROVE  Elsewhere
BY ReqIs DEF Elsewhere

LEMMA GotoElsewhere ==
  ASSUME TypeOK, NEW r \in Reqs, NEW pc, Goto(r, pc), pc \notin Watched
  PROVE  Elsewhere
BY ReqIs DEF Elsewhere

LEMMA FinishElsewhere ==
  ASSUME TypeOK, NEW r \in Reqs, Finish(r)
  PROVE  Elsewhere
<1>1. Idle.pc \notin Watched
  BY DEF Idle, Watched
<1> QED
  BY <1>1, BecomeElsewhere DEF Finish

LEMMA ArrivalsElsewhere ==
  ASSUME TypeOK, NEW r \in Reqs,
         \/ \E t \in Tokens : RotateLock(r, t)
         \/ \E a \in access : LogoutAll(r, a)
         \/ \E a \in access, p, q \in Passwords : ChangePassword(r, a, p, q)
         \/ \E s \in Spellings : ForgotPassword(r, s) \/ ResendVerification(r, s)
         \/ \E s \in Spellings, p \in Passwords : RegisterRead(r, s, p)
  PROVE  Elsewhere
<1>1. CASE \E t \in Tokens : RotateLock(r, t)
  <2>1. PICK t \in Tokens : Become(r, [Idle EXCEPT !.pc = "rotateUser", !.token = t])
    BY <1>1 DEF RotateLock
  <2>2. [Idle EXCEPT !.pc = "rotateUser", !.token = t].pc \notin Watched
    BY DEF Idle, Watched
  <2> QED
    BY <2>1, <2>2, BecomeElsewhere
<1>2. CASE \E a \in access : LogoutAll(r, a)
  <2>1. PICK u : Become(r, [Idle EXCEPT !.pc = "increment", !.user = u])
    BY <1>2 DEF LogoutAll
  <2>2. [Idle EXCEPT !.pc = "increment", !.user = u].pc \notin Watched
    BY DEF Idle, Watched
  <2> QED
    BY <2>1, <2>2, BecomeElsewhere
<1>3. CASE \E a \in access, p, q \in Passwords : ChangePassword(r, a, p, q)
  <2>1. PICK u, v, p, q : Become(r, [Idle EXCEPT !.pc = "changeRead", !.actor = u, !.user = u,
                                                 !.version = v, !.cred = p, !.pw = q])
    BY <1>3 DEF ChangePassword
  <2>2. [Idle EXCEPT !.pc = "changeRead", !.actor = u, !.user = u,
                     !.version = v, !.cred = p, !.pw = q].pc \notin Watched
    BY DEF Idle, Watched
  <2> QED
    BY <2>1, <2>2, BecomeElsewhere
<1>4. CASE \E s \in Spellings : ForgotPassword(r, s) \/ ResendVerification(r, s)
  <2>1. PICK u, pc : /\ pc \in {"replaceReset", "replaceVerif"}
                     /\ Become(r, [Idle EXCEPT !.pc = pc, !.user = u])
    BY <1>4 DEF ForgotPassword, ResendVerification
  <2>2. [Idle EXCEPT !.pc = pc, !.user = u].pc \notin Watched
    BY <2>1 DEF Idle, Watched
  <2> QED
    BY <2>1, <2>2, BecomeElsewhere
<1>5. CASE \E s \in Spellings, p \in Passwords : RegisterRead(r, s, p)
  <2>1. PICK e, p : Become(r, [Idle EXCEPT !.pc = "insertUser", !.arg = e, !.pw = p])
    BY <1>5 DEF RegisterRead
  <2>2. [Idle EXCEPT !.pc = "insertUser", !.arg = e, !.pw = p].pc \notin Watched
    BY DEF Idle, Watched
  <2> QED
    BY <2>1, <2>2, BecomeElsewhere
<1> QED
  BY <1>1, <1>2, <1>3, <1>4, <1>5

LEMMA GoneOnElsewhere ==
  ASSUME TypeOK, NEW r \in Reqs,
         \/ RotateUser(r) \/ (\E n \in Tokens : RotateCommit(r, n)) \/ RefreshRead(r)
         \/ Increment(r) \/ RevokeAll(r) \/ Replace(r) \/ (\E u \in Users : RegisterInsert(r, u))
         \/ ChangeRead(r) \/ UpdatePassword(r) \/ SetActive(r) \/ WriteRole(r)
  PROVE  Elsewhere
<1>0. req[r] \in Requests
  BY DEF TypeOK, RequestsTypeOK
<1>1. CASE RotateUser(r)
  <2>1. CASE Rollback(r)
    BY <2>1, FinishElsewhere DEF Rollback
  <2>2. CASE ~Rollback(r)
    <3>1. PICK u, v, c : Become(r, [req[r] EXCEPT !.pc = "rotateCommit", !.user = u,
                                                  !.version = v, !.cred = c])
      BY <1>1, <2>2 DEF RotateUser
    <3>2. [req[r] EXCEPT !.pc = "rotateCommit", !.user = u,
                         !.version = v, !.cred = c].pc \notin Watched
      BY <1>0 DEF Requests, Watched
    <3> QED
      BY <3>1, <3>2, BecomeElsewhere
  <2> QED
    BY <2>1, <2>2
<1>2. CASE \E n \in Tokens : RotateCommit(r, n)
  <2>1. PICK n : Become(r, [req[r] EXCEPT !.pc = "refreshRead", !.token = n])
    BY <1>2 DEF RotateCommit
  <2>2. [req[r] EXCEPT !.pc = "refreshRead", !.token = n].pc \notin Watched
    BY <1>0 DEF Requests, Watched
  <2> QED
    BY <2>1, <2>2, BecomeElsewhere
<1>3. CASE RefreshRead(r)
  <2>1. Finish(r) \/ Goto(r, "revokeAll") \/ Goto(r, "revokeNew")
    BY <1>3 DEF RefreshRead
  <2> QED
    BY <2>1, FinishElsewhere, GotoElsewhere DEF Watched
<1>4. CASE RevokeAll(r)
  <2>1. PICK S : Become(r, [req[r] EXCEPT !.pc = "revokeApply", !.snap = S])
    BY <1>4 DEF RevokeAll
  <2>2. [req[r] EXCEPT !.pc = "revokeApply", !.snap = S].pc \notin Watched
    BY <1>0 DEF Requests, Watched
  <2> QED
    BY <2>1, <2>2, BecomeElsewhere
<1>5. CASE Replace(r)
  <2>1. PICK S, pc : /\ pc \in {"insertReset", "insertVerif"}
                     /\ Become(r, [req[r] EXCEPT !.pc = pc, !.snap = S])
    BY <1>5 DEF Replace
  <2>2. [req[r] EXCEPT !.pc = pc, !.snap = S].pc \notin Watched
    BY <1>0, <2>1 DEF Requests, Watched
  <2> QED
    BY <2>1, <2>2, BecomeElsewhere
<1>6. CASE \E u \in Users : RegisterInsert(r, u)
  <2>1. CASE Finish(r)
    BY <2>1, FinishElsewhere
  <2>2. CASE ~Finish(r)
    <3>1. PICK u : Become(r, [Idle EXCEPT !.pc = "replaceVerif", !.user = u])
      BY <1>6, <2>2 DEF RegisterInsert
    <3>2. [Idle EXCEPT !.pc = "replaceVerif", !.user = u].pc \notin Watched
      BY DEF Idle, Watched
    <3> QED
      BY <3>1, <3>2, BecomeElsewhere
  <2> QED
    BY <2>1, <2>2
<1>7. CASE Increment(r) \/ ChangeRead(r) \/ UpdatePassword(r) \/ SetActive(r) \/ WriteRole(r)
  <2>1. Finish(r) \/ Goto(r, "revokeAll") \/ Goto(r, "updatePassword")
    BY <1>7 DEF Increment, ChangeRead, UpdatePassword, SetActive, WriteRole
  <2> QED
    BY <2>1, FinishElsewhere, GotoElsewhere DEF Watched
<1> QED
  BY <1>1, <1>2, <1>3, <1>4, <1>5, <1>6, <1>7

LEMMA EndsElsewhere ==
  ASSUME TypeOK, NEW r \in Reqs,
         \/ (\E t \in Tokens : CreateSession(r, t)) \/ CreateSessionFails(r)
         \/ RevokeNew(r) \/ RevokeApply(r)
         \/ (\E o \in OneTime : InsertOnce(r, o)) \/ InsertOnceFails(r)
         \/ MarkVerified(r) \/ DeleteCommit(r) \/ Abort(r) \/ DeadlockVictim(r)
  PROVE  Elsewhere
<1>1. Finish(r)
  BY DEF CreateSession, CreateSessionFails, RevokeNew, RevokeApply, InsertOnce, InsertOnceFails,
         MarkVerified, DeleteCommit, Abort, DeadlockVictim
<1> QED
  BY <1>1, FinishElsewhere

-----------------------------------------------------------------------------
(* The last administrator *)

\* What an administrator asked for leaves that administrator alone, or one.
Safe(x) ==
  /\ x.pc = "setActive" => x.arg = "enable" \/ x.actor # x.user
  /\ x.pc = "setRole" => x.arg = "admin" \/ x.actor # x.user
  /\ x.pc \in {"deleteUser", "deleteCommit"} => x.actor # x.user

TargetsOK == \A r \in Reqs : Safe(req[r])

\* The action of the property.
StaleFall ==
  ActiveAdmins # {} /\ ActiveAdmins' = {} =>
    \E r \in Reqs : /\ req[r].pc \in {"setActive", "setRole", "deleteCommit"}
                    /\ req[r] # req'[r]
                    /\ req[r].actor \notin ActiveAdmins

LEMMA ElsewhereTargets == ASSUME TargetsOK, Elsewhere PROVE TargetsOK'
BY DEF TargetsOK, Elsewhere, Safe, Watched

LEMMA AdminRequestTargets ==
  ASSUME IInv, TargetsOK, NEW r \in Reqs, NEW a \in access, NEW u \in Users,
         SetStatus(r, a, u) \/ SetRole(r, a, u) \/ DeleteUser(r, a, u)
  PROVE  TargetsOK' /\ UNCHANGED users
<1>1. PICK pc, arg : /\ AdminRequest(r, a, u, pc, arg)
                     /\ \/ pc = "setActive" /\ arg \in {"enable", "disable"}
                        \/ pc = "setRole" /\ arg \in Roles
                        \/ pc = "deleteUser" /\ arg = None
  BY DEF SetStatus, SetRole, DeleteUser
<1> DEFINE x == [Idle EXCEPT !.pc = pc, !.actor = a.user, !.user = u, !.arg = arg]
<1>2. x.pc = pc /\ x.actor = a.user /\ x.user = u /\ x.arg = arg
  BY DEF Idle
<1>3. Become(r, x) /\ MayTarget(a.user, u, arg) /\ UNCHANGED users
  BY <1>1 DEF AdminRequest, tables
<1> HIDE DEF x
<1>4. Safe(x)
  BY <1>1, <1>2, <1>3, AdminAssumption DEF Safe, MayTarget, Roles
<1>5. req'[r] = x /\ \A q \in Reqs : q # r => req'[q] = req[q]
  BY <1>3, ReqIs DEF IInv
<1>6. ASSUME NEW q \in Reqs PROVE Safe(req'[q])
  BY <1>4, <1>5 DEF TargetsOK
<1> QED
  BY <1>3, <1>6 DEF TargetsOK, Safe

LEMMA DeleteLockTargets ==
  ASSUME IInv, TargetsOK, NEW r \in Reqs, DeleteLock(r)
  PROVE  TargetsOK' /\ UNCHANGED users
<1>1. At(r, "deleteUser") /\ UNCHANGED users
  BY DEF DeleteLock, tables
<1>2. CASE Finish(r)
  BY <1>1, <1>2, FinishElsewhere, ElsewhereTargets DEF IInv
<1>3. CASE Goto(r, "deleteCommit")
  <2>1. req[r] \in Requests
    BY DEF IInv, TypeOK, RequestsTypeOK
  <2>2. /\ req'[r] = [req[r] EXCEPT !.pc = "deleteCommit"]
        /\ \A q \in Reqs : q # r => req'[q] = req[q]
    BY <1>3, ReqIs DEF IInv
  <2>3. req'[r].pc = "deleteCommit" /\ req'[r].actor # req'[r].user
    BY <1>1, <2>1, <2>2 DEF TargetsOK, Safe, At, Requests
  <2>4. \A q \in Reqs : Safe(req'[q])
    BY <2>2, <2>3 DEF TargetsOK, Safe
  <2> QED
    BY <1>1, <2>4 DEF TargetsOK, Safe
<1> QED
  BY <1>2, <1>3 DEF DeleteLock

\* Who is an active administrator and stays one.
LEMMA Remain ==
  ASSUME \A v \in Users : v \in ActiveAdmins => v \in ActiveAdmins'
  PROVE  StaleFall
BY DEF StaleFall, ActiveAdmins

LEMMA UntouchedAdmins == ASSUME UNCHANGED users PROVE StaleFall
BY Remain DEF ActiveAdmins, Exists

\* A request of another administrator has changed the row of u only.
LEMMA OnlyTarget ==
  ASSUME NEW r \in Reqs, req[r].pc \in {"setActive", "setRole", "deleteCommit"},
         req'[r] # req[r], req[r].actor # req[r].user,
         \A v \in Users : v # req[r].user => users'[v] = users[v]
  PROVE  StaleFall
<1>1. \A v \in Users : v # req[r].user /\ v \in ActiveAdmins => v \in ActiveAdmins'
  BY DEF ActiveAdmins, Exists
<1>2. ActiveAdmins \subseteq Users
  BY DEF ActiveAdmins
<1> QED
  BY <1>1, <1>2 DEF StaleFall

LEMMA AdminWritesFall ==
  ASSUME IInv, TargetsOK, NEW r \in Reqs, SetActive(r) \/ WriteRole(r) \/ DeleteCommit(r)
  PROVE  StaleFall
<1> DEFINE u == req[r].user
<1>1. req[r] \in Requests /\ u \in Users /\ users \in [Users -> UserRows]
  <2>1. req[r].pc \in {"setActive", "setRole", "deleteCommit"}
    BY DEF SetActive, WriteRole, DeleteCommit, At
  <2>2. req[r].pc \notin {"idle", "rotateUser", "insertUser"}
    BY <2>1
  <2> QED
    BY <2>2 DEF IInv, TypeOK, RequestsTypeOK, DatabaseTypeOK, CarryOK, Carry
<1>2. req'[r].pc \notin {"setActive", "setRole", "deleteCommit"}
  <2>1. Finish(r) \/ Goto(r, "revokeAll")
    BY DEF SetActive, WriteRole, DeleteCommit
  <2>2. Finish(r) => req'[r] = Idle
    BY ReqIs DEF IInv, Finish
  <2>3. Goto(r, "revokeAll") => req'[r].pc = "revokeAll"
    BY ReqIs DEF IInv
  <2> QED
    BY <2>1, <2>2, <2>3 DEF Idle
<1>3. CASE UNCHANGED users
  BY <1>3, UntouchedAdmins
<1>4. CASE SetActive(r) /\ ~UNCHANGED users
  <2>1. users' = [users EXCEPT ![u].active = (req[r].arg = "enable")] /\ At(r, "setActive")
    BY <1>4 DEF SetActive
  <2>2. \A v \in Users : v # u => users'[v] = users[v]
    BY <2>1, <1>1
  <2>3. CASE req[r].arg = "enable"
    <3>1. users'[u].st = users[u].st /\ users'[u].role = users[u].role /\ users'[u].active = TRUE
      <4>1. users[u] \in UserRows /\ users'[u] = [users[u] EXCEPT !.active = TRUE]
        BY <1>1, <2>1, <2>3
      <4> QED
        BY <4>1 DEF UserRows
    <3> QED
      BY <2>2, <3>1, Remain DEF ActiveAdmins, Exists
  <2>4. CASE req[r].arg # "enable"
    <3>1. req[r].actor # u
      BY <2>1, <2>4 DEF TargetsOK, Safe, At
    <3>2. req'[r] # req[r]
      BY <1>2, <2>1 DEF At
    <3> QED
      BY <2>1, <2>2, <3>1, <3>2, OnlyTarget DEF At
  <2> QED
    BY <2>3, <2>4
<1>5. CASE WriteRole(r) /\ ~UNCHANGED users
  <2>1. users' = [users EXCEPT ![u].role = req[r].arg] /\ At(r, "setRole")
    BY <1>5 DEF WriteRole
  <2>2. \A v \in Users : v # u => users'[v] = users[v]
    BY <2>1, <1>1
  <2>3. CASE req[r].arg = "admin"
    <3>1. users'[u].st = users[u].st /\ users'[u].role = "admin" /\ users'[u].active = users[u].active
      <4>1. users[u] \in UserRows /\ users'[u] = [users[u] EXCEPT !.role = "admin"]
        BY <1>1, <2>1, <2>3
      <4> QED
        BY <4>1 DEF UserRows
    <3> QED
      BY <2>2, <3>1, Remain DEF ActiveAdmins, Exists
  <2>4. CASE req[r].arg # "admin"
    <3>1. req[r].actor # u
      BY <2>1, <2>4 DEF TargetsOK, Safe, At
    <3>2. req'[r] # req[r]
      BY <1>2, <2>1 DEF At
    <3> QED
      BY <2>1, <2>2, <3>1, <3>2, OnlyTarget DEF At
  <2> QED
    BY <2>3, <2>4
<1>6. CASE DeleteCommit(r)
  <2>1. users' = [users EXCEPT ![u] = NoUser("gone")] /\ At(r, "deleteCommit")
    BY <1>6 DEF DeleteCommit, DeleteCascade
  <2>2. \A v \in Users : v # u => users'[v] = users[v]
    BY <2>1, <1>1
  <2>3. req[r].actor # u /\ req'[r] # req[r]
    BY <1>2, <2>1 DEF TargetsOK, Safe, At
  <2> QED
    BY <2>1, <2>2, <2>3, OnlyTarget DEF At
<1> QED
  BY <1>3, <1>4, <1>5, <1>6

LEMMA OtherWritesFall ==
  ASSUME IInv, NEW r \in Reqs,
         \/ Increment(r) \/ UpdatePassword(r) \/ MarkVerified(r)
         \/ \E u \in Users : RegisterInsert(r, u)
  PROVE  StaleFall
<1>0. users \in [Users -> UserRows]
  BY DEF IInv, TypeOK, DatabaseTypeOK
<1>1. CASE Increment(r) \/ UpdatePassword(r) \/ MarkVerified(r)
  <2> DEFINE u == req[r].user
  <2>1. u \in Users
    BY <1>1 DEF Increment, UpdatePassword, MarkVerified, At, IInv, CarryOK, Carry
  <2>2. users[u] \in UserRows
    BY <1>0, <2>1
  <2>3. CASE UNCHANGED users
    BY <2>3, UntouchedAdmins
  <2>4. CASE ~UNCHANGED users
    <3>1. \/ users' = [users EXCEPT ![u].version = @ + 1]
          \/ users' = [users EXCEPT ![u].pw = req[r].pw, ![u].version = @ + 1]
          \/ users' = [users EXCEPT ![u].verified = TRUE]
      BY <1>1, <2>4 DEF Increment, UpdatePassword, MarkVerified, IncrementTokenVersion, WritePassword
    <3>2. /\ \A v \in Users : v # u => users'[v] = users[v]
          /\ users'[u].st = users[u].st /\ users'[u].role = users[u].role
          /\ users'[u].active = users[u].active
      BY <1>0, <2>1, <2>2, <3>1 DEF UserRows
    <3> QED
      BY <3>2, Remain DEF ActiveAdmins, Exists
  <2> QED
    BY <2>3, <2>4
<1>2. CASE \E u \in Users : RegisterInsert(r, u)
  <2>1. PICK u \in Users : RegisterInsert(r, u)
    BY <1>2
  <2>2. users[u].st = "free" /\ \A v \in Users : v # u => users'[v] = users[v]
    BY <1>0, <2>1 DEF RegisterInsert, InsertUser
  <2> QED
    BY <2>2, Remain DEF ActiveAdmins, Exists
<1> QED
  BY <1>1, <1>2

LEMMA SeedFall ==
  ASSUME IInv, NEW s \in Spellings, NEW p \in Passwords, Seed(s, p)
  PROVE  StaleFall
<1>0. users \in [Users -> UserRows]
  BY DEF IInv, TypeOK, DatabaseTypeOK
<1>1. PICK u \in Users :
        \/ users' = [users EXCEPT ![u] = Seeded([@ EXCEPT !.version = users[u].version + 1], s, p)]
        \/ users' = [users EXCEPT ![u] = Seeded(NoUser("row"), s, p)] /\ users[u].st = "free"
  BY DEF Seed
<1>2. \A v \in Users : v # u => users'[v] = users[v]
  BY <1>0, <1>1
<1>3. CASE users[u].st = "free"
  BY <1>2, <1>3, Remain DEF ActiveAdmins, Exists
<1>4. CASE users' = [users EXCEPT ![u] = Seeded([@ EXCEPT !.version = users[u].version + 1], s, p)]
  <2>1. /\ users[u] \in UserRows
        /\ users'[u] = Seeded([users[u] EXCEPT !.version = users[u].version + 1], s, p)
    BY <1>0, <1>4
  <2>2. users'[u].st = users[u].st /\ users'[u].role = "admin" /\ users'[u].active = TRUE
    BY <2>1 DEF Seeded, UserRows
  <2> QED
    BY <1>2, <2>2, Remain DEF ActiveAdmins, Exists
<1> QED
  BY <1>1, <1>3, <1>4

LEMMA ArriveTargets ==
  ASSUME IInv, TargetsOK, NEW r \in Reqs, Arrive(r)
  PROVE  TargetsOK' /\ UNCHANGED users
<1>1. CASE \/ \E t \in Tokens : RotateLock(r, t)
           \/ \E a \in access : LogoutAll(r, a)
           \/ \E a \in access, p, q \in Passwords : ChangePassword(r, a, p, q)
           \/ \E s \in Spellings : ForgotPassword(r, s) \/ ResendVerification(r, s)
           \/ \E s \in Spellings, p \in Passwords : RegisterRead(r, s, p)
  <2>1. UNCHANGED users
    BY <1>1 DEF RotateLock, LogoutAll, ChangePassword, ForgotPassword, ResendVerification,
                RegisterRead, tables
  <2> QED
    BY <1>1, <2>1, ArrivalsElsewhere, ElsewhereTargets DEF IInv
<1>2. CASE \E a \in access, u \in Users :
             SetStatus(r, a, u) \/ SetRole(r, a, u) \/ DeleteUser(r, a, u)
  BY <1>2, AdminRequestTargets
<1>3. CASE \/ \E s \in Spellings, p \in Passwords : LoginRead(r, s, p)
           \/ \E o \in Resets, p \in Passwords : ResetPassword(r, o, p)
           \/ \E o \in Verifs : VerifyEmail(r, o)
  <2>1. PICK x : /\ Become(r, x) /\ x.pc \in {"createSession", "consume"}
                 /\ UNCHANGED users
    <3>1. CASE \E s \in Spellings, p \in Passwords : LoginRead(r, s, p)
      <4>1. PICK u, v, p : Become(r, [Idle EXCEPT !.pc = "createSession", !.user = u,
                                                  !.version = v, !.cred = p])
        BY <3>1 DEF LoginRead
      <4>2. [Idle EXCEPT !.pc = "createSession", !.user = u,
                         !.version = v, !.cred = p].pc = "createSession"
        BY DEF Idle
      <4> QED
        BY <3>1, <4>1, <4>2 DEF LoginRead, tables
    <3>2. CASE \/ \E o \in Resets, p \in Passwords : ResetPassword(r, o, p)
               \/ \E o \in Verifs : VerifyEmail(r, o)
      <4>1. PICK o, p : Consume(r, o, p)
        BY <3>2 DEF ResetPassword, VerifyEmail
      <4>2. [Idle EXCEPT !.pc = "consume", !.token = o,
                         !.user = once[o].user, !.pw = p].pc = "consume"
        BY DEF Idle
      <4> QED
        BY <4>1, <4>2 DEF Consume, tables
    <3> QED
      BY <1>3, <3>1, <3>2
  <2>2. req'[r] = x /\ \A q \in Reqs : q # r => req'[q] = req[q]
    BY <2>1, ReqIs DEF IInv
  <2>3. \A q \in Reqs : Safe(req'[q])
    BY <2>1, <2>2 DEF TargetsOK, Safe
  <2> QED
    BY <2>1, <2>3 DEF TargetsOK, Safe
<1> QED
  BY <1>1, <1>2, <1>3 DEF Arrive

LEMMA ProceedTargets ==
  ASSUME IInv, TargetsOK, NEW r \in Reqs, Proceed(r)
  PROVE  TargetsOK' /\ StaleFall
<1>1. CASE DeleteLock(r)
  BY <1>1, DeleteLockTargets, UntouchedAdmins
<1>2. CASE ConsumeCommit(r)
  <2>1. UNCHANGED users /\ (Goto(r, "updatePassword") \/ Goto(r, "markVerified"))
    BY <1>2 DEF ConsumeCommit
  <2>2. /\ req'[r].pc \in {"updatePassword", "markVerified"}
        /\ \A q \in Reqs : q # r => req'[q] = req[q]
    BY <2>1, ReqIs DEF IInv
  <2>3. \A q \in Reqs : Safe(req'[q])
    BY <2>2 DEF TargetsOK, Safe
  <2> QED
    BY <2>1, <2>3, UntouchedAdmins DEF TargetsOK, Safe
<1>3. CASE \/ (\E t \in Tokens : CreateSession(r, t)) \/ CreateSessionFails(r)
           \/ RotateUser(r) \/ (\E n \in Tokens : RotateCommit(r, n)) \/ RefreshRead(r)
           \/ RevokeNew(r) \/ RevokeApply(r) \/ RevokeAll(r) \/ Replace(r)
           \/ (\E o \in OneTime : InsertOnce(r, o)) \/ InsertOnceFails(r) \/ ChangeRead(r)
  <2>1. UNCHANGED users
    BY <1>3 DEF CreateSession, CreateSessionFails, RotateUser, RotateCommit, RefreshRead, RevokeNew,
                RevokeApply, RevokeAll, Replace, InsertOnce, InsertOnceFails, ChangeRead, tables
  <2>2. Elsewhere
    BY <1>3, GoneOnElsewhere, EndsElsewhere DEF IInv
  <2> QED
    BY <2>1, <2>2, UntouchedAdmins, ElsewhereTargets
<1>4. CASE \/ Increment(r) \/ UpdatePassword(r) \/ MarkVerified(r)
           \/ (\E u \in Users : RegisterInsert(r, u))
  <2>1. Elsewhere
    BY <1>4, GoneOnElsewhere, EndsElsewhere DEF IInv
  <2> QED
    BY <1>4, <2>1, OtherWritesFall, ElsewhereTargets
<1>5. CASE SetActive(r) \/ WriteRole(r) \/ DeleteCommit(r)
  <2>1. Elsewhere
    BY <1>5, GoneOnElsewhere, EndsElsewhere DEF IInv
  <2> QED
    BY <1>5, <2>1, AdminWritesFall, ElsewhereTargets
<1> QED
  BY <1>1, <1>2, <1>3, <1>4, <1>5 DEF Proceed

LEMMA StepTargets == IInv /\ TargetsOK /\ [Next]_vars => TargetsOK' /\ StaleFall
<1> SUFFICES ASSUME IInv, TargetsOK, [Next]_vars PROVE TargetsOK' /\ StaleFall
  OBVIOUS
<1>1. ASSUME NEW r \in Reqs, Arrive(r) PROVE TargetsOK' /\ StaleFall
  BY <1>1, ArriveTargets, UntouchedAdmins
<1>2. ASSUME NEW r \in Reqs, Proceed(r) PROVE TargetsOK' /\ StaleFall
  BY <1>2, ProceedTargets
<1>3. ASSUME NEW r \in Reqs, DeadlockVictim(r) \/ Abort(r) PROVE TargetsOK' /\ StaleFall
  <2>1. UNCHANGED users
    BY <1>3 DEF DeadlockVictim, Abort, tables
  <2> QED
    BY <1>3, <2>1, EndsElsewhere, ElsewhereTargets, UntouchedAdmins DEF IInv
<1>4. ASSUME UNCHANGED req PROVE TargetsOK'
  BY <1>4 DEF TargetsOK, Safe
<1>5. ASSUME NEW t \in Tokens \cup {None}, Logout(t) PROVE TargetsOK' /\ StaleFall
  BY <1>4, <1>5, UntouchedAdmins DEF Logout
<1>6. ASSUME NEW s \in Spellings, NEW p \in Passwords, Seed(s, p) PROVE TargetsOK' /\ StaleFall
  BY <1>4, <1>6, SeedFall DEF Seed
<1>7. CASE UNCHANGED vars
  BY <1>4, <1>7, UntouchedAdmins DEF vars
<1> QED
  BY <1>1, <1>2, <1>3, <1>5, <1>6, <1>7 DEF Next

\* SetStatus, SetRole and DeleteUser never take the last active administrator away, but for
\* a request whose actor has lost the role, or the account, since RequireRole let it through.
THEOREM LastAdminFallsToStaleRequestAlways == Spec => LastAdminFallsToStaleRequest
<1>1. Init => IInv /\ TargetsOK
  <2>1. Init => TargetsOK
    BY DEF Init, RequestsInit, TargetsOK, Safe, Idle
  <2> QED
    BY <2>1, InitInvariant
<1>2. IInv /\ TargetsOK /\ [Next]_vars => (IInv /\ TargetsOK)' /\ StaleFall
  BY StepInvariant, StepTargets
<1>3. StaleFall => 
        [ActiveAdmins # {} /\ ActiveAdmins' = {} =>
          \E r \in Reqs : /\ req[r].pc \in {"setActive", "setRole", "deleteCommit"}
                          /\ req[r] # req'[r]
                          /\ req[r].actor \notin ActiveAdmins]_vars
  BY DEF StaleFall
<1> QED
  BY <1>1, <1>2, <1>3, PTL DEF Spec, LastAdminFallsToStaleRequest

-----------------------------------------------------------------------------
(* Sessions only after a mail *)

\* The premise of the property.
Strict == RequireEmailVerification /\ ~Served("role")

Confirmed(u) == MailConfirmed(u) \/ users[u].role = "admin"

\* What a request that makes a session, or confirms an address, goes on.
MailCarried(x) ==
  /\ x.pc # "setRole"
  /\ x.pc = "createSession" /\ Exists(x.user) => Confirmed(x.user)
  /\ x.pc = "consume" => once[x.token].user = x.user
  /\ x.pc = "markVerified" => /\ users[x.user].st # "free"
                              /\ Exists(x.user) => MailConfirmed(x.user)

MailInv ==
  /\ \A u \in Users : Exists(u) /\ users[u].verified => Confirmed(u)
  /\ \A t \in Tokens : refresh[t].st = "row" => Confirmed(refresh[t].user)
  /\ \A o \in OneTime : once[o].used => once[o].st = "row"
  /\ \A r \in Reqs : MailCarried(req[r])

\* What was confirmed stays so.
UsersKept ==
  \A u \in Users : Exists(u)' =>
    \/ users[u].st = "free"
    \/ /\ Exists(u)
       /\ MailConfirmed(u) => MailConfirmed(u)'
       /\ users[u].role = "admin" => users'[u].role = "admin"

LEMMA MailFrame ==
  ASSUME IInv, IInv', MailInv, UsersKept,
         \A u \in Users : /\ users[u].st = "gone" => users'[u].st = "gone"
                          /\ users[u].st = "row" => users'[u].st # "free",
         \A u \in Users : Exists(u)' /\ users'[u].verified =>
           Confirmed(u)' \/ (Exists(u) /\ users[u].verified),
         \A t \in Tokens : refresh'[t].st = "row" =>
           \/ refresh[t].st = "row" /\ refresh'[t].user = refresh[t].user
           \/ Confirmed(refresh[t].user)',
         \A o \in OneTime : once'[o].used => once'[o].st = "row",
         \A o \in OneTime : Unused(o) /\ Unused(o)' => once'[o].user = once[o].user,
         \A q \in Reqs : req'[q] = req[q] \/ MailCarried(req[q])'
  PROVE  MailInv'
<1>1. ASSUME NEW u \in Users, Exists(u)', users[u].st # "free", Confirmed(u)
      PROVE  Confirmed(u)'
  BY <1>1 DEF UsersKept, Confirmed
<1>2. ASSUME NEW u \in Users, Exists(u)', users'[u].verified PROVE Confirmed(u)'
  <2>1. CASE Exists(u) /\ users[u].verified
    <3>1. Confirmed(u) /\ users[u].st # "free"
      BY <2>1 DEF MailInv, Exists
    <3> QED
      BY <1>1, <1>2, <3>1
  <2> QED
    BY <1>2, <2>1
<1>3. ASSUME NEW t \in Tokens, refresh'[t].st = "row" PROVE Confirmed(refresh[t].user)'
  <2>1. CASE refresh[t].st = "row" /\ refresh'[t].user = refresh[t].user
    <3>1. PICK u \in Users : u = refresh[t].user /\ Exists(u)
      BY <2>1 DEF IInv, RowsOK
    <3>2. Exists(u)'
      BY <1>3, <2>1, <3>1 DEF IInv, RowsOK
    <3>3. Confirmed(u) /\ users[u].st # "free"
      BY <2>1, <3>1 DEF MailInv, Exists
    <3>4. Confirmed(u)'
      BY <1>1, <3>2, <3>3
    <3> QED
      BY <2>1, <3>1, <3>4 DEF Confirmed, MailConfirmed
  <2> QED
    BY <1>3, <2>1
<1>4. ASSUME NEW q \in Reqs PROVE MailCarried(req[q])'
  <2>1. CASE req'[q] = req[q]
    <3>1. MailCarried(req[q]) /\ Carry(req[q]) /\ Checked(req[q]) /\ Checked(req[q])'
      BY DEF MailInv, IInv, CarryOK, HoldersOK
    <3>2. req[q].pc # "setRole"
      BY <3>1 DEF MailCarried
    <3>3. ASSUME req[q].pc = "createSession", Exists(req[q].user)' PROVE Confirmed(req[q].user)'
      <4>1. PICK u \in Users : u = req[q].user
        BY <3>1, <3>3 DEF Carry
      <4>2. users[u].st # "free" /\ Exists(u)'
        BY <2>1, <3>1, <3>3, <4>1 DEF Carry, Bound, Exists
      <4>3. Exists(u)
        BY <4>2 DEF UsersKept
      <4>4. Confirmed(u)
        BY <3>1, <3>3, <4>1, <4>3 DEF MailCarried
      <4>5. Confirmed(u)'
        BY <1>1, <4>2, <4>4
      <4> QED
        BY <2>1, <4>1, <4>5 DEF Confirmed, MailConfirmed
    <3>4. ASSUME req[q].pc = "consume" PROVE once'[req[q].token].user = req[q].user
      <4>1. req[q].token \in OneTime /\ Unused(req[q].token) /\ once[req[q].token].user = req[q].user
        BY <3>1, <3>4 DEF Carry, Checked, MailCarried
      <4>2. PICK o \in OneTime : o = req[q].token
        BY <4>1
      <4>3. Unused(o)'
        BY <2>1, <3>1, <3>4, <4>2 DEF Checked, Unused
      <4> QED
        BY <4>1, <4>2, <4>3
    <3>5. ASSUME req[q].pc = "markVerified"
          PROVE  /\ users'[req[q].user].st # "free"
                 /\ Exists(req[q].user)' => MailConfirmed(req[q].user)'
      <4>1. PICK u \in Users : u = req[q].user
        BY <3>1, <3>5 DEF Carry
      <4>2. users[u].st # "free" /\ (Exists(u) => MailConfirmed(u))
        BY <3>1, <3>5, <4>1 DEF MailCarried
      <4>3. users'[u].st # "free"
        <5>1. users[u].st \in Life
          BY DEF IInv, TypeOK, DatabaseTypeOK, UserRows
        <5> QED
          BY <4>2, <5>1 DEF Life
      <4>4. Exists(u)' => MailConfirmed(u)'
        BY <4>2 DEF UsersKept
      <4> QED
        BY <2>1, <4>1, <4>3, <4>4 DEF Exists, MailConfirmed
    <3> QED
      BY <2>1, <3>2, <3>3, <3>4, <3>5 DEF MailCarried
  <2> QED
    BY <2>1
<1>5. /\ \A u \in Users : Exists(u)' /\ users'[u].verified => Confirmed(u)'
      /\ \A t \in Tokens : refresh'[t].st = "row" => Confirmed(refresh[t].user)'
  BY <1>2, <1>3
<1> QED
  BY <1>4, <1>5 DEF MailInv

LEMMA ElsewhereMail ==
  ASSUME Elsewhere
  PROVE  \A q \in Reqs : req'[q] = req[q] \/ MailCarried(req[q])'
<1> SUFFICES ASSUME NEW q \in Reqs, req'[q].pc \notin Watched
             PROVE  MailCarried(req[q])'
  BY DEF Elsewhere
<1> QED
  BY DEF Watched, MailCarried

\* The three ways in which a step treats each table.
LEMMA UsersSame ==
  ASSUME IInv, UNCHANGED <<users, once>>
  PROVE  /\ UsersKept
         /\ \A u \in Users : /\ users[u].st = "gone" => users'[u].st = "gone"
                             /\ users[u].st = "row" => users'[u].st # "free"
         /\ \A u \in Users : Exists(u)' /\ users'[u].verified => Exists(u) /\ users[u].verified
<1>1. \A u \in Users : users[u].st \in Life
  BY DEF IInv, TypeOK, DatabaseTypeOK, UserRows
<1> QED
  BY <1>1 DEF UsersKept, Exists, MailConfirmed, Life

LEMMA OnceSame ==
  ASSUME MailInv, UNCHANGED once
  PROVE  /\ \A o \in OneTime : once'[o].used => once'[o].st = "row"
         /\ \A o \in OneTime : Unused(o) /\ Unused(o)' => once'[o].user = once[o].user
BY DEF MailInv

LEMMA RefreshSame ==
  ASSUME \/ UNCHANGED refresh
         \/ IInv /\ \E S : Revoke(S)
  PROVE  \A t \in Tokens : refresh'[t].st = "row" =>
           refresh[t].st = "row" /\ refresh'[t].user = refresh[t].user
<1>1. CASE UNCHANGED refresh
  BY <1>1
<1>2. CASE IInv /\ \E S : Revoke(S)
  <2>1. PICK S : Revoke(S)
    BY <1>2
  <2> SUFFICES ASSUME NEW t \in Tokens, refresh'[t].st = "row"
               PROVE  refresh[t].st = "row" /\ refresh'[t].user = refresh[t].user
    OBVIOUS
  <2>2. refresh[t] \in RefreshRows
    BY <1>2 DEF IInv, TypeOK, DatabaseTypeOK
  <2>3. refresh'[t] = refresh[t] \/ refresh'[t] = [refresh[t] EXCEPT !.revoked = TRUE]
    BY <2>1 DEF Revoke
  <2> QED
    BY <2>2, <2>3 DEF RefreshRows
<1> QED
  BY <1>1, <1>2

\* A step that leaves the tables alone, or only revokes.
LEMMA MailReads ==
  ASSUME IInv, IInv', MailInv, UNCHANGED <<users, once>>,
         UNCHANGED refresh \/ (\E S : Revoke(S)),
         \A q \in Reqs : req'[q] = req[q] \/ MailCarried(req[q])'
  PROVE  MailInv'
BY UsersSame, OnceSame, RefreshSame, MailFrame

LEMMA MailReadsElsewhere ==
  ASSUME IInv, IInv', MailInv, UNCHANGED <<users, once>>,
         UNCHANGED refresh \/ (\E S : Revoke(S)), Elsewhere
  PROVE  MailInv'
BY MailReads, ElsewhereMail

\* One row of users is written.
LEMMA MailWrites ==
  ASSUME IInv, IInv', MailInv, NEW u \in Users, NEW row \in UserRows,
         users' = [users EXCEPT ![u] = row], row.st = "row",
         \/ users[u].st = "free" /\ (row.verified => row.role = "admin")
         \/ /\ Exists(u)
            /\ users[u].role = "admin" => row.role = "admin"
            /\ row.verified => users[u].verified \/ row.role = "admin" \/ MailConfirmed(u),
         UNCHANGED <<refresh, once>>, Elsewhere
  PROVE  MailInv'
<1>1. users'[u] = row /\ \A v \in Users : v # u => users'[v] = users[v]
  BY DEF IInv, TypeOK, DatabaseTypeOK
<1>2. \A v \in Users : MailConfirmed(v)' <=> MailConfirmed(v)
  BY DEF MailConfirmed
<1>3. UsersKept
  BY <1>1, <1>2 DEF UsersKept, Exists
<1>4. \A v \in Users : /\ users[v].st = "gone" => users'[v].st = "gone"
                       /\ users[v].st = "row" => users'[v].st # "free"
  BY <1>1 DEF Exists
<1>5. ASSUME NEW v \in Users, Exists(v)', users'[v].verified
      PROVE  Confirmed(v)' \/ (Exists(v) /\ users[v].verified)
  <2>1. CASE v = u
    BY <1>1, <1>2, <1>5, <2>1 DEF Confirmed
  <2>2. CASE v # u
    BY <1>1, <1>5, <2>2 DEF Exists
  <2> QED
    BY <2>1, <2>2
<1> QED
  BY <1>3, <1>4, <1>5, OnceSame, RefreshSame, ElsewhereMail, MailFrame

-----------------------------------------------------------------------------
LEMMA LoginMail ==
  ASSUME Strict, IInv, IInv', MailInv, NEW r \in Reqs, NEW s \in Spellings, NEW p \in Passwords,
         LoginRead(r, s, p)
  PROVE  MailInv'
<1>1. PICK u \in Users :
        /\ Exists(u) /\ LoginAllowed(u, p)
        /\ Become(r, [Idle EXCEPT !.pc = "createSession", !.user = u,
                                  !.version = users[u].version, !.cred = p])
  BY DEF LoginRead, GetByEmail
<1>2. UNCHANGED <<users, refresh, once>>
  BY DEF LoginRead, tables
<1>3. Confirmed(u)
  BY <1>1 DEF Strict, LoginAllowed, MailInv
<1>4. req'[r].pc = "createSession" /\ req'[r].user = u /\ \A q \in Reqs : q # r => req'[q] = req[q]
  <2> DEFINE x == [Idle EXCEPT !.pc = "createSession", !.user = u,
                               !.version = users[u].version, !.cred = p]
  <2>1. x.pc = "createSession" /\ x.user = u
    BY DEF Idle
  <2>2. Become(r, x)
    BY <1>1
  <2> HIDE DEF x
  <2> QED
    BY <2>1, <2>2, ReqIs DEF IInv
<1>5. Confirmed(u)'
  BY <1>2, <1>3 DEF Confirmed, MailConfirmed
<1>6. MailCarried(req[r])'
  BY <1>4, <1>5 DEF MailCarried, Confirmed, MailConfirmed
<1> QED
  BY <1>2, <1>4, <1>6, MailReads

LEMMA CreateSessionMail ==
  ASSUME IInv, IInv', MailInv, NEW r \in Reqs, NEW t \in Tokens, CreateSession(r, t)
  PROVE  MailInv'
<1>1. /\ At(r, "createSession") /\ Exists(req[r].user) /\ UNCHANGED <<users, once>>
      /\ refresh' = [refresh EXCEPT ![t] = NewRefresh(req[r].user, req[r].version, t, req[r].cred)]
  BY DEF CreateSession, Insertable
<1>2. Confirmed(req[r].user)
  BY <1>1 DEF MailInv, MailCarried, At
<1>3. refresh'[t].user = req[r].user /\ \A n \in Tokens : n # t => refresh'[n] = refresh[n]
  BY <1>1 DEF NewRefresh, IInv, TypeOK, DatabaseTypeOK
<1>4. Confirmed(refresh[t].user)'
  BY <1>1, <1>2, <1>3 DEF Confirmed, MailConfirmed
<1>5. \A n \in Tokens : refresh'[n].st = "row" =>
        \/ refresh[n].st = "row" /\ refresh'[n].user = refresh[n].user
        \/ Confirmed(refresh[n].user)'
  BY <1>3, <1>4
<1>6. Elsewhere
  BY EndsElsewhere DEF IInv
<1> QED
  BY <1>1, <1>5, <1>6, UsersSame, OnceSame, ElsewhereMail, MailFrame

LEMMA RotateCommitMail ==
  ASSUME IInv, IInv', MailInv, NEW r \in Reqs, NEW n \in Tokens, RotateCommit(r, n)
  PROVE  MailInv'
<1>1. PICK t \in Tokens, u \in Users :
        t = req[r].token /\ u = req[r].user /\ refresh[t].st = "row" /\ refresh[t].user = u
  BY DEF RotateCommit, At, IInv, CarryOK, Carry, HoldersOK, Checked, Live, Unrevoked
<1>2. /\ UNCHANGED <<users, once>> /\ refresh[n].st = "free"
      /\ refresh' = [refresh EXCEPT
           ![t].revoked = TRUE,
           ![n] = NewRefresh(u, req[r].version, refresh[t].family, req[r].cred)]
  BY <1>1 DEF RotateCommit
<1>3. refresh \in [Tokens -> RefreshRows] /\ n # t
  BY <1>1, <1>2 DEF IInv, TypeOK, DatabaseTypeOK
<1>4. /\ refresh'[n].user = u
      /\ refresh'[t].user = u
      /\ \A x \in Tokens : x # n /\ x # t => refresh'[x] = refresh[x]
  <2>1. refresh'[n] = NewRefresh(u, req[r].version, refresh[t].family, req[r].cred)
    BY <1>2, <1>3
  <2>2. refresh'[t] = [refresh[t] EXCEPT !.revoked = TRUE] /\ refresh[t] \in RefreshRows
    BY <1>2, <1>3
  <2>3. \A x \in Tokens : x # n /\ x # t => refresh'[x] = refresh[x]
    BY <1>2, <1>3
  <2> QED
    BY <1>1, <2>1, <2>2, <2>3 DEF NewRefresh, RefreshRows
<1>5. Confirmed(u)
  BY <1>1 DEF MailInv
<1>6. Confirmed(refresh[n].user)'
  BY <1>2, <1>4, <1>5 DEF Confirmed, MailConfirmed
<1>7. \A x \in Tokens : refresh'[x].st = "row" =>
        \/ refresh[x].st = "row" /\ refresh'[x].user = refresh[x].user
        \/ Confirmed(refresh[x].user)'
  BY <1>1, <1>4, <1>6
<1>8. Elsewhere
  BY GoneOnElsewhere DEF IInv
<1> QED
  BY <1>2, <1>7, <1>8, UsersSame, OnceSame, ElsewhereMail, MailFrame

LEMMA ConsumeMail ==
  ASSUME IInv, IInv', MailInv, NEW r \in Reqs, NEW o \in OneTime,
         VerifyEmail(r, o) \/ \E p \in Passwords : ResetPassword(r, o, p)
  PROVE  MailInv'
<1>1. PICK p : Consume(r, o, p)
  BY DEF VerifyEmail, ResetPassword
<1>2. UNCHANGED <<users, refresh, once>>
  BY <1>1 DEF Consume, tables
<1> DEFINE x == [Idle EXCEPT !.pc = "consume", !.token = o, !.user = once[o].user, !.pw = p]
<1>3. x.pc = "consume" /\ x.token = o /\ x.user = once[o].user
  BY DEF Idle
<1>4. Become(r, x)
  BY <1>1 DEF Consume
<1> HIDE DEF x
<1>5. req'[r] = x /\ \A q \in Reqs : q # r => req'[q] = req[q]
  BY <1>4, ReqIs DEF IInv
<1>6. MailCarried(req[r])'
  BY <1>2, <1>3, <1>5 DEF MailCarried
<1> QED
  BY <1>2, <1>5, <1>6, MailReads

LEMMA ConsumeCommitMail ==
  ASSUME IInv, IInv', MailInv, NEW r \in Reqs, ConsumeCommit(r)
  PROVE  MailInv'
<1>1. PICK o \in OneTime : o = req[r].token /\ Unused(o) /\ once[o].user = req[r].user
  BY DEF ConsumeCommit, At, IInv, CarryOK, Carry, HoldersOK, Checked, MailInv, MailCarried
<1>2. PICK pc : /\ Goto(r, pc) /\ pc \in {"updatePassword", "markVerified"}
                /\ pc = "markVerified" => o \in Verifs
                /\ UNCHANGED <<users, refresh>>
                /\ once' = [once EXCEPT ![o].used = TRUE, ![o].uses = @ + 1]
  BY <1>1 DEF ConsumeCommit, SpendOnce, OneTime
<1>3. once \in [OneTime -> OnceRows] /\ once[o] \in OnceRows
  BY DEF IInv, TypeOK, DatabaseTypeOK
<1>4. /\ once'[o].st = "row" /\ once'[o].used = TRUE /\ once'[o].user = req[r].user
      /\ \A x \in OneTime : x # o => once'[x] = once[x]
  <2>1. once'[o] = [once[o] EXCEPT !.used = TRUE, !.uses = @ + 1]
    BY <1>2, <1>3
  <2>2. \A x \in OneTime : x # o => once'[x] = once[x]
    BY <1>2, <1>3
  <2> QED
    BY <1>1, <1>3, <2>1, <2>2 DEF OnceRows, Unused
<1>5. \A u \in Users : MailConfirmed(u) => MailConfirmed(u)'
  BY <1>1, <1>4 DEF MailConfirmed, OneTime
<1>6. UsersKept
  BY <1>2, <1>5 DEF UsersKept, Exists
<1>7. /\ \A u \in Users : /\ users[u].st = "gone" => users'[u].st = "gone"
                          /\ users[u].st = "row" => users'[u].st # "free"
      /\ \A u \in Users : Exists(u)' /\ users'[u].verified => Exists(u) /\ users[u].verified
  BY <1>2 DEF Exists
<1>8. /\ \A x \in OneTime : once'[x].used => once'[x].st = "row"
      /\ \A x \in OneTime : Unused(x) /\ Unused(x)' => once'[x].user = once[x].user
  BY <1>4 DEF MailInv, Unused
<1>9. /\ req'[r] = [req[r] EXCEPT !.pc = pc] /\ req'[r].pc = pc
      /\ \A q \in Reqs : q # r => req'[q] = req[q]
  BY <1>2, ReqIs DEF IInv
<1>10. MailCarried(req[r])'
  <2>1. req'[r].user = req[r].user
    BY <1>9 DEF IInv, TypeOK, RequestsTypeOK, Requests
  <2>2. pc = "markVerified" => MailConfirmed(req[r].user)'
    <3>1. pc = "markVerified" => o \in Verifs /\ once'[o].user = req'[r].user /\ once'[o].used
      BY <1>2, <1>4, <2>1
    <3> QED
      BY <3>1 DEF MailConfirmed
  <2>3. users'[req'[r].user].st # "free"
    BY <1>1, <1>2, <2>1 DEF IInv, OnceOK, Exists, Unused
  <2> QED
    BY <1>2, <1>9, <2>2, <2>3 DEF MailCarried
<1> QED
  BY <1>2, <1>6, <1>7, <1>8, <1>9, <1>10, RefreshSame, MailFrame

LEMMA InsertOnceMail ==
  ASSUME IInv, IInv', MailInv, NEW r \in Reqs, NEW o \in OneTime, InsertOnce(r, o)
  PROVE  MailInv'
<1>1. /\ once[o].st = "free" /\ UNCHANGED <<users, refresh>>
      /\ ReplaceUnused(req[r].snap, o, req[r].user)
  BY DEF InsertOnce
<1>2. ~once[o].used
  BY <1>1 DEF MailInv
<1>3. /\ once'[o] = NewOnce(req[r].user)
      /\ \A x \in OneTime : x # o => \/ once'[x] = once[x]
                                     \/ Unused(x) /\ once'[x] = NoOnce("gone")
  BY <1>1 DEF ReplaceUnused
<1>4. \A x \in OneTime : once[x].used => once'[x] = once[x]
  BY <1>2, <1>3 DEF Unused
<1>5. \A u \in Users : MailConfirmed(u) => MailConfirmed(u)'
  BY <1>4 DEF MailConfirmed, OneTime
<1>6. /\ UsersKept
      /\ \A u \in Users : /\ users[u].st = "gone" => users'[u].st = "gone"
                          /\ users[u].st = "row" => users'[u].st # "free"
      /\ \A u \in Users : Exists(u)' /\ users'[u].verified => Exists(u) /\ users[u].verified
  BY <1>1, <1>5 DEF UsersKept, Exists
<1>7. /\ \A x \in OneTime : once'[x].used => once'[x].st = "row"
      /\ \A x \in OneTime : Unused(x) /\ Unused(x)' => once'[x].user = once[x].user
  BY <1>1, <1>3 DEF MailInv, Unused, NewOnce, NoOnce
<1>8. Elsewhere
  BY EndsElsewhere DEF IInv
<1> QED
  BY <1>1, <1>6, <1>7, <1>8, RefreshSame, ElsewhereMail, MailFrame

LEMMA DeleteCommitMail ==
  ASSUME IInv, IInv', MailInv, NEW r \in Reqs, DeleteCommit(r)
  PROVE  MailInv'
<1>1. PICK u \in Users : /\ u = req[r].user
                         /\ Exists(u)
                         /\ users' = [users EXCEPT ![u] = NoUser("gone")]
                         /\ refresh' = [t \in Tokens |->
                              IF refresh[t].user = u THEN NoRefresh("gone") ELSE refresh[t]]
                         /\ once' = [o \in OneTime |->
                              IF once[o].user = u THEN NoOnce("gone") ELSE once[o]]
  BY DEF DeleteCommit, DeleteCascade, At, IInv, CarryOK, Carry, HoldersOK, Checked
<1>2. users'[u] = NoUser("gone") /\ \A v \in Users : v # u => users'[v] = users[v]
  BY <1>1 DEF IInv, TypeOK, DatabaseTypeOK
<1>3. \A v \in Users : v # u /\ MailConfirmed(v) => MailConfirmed(v)'
  BY <1>1 DEF MailConfirmed, OneTime
<1>4. /\ UsersKept
      /\ \A v \in Users : /\ users[v].st = "gone" => users'[v].st = "gone"
                          /\ users[v].st = "row" => users'[v].st # "free"
      /\ \A v \in Users : Exists(v)' /\ users'[v].verified => Exists(v) /\ users[v].verified
  BY <1>2, <1>3 DEF UsersKept, Exists, NoUser
<1>5. \A t \in Tokens : refresh'[t].st = "row" =>
        refresh[t].st = "row" /\ refresh'[t].user = refresh[t].user
  BY <1>1 DEF NoRefresh
<1>6. /\ \A x \in OneTime : once'[x].used => once'[x].st = "row"
      /\ \A x \in OneTime : Unused(x) /\ Unused(x)' => once'[x].user = once[x].user
  BY <1>1 DEF MailInv, Unused, NoOnce
<1>7. Elsewhere
  BY EndsElsewhere DEF IInv
<1> QED
  BY <1>4, <1>5, <1>6, <1>7, ElsewhereMail, MailFrame

LEMMA UserWritesMail ==
  ASSUME IInv, IInv', MailInv, NEW r \in Reqs,
         \/ Increment(r) \/ UpdatePassword(r) \/ MarkVerified(r) \/ SetActive(r)
  PROVE  MailInv'
<1> DEFINE u == req[r].user
<1>1. u \in Users
  BY DEF Increment, UpdatePassword, MarkVerified, SetActive, At, IInv, CarryOK, Carry
<1>2. Elsewhere /\ UNCHANGED <<refresh, once>>
  <2>1. Elsewhere
    BY GoneOnElsewhere, EndsElsewhere DEF IInv
  <2> QED
    BY <2>1 DEF Increment, UpdatePassword, MarkVerified, SetActive
<1>3. CASE UNCHANGED users
  BY <1>2, <1>3, MailReadsElsewhere
<1>4. CASE ~UNCHANGED users
  <2>1. /\ Exists(u)
        /\ \/ users' = [users EXCEPT ![u].version = @ + 1]
           \/ users' = [users EXCEPT ![u].pw = req[r].pw, ![u].version = @ + 1]
           \/ users' = [users EXCEPT ![u].verified = TRUE] /\ At(r, "markVerified")
           \/ users' = [users EXCEPT ![u].active = (req[r].arg = "enable")]
    BY <1>4 DEF Increment, UpdatePassword, MarkVerified, SetActive, IncrementTokenVersion,
                WritePassword
  <2>2. users \in [Users -> UserRows] /\ users[u] \in UserRows /\ users' \in [Users -> UserRows]
    BY <1>1 DEF IInv, TypeOK, DatabaseTypeOK
  <2>3. PICK row \in UserRows : row = users'[u]
    BY <1>1, <2>2
  <2>4. users' = [users EXCEPT ![u] = row]
    BY <1>1, <2>1, <2>2, <2>3
  <2>5. /\ row.st = "row" /\ row.role = users[u].role
        /\ row.verified = users[u].verified \/ At(r, "markVerified")
    BY <1>1, <2>1, <2>2, <2>3 DEF UserRows, Exists
  <2>6. At(r, "markVerified") => MailConfirmed(u)
    BY <2>1 DEF MailInv, MailCarried, At
  <2>7. row.verified => users[u].verified \/ row.role = "admin" \/ MailConfirmed(u)
    BY <2>5, <2>6
  <2> QED
    BY <1>1, <1>2, <2>1, <2>4, <2>5, <2>7, MailWrites
<1> QED
  BY <1>3, <1>4

LEMMA RegisterInsertMail ==
  ASSUME IInv, IInv', MailInv, NEW r \in Reqs, NEW u \in Users, RegisterInsert(r, u)
  PROVE  MailInv'
<1>1. Elsewhere /\ UNCHANGED <<refresh, once>> /\ users[u].st = "free"
  <2>1. Elsewhere
    BY GoneOnElsewhere DEF IInv
  <2> QED
    BY <2>1 DEF RegisterInsert
<1>2. CASE UNCHANGED users
  BY <1>1, <1>2, MailReadsElsewhere
<1>3. CASE ~UNCHANGED users
  <2> DEFINE row == [st |-> "row", email |-> Lower[req[r].arg], pw |-> req[r].pw,
                     role |-> "user", verified |-> FALSE, active |-> TRUE, version |-> 0]
  <2>1. users' = [users EXCEPT ![u] = row] /\ row.st = "row" /\ row.verified = FALSE
    BY <1>3 DEF RegisterInsert, InsertUser
  <2> HIDE DEF row
  <2>2. row \in UserRows
    <3>1. users' \in [Users -> UserRows] /\ users'[u] = row
      BY <2>1 DEF IInv, TypeOK, DatabaseTypeOK
    <3> QED
      BY <3>1
  <2> QED
    BY <1>1, <2>1, <2>2, MailWrites
<1> QED
  BY <1>2, <1>3

LEMMA SeedMail ==
  ASSUME IInv, IInv', MailInv, NEW s \in Spellings, NEW p \in Passwords, Seed(s, p)
  PROVE  MailInv'
<1>1. UNCHANGED <<refresh, once>> /\ Elsewhere
  BY DEF Seed, Elsewhere
<1>2. PICK u, old :
        /\ u \in Users
        /\ \/ Exists(u) /\ old = [users[u] EXCEPT !.version = users[u].version + 1]
           \/ users[u].st = "free" /\ old = NoUser("row")
        /\ users' = [users EXCEPT ![u] = Seeded(old, s, p)]
  BY DEF Seed
<1>3. users \in [Users -> UserRows] /\ users[u] \in UserRows /\ users' \in [Users -> UserRows]
  BY <1>2 DEF IInv, TypeOK, DatabaseTypeOK
<1>4. PICK row \in UserRows : row = users'[u] /\ users' = [users EXCEPT ![u] = row]
  BY <1>2, <1>3
<1>5. row.st = "row" /\ row.role = "admin"
  <2>1. old \in UserRows /\ old.st = "row"
    <3>1. CASE Exists(u) /\ old = [users[u] EXCEPT !.version = users[u].version + 1]
      BY <1>3, <3>1 DEF UserRows, Exists
    <3>2. CASE old = NoUser("row")
      BY <3>2 DEF UserRows, NoUser, Life, Roles
    <3> QED
      BY <1>2, <3>1, <3>2
  <2>2. row = Seeded(old, s, p)
    BY <1>2, <1>3, <1>4
  <2> QED
    BY <2>1, <2>2 DEF Seeded, UserRows
<1> QED
  BY <1>1, <1>2, <1>4, <1>5, MailWrites

LEMMA ArriveMail ==
  ASSUME Strict, IInv, IInv', MailInv, NEW r \in Reqs, Arrive(r)
  PROVE  MailInv'
<1>1. CASE \E s \in Spellings, p \in Passwords : LoginRead(r, s, p)
  BY <1>1, LoginMail
<1>2. CASE \/ \E o \in Resets, p \in Passwords : ResetPassword(r, o, p)
           \/ \E o \in Verifs : VerifyEmail(r, o)
  BY <1>2, ConsumeMail DEF OneTime
<1>3. CASE \/ \E t \in Tokens : RotateLock(r, t)
           \/ \E a \in access : LogoutAll(r, a)
           \/ \E a \in access, p, q \in Passwords : ChangePassword(r, a, p, q)
           \/ \E s \in Spellings : ForgotPassword(r, s) \/ ResendVerification(r, s)
           \/ \E s \in Spellings, p \in Passwords : RegisterRead(r, s, p)
  <2>1. UNCHANGED <<users, refresh, once>>
    BY <1>3 DEF RotateLock, LogoutAll, ChangePassword, ForgotPassword, ResendVerification,
                RegisterRead, tables
  <2>2. Elsewhere
    BY <1>3, ArrivalsElsewhere DEF IInv
  <2> QED
    BY <2>1, <2>2, MailReadsElsewhere
<1>4. CASE \E a \in access, u \in Users : SetStatus(r, a, u) \/ DeleteUser(r, a, u)
  <2>1. PICK a, u, pc, arg : /\ AdminRequest(r, a, u, pc, arg)
                             /\ pc \in {"setActive", "deleteUser"}
    BY <1>4 DEF SetStatus, DeleteUser
  <2> DEFINE x == [Idle EXCEPT !.pc = pc, !.actor = a.user, !.user = u, !.arg = arg]
  <2>2. x.pc = pc
    BY DEF Idle
  <2>3. Become(r, x) /\ UNCHANGED <<users, refresh, once>>
    BY <2>1 DEF AdminRequest, tables
  <2> HIDE DEF x
  <2>4. req'[r] = x /\ \A q \in Reqs : q # r => req'[q] = req[q]
    BY <2>3, ReqIs DEF IInv
  <2>5. MailCarried(req[r])'
    BY <2>1, <2>2, <2>4 DEF MailCarried
  <2> QED
    BY <2>3, <2>4, <2>5, MailReads
<1> QED
  BY <1>1, <1>2, <1>3, <1>4 DEF Arrive, Strict

LEMMA ProceedMail ==
  ASSUME IInv, IInv', MailInv, NEW r \in Reqs, Proceed(r)
  PROVE  MailInv'
<1>1. CASE \/ (\E t \in Tokens : CreateSession(r, t))
           \/ (\E n \in Tokens : RotateCommit(r, n))
           \/ (\E o \in OneTime : InsertOnce(r, o))
           \/ (\E u \in Users : RegisterInsert(r, u))
           \/ ConsumeCommit(r) \/ DeleteCommit(r)
  BY <1>1, CreateSessionMail, RotateCommitMail, InsertOnceMail, RegisterInsertMail,
     ConsumeCommitMail, DeleteCommitMail
<1>2. CASE Increment(r) \/ UpdatePassword(r) \/ MarkVerified(r) \/ SetActive(r)
  BY <1>2, UserWritesMail
<1>3. CASE \/ CreateSessionFails(r) \/ RotateUser(r) \/ RefreshRead(r) \/ RevokeAll(r)
           \/ Replace(r) \/ InsertOnceFails(r) \/ ChangeRead(r) \/ RevokeNew(r) \/ RevokeApply(r)
  <2>1. UNCHANGED <<users, once>> /\ (UNCHANGED refresh \/ \E S : Revoke(S))
    BY <1>3 DEF CreateSessionFails, RotateUser, RefreshRead, RevokeAll, Replace, InsertOnceFails,
                ChangeRead, RevokeNew, RevokeApply, tables
  <2>2. Elsewhere
    BY <1>3, GoneOnElsewhere, EndsElsewhere DEF IInv
  <2> QED
    BY <2>1, <2>2, MailReadsElsewhere
<1>4. CASE WriteRole(r)
  BY <1>4 DEF WriteRole, At, MailInv, MailCarried
<1>5. CASE DeleteLock(r)
  <2>1. UNCHANGED <<users, refresh, once>> /\ (Finish(r) \/ Goto(r, "deleteCommit"))
    BY <1>5 DEF DeleteLock, tables
  <2>2. req'[r].pc \in {"idle", "deleteCommit"} /\ \A q \in Reqs : q # r => req'[q] = req[q]
    <3>1. CASE Finish(r)
      BY <3>1, ReqIs DEF IInv, Finish, Idle
    <3>2. CASE Goto(r, "deleteCommit")
      BY <3>2, ReqIs DEF IInv
    <3> QED
      BY <2>1, <3>1, <3>2
  <2>3. MailCarried(req[r])'
    BY <2>2 DEF MailCarried
  <2> QED
    BY <2>1, <2>2, <2>3, MailReads
<1> QED
  BY <1>1, <1>2, <1>3, <1>4, <1>5 DEF Proceed

LEMMA StepMail == Strict /\ IInv /\ IInv' /\ MailInv /\ [Next]_vars => MailInv'
<1> SUFFICES ASSUME Strict, IInv, IInv', MailInv, [Next]_vars PROVE MailInv'
  OBVIOUS
<1>1. ASSUME NEW r \in Reqs, DeadlockVictim(r) \/ Abort(r) PROVE MailInv'
  <2>1. UNCHANGED <<users, refresh, once>>
    BY <1>1 DEF DeadlockVictim, Abort, tables
  <2>2. Elsewhere
    BY <1>1, EndsElsewhere DEF IInv
  <2> QED
    BY <2>1, <2>2, MailReadsElsewhere
<1>2. ASSUME NEW t \in Tokens \cup {None}, Logout(t) PROVE MailInv'
  <2>1. UNCHANGED <<users, once>> /\ (\E S : Revoke(S)) /\ Elsewhere
    BY <1>2 DEF Logout, Elsewhere
  <2> QED
    BY <2>1, MailReadsElsewhere
<1>3. CASE UNCHANGED vars
  <2>1. UNCHANGED <<users, refresh, once>> /\ Elsewhere
    BY <1>3 DEF vars, Elsewhere
  <2> QED
    BY <2>1, MailReadsElsewhere
<1> QED
  BY <1>1, <1>2, <1>3, ArriveMail, ProceedMail, SeedMail DEF Next

LEMMA InitMail == Init => MailInv
<1> SUFFICES ASSUME Init PROVE MailInv
  OBVIOUS
<1>1. \A r \in Reqs : MailCarried(req[r])
  BY DEF Init, RequestsInit, Idle, MailCarried
<1>2. \A u \in Users : users[u].verified => Confirmed(u)
  BY DEF Init, DatabaseInit, Confirmed, MailConfirmed
<1> QED
  BY <1>1, <1>2 DEF Init, DatabaseInit, NoRefresh, NoOnce, MailInv

\* With REQUIRE_EMAIL_VERIFICATION no row of refresh_tokens belongs to a user who has not
\* spent a mailed token, apart from the administrators of cmd/seed: neither a login that read
\* the user before, nor a rotation, nor a replaced or half-spent token gets around it.
THEOREM SessionsOnlyAfterMailAlways == Spec => []SessionsOnlyAfterMail
<1>1. Init => IInv /\ (Strict => MailInv)
  BY InitInvariant, InitMail
<1>2. IInv /\ (Strict => MailInv) /\ [Next]_vars => (IInv /\ (Strict => MailInv))'
  <2>1. Strict' <=> Strict
    BY DEF Strict, Served
  <2> QED
    BY <2>1, StepInvariant, StepMail
<1>3. IInv /\ (Strict => MailInv) => SessionsOnlyAfterMail
  BY DEF SessionsOnlyAfterMail, MailInv, Strict, Confirmed
<1> QED
  BY <1>1, <1>2, <1>3, PTL DEF Spec
=============================================================================
