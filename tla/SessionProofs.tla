----------------------------- MODULE SessionProofs -----------------------------
(***************************************************************************)
(* The tables and the requests implement the session table, for any number *)
(* of users, tokens and concurrent requests: every step of Api is a step   *)
(* of SessionTable or changes nothing that it speaks of.                   *)
(***************************************************************************)
EXTENDS ApiProofs

\* No session of an existing user is touched by what happens to the users.
KeptUsers ==
  \A u \in Users : users[u].st # "free" =>
    (Exists(u)' <=> Exists(u)) /\ users'[u].version = users[u].version

\* Requests stay out of createSession, or stay as they are.
KeptLogins ==
  \A r \in Reqs : req'[r] = req[r] \/ (~At(r, "createSession") /\ ~At(r, "createSession")')

\* r has proved who it is, and nothing has happened to that user's sessions since.
Authenticated(r) ==
  /\ At(r, "createSession")
  /\ Exists(req[r].user)
  /\ req[r].version = users[req[r].user].version

-----------------------------------------------------------------------------
(* The mapping, point by point *)

LEMMA LiveIs == \A u \in Users : LiveTokens[u] = {t \in Tokens : Live(t) /\ refresh[t].user = u}
  BY DEF LiveTokens

LEMMA PendingIs ==
  \A r \in Reqs : Pending[r] = IF Authenticated(r) THEN req[r].user ELSE None
  BY DEF Pending, Authenticated

LEMMA RowFacts ==
  ASSUME IInv, NEW t \in Tokens, refresh[t].st = "row"
  PROVE  /\ refresh[t].user \in Users /\ Exists(refresh[t].user)
         /\ refresh[t].version <= users[refresh[t].user].version
  BY DEF IInv, RowsOK, Bound

LEMMA LoginFacts ==
  ASSUME IInv, NEW r \in Reqs, At(r, "createSession")
  PROVE  /\ req[r].user \in Users /\ users[req[r].user].st # "free"
         /\ Exists(req[r].user) => req[r].version <= users[req[r].user].version
  BY DEF IInv, CarryOK, Carry, Bound, At

\* What has not been handed out is what the table does not have.
LEMMA UnissuedIs == ASSUME IInv PROVE Sessions!Unissued = {t \in Tokens : refresh[t].st = "free"}
<1>1. ASSUME NEW t \in Tokens
      PROVE  (\E u \in Users : t \in LiveTokens[u]) <=> Live(t)
  <2>1. Live(t) => refresh[t].user \in Users
    BY RowFacts DEF Live, Unrevoked
  <2> QED
    BY <2>1, LiveIs
<1>2. \A t \in Tokens : t \in DeadTokens <=> refresh[t].st # "free" /\ ~Live(t)
  BY DEF DeadTokens
<1>3. \A t \in Tokens : Live(t) => refresh[t].st # "free"
  BY DEF Live, Unrevoked
<1>4. \A t \in Tokens :
        t \in UNION {LiveTokens[u] : u \in Users} <=> \E u \in Users : t \in LiveTokens[u]
  OBVIOUS
<1>5. \A t \in Tokens :
        t \in DeadTokens \cup UNION {LiveTokens[u] : u \in Users} <=> refresh[t].st # "free"
  BY <1>1, <1>2, <1>3, <1>4
<1> QED
  BY <1>5 DEF Sessions!Unissued

LEMMA KeptLiveTokens ==
  ASSUME IInv, KeptUsers, UNCHANGED refresh
  PROVE  UNCHANGED <<LiveTokens, DeadTokens>>
<1>1. \A t \in Tokens : Live(t)' <=> Live(t)
  <2> SUFFICES ASSUME NEW t \in Tokens, Unrevoked(t) PROVE Live(t)' <=> Live(t)
    BY DEF Live, Unrevoked
  <2>1. refresh[t].user \in Users /\ Exists(refresh[t].user)
    BY RowFacts DEF Unrevoked
  <2>2. /\ Exists(refresh[t].user)'
        /\ users'[refresh[t].user].version = users[refresh[t].user].version
    BY <2>1 DEF KeptUsers, Exists
  <2> QED
    BY <2>1, <2>2 DEF Live, Unrevoked, Exists
<1> QED
  BY <1>1 DEF LiveTokens, DeadTokens

LEMMA KeptPending ==
  ASSUME IInv, KeptUsers, NEW r \in Reqs,
         req'[r] = req[r] \/ (~At(r, "createSession") /\ ~At(r, "createSession")')
  PROVE  Pending'[r] = Pending[r]
<1>1. CASE ~At(r, "createSession") /\ ~At(r, "createSession")'
  BY <1>1 DEF Pending
<1>2. CASE req'[r] = req[r] /\ At(r, "createSession")
  <2>1. req[r].user \in Users /\ users[req[r].user].st # "free"
    BY <1>2, LoginFacts
  <2>2. /\ Exists(req[r].user)' <=> Exists(req[r].user)
        /\ users'[req[r].user].version = users[req[r].user].version
    BY <1>2, <2>1 DEF KeptUsers, Exists
  <2> QED
    BY <1>2, <2>2 DEF Pending, At, Exists
<1> QED
  BY <1>1, <1>2 DEF At

\* Most steps are none of the session table.
LEMMA Quiet ==
  ASSUME IInv, KeptUsers, KeptLogins, UNCHANGED refresh
  PROVE  UNCHANGED <<LiveTokens, DeadTokens, Pending>>
<1>1. \A r \in Reqs : Pending'[r] = Pending[r]
  BY KeptPending DEF KeptLogins
<1>2. Pending' = Pending
  BY <1>1 DEF Pending
<1> QED
  BY <1>2, KeptLiveTokens
-----------------------------------------------------------------------------
(* Steps of the session table *)

\* The version of u moves on, or u goes with its rows: its sessions end.
LEMMA Kills ==
  ASSUME IInv, NEW u \in Users, Exists(u),
         \A v \in Users : v # u => users'[v] = users[v],
         Exists(u)' => users'[u].version = users[u].version + 1 /\ UNCHANGED refresh,
         \A t \in Tokens : \/ refresh'[t] = refresh[t]
                           \/ /\ refresh[t].user = u /\ refresh[t].st # "free"
                              /\ refresh'[t] = NoRefresh("gone"),
         KeptLogins
  PROVE  Sessions!KillAll(u)
<1>1. \A t \in Tokens : Live(t)' <=> Live(t) /\ refresh[t].user # u
  <2> SUFFICES ASSUME NEW t \in Tokens PROVE Live(t)' <=> Live(t) /\ refresh[t].user # u
    OBVIOUS
  <2>1. CASE ~Unrevoked(t)
    BY <2>1 DEF Live, Unrevoked, NoRefresh
  <2>2. CASE Unrevoked(t) /\ refresh[t].user # u
    <3>1. refresh'[t] = refresh[t] /\ refresh[t].user \in Users
      BY <2>2, RowFacts DEF Unrevoked
    <3> QED
      BY <2>2, <3>1 DEF Live, Unrevoked, Exists
  <2>3. CASE Unrevoked(t) /\ refresh[t].user = u
    <3>1. refresh[t].version <= users[u].version
      BY <2>3, RowFacts DEF Unrevoked
    <3>2. refresh[t].version \in Nat /\ users[u].version \in Nat
      BY DEF IInv, TypeOK, DatabaseTypeOK, RefreshRows, UserRows
    <3>3. CASE Exists(u)'
      BY <2>3, <3>1, <3>2, <3>3 DEF Live, Exists
    <3>4. CASE ~Exists(u)' /\ refresh'[t] = refresh[t]
      BY <2>3, <3>4 DEF Live, Exists
    <3>5. CASE refresh'[t] = NoRefresh("gone")
      BY <3>5, <2>3 DEF Live, Unrevoked, NoRefresh
    <3> QED
      BY <3>3, <3>4, <3>5
  <2> QED
    BY <2>1, <2>2, <2>3
<1>2. \A t \in Tokens : Live(t)' => refresh'[t].user = refresh[t].user
  BY DEF Live, Unrevoked, NoRefresh
<1>3. \A v \in Users : LiveTokens'[v] = IF v = u THEN {} ELSE LiveTokens[v]
  <2> SUFFICES ASSUME NEW v \in Users
               PROVE  LiveTokens'[v] = IF v = u THEN {} ELSE LiveTokens[v]
    OBVIOUS
  <2>1. LiveTokens'[v] = {t \in Tokens : Live(t)' /\ refresh'[t].user = v}
    BY DEF LiveTokens
  <2>2. \A t \in Tokens : Live(t)' /\ refresh'[t].user = v <=>
                            Live(t) /\ refresh[t].user = v /\ v # u
    BY <1>1, <1>2
  <2> QED
    BY <2>1, <2>2, LiveIs
<1>4. LiveTokens' = [LiveTokens EXCEPT ![u] = {}]
  <2>1. /\ LiveTokens = [v \in Users |-> LiveTokens[v]]
        /\ LiveTokens' = [v \in Users |-> LiveTokens'[v]]
    BY DEF LiveTokens
  <2>2. LiveTokens' = [v \in Users |-> IF v = u THEN {} ELSE LiveTokens[v]]
    BY <1>3, <2>1
  <2>3. [LiveTokens EXCEPT ![u] = {}] = [v \in Users |-> IF v = u THEN {} ELSE LiveTokens[v]]
    BY <2>1
  <2> QED
    BY <2>2, <2>3
<1>5. \A t \in Tokens : refresh'[t].st # "free" <=> refresh[t].st # "free"
  BY DEF NoRefresh
<1>6. DeadTokens' = DeadTokens \cup LiveTokens[u]
  <2>1. \A t \in Tokens : Live(t) => refresh[t].st # "free"
    BY DEF Live, Unrevoked
  <2>2. DeadTokens' = {t \in Tokens : refresh'[t].st # "free" /\ ~Live(t)'}
    BY DEF DeadTokens
  <2>3. \A t \in Tokens : refresh'[t].st # "free" /\ ~Live(t)' <=>
                            \/ refresh[t].st # "free" /\ ~Live(t)
                            \/ Live(t) /\ refresh[t].user = u
    BY <1>1, <1>5, <2>1
  <2> QED
    BY <2>2, <2>3, LiveIs DEF DeadTokens
<1>7. ASSUME NEW r \in Reqs PROVE Pending'[r] = IF Pending[r] = u THEN None ELSE Pending[r]
  <2>1. CASE ~At(r, "createSession") /\ ~At(r, "createSession")'
    BY <2>1 DEF Pending
  <2>2. CASE req'[r] = req[r] /\ At(r, "createSession") /\ req[r].user # u
    BY <2>2, LoginFacts, KeysAssumption DEF Pending, At, Exists
  <2>3. CASE req'[r] = req[r] /\ At(r, "createSession") /\ req[r].user = u
    <3>1. req[r].version <= users[u].version
      BY <2>3, LoginFacts
    <3>2. req[r].version \in Nat /\ users[u].version \in Nat
      BY DEF IInv, TypeOK, DatabaseTypeOK, RequestsTypeOK, Requests, UserRows
    <3>3. ~Authenticated(r)'
      BY <2>3, <3>1, <3>2 DEF Authenticated, Exists
    <3> QED
      BY <2>3, <3>3 DEF Pending, Authenticated
  <2> QED
    BY <2>1, <2>2, <2>3 DEF KeptLogins, At
<1>8. Pending' = [r \in Reqs |-> IF Pending[r] = u THEN None ELSE Pending[r]]
  BY <1>7 DEF Pending
<1> QED
  BY <1>4, <1>6, <1>8 DEF Sessions!KillAll

LEMMA Revoked ==
  ASSUME IInv, NEW S, Revoke(S), UNCHANGED users, KeptLogins
  PROVE  Sessions!Revoke(S \cap Tokens)
<1>1. \A t \in Tokens : /\ Live(t)' <=> Live(t) /\ t \notin S
                        /\ refresh'[t].user = refresh[t].user /\ refresh'[t].st = refresh[t].st
  <2> SUFFICES ASSUME NEW t \in Tokens
               PROVE  /\ Live(t)' <=> Live(t) /\ t \notin S
                      /\ refresh'[t].user = refresh[t].user /\ refresh'[t].st = refresh[t].st
    OBVIOUS
  <2>1. CASE t \in S /\ refresh[t].st = "row"
    <3>1. refresh'[t] = [refresh[t] EXCEPT !.revoked = TRUE] /\ refresh[t] \in RefreshRows
      BY <2>1 DEF Revoke, IInv, TypeOK, DatabaseTypeOK
    <3> QED
      BY <2>1, <3>1 DEF Live, Unrevoked, RefreshRows
  <2>2. CASE ~(t \in S /\ refresh[t].st = "row")
    BY <2>2 DEF Revoke, Live, Unrevoked, Exists
  <2> QED
    BY <2>1, <2>2
<1>2. \A v \in Users : LiveTokens'[v] = LiveTokens[v] \ (S \cap Tokens)
  BY <1>1 DEF LiveTokens
<1>3. LiveTokens' = [v \in Users |-> LiveTokens[v] \ (S \cap Tokens)]
  BY <1>2 DEF LiveTokens
<1>4. \A t \in Tokens : (\E v \in Users : t \in LiveTokens[v]) <=> Live(t)
  <2> SUFFICES ASSUME NEW t \in Tokens PROVE (\E v \in Users : t \in LiveTokens[v]) <=> Live(t)
    OBVIOUS
  <2>1. Live(t) => refresh[t].user \in Users
    BY RowFacts DEF Live, Unrevoked
  <2> QED
    BY <2>1, LiveIs
<1>5. \A t \in Tokens : t \in DeadTokens' <=> t \in DeadTokens \/ (t \in S /\ Live(t))
  BY <1>1 DEF DeadTokens, Live, Unrevoked
<1>6. DeadTokens' = DeadTokens \cup ((S \cap Tokens) \cap UNION {LiveTokens[v] : v \in Users})
  <2>1. \A t \in Tokens : t \in UNION {LiveTokens[v] : v \in Users} <=> Live(t)
    BY <1>4
  <2> QED
    BY <1>5, <2>1 DEF DeadTokens
<1>7. UNCHANGED Pending
  <2>1. KeptUsers
    BY DEF KeptUsers, Exists
  <2>2. \A r \in Reqs : Pending'[r] = Pending[r]
    BY <2>1, KeptPending DEF KeptLogins
  <2> QED
    BY <2>2 DEF Pending
<1> QED
  BY <1>3, <1>6, <1>7 DEF Sessions!Revoke

-----------------------------------------------------------------------------
(* Which steps of Api are which *)

\* What has never been a row belongs to nobody.
FreeOK == \A t \in Tokens : refresh[t].st = "free" => refresh[t].user = None

SessionInv == IInv /\ FreeOK

Implements == FreeOK' /\ [Sessions!Next]_(Sessions!sessionVars)

LEMMA QuietImplements ==
  ASSUME SessionInv, KeptUsers, KeptLogins, UNCHANGED refresh
  PROVE  Implements
<1>1. UNCHANGED <<LiveTokens, DeadTokens, Pending>>
  BY Quiet DEF SessionInv
<1>2. FreeOK'
  BY DEF SessionInv, FreeOK
<1> QED
  BY <1>1, <1>2 DEF Implements, Sessions!sessionVars

LEMMA SameUsers == ASSUME UNCHANGED users PROVE KeptUsers
  BY DEF KeptUsers, Exists

LEMMA ReqFacts ==
  ASSUME IInv, NEW r \in Reqs
  PROVE  /\ req[r] \in Requests
         /\ \A x : Become(r, x) => req'[r] = x /\ \A q \in Reqs : q # r => req'[q] = req[q]
         /\ \A pc : Goto(r, pc) => /\ req'[r] = [req[r] EXCEPT !.pc = pc] /\ req'[r].pc = pc
                                   /\ \A q \in Reqs : q # r => req'[q] = req[q]
         /\ Finish(r) => req'[r] = Idle /\ \A q \in Reqs : q # r => req'[q] = req[q]
<1>1. req[r] \in Requests
  BY DEF IInv, TypeOK, RequestsTypeOK
<1> QED
  BY <1>1, ReqIs DEF IInv, Finish

\* A request that is not logging in goes on without logging in.
LEMMA Moves ==
  ASSUME SessionInv, NEW r \in Reqs, NEW x, Become(r, x), ~At(r, "createSession"),
         x.pc # "createSession", KeptUsers, UNCHANGED refresh
  PROVE  Implements
<1>1. req'[r] = x /\ \A q \in Reqs : q # r => req'[q] = req[q]
  BY ReqFacts DEF SessionInv
<1>2. KeptLogins
  BY <1>1 DEF KeptLogins, At
<1> QED
  BY <1>2, QuietImplements

LEMMA GotoMoves ==
  ASSUME SessionInv, NEW r \in Reqs, NEW pc, Goto(r, pc), ~At(r, "createSession"),
         pc # "createSession", KeptUsers, UNCHANGED refresh
  PROVE  Implements
<1>1. req'[r].pc = pc /\ \A q \in Reqs : q # r => req'[q] = req[q]
  BY ReqFacts DEF SessionInv
<1>2. KeptLogins
  BY <1>1 DEF KeptLogins, At
<1> QED
  BY <1>2, QuietImplements

\* A request ends; if it was logging in, the login is dropped.
LEMMA Ends ==
  ASSUME SessionInv, NEW r \in Reqs, Finish(r), KeptUsers, UNCHANGED refresh
  PROVE  Implements
<1>1. /\ req'[r] = Idle /\ \A q \in Reqs : q # r => req'[q] = req[q]
      /\ ~At(r, "createSession")'
  BY ReqFacts DEF SessionInv, At, Idle
<1>2. UNCHANGED <<LiveTokens, DeadTokens>> /\ FreeOK'
  BY KeptLiveTokens DEF SessionInv, FreeOK
<1>3. Pending'[r] = None
  BY <1>1 DEF Pending
<1>4. \A q \in Reqs : q # r => Pending'[q] = Pending[q]
  BY <1>1, KeptPending DEF SessionInv
<1>5. Pending' = [Pending EXCEPT ![r] = None]
  <2>1. /\ Pending = [q \in Reqs |-> Pending[q]]
        /\ Pending' = [q \in Reqs |-> Pending'[q]]
    BY DEF Pending
  <2> QED
    BY <1>3, <1>4, <2>1
<1>6. Sessions!Drop(r)
  BY <1>2, <1>5 DEF Sessions!Drop
<1> QED
  BY <1>2, <1>6 DEF Implements, Sessions!Next

LEMMA LoginReadImplements ==
  ASSUME SessionInv, NEW r \in Reqs, NEW s \in Spellings, NEW p \in Passwords, LoginRead(r, s, p)
  PROVE  Implements
<1>1. PICK u \in Users :
        /\ Exists(u)
        /\ Become(r, [Idle EXCEPT !.pc = "createSession", !.user = u,
                                  !.version = users[u].version, !.cred = p])
  BY DEF LoginRead, GetByEmail
<1>2. At(r, "idle") /\ UNCHANGED <<users, refresh>>
  BY DEF LoginRead, tables
<1>3. /\ req'[r].pc = "createSession" /\ req'[r].user = u /\ req'[r].version = users[u].version
      /\ \A q \in Reqs : q # r => req'[q] = req[q]
  <2> DEFINE x == [Idle EXCEPT !.pc = "createSession", !.user = u,
                               !.version = users[u].version, !.cred = p]
  <2>1. x.pc = "createSession" /\ x.user = u /\ x.version = users[u].version
    BY DEF Idle
  <2>2. Become(r, x)
    BY <1>1
  <2> HIDE DEF x
  <2>3. req'[r] = x /\ \A q \in Reqs : q # r => req'[q] = req[q]
    BY <2>2, ReqFacts DEF SessionInv
  <2> QED
    BY <2>1, <2>3
<1>4. KeptUsers /\ UNCHANGED <<LiveTokens, DeadTokens>> /\ FreeOK'
  BY <1>2, SameUsers, KeptLiveTokens DEF SessionInv, FreeOK
<1>5. Pending[r] = None /\ Pending'[r] = u
  BY <1>1, <1>2, <1>3 DEF Pending, At, Exists
<1>6. \A q \in Reqs : q # r => Pending'[q] = Pending[q]
  BY <1>3, <1>4, KeptPending DEF SessionInv
<1>7. Pending' = [Pending EXCEPT ![r] = u]
  <2>1. /\ Pending = [q \in Reqs |-> Pending[q]]
        /\ Pending' = [q \in Reqs |-> Pending'[q]]
    BY DEF Pending
  <2> QED
    BY <1>5, <1>6, <2>1
<1>8. Sessions!Authenticate(r, u)
  BY <1>4, <1>5, <1>7 DEF Sessions!Authenticate
<1> QED
  BY <1>4, <1>8 DEF Implements, Sessions!Next

LEMMA CreateSessionImplements ==
  ASSUME SessionInv, NEW r \in Reqs, NEW t \in Tokens, CreateSession(r, t)
  PROVE  Implements
<1>1. /\ IInv /\ At(r, "createSession") /\ refresh[t].st = "free" /\ UNCHANGED users /\ Finish(r)
      /\ Exists(req[r].user)
      /\ refresh' = [refresh EXCEPT
           ![t] = NewRefresh(req[r].user, req[r].version, t, req[r].cred)]
  BY DEF CreateSession, Insertable, SessionInv
<1>2. PICK u \in Users : u = req[r].user
  BY <1>1, LoginFacts
<1>3. u # None
  BY KeysAssumption
<1>4. /\ refresh'[t].st = "row" /\ refresh'[t].user = u /\ refresh'[t].version = req[r].version
      /\ ~refresh'[t].revoked
      /\ \A n \in Tokens : n # t => refresh'[n] = refresh[n]
  BY <1>1, <1>2 DEF IInv, TypeOK, DatabaseTypeOK, NewRefresh
<1>5. FreeOK'
  BY <1>4 DEF SessionInv, FreeOK
<1>6. /\ \A n \in Tokens : n # t => (Live(n)' <=> Live(n))
      /\ Live(t)' <=> Authenticated(r)
      /\ ~Live(t)
  <2>1. Live(t)' <=> Authenticated(r)
    BY <1>1, <1>2, <1>4 DEF Live, Unrevoked, Exists, Authenticated
  <2>2. ~Live(t)
    BY <1>1 DEF Live, Unrevoked
  <2> QED
    BY <1>1, <1>4, <2>1, <2>2 DEF Live, Unrevoked, Exists
<1>7. KeptUsers /\ req'[r] = Idle /\ \A q \in Reqs : q # r => req'[q] = req[q]
  BY <1>1, SameUsers, ReqFacts
<1>8. Pending'[r] = None /\ \A q \in Reqs : q # r => Pending'[q] = Pending[q]
  <2>1. Pending'[r] = None
    BY <1>7 DEF Pending, At, Idle
  <2> QED
    BY <1>1, <1>7, <2>1, KeptPending
<1>9. Pending' = [Pending EXCEPT ![r] = None]
  <2>1. /\ Pending = [q \in Reqs |-> Pending[q]]
        /\ Pending' = [q \in Reqs |-> Pending'[q]]
    BY DEF Pending
  <2> QED
    BY <1>8, <2>1
<1>10. t \in Sessions!Unissued
  BY <1>1, UnissuedIs
<1>11. CASE Authenticated(r)
  <2>1. Pending[r] = u
    BY <1>2, <1>11, PendingIs
  <2>2. \A v \in Users : LiveTokens'[v] = IF v = u THEN LiveTokens[v] \cup {t} ELSE LiveTokens[v]
    <3> SUFFICES ASSUME NEW v \in Users
                 PROVE  LiveTokens'[v] = IF v = u THEN LiveTokens[v] \cup {t} ELSE LiveTokens[v]
      OBVIOUS
    <3>1. LiveTokens'[v] = {n \in Tokens : Live(n)' /\ refresh'[n].user = v}
      BY DEF LiveTokens
    <3>2. \A n \in Tokens : Live(n)' /\ refresh'[n].user = v <=>
                              (Live(n) /\ refresh[n].user = v) \/ (n = t /\ v = u)
      BY <1>4, <1>6, <1>11
    <3> QED
      BY <3>1, <3>2, LiveIs
  <2>3. LiveTokens' = [LiveTokens EXCEPT ![u] = @ \cup {t}]
    <3>1. /\ LiveTokens = [v \in Users |-> LiveTokens[v]]
          /\ LiveTokens' = [v \in Users |-> LiveTokens'[v]]
      BY DEF LiveTokens
    <3> QED
      BY <2>2, <3>1
  <2>4. UNCHANGED DeadTokens
    BY <1>1, <1>4, <1>6, <1>11 DEF DeadTokens
  <2>5. Sessions!Grant(r, t)
    BY <1>3, <1>9, <1>10, <2>1, <2>3, <2>4 DEF Sessions!Grant
  <2> QED
    BY <1>5, <2>5 DEF Implements, Sessions!Next
<1>12. CASE ~Authenticated(r)
  <2>1. UNCHANGED Pending
    <3>1. Pending[r] = None
      BY <1>12, PendingIs
    <3> QED
      BY <1>9, <3>1 DEF Pending
  <2>2. UNCHANGED LiveTokens
    <3>1. \A v \in Users, n \in Tokens : Live(n)' /\ refresh'[n].user = v <=>
                                           Live(n) /\ refresh[n].user = v
      BY <1>4, <1>6, <1>12
    <3> QED
      BY <3>1 DEF LiveTokens
  <2>3. DeadTokens' = DeadTokens \cup {t}
    <3>1. \A n \in Tokens : refresh'[n].st # "free" /\ ~Live(n)' <=>
                              (refresh[n].st # "free" /\ ~Live(n)) \/ n = t
      BY <1>4, <1>6, <1>12
    <3> QED
      BY <3>1 DEF DeadTokens
  <2>4. Sessions!GrantDead(t)
    BY <1>10, <2>1, <2>2, <2>3 DEF Sessions!GrantDead
  <2> QED
    BY <1>5, <2>4 DEF Implements, Sessions!Next
<1> QED
  BY <1>11, <1>12

LEMMA RotateCommitImplements ==
  ASSUME SessionInv, NEW r \in Reqs, NEW n \in Tokens, RotateCommit(r, n)
  PROVE  Implements
<1>1. /\ IInv /\ At(r, "rotateCommit") /\ refresh[n].st = "free" /\ UNCHANGED users
      /\ Become(r, [req[r] EXCEPT !.pc = "refreshRead", !.token = n])
  BY DEF RotateCommit, SessionInv
<1>2. PICK t \in Tokens, u \in Users : t = req[r].token /\ u = req[r].user
  BY <1>1 DEF IInv, CarryOK, Carry, At
<1>3. /\ Live(t) /\ refresh[t].user = u /\ Exists(u) /\ refresh[t].version = users[u].version
      /\ req[r].version = refresh[t].version /\ t # n
  BY <1>1, <1>2 DEF IInv, HoldersOK, Checked, At, Live, Unrevoked
<1>4. refresh \in [Tokens -> RefreshRows]
  BY <1>1 DEF IInv, TypeOK, DatabaseTypeOK
<1>5. refresh' = [refresh EXCEPT
        ![t] = [refresh[t] EXCEPT !.revoked = TRUE],
        ![n] = NewRefresh(u, req[r].version, refresh[t].family, req[r].cred)]
  BY <1>2 DEF RotateCommit
<1>6. /\ refresh'[t] = [refresh[t] EXCEPT !.revoked = TRUE]
      /\ refresh'[n] = NewRefresh(u, req[r].version, refresh[t].family, req[r].cred)
      /\ \A x \in Tokens : x # t /\ x # n => refresh'[x] = refresh[x]
  BY <1>3, <1>4, <1>5
<1>7. /\ refresh'[t].revoked /\ refresh'[t].st = "row" /\ refresh'[t].user = u
      /\ refresh'[n].st = "row" /\ refresh'[n].user = u
      /\ refresh'[n].version = users[u].version /\ ~refresh'[n].revoked
  <2>1. refresh[t] \in RefreshRows /\ refresh[t].st = "row"
    BY <1>3, <1>4 DEF Live, Unrevoked
  <2> QED
    BY <1>3, <1>6, <2>1 DEF NewRefresh, RefreshRows
<1>8. FreeOK'
  BY <1>6, <1>7 DEF SessionInv, FreeOK
<1>9. /\ ~Live(t)' /\ Live(n)' /\ ~Live(n)
      /\ \A x \in Tokens : x # t /\ x # n => (Live(x)' <=> Live(x))
  BY <1>1, <1>3, <1>6, <1>7 DEF Live, Unrevoked, Exists
<1>10. \A v \in Users :
         LiveTokens'[v] = IF v = u THEN (LiveTokens[v] \ {t}) \cup {n} ELSE LiveTokens[v]
  <2> SUFFICES ASSUME NEW v \in Users
               PROVE  LiveTokens'[v] = IF v = u THEN (LiveTokens[v] \ {t}) \cup {n} ELSE LiveTokens[v]
    OBVIOUS
  <2>1. LiveTokens'[v] = {x \in Tokens : Live(x)' /\ refresh'[x].user = v}
    BY DEF LiveTokens
  <2>2. \A x \in Tokens : Live(x)' /\ refresh'[x].user = v <=>
                            (Live(x) /\ refresh[x].user = v /\ x # t) \/ (x = n /\ v = u)
    BY <1>6, <1>7, <1>9
  <2>3. v # u => t \notin LiveTokens[v]
    BY <1>3, LiveIs
  <2>4. LiveTokens'[v] = (LiveTokens[v] \ {t}) \cup (IF v = u THEN {n} ELSE {})
    BY <2>1, <2>2, LiveIs
  <2> QED
    BY <2>3, <2>4
<1>11. LiveTokens' = [LiveTokens EXCEPT ![u] = (@ \ {t}) \cup {n}]
  <2>1. /\ LiveTokens = [v \in Users |-> LiveTokens[v]]
        /\ LiveTokens' = [v \in Users |-> LiveTokens'[v]]
    BY DEF LiveTokens
  <2> QED
    BY <1>10, <2>1
<1>12. DeadTokens' = DeadTokens \cup {t}
  <2>1. \A x \in Tokens : refresh'[x].st # "free" /\ ~Live(x)' <=>
                            (refresh[x].st # "free" /\ ~Live(x)) \/ x = t
    BY <1>1, <1>6, <1>7, <1>9
  <2> QED
    BY <2>1 DEF DeadTokens
<1>13. UNCHANGED Pending
  <2>1. KeptUsers
    BY <1>1, SameUsers
  <2>2. /\ req'[r] = [req[r] EXCEPT !.pc = "refreshRead", !.token = n] /\ req[r] \in Requests
        /\ \A q \in Reqs : q # r => req'[q] = req[q]
    BY <1>1, ReqFacts
  <2>3. ~At(r, "createSession") /\ ~At(r, "createSession")'
    BY <1>1, <2>2 DEF At, Requests
  <2>4. \A q \in Reqs : Pending'[q] = Pending[q]
    BY <1>1, <2>1, <2>2, <2>3, KeptPending
  <2> QED
    BY <2>4 DEF Pending
<1>14. Sessions!Rotate(u, t, n)
  <2>1. t \in LiveTokens[u] /\ n \in Sessions!Unissued
    BY <1>1, <1>3, LiveIs, UnissuedIs
  <2> QED
    BY <1>11, <1>12, <1>13, <2>1 DEF Sessions!Rotate
<1> QED
  BY <1>8, <1>14 DEF Implements, Sessions!Next
-----------------------------------------------------------------------------
(* Revocations *)

LEMMA RevokedFree == ASSUME SessionInv, NEW S, Revoke(S) PROVE FreeOK'
<1> SUFFICES ASSUME NEW t \in Tokens, refresh'[t].st = "free" PROVE refresh'[t].user = None
  BY DEF FreeOK
<1>1. refresh \in [Tokens -> RefreshRows]
  BY DEF SessionInv, IInv, TypeOK, DatabaseTypeOK
<1>2. refresh[t].st = "row" => [refresh[t] EXCEPT !.revoked = TRUE].st = "row"
  BY <1>1 DEF RefreshRows
<1>3. refresh'[t] = refresh[t]
  BY <1>2 DEF Revoke
<1> QED
  BY <1>3 DEF SessionInv, FreeOK

LEMMA RevokeImplements ==
  ASSUME SessionInv, NEW S, Revoke(S), UNCHANGED users, KeptLogins
  PROVE  Implements
<1>1. Sessions!Revoke(S \cap Tokens)
  BY Revoked DEF SessionInv
<1> QED
  BY <1>1, RevokedFree DEF Implements, Sessions!Next

LEMMA RevocationsImplement ==
  ASSUME SessionInv, NEW r \in Reqs, RevokeApply(r) \/ RevokeNew(r)
  PROVE  Implements
<1>1. Finish(r) /\ UNCHANGED users /\ ~At(r, "createSession")
  BY DEF RevokeApply, RevokeNew, At
<1>2. req'[r] = Idle /\ \A q \in Reqs : q # r => req'[q] = req[q]
  BY <1>1, ReqFacts DEF SessionInv
<1>3. KeptLogins
  BY <1>1, <1>2 DEF KeptLogins, At, Idle
<1>4. Revoke(req[r].snap) \/ Revoke({req[r].token})
  BY DEF RevokeApply, RevokeNew
<1> QED
  BY <1>1, <1>3, <1>4, RevokeImplements

LEMMA LogoutImplements ==
  ASSUME SessionInv, NEW t \in Tokens \cup {None}, Logout(t)
  PROVE  Implements
<1>1. Revoke({t}) /\ UNCHANGED users /\ KeptLogins
  BY DEF Logout, KeptLogins
<1> QED
  BY <1>1, RevokeImplements

-----------------------------------------------------------------------------
(* Versions that move on, and deletions *)

LEMMA BumpImplements ==
  ASSUME SessionInv, NEW u \in Users, Exists(u), Exists(u)',
         users'[u].version = users[u].version + 1,
         \A v \in Users : v # u => users'[v] = users[v], UNCHANGED refresh, KeptLogins
  PROVE  Implements
<1>1. Sessions!KillAll(u)
  BY Kills DEF SessionInv
<1> QED
  BY <1>1 DEF SessionInv, FreeOK, Implements, Sessions!Next

LEMMA BumpsImplement ==
  ASSUME SessionInv, NEW r \in Reqs, Increment(r) \/ UpdatePassword(r)
  PROVE  Implements
<1>1. /\ ~At(r, "createSession") /\ ~At(r, "idle") /\ UNCHANGED refresh
      /\ req[r].pc \in {"increment", "updatePassword"}
  BY DEF Increment, UpdatePassword, At
<1>2. PICK u \in Users : u = req[r].user
  BY <1>1 DEF SessionInv, IInv, CarryOK, Carry, At
<1>3. users \in [Users -> UserRows]
  BY DEF SessionInv, IInv, TypeOK, DatabaseTypeOK
<1>4. CASE ~Exists(u)
  <2>1. Finish(r) /\ UNCHANGED users
    BY <1>2, <1>4 DEF Increment, UpdatePassword
  <2> QED
    BY <1>1, <2>1, SameUsers, Ends
<1>5. CASE Exists(u)
  <2>1. /\ Goto(r, "revokeAll")
        /\ \/ users' = [users EXCEPT ![u].version = @ + 1]
           \/ users' = [users EXCEPT ![u].pw = req[r].pw, ![u].version = @ + 1]
    BY <1>2, <1>5 DEF Increment, UpdatePassword, IncrementTokenVersion, WritePassword
  <2>2. /\ users'[u].version = users[u].version + 1 /\ users'[u].st = users[u].st
        /\ \A v \in Users : v # u => users'[v] = users[v]
    <3>1. users[u] \in UserRows
      BY <1>3
    <3>2. CASE users' = [users EXCEPT ![u].version = @ + 1]
      BY <1>3, <3>1, <3>2 DEF UserRows
    <3>3. CASE users' = [users EXCEPT ![u].pw = req[r].pw, ![u].version = @ + 1]
      BY <1>3, <3>1, <3>3 DEF UserRows
    <3> QED
      BY <2>1, <3>2, <3>3
  <2>3. Exists(u)'
    BY <1>5, <2>2 DEF Exists
  <2>4. req'[r].pc = "revokeAll" /\ \A q \in Reqs : q # r => req'[q] = req[q]
    BY <2>1, ReqFacts DEF SessionInv
  <2>5. KeptLogins
    BY <1>1, <2>4 DEF KeptLogins, At
  <2> QED
    BY <1>1, <1>5, <2>2, <2>3, <2>5, BumpImplements
<1> QED
  BY <1>4, <1>5

LEMMA DeleteCommitImplements ==
  ASSUME SessionInv, NEW r \in Reqs, DeleteCommit(r)
  PROVE  Implements
<1>1. /\ At(r, "deleteCommit") /\ ~At(r, "createSession") /\ Finish(r)
      /\ DeleteCascade(req[r].user)
  BY DEF DeleteCommit, At
<1>2. PICK u \in Users : u = req[r].user
  BY <1>1 DEF SessionInv, IInv, CarryOK, Carry, At
<1>3. Exists(u)
  BY <1>1, <1>2 DEF SessionInv, IInv, HoldersOK, Checked, At
<1>4. users \in [Users -> UserRows] /\ refresh \in [Tokens -> RefreshRows]
  BY DEF SessionInv, IInv, TypeOK, DatabaseTypeOK
<1>5. /\ users'[u] = NoUser("gone") /\ \A v \in Users : v # u => users'[v] = users[v]
      /\ \A t \in Tokens :
           refresh'[t] = IF refresh[t].user = u THEN NoRefresh("gone") ELSE refresh[t]
  BY <1>1, <1>2, <1>4 DEF DeleteCascade
<1>6. ~Exists(u)'
  BY <1>5 DEF Exists, NoUser
<1>7. u # None
  BY KeysAssumption
<1>8. \A t \in Tokens : \/ refresh'[t] = refresh[t]
                        \/ /\ refresh[t].user = u /\ refresh[t].st # "free"
                           /\ refresh'[t] = NoRefresh("gone")
  BY <1>5, <1>7 DEF SessionInv, FreeOK
<1>9. req'[r] = Idle /\ \A q \in Reqs : q # r => req'[q] = req[q]
  BY <1>1, ReqFacts DEF SessionInv
<1>10. KeptLogins
  BY <1>1, <1>9 DEF KeptLogins, At, Idle
<1>11. Sessions!KillAll(u)
  BY <1>3, <1>5, <1>6, <1>8, <1>10, Kills DEF SessionInv
<1>12. FreeOK'
  BY <1>8 DEF SessionInv, FreeOK, NoRefresh
<1> QED
  BY <1>11, <1>12 DEF Implements, Sessions!Next

\* A new row, and a row whose version and existence stay, leave the sessions.
LEMMA KeptRow ==
  ASSUME IInv, NEW u \in Users, \A v \in Users : v # u => users'[v] = users[v],
         \/ users[u].st = "free"
         \/ users'[u].st = users[u].st /\ users'[u].version = users[u].version
  PROVE  KeptUsers
  BY DEF KeptUsers, Exists

LEMMA SeedImplements ==
  ASSUME SessionInv, NEW s \in Spellings, NEW p \in Passwords, Seed(s, p)
  PROVE  Implements
<1>1. UNCHANGED <<refresh, req>> /\ KeptLogins
  BY DEF Seed, KeptLogins
<1>2. users \in [Users -> UserRows]
  BY DEF SessionInv, IInv, TypeOK, DatabaseTypeOK
<1>3. ASSUME NEW u \in Users, users[u].st = "free",
             users' = [users EXCEPT ![u] = Seeded(NoUser("row"), s, p)]
      PROVE  Implements
  <2>1. \A v \in Users : v # u => users'[v] = users[v]
    BY <1>2, <1>3
  <2>2. KeptUsers
    BY <1>3, <2>1, KeptRow DEF SessionInv
  <2> QED
    BY <1>1, <2>2, QuietImplements
<1>4. ASSUME NEW u \in Users, Exists(u),
             users' = [users EXCEPT ![u] =
                         Seeded([@ EXCEPT !.version = users[u].version + 1], s, p)]
      PROVE  Implements
  <2> DEFINE x == [users[u] EXCEPT !.version = users[u].version + 1]
  <2>1. x.version = users[u].version + 1 /\ x.st = "row"
    <3>1. users[u] \in UserRows /\ users[u].st = "row"
      BY <1>2, <1>4 DEF Exists
    <3> QED
      BY <3>1 DEF UserRows
  <2>2. DOMAIN x = {"st", "email", "pw", "role", "verified", "active", "version"}
    <3>1. users[u] \in UserRows
      BY <1>2
    <3> QED
      BY <3>1 DEF UserRows
  <2>3. users' = [users EXCEPT ![u] = Seeded(x, s, p)]
    BY <1>4
  <2> HIDE DEF x
  <2>4. Seeded(x, s, p).version = users[u].version + 1 /\ Seeded(x, s, p).st = "row"
    BY <2>1, <2>2 DEF Seeded
  <2>5. users'[u] = Seeded(x, s, p) /\ \A v \in Users : v # u => users'[v] = users[v]
    BY <1>2, <2>3
  <2>6. Exists(u)' /\ users'[u].version = users[u].version + 1
    BY <2>4, <2>5 DEF Exists
  <2> QED
    BY <1>1, <1>4, <2>5, <2>6, BumpImplements
<1> QED
  BY <1>3, <1>4 DEF Seed
-----------------------------------------------------------------------------
(* Steps that are none of the session table *)

LEMMA ArriveImplements ==
  ASSUME SessionInv, NEW r \in Reqs, Arrive(r)
  PROVE  Implements
<1> USE DEF tables
<1>1. ASSUME NEW s \in Spellings, NEW p \in Passwords, LoginRead(r, s, p) PROVE Implements
  BY <1>1, LoginReadImplements
<1>2. ASSUME At(r, "idle"), NEW x, Become(r, x), x.pc # "createSession",
             UNCHANGED <<users, refresh>>
      PROVE  Implements
  <2>1. ~At(r, "createSession") /\ KeptUsers
    BY <1>2, SameUsers DEF At
  <2> QED
    BY <1>2, <2>1, Moves
<1>3. ASSUME NEW t \in Tokens, RotateLock(r, t) PROVE Implements
  <2>1. [Idle EXCEPT !.pc = "rotateUser", !.token = t].pc # "createSession"
    BY DEF Idle
  <2> QED
    BY <1>2, <1>3, <2>1 DEF RotateLock
<1>4. ASSUME NEW a, LogoutAll(r, a) PROVE Implements
  <2>1. [Idle EXCEPT !.pc = "increment", !.user = a.user].pc # "createSession"
    BY DEF Idle
  <2> QED
    BY <1>2, <1>4, <2>1 DEF LogoutAll
<1>5. ASSUME NEW a, NEW p, NEW q, ChangePassword(r, a, p, q) PROVE Implements
  <2>1. [Idle EXCEPT !.pc = "changeRead", !.actor = a.user, !.user = a.user,
                     !.version = a.version, !.cred = p, !.pw = q].pc # "createSession"
    BY DEF Idle
  <2> QED
    BY <1>2, <1>5, <2>1 DEF ChangePassword
<1>6. ASSUME NEW s, ForgotPassword(r, s) PROVE Implements
  <2>1. \A u : [Idle EXCEPT !.pc = "replaceReset", !.user = u].pc # "createSession"
    BY DEF Idle
  <2> QED
    BY <1>2, <1>6, <2>1 DEF ForgotPassword
<1>7. ASSUME NEW s, ResendVerification(r, s) PROVE Implements
  <2>1. \A u : [Idle EXCEPT !.pc = "replaceVerif", !.user = u].pc # "createSession"
    BY DEF Idle
  <2> QED
    BY <1>2, <1>7, <2>1 DEF ResendVerification
<1>8. ASSUME NEW o, NEW p, Consume(r, o, p) PROVE Implements
  <2>1. [Idle EXCEPT !.pc = "consume", !.token = o, !.user = once[o].user, !.pw = p].pc
          # "createSession"
    BY DEF Idle
  <2> QED
    BY <1>2, <1>8, <2>1 DEF Consume
<1>9. ASSUME NEW s, NEW p, RegisterRead(r, s, p) PROVE Implements
  <2>1. [Idle EXCEPT !.pc = "insertUser", !.arg = Lower[s], !.pw = p].pc # "createSession"
    BY DEF Idle
  <2> QED
    BY <1>2, <1>9, <2>1 DEF RegisterRead
<1>10. ASSUME NEW a, NEW u, NEW pc \in {"setActive", "setRole", "deleteUser"}, NEW arg,
              AdminRequest(r, a, u, pc, arg)
       PROVE  Implements
  <2>1. [Idle EXCEPT !.pc = pc, !.actor = a.user, !.user = u, !.arg = arg].pc # "createSession"
    BY DEF Idle
  <2> QED
    BY <1>2, <1>10, <2>1 DEF AdminRequest
<1> QED
  BY <1>1, <1>3, <1>4, <1>5, <1>6, <1>7, <1>8, <1>9, <1>10
     DEF Arrive, VerifyEmail, ResetPassword, SetStatus, SetRole, DeleteUser

\* Reads and waits of a request that is under way.
LEMMA ReadsImplement ==
  ASSUME SessionInv, NEW r \in Reqs,
         RotateUser(r) \/ RefreshRead(r) \/ RevokeAll(r) \/ Replace(r) \/ ChangeRead(r) \/ DeleteLock(r)
  PROVE  Implements
<1>1. /\ req[r] \in Requests /\ UNCHANGED <<users, refresh>> /\ KeptUsers
      /\ ~At(r, "createSession")
  <2>1. UNCHANGED <<users, refresh>> /\ ~At(r, "createSession")
    BY DEF RotateUser, RefreshRead, RevokeAll, Replace, ChangeRead, DeleteLock, tables, At
  <2> QED
    BY <2>1, ReqFacts, SameUsers DEF SessionInv
<1>2. CASE Finish(r)
  BY <1>1, <1>2, Ends
<1>3. ASSUME NEW pc \in {"revokeAll", "revokeNew", "updatePassword", "deleteCommit"}, Goto(r, pc)
      PROVE  Implements
  BY <1>1, <1>3, GotoMoves
<1>4. CASE RotateUser(r)
  <2> DEFINE t == req[r].token
             x == [req[r] EXCEPT !.pc = "rotateCommit", !.user = refresh[t].user,
                     !.version = users[refresh[t].user].version, !.cred = refresh[t].cred]
  <2>1. x.pc # "createSession"
    BY <1>1 DEF Requests
  <2>2. Finish(r) \/ Become(r, x)
    BY <1>4 DEF RotateUser, Rollback
  <2> HIDE DEF x
  <2> QED
    BY <1>1, <1>2, <2>1, <2>2, Moves
<1>5. CASE RefreshRead(r)
  BY <1>2, <1>3, <1>5 DEF RefreshRead
<1>6. CASE RevokeAll(r)
  <2>1. \A S : [req[r] EXCEPT !.pc = "revokeApply", !.snap = S].pc # "createSession"
    BY <1>1 DEF Requests
  <2>2. \E x : Become(r, x) /\ x.pc # "createSession"
    BY <1>6, <2>1 DEF RevokeAll
  <2> QED
    BY <1>1, <2>2, Moves
<1>7. CASE Replace(r)
  <2>1. \A S : /\ [req[r] EXCEPT !.pc = "insertReset", !.snap = S].pc # "createSession"
               /\ [req[r] EXCEPT !.pc = "insertVerif", !.snap = S].pc # "createSession"
    BY <1>1 DEF Requests
  <2>2. \E x : Become(r, x) /\ x.pc # "createSession"
    BY <1>7, <2>1 DEF Replace
  <2> QED
    BY <1>1, <2>2, Moves
<1>8. CASE ChangeRead(r)
  BY <1>2, <1>3, <1>8 DEF ChangeRead
<1>9. CASE DeleteLock(r)
  BY <1>2, <1>3, <1>9 DEF DeleteLock
<1> QED
  BY <1>4, <1>5, <1>6, <1>7, <1>8, <1>9

\* Statements that write other columns or other tables.
LEMMA WritesImplement ==
  ASSUME SessionInv, NEW r \in Reqs,
         MarkVerified(r) \/ SetActive(r) \/ WriteRole(r) \/ (\E o \in OneTime : InsertOnce(r, o))
           \/ ConsumeCommit(r)
  PROVE  Implements
<1>1. ~At(r, "createSession") /\ ~At(r, "idle") /\ UNCHANGED refresh
  BY DEF MarkVerified, SetActive, WriteRole, InsertOnce, ConsumeCommit, At
<1>2. users \in [Users -> UserRows]
  BY DEF SessionInv, IInv, TypeOK, DatabaseTypeOK
<1>3. KeptUsers
  <2>1. CASE UNCHANGED users
    BY <2>1, SameUsers
  <2>2. ASSUME NEW u, NEW x, \/ users' = [users EXCEPT ![u].verified = x]
                             \/ users' = [users EXCEPT ![u].active = x]
                             \/ users' = [users EXCEPT ![u].role = x]
        PROVE  KeptUsers
    <3> SUFFICES ASSUME NEW v \in Users
                 PROVE  users'[v].st = users[v].st /\ users'[v].version = users[v].version
      BY DEF KeptUsers, Exists
    <3>1. users[v] \in UserRows
      BY <1>2
    <3>2. \/ users'[v] = users[v]
          \/ users'[v] = [users[v] EXCEPT !.verified = x]
          \/ users'[v] = [users[v] EXCEPT !.active = x]
          \/ users'[v] = [users[v] EXCEPT !.role = x]
      BY <1>2, <2>2
    <3> QED
      BY <3>1, <3>2 DEF UserRows
  <2> QED
    BY <2>1, <2>2 DEF MarkVerified, SetActive, WriteRole, InsertOnce, ConsumeCommit
<1>4. Finish(r) \/ \E pc \in {"revokeAll", "updatePassword", "markVerified"} : Goto(r, pc)
  BY DEF MarkVerified, SetActive, WriteRole, InsertOnce, ConsumeCommit
<1> QED
  BY <1>1, <1>3, <1>4, Ends, GotoMoves

LEMMA RegisterImplements ==
  ASSUME SessionInv, NEW r \in Reqs, NEW u \in Users, RegisterInsert(r, u)
  PROVE  Implements
<1>1. ~At(r, "createSession") /\ users[u].st = "free" /\ UNCHANGED refresh
  BY DEF RegisterInsert, At
<1>2. users \in [Users -> UserRows]
  BY DEF SessionInv, IInv, TypeOK, DatabaseTypeOK
<1>3. CASE Finish(r) /\ UNCHANGED users
  BY <1>1, <1>3, SameUsers, Ends
<1>4. CASE /\ InsertUser(u, req[r].arg, req[r].pw)
           /\ Become(r, [Idle EXCEPT !.pc = "replaceVerif", !.user = u])
  <2>1. \A v \in Users : v # u => users'[v] = users[v]
    BY <1>2, <1>4 DEF InsertUser
  <2>2. KeptUsers
    BY <1>1, <2>1, KeptRow DEF SessionInv
  <2>3. [Idle EXCEPT !.pc = "replaceVerif", !.user = u].pc # "createSession"
    BY DEF Idle
  <2> QED
    BY <1>1, <1>4, <2>2, <2>3, Moves
<1> QED
  BY <1>3, <1>4 DEF RegisterInsert

LEMMA EndsImplement ==
  ASSUME SessionInv, NEW r \in Reqs,
         CreateSessionFails(r) \/ InsertOnceFails(r) \/ Abort(r) \/ DeadlockVictim(r)
  PROVE  Implements
<1>1. Finish(r) /\ UNCHANGED <<users, refresh>>
  BY DEF CreateSessionFails, InsertOnceFails, Abort, DeadlockVictim, tables
<1> QED
  BY <1>1, SameUsers, Ends

-----------------------------------------------------------------------------
LEMMA ProceedImplements ==
  ASSUME SessionInv, NEW r \in Reqs, Proceed(r)
  PROVE  Implements
BY CreateSessionImplements, RotateCommitImplements, RevocationsImplement, BumpsImplement,
   DeleteCommitImplements, ReadsImplement, WritesImplement, RegisterImplements, EndsImplement
   DEF Proceed

LEMMA NextImplements == SessionInv /\ [Next]_vars => Implements
<1> SUFFICES ASSUME SessionInv, [Next]_vars PROVE Implements
  OBVIOUS
<1>1. ASSUME NEW r \in Reqs, Arrive(r) \/ Proceed(r) \/ DeadlockVictim(r) \/ Abort(r)
      PROVE  Implements
  BY <1>1, ArriveImplements, ProceedImplements, EndsImplement
<1>2. ASSUME NEW t \in Tokens \cup {None}, Logout(t) PROVE Implements
  BY <1>2, LogoutImplements
<1>3. ASSUME NEW s \in Spellings, NEW p \in Passwords, Seed(s, p) PROVE Implements
  BY <1>3, SeedImplements
<1>4. CASE UNCHANGED vars
  <2>1. UNCHANGED <<users, refresh>> /\ KeptLogins
    BY <1>4 DEF vars, KeptLogins
  <2> QED
    BY <2>1, SameUsers, QuietImplements
<1> QED
  BY <1>1, <1>2, <1>3, <1>4 DEF Next

LEMMA InitImplements == Init => FreeOK /\ Sessions!Init
<1> SUFFICES ASSUME Init PROVE FreeOK /\ Sessions!Init
  OBVIOUS
<1>1. \A t \in Tokens : refresh[t].st = "free" /\ refresh[t].user = None
  BY DEF Init, DatabaseInit, NoRefresh
<1>2. \A r \in Reqs : ~At(r, "createSession")
  BY DEF Init, RequestsInit, At, Idle
<1>3. FreeOK
  BY <1>1 DEF FreeOK
<1>4. LiveTokens = [u \in Users |-> {}]
  BY <1>1 DEF LiveTokens, Live, Unrevoked
<1>5. DeadTokens = {}
  BY <1>1 DEF DeadTokens
<1>6. Pending = [r \in Reqs |-> None]
  BY <1>2 DEF Pending
<1> QED
  BY <1>3, <1>4, <1>5, <1>6 DEF Sessions!Init

\* Every step of the handlers over the real tables, whatever interleaves with it, is
\* one that the session table allows, or changes nothing that it speaks of.
THEOREM ApiImplementsSessionTable == Spec => ImplementsSessionTable
<1>1. Init => SessionInv /\ Sessions!Init
  BY InitInvariant, InitImplements DEF SessionInv
<1>2. SessionInv /\ [Next]_vars => SessionInv' /\ [Sessions!Next]_(Sessions!sessionVars)
  BY StepInvariant, NextImplements DEF SessionInv, Implements
<1> QED
  BY <1>1, <1>2, PTL DEF Spec, ImplementsSessionTable, Sessions!Spec

-----------------------------------------------------------------------------
(* What the handlers inherit from the session table *)

\* A token that Rotate would refuse stays so, whatever happens to its user.
DeadStayDead == [][DeadTokens \subseteq DeadTokens']_vars

\* A user gets a session by a login that has proved the current password, or in
\* exchange for a session that ends with it.
SessionsHaveOrigin ==
  [][ \A u \in Users : \A n \in LiveTokens'[u] \ LiveTokens[u] :
        \/ \E r \in Reqs : Pending[r] = u
        \/ \E t \in LiveTokens[u] : t \in DeadTokens' ]_vars

\* Nothing the session table allows revives a token.
LEMMA TableNeverRevives ==
  ASSUME [Sessions!Next]_(Sessions!sessionVars)
  PROVE  DeadTokens \subseteq DeadTokens'
  BY DEF Sessions!Next, Sessions!sessionVars, Sessions!Authenticate, Sessions!Drop,
         Sessions!Grant, Sessions!GrantDead, Sessions!Rotate, Sessions!Revoke, Sessions!KillAll

\* It adds a token to a user's live ones by a Grant or a Rotate only.
LEMMA TableOrigin ==
  ASSUME [Sessions!Next]_(Sessions!sessionVars), NEW u \in Users,
         NEW n \in LiveTokens'[u] \ LiveTokens[u]
  PROVE  \/ \E r \in Reqs : Pending[r] = u
         \/ \E t \in LiveTokens[u] : t \in DeadTokens'
  <1>1. LiveTokens = [v \in Users |-> LiveTokens[v]]
    BY DEF LiveTokens
  <1>2. CASE \E r \in Reqs, t \in Tokens : Sessions!Grant(r, t)
    BY <1>1, <1>2 DEF Sessions!Grant
  <1>3. CASE \E v \in Users, t, m \in Tokens : Sessions!Rotate(v, t, m)
    BY <1>1, <1>3 DEF Sessions!Rotate
  <1>4. CASE \/ \E r \in Reqs, v \in Users : Sessions!Authenticate(r, v)
             \/ \E r \in Reqs : Sessions!Drop(r)
             \/ \E t \in Tokens : Sessions!GrantDead(t)
             \/ UNCHANGED Sessions!sessionVars
    BY <1>4 DEF Sessions!Authenticate, Sessions!Drop, Sessions!GrantDead, Sessions!sessionVars
  <1>5. CASE \E S \in SUBSET Tokens : Sessions!Revoke(S)
    BY <1>5 DEF Sessions!Revoke
  <1>6. CASE \E v \in Users : Sessions!KillAll(v)
    BY <1>1, <1>6 DEF Sessions!KillAll
  <1> QED BY <1>2, <1>3, <1>4, <1>5, <1>6 DEF Sessions!Next

\* A refresh token that was rotated, revoked or outdated is never accepted again: no
\* change of status, role, password or version, no deletion and no request in flight
\* brings it back.
THEOREM DeadStayDeadAlways == Spec => DeadStayDead
<1>1. Init => SessionInv
  BY InitInvariant, InitImplements DEF SessionInv
<1>2. SessionInv /\ [Next]_vars => SessionInv' /\ [DeadTokens \subseteq DeadTokens']_vars
  BY StepInvariant, NextImplements, TableNeverRevives DEF SessionInv, Implements
<1> QED
  BY <1>1, <1>2, PTL DEF Spec, DeadStayDead

\* Every token that Rotate accepts came from a login in progress whose version was
\* still current at the INSERT, or replaced a live token of the same user in the same step.
THEOREM SessionsHaveOriginAlways == Spec => SessionsHaveOrigin
<1> DEFINE Origin == \A u \in Users : \A n \in LiveTokens'[u] \ LiveTokens[u] :
                       \/ \E r \in Reqs : Pending[r] = u
                       \/ \E t \in LiveTokens[u] : t \in DeadTokens'
<1>1. Init => SessionInv
  BY InitInvariant, InitImplements DEF SessionInv
<1>2. SessionInv /\ [Next]_vars => SessionInv' /\ Origin
  BY StepInvariant, NextImplements, TableOrigin DEF SessionInv, Implements
<1> HIDE DEF Origin
<1>3. SessionInv /\ [Next]_vars => SessionInv' /\ [Origin]_vars
  BY <1>2
<1> QED
  BY <1>1, <1>3, PTL DEF Spec, SessionsHaveOrigin, Origin
=============================================================================
