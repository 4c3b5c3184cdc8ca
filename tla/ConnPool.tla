------------------------------- MODULE ConnPool -------------------------------
(***************************************************************************)
(* The *sql.DB of database.Connect, shared by all requests.  A statement   *)
(* borrows a connection for as long as it runs, a transaction of WithTx    *)
(* until it ends; at most DB_MAX_OPEN_CONNS are lent at a time, and the    *)
(* other requests wait.  Statements also wait for row locks, and while     *)
(* they do they keep their connection.  What a request does between its    *)
(* statements (bcrypt, SMTP, Cloudinary) needs no connection.              *)
(* All requests are about one user, so that they meet at the same rows.    *)
(***************************************************************************)
EXTENDS Integers, FiniteSets, Sequences

CONSTANTS
  Reqs,          \* the requests in progress at a time
  MaxOpenConns,  \* DB_MAX_OPEN_CONNS
  Served         \* the routes of an instance

Rows == {"user", "token", "once"}  \* the user's row, the tokens', the one-time tokens'

\* A route is a sequence of units.  A unit with a connection is a statement or
\* a transaction with the rows it locks, in their order.
Outside == [conn |-> FALSE, locks |-> <<>>]
Locking(rows) == [conn |-> TRUE, locks |-> rows]
Read == Locking(<<>>)

\* WithTx(DELETE unused; INSERT), then the mail.
SendOnce == <<Locking(<<"once", "user">>), Outside>>

\* An INSERT locks the user its foreign key names.  "resend" stands for
\* ForgotPassword too, "setStatus" for SetRole, "uploadAvatar" for DeleteAvatar;
\* "refreshTooLate" is a rotation whose new token has to be revoked at once.
Program == [
  readiness      |-> <<Read>>,
  register       |-> <<Read, Outside, Read>> \o SendOnce,
  login          |-> <<Read, Outside, Locking(<<"user">>)>>,
  refresh        |-> <<Locking(<<"token", "user">>), Read>>,
  refreshTooLate |-> <<Locking(<<"token", "user">>), Read, Locking(<<"token">>)>>,
  logout         |-> <<Locking(<<"token">>)>>,
  logoutAll      |-> <<Read, Locking(<<"user">>), Locking(<<"token">>)>>,
  verifyEmail    |-> <<Locking(<<"once">>), Locking(<<"user">>)>>,
  resend         |-> <<Read>> \o SendOnce,
  resetPassword  |-> <<Locking(<<"once">>), Outside, Locking(<<"user">>), Locking(<<"token">>)>>,
  changePassword |-> <<Read, Read, Outside, Locking(<<"user">>), Locking(<<"token">>)>>,
  updateProfile  |-> <<Read, Locking(<<"user">>)>>,
  uploadAvatar   |-> <<Read, Read, Outside, Locking(<<"user">>), Outside>>,
  listUsers      |-> <<Read, Read, Read>>,
  setStatus      |-> <<Read, Locking(<<"user">>), Locking(<<"token">>)>>,
  deleteUser     |-> <<Read, Read, Locking(<<"user", "token", "once">>), Outside>>]

Routes == DOMAIN Program
Units == [conn : BOOLEAN, locks : Seq(Rows)]

ASSUME PoolAssumption ==
  /\ IsFiniteSet(Reqs)
  /\ MaxOpenConns \in Nat \ {0}
  /\ Served \subseteq Routes

VARIABLES
  pc,     \* idle, wait (for a connection), run (with one), call (outside)
  left,   \* the units the request still has to do, the current one first
  conns,  \* the requests that have borrowed a connection
  held    \* the rows a request has locked

vars == <<pc, left, conns, held>>

\* Every variable has its type, a row has one holder, and no more connections
\* are lent than DB_MAX_OPEN_CONNS.
TypeOK ==
  /\ pc \in [Reqs -> {"idle", "wait", "run", "call"}]
  /\ left \in [Reqs -> Seq(Units)]
  /\ conns \subseteq Reqs /\ Cardinality(conns) <= MaxOpenConns
  /\ held \in [Reqs -> SUBSET Rows]
  /\ \A r, s \in Reqs : r # s => held[r] \cap held[s] = {}

Init ==
  /\ pc = [r \in Reqs |-> "idle"]
  /\ left = [r \in Reqs |-> <<>>]
  /\ conns = {}
  /\ held = [r \in Reqs |-> {}]

-----------------------------------------------------------------------------
(* Where a request stands *)

Current(r) == Head(left[r])
Complete(r) == Cardinality(held[r]) >= Len(Current(r).locks)
NextRow(r) == Current(r).locks[Cardinality(held[r]) + 1]
Free(row) == \A s \in Reqs : row \notin held[s]

\* The request goes on with the units rest, or has answered.
GoOn(r, rest) ==
  /\ left' = [left EXCEPT ![r] = rest]
  /\ pc' = [pc EXCEPT ![r] = IF rest = <<>> THEN "idle"
                             ELSE IF Head(rest).conn THEN "wait" ELSE "call"]

\* Mutant: the rows of a query are not closed.
Release_RowsNotClosed(r) ==
  /\ UNCHANGED conns
  /\ held' = [held EXCEPT ![r] = {}]
\* A statement is over, a transaction commits: connection and locks are free.
Release(r) ==
  /\ conns' = conns \ {r}
  /\ held' = [held EXCEPT ![r] = {}]

-----------------------------------------------------------------------------
(* Steps *)

Arrive(r, route) ==
  /\ pc[r] = "idle" /\ route \in Served
  /\ GoOn(r, Program[route])
  /\ UNCHANGED <<conns, held>>

Room == Cardinality(conns) < MaxOpenConns

\* db.conn: an idle connection, or a new one while there is room.
Acquire(r) ==
  /\ pc[r] = "wait" /\ Room
  /\ pc' = [pc EXCEPT ![r] = "run"]
  /\ conns' = conns \cup {r}
  /\ UNCHANGED <<left, held>>

\* Mutant: inside of WithTx a statement is sent through r.db, not tx.
Lock_OwnConnection(r) ==
  /\ pc[r] = "run" /\ ~Complete(r) /\ Free(NextRow(r))
  /\ held' = [held EXCEPT ![r] = @ \cup {NextRow(r)}]
  /\ pc' = [pc EXCEPT ![r] = IF Len(Current(r).locks) = 1 THEN "run" ELSE "wait"]
  /\ UNCHANGED <<left, conns>>
\* A statement of the unit locks its next row, on the unit's connection.
Lock(r) ==
  /\ pc[r] = "run" /\ ~Complete(r) /\ Free(NextRow(r))
  /\ held' = [held EXCEPT ![r] = @ \cup {NextRow(r)}]
  /\ UNCHANGED <<pc, left, conns>>

\* The unit is done.
Finish(r) ==
  /\ pc[r] = "run" /\ Complete(r)
  /\ Release(r)
  /\ GoOn(r, Tail(left[r]))

\* bcrypt, the mail server or the image store has answered.
Return(r) ==
  /\ pc[r] = "call"
  /\ GoOn(r, Tail(left[r]))
  /\ UNCHANGED <<conns, held>>

\* Mutant: WithTx returns the error without a Rollback.
Abort_NoRollback(r) ==
  /\ pc[r] # "idle"
  /\ UNCHANGED conns
  /\ held' = [held EXCEPT ![r] = {}]
  /\ GoOn(r, <<>>)
\* An error, the request's deadline or a client that hung up, at any point: the
\* deferred Rollback and rows.Close give the connection back.
Abort(r) ==
  /\ pc[r] # "idle"
  /\ Release(r)
  /\ GoOn(r, <<>>)

-----------------------------------------------------------------------------
(* PostgreSQL ends a cycle of lock waits *)

Blocked(r) == pc[r] = "run" /\ ~Complete(r) /\ ~Free(NextRow(r))
BlockedBy(r, s) == Blocked(r) /\ NextRow(r) \in held[s]

Deadlocked(r) == \E S \in SUBSET Reqs :
  /\ r \in S
  /\ \A s \in S : \E t \in S : BlockedBy(s, t)
  /\ \A s \in S : \E t \in S : BlockedBy(t, s)

DeadlockVictim(r) == Deadlocked(r) /\ Abort(r)

Next == \E r \in Reqs :
  \/ \E route \in Served : Arrive(r, route)
  \/ Acquire(r) \/ Lock(r) \/ Finish(r) \/ Return(r)
  \/ Abort(r) \/ DeadlockVictim(r)

Spec == Init /\ [][Next]_vars

\* Waiters of the pool and of a row are served in turn; calls outside return
\* (SMTP and Cloudinary have timeouts).  Nothing need ever be aborted, except by
\* the deadlock detector.
Fairness == \A r \in Reqs :
  /\ SF_vars(Acquire(r)) /\ SF_vars(Lock(r))
  /\ WF_vars(Finish(r)) /\ WF_vars(Return(r))
  /\ WF_vars(DeadlockVictim(r))

FairSpec == Spec /\ Fairness

-----------------------------------------------------------------------------
(* Properties *)

\* Who waits for a connection, and who talks to the mail server or the image
\* store, has neither a connection nor a row lock that others wait for.
NoHoldAndWait ==
  \A r \in Reqs : pc[r] \in {"idle", "wait", "call"} => r \notin conns /\ held[r] = {}

\* When every connection is lent, one of the borrowers can go on by itself, or
\* the database ends a deadlock between borrowers: none of them waits for
\* a request that waits for a connection.
ExhaustedPoolMoves ==
  Cardinality(conns) >= MaxOpenConns =>
    \E r \in conns : pc[r] = "run" /\ (~Blocked(r) \/ Deadlocked(r))

\* Every request gets its connections and its locks and is answered.
RequestsFinish == \A r \in Reqs : pc[r] # "idle" ~> pc[r] = "idle"
=============================================================================
