--------------------------- MODULE RepositoryProofs ---------------------------
(***************************************************************************)
(* Two proofs about how requests share the database.  For any number of    *)
(* requests and connections: who waits for a connection or for a service   *)
(* outside holds nothing, and the pool is only stuck when transactions     *)
(* wait for each other.  For any list of users: what a client that walks   *)
(* the pages of GET /admin/users gets while rows come and go.              *)
(***************************************************************************)
EXTENDS ConnPool, UserListing, FiniteSetTheorems, SequenceTheorems, TLAPS

-----------------------------------------------------------------------------
(***************************************************************************)
(* The pool and the rows (ConnPool)                                        *)
(***************************************************************************)

\* TypeOK, with the connections tied to the places of the requests.
PoolInv ==
  /\ TypeOK
  /\ \A r \in Reqs : pc[r] # "idle" => left[r] # <<>>
  /\ \A r \in Reqs : r \in conns <=> pc[r] = "run"
  /\ \A r \in Reqs : held[r] # {} => pc[r] = "run"

LEMMA LockingUnit == ASSUME NEW wanted \in Seq(Rows) PROVE Locking(wanted) \in Units
  BY DEF Locking, Units

LEMMA KnownUnits ==
  /\ Read \in Units /\ Outside \in Units
  /\ Locking(<<"user">>) \in Units /\ Locking(<<"token">>) \in Units
  /\ Locking(<<"once">>) \in Units /\ Locking(<<"once", "user">>) \in Units
  /\ Locking(<<"token", "user">>) \in Units
  /\ Locking(<<"user", "token", "once">>) \in Units
  <1>1. /\ <<>> \in Seq(Rows) /\ <<"user">> \in Seq(Rows) /\ <<"token">> \in Seq(Rows)
        /\ <<"once">> \in Seq(Rows) /\ <<"once", "user">> \in Seq(Rows)
        /\ <<"token", "user">> \in Seq(Rows) /\ <<"user", "token", "once">> \in Seq(Rows)
    BY DEF Rows
  <1>2. Outside \in Units
    BY <1>1 DEF Outside, Units
  <1> QED BY <1>1, <1>2, LockingUnit DEF Read

\* What a route does is a sequence of units.
LEMMA ProgramType == \A route \in Routes : Program[route] \in Seq(Units)
  <1>1. SendOnce \in Seq(Units)
    BY KnownUnits DEF SendOnce
  <1>2. /\ Program.register \in Seq(Units) /\ Program.resend \in Seq(Units)
    <2>1. <<Read, Outside, Read>> \in Seq(Units) /\ <<Read>> \in Seq(Units)
      BY KnownUnits
    <2> QED BY <1>1, <2>1, ConcatProperties DEF Program
  <1>3. /\ Program.readiness \in Seq(Units) /\ Program.login \in Seq(Units)
        /\ Program.refresh \in Seq(Units) /\ Program.refreshTooLate \in Seq(Units)
        /\ Program.logout \in Seq(Units) /\ Program.logoutAll \in Seq(Units)
    BY KnownUnits DEF Program
  <1>4. /\ Program.verifyEmail \in Seq(Units) /\ Program.resetPassword \in Seq(Units)
        /\ Program.changePassword \in Seq(Units) /\ Program.updateProfile \in Seq(Units)
    BY KnownUnits DEF Program
  <1>5. /\ Program.uploadAvatar \in Seq(Units) /\ Program.listUsers \in Seq(Units)
        /\ Program.setStatus \in Seq(Units) /\ Program.deleteUser \in Seq(Units)
    BY KnownUnits DEF Program
  <1>6. Routes = {"readiness", "register", "login", "refresh", "refreshTooLate", "logout",
                  "logoutAll", "verifyEmail", "resend", "resetPassword", "changePassword",
                  "updateProfile", "uploadAvatar", "listUsers", "setStatus", "deleteUser"}
    BY DEF Routes, Program
  <1> QED BY <1>2, <1>3, <1>4, <1>5, <1>6

\* GoOn keeps types and takes the request out of "run".
LEMMA GoOnType ==
  ASSUME PoolInv, NEW r \in Reqs, NEW rest \in Seq(Units), GoOn(r, rest)
  PROVE  /\ left' \in [Reqs -> Seq(Units)]
         /\ pc' \in [Reqs -> {"idle", "wait", "run", "call"}]
         /\ pc'[r] # "run"
         /\ \A s \in Reqs : pc'[s] # "idle" => left'[s] # <<>>
         /\ \A s \in Reqs \ {r} : pc'[s] = pc[s]
  BY DEF GoOn, PoolInv, TypeOK

LEMMA ReleaseInv ==
  ASSUME PoolInv, NEW r \in Reqs, NEW rest \in Seq(Units), Release(r), GoOn(r, rest)
  PROVE  PoolInv'
  <1>1. /\ conns' \subseteq Reqs
        /\ Cardinality(conns') <= MaxOpenConns
    <2>1. IsFiniteSet(conns)
      BY PoolAssumption, FS_Subset DEF PoolInv, TypeOK
    <2>2. conns' \subseteq conns
      BY DEF Release
    <2>3. Cardinality(conns') <= Cardinality(conns) /\ IsFiniteSet(conns')
      BY <2>1, <2>2, FS_Subset
    <2> QED
      BY <2>1, <2>2, <2>3, FS_CardinalityType, PoolAssumption DEF PoolInv, TypeOK
  <1>2. /\ held' \in [Reqs -> SUBSET Rows] /\ held'[r] = {}
        /\ \A s \in Reqs \ {r} : held'[s] = held[s]
    BY DEF Release, PoolInv, TypeOK
  <1>3. \A s, t \in Reqs : s # t => held'[s] \cap held'[t] = {}
    BY <1>2 DEF PoolInv, TypeOK
  <1>4. \A s \in Reqs : s \in conns' <=> pc'[s] = "run"
    BY GoOnType DEF Release, PoolInv
  <1>5. \A s \in Reqs : held'[s] # {} => pc'[s] = "run"
    BY <1>2, GoOnType DEF PoolInv
  <1> QED BY <1>1, <1>2, <1>3, <1>4, <1>5, GoOnType DEF PoolInv, TypeOK

LEMMA GoOnInv ==
  ASSUME PoolInv, NEW r \in Reqs, pc[r] # "run", NEW rest \in Seq(Units), GoOn(r, rest),
         UNCHANGED <<conns, held>>
  PROVE  PoolInv'
  BY GoOnType DEF PoolInv, TypeOK

LEMMA AcquireInv == ASSUME PoolInv, NEW r \in Reqs, Acquire(r) PROVE PoolInv'
  <1>1. /\ pc' \in [Reqs -> {"idle", "wait", "run", "call"}] /\ pc'[r] = "run"
        /\ \A s \in Reqs \ {r} : pc'[s] = pc[s]
    BY DEF Acquire, PoolInv, TypeOK
  <1>2. IsFiniteSet(conns)
    BY PoolAssumption, FS_Subset DEF PoolInv, TypeOK
  <1>3. conns' \subseteq Reqs /\ Cardinality(conns') <= MaxOpenConns
    <2>1. Cardinality(conns) \in Nat /\ r \notin conns
      BY <1>2, FS_CardinalityType DEF Acquire, PoolInv
    <2>2. Cardinality(conns \cup {r}) = Cardinality(conns) + 1
      BY <1>2, <2>1, FS_AddElement
    <2> QED
      BY <2>1, <2>2, PoolAssumption DEF Acquire, Room, PoolInv, TypeOK
  <1> QED BY <1>1, <1>3 DEF Acquire, PoolInv, TypeOK

LEMMA LockInv == ASSUME PoolInv, NEW r \in Reqs, Lock(r) PROVE PoolInv'
  <1>1. Current(r) \in Units
    <2>1. left[r] # <<>> /\ left[r] \in Seq(Units)
      BY DEF Lock, PoolInv, TypeOK
    <2> QED BY <2>1, HeadTailProperties DEF Current
  <1>2. Cardinality(held[r]) \in Nat
    <2>1. IsFiniteSet(Rows)
      <3>1. IsFiniteSet({"user"} \cup {"token"})
        BY FS_Singleton, FS_Union
      <3>2. IsFiniteSet(({"user"} \cup {"token"}) \cup {"once"})
        BY <3>1, FS_Singleton, FS_Union
      <3>3. Rows = ({"user"} \cup {"token"}) \cup {"once"}
        BY DEF Rows
      <3> QED BY <3>2, <3>3
    <2>2. held[r] \subseteq Rows
      BY DEF PoolInv, TypeOK
    <2> QED BY <2>1, <2>2, FS_Subset, FS_CardinalityType
  <1>3. NextRow(r) \in Rows
    <2>1. Current(r).locks \in Seq(Rows)
      BY <1>1 DEF Units
    <2>2. Cardinality(held[r]) < Len(Current(r).locks)
      BY <1>2, <2>1 DEF Lock, Complete
    <2>3. Cardinality(held[r]) + 1 \in 1..Len(Current(r).locks)
      BY <1>2, <2>1, <2>2
    <2> QED BY <2>1, <2>3, ElementOfSeq DEF NextRow
  <1>4. /\ held' \in [Reqs -> SUBSET Rows] /\ held'[r] = held[r] \cup {NextRow(r)}
        /\ \A s \in Reqs \ {r} : held'[s] = held[s]
    BY <1>3 DEF Lock, PoolInv, TypeOK
  <1>5. \A s \in Reqs : NextRow(r) \notin held[s]
    BY DEF Lock, Free
  <1>6. \A s, t \in Reqs : s # t => held'[s] \cap held'[t] = {}
    BY <1>4, <1>5 DEF PoolInv, TypeOK
  <1> QED BY <1>4, <1>6 DEF Lock, PoolInv, TypeOK

\* The step that the invariant survives every action.
LEMMA PoolStep == PoolInv /\ [Next]_vars => PoolInv'
  <1> SUFFICES ASSUME PoolInv, [Next]_vars PROVE PoolInv'
    OBVIOUS
  <1>1. CASE UNCHANGED vars
    BY <1>1 DEF vars, PoolInv, TypeOK
  <1>2. ASSUME NEW r \in Reqs, NEW route \in Served, Arrive(r, route) PROVE PoolInv'
    BY <1>2, GoOnInv, ProgramType, PoolAssumption DEF Arrive
  <1>3. ASSUME NEW r \in Reqs, Finish(r) PROVE PoolInv'
    <2>1. Tail(left[r]) \in Seq(Units)
      BY <1>3, HeadTailProperties DEF Finish, PoolInv, TypeOK
    <2> QED BY <1>3, <2>1, ReleaseInv DEF Finish
  <1>4. ASSUME NEW r \in Reqs, Return(r) PROVE PoolInv'
    <2>1. Tail(left[r]) \in Seq(Units)
      BY <1>4, HeadTailProperties DEF Return, PoolInv, TypeOK
    <2> QED BY <1>4, <2>1, GoOnInv DEF Return
  <1>5. ASSUME NEW r \in Reqs, Abort(r) PROVE PoolInv'
    <2>1. <<>> \in Seq(Units)
      OBVIOUS
    <2> QED BY <1>5, <2>1, ReleaseInv DEF Abort
  <1> QED
    BY <1>1, <1>2, <1>3, <1>4, <1>5, AcquireInv, LockInv DEF Next, DeadlockVictim
\* The invariant holds in every reachable state.
THEOREM PoolInvariance == Spec => []PoolInv
  <1>1. Init => PoolInv
    <2>1. Cardinality({}) = 0 /\ <<>> \in Seq(Units)
      BY FS_EmptySet
    <2> QED BY <2>1, PoolAssumption DEF Init, PoolInv, TypeOK
  <1> QED BY <1>1, PoolStep, PTL DEF Spec

\* The pool never lends more connections than DB_MAX_OPEN_CONNS and a row
\* never has two holders, for any number of requests.
THEOREM PoolTypeCorrect == Spec => []TypeOK
  <1>1. PoolInv => TypeOK
    BY DEF PoolInv
  <1> QED BY <1>1, PoolInvariance, PTL

\* Nobody who waits for a connection, or for the mail server or the image
\* store, keeps a connection or a row from the others, for any number of requests.
THEOREM NoHoldAndWaitAlways == Spec => []NoHoldAndWait
  <1>1. PoolInv => NoHoldAndWait
    BY DEF PoolInv, NoHoldAndWait
  <1> QED BY <1>1, PoolInvariance, PTL

\* Among requests that all wait for rows of each other some are deadlocked: the
\* smallest part of them that waits only within itself.
LEMMA CycleInside ==
  ASSUME NEW C \in SUBSET Reqs, IsFiniteSet(C), C # {},
         \A s \in C : \E t \in C : BlockedBy(s, t)
  PROVE  \E r \in C : Deadlocked(r)
  <1> DEFINE Closed == {S \in SUBSET C : S # {} /\ \A s \in S : \E t \in S : BlockedBy(s, t)}
             Less == StrictSubsetOrdering(C)
  <1>1. PICK S \in Closed : \A U \in Closed : <<U, S>> \notin Less
    <2>1. IsWellFoundedOn(Less, SUBSET C)
      BY FS_StrictSubsetOrderingWellFounded, FS_FiniteSubsetsOfFinite
    <2>2. C \in Closed /\ Closed \subseteq SUBSET C
      OBVIOUS
    <2> HIDE DEF Closed, Less
    <2> QED BY <2>1, <2>2, WFMin
  <1>2. \A s \in S : \E t \in S : BlockedBy(t, s)
    <2> SUFFICES ASSUME NEW s \in S, \A t \in S : ~BlockedBy(t, s) PROVE FALSE
      OBVIOUS
    <2> DEFINE U == S \ {s}
    <2>1. \A u \in U : \E t \in U : BlockedBy(u, t)
      <3> SUFFICES ASSUME NEW u \in U PROVE \E t \in U : BlockedBy(u, t)
        OBVIOUS
      <3>1. PICK t \in S : BlockedBy(u, t)
        BY <1>1
      <3> QED BY <3>1
    <2>2. U # {}
      <3>1. PICK t \in S : BlockedBy(s, t)
        BY <1>1
      <3> QED BY <3>1
    <2>3. U \in Closed
      BY <1>1, <2>1, <2>2
    <2>4. <<U, S>> \in Less
      BY <1>1 DEF StrictSubsetOrdering
    <2> QED BY <1>1, <2>3, <2>4
  <1>3. PICK r \in S : TRUE
    BY <1>1
  <1>4. Deadlocked(r)
    BY <1>1, <1>2, <1>3 DEF Deadlocked
  <1> QED BY <1>1, <1>3, <1>4

\* When every connection is lent, not all the borrowers wait for rows unless some
\* of them wait for each other: rows are only held by borrowers.  For any
\* number of requests, connections and routes.
THEOREM ExhaustedPoolMovesAlways == Spec => []ExhaustedPoolMoves
  <1>1. PoolInv => ExhaustedPoolMoves
    <2> SUFFICES ASSUME PoolInv, Cardinality(conns) >= MaxOpenConns,
                        \A r \in conns : ~(pc[r] = "run" /\ (~Blocked(r) \/ Deadlocked(r)))
                 PROVE  FALSE
      BY DEF ExhaustedPoolMoves
    <2>1. conns \in SUBSET Reqs /\ IsFiniteSet(conns)
      BY PoolAssumption, FS_Subset DEF PoolInv, TypeOK
    <2>2. conns # {}
      BY FS_EmptySet, PoolAssumption
    <2>3. \A r \in conns : Blocked(r) /\ ~Deadlocked(r)
      BY <2>1 DEF PoolInv
    <2>4. \A r \in conns : \E s \in conns : BlockedBy(r, s)
      <3> SUFFICES ASSUME NEW r \in conns PROVE \E s \in conns : BlockedBy(r, s)
        OBVIOUS
      <3>1. PICK s \in Reqs : NextRow(r) \in held[s]
        BY <2>3 DEF Blocked, Free
      <3>2. s \in conns
        BY <3>1 DEF PoolInv
      <3> QED BY <2>3, <3>1, <3>2 DEF BlockedBy
    <2> QED BY <2>1, <2>2, <2>3, <2>4, CycleInside
  <1> QED BY <1>1, PoolInvariance, PTL

-----------------------------------------------------------------------------
(***************************************************************************)
(* The pages of the list (UserListing)                                     *)
(***************************************************************************)

\* Where the rows of the page in question begin, as a number without width.
Start(page) == (page - 1) * walk.limit
Fetching == walk.pc \in {"count", "select"}
Place(u) == Position(key, walk.order, u)

\* Rows the walk will not show any more, because they are on pages it has passed.
Lost == {u \in stayed \ Got : Place(u) <= Start(walk.page)}
\* Rows behind the total that was counted.
Uncounted == {u \in stayed : Place(u) > walk.total}
\* Rows shown twice, or shown and still ahead.
Again == {u \in All \ moved : \/ walk.got[u] > 1
                              \/ u \in Got /\ Place(u) > Start(walk.page)}
\* Rows of earlier pages that were shown, or still may be.
Strayed == {u \in earlier : u \in Got \/ Place(u) > Start(walk.first)}

ListingInv ==
  /\ ListingTypeOK
  /\ Got \ moved \subseteq Listed(key)
  /\ walk.first <= walk.page
  /\ NoRepeats /\ OnlyItsPages /\ WalkComplete
  /\ Fetching =>
       /\ walk.page = walk.first => Got = {}
       /\ walk.page # walk.first => Start(walk.page) <= MaxInt
       /\ Start(walk.first) > MaxInt => stayed = {}
       /\ Cardinality(Lost) <= pulls
       /\ walk.pc = "select" => Cardinality(Uncounted) <= pushes
       /\ Cardinality(Again) <= pushes
       /\ Cardinality(Strayed) <= pushes

-----------------------------------------------------------------------------
(* Numbers *)

\* Params.Offset is exact as long as the product is an int.
LEMMA OffsetExact ==
  ASSUME NEW page \in Nat \ {0}, NEW limit \in Nat, (page - 1) * limit <= MaxInt
  PROVE  Offset(page, limit) = (page - 1) * limit
  <1> DEFINE n == (page - 1) * limit
             m == MaxInt + 1
  <1>1. n \in Nat /\ m \in Nat \ {0} /\ n < m
    BY ListingAssumption
  <1> HIDE DEF n, m
  <1>2. (n + m) % (2 * m) = n + m
    BY <1>1
  <1>3. Wrapped(n, MaxInt) = ((n + m) % (2 * m)) - m
    BY <1>1, ListingAssumption DEF Wrapped, m
  <1> QED BY <1>1, <1>2, <1>3 DEF Offset, n

\* HasNext tells whether the pages up to this one hold all the rows counted.
LEMMA NextPage ==
  ASSUME NEW page \in Nat, NEW limit \in Nat \ {0}, NEW total \in Nat
  PROVE  HasNext(page, limit, total) <=> page * limit < total
  <1> DEFINE q == TotalPages(total, limit)
  <1>1. q \in Int /\ q * limit <= total + limit - 1 /\ total + limit - 1 < q * limit + limit
    BY DEF TotalPages
  <1> HIDE DEF q
  <1>2. (page + 1) * limit = page * limit + limit
    BY SMT
  <1>3. page * limit \in Nat /\ q * limit \in Int
    BY <1>1
  <1>4. page < q => (page + 1) * limit <= q * limit
    BY <1>1
  <1>5. ~(page < q) => q * limit <= page * limit
    BY <1>1
  <1> QED BY <1>1, <1>2, <1>3, <1>4, <1>5 DEF HasNext, q

\* Later pages begin later, and the next one where this one ends.
LEMMA StartOrder ==
  ASSUME ListingTypeOK, NEW p \in Nat \ {0}, NEW q \in Nat \ {0}, p <= q
  PROVE  /\ Start(p) \in Nat /\ Start(p) <= Start(q)
         /\ Start(q + 1) = q * walk.limit /\ Start(q + 1) = Start(q) + walk.limit
  <1>1. walk.limit \in Nat
    BY ListingAssumption DEF ListingTypeOK
  <1>2. (q + 1) - 1 = q
    OBVIOUS
  <1> QED BY <1>1, <1>2 DEF Start

-----------------------------------------------------------------------------
(* Sets of users *)

LEMMA FiniteRows ==
  ASSUME NEW S \in SUBSET All
  PROVE  IsFiniteSet(S) /\ Cardinality(S) \in 0..MaxUser /\ Cardinality(S) \in Nat
  <1>1. IsFiniteSet(All) /\ Cardinality(All) = MaxUser
    BY FS_Interval, ListingAssumption DEF All
  <1> QED BY <1>1, FS_Subset, FS_CardinalityType, ListingAssumption

LEMMA NoMore ==
  ASSUME NEW S \in SUBSET All, NEW T \in SUBSET S
  PROVE  Cardinality(T) <= Cardinality(S)
  BY FiniteRows, FS_Subset

LEMMA AtMostOneMore ==
  ASSUME NEW S \in SUBSET All, NEW T \in SUBSET All, \A v, w \in T \ S : v = w
  PROVE  Cardinality(T) <= Cardinality(S) + 1
  <1>1. IsFiniteSet(S) /\ Cardinality(S) \in Nat
    BY FiniteRows
  <1>2. CASE T \subseteq S
    BY <1>1, <1>2, NoMore, FiniteRows
  <1>3. CASE ~(T \subseteq S)
    <2>1. PICK v \in T : v \notin S
      BY <1>3
    <2>2. T \in SUBSET (S \cup {v}) /\ S \cup {v} \in SUBSET All
      BY <2>1
    <2>3. Cardinality(S \cup {v}) = Cardinality(S) + 1
      BY <1>1, <2>1, FS_AddElement
    <2> QED BY <2>2, <2>3, NoMore
  <1> QED BY <1>2, <1>3

LEMMA CardinalityOfTwo ==
  ASSUME NEW S \in SUBSET All, NEW T \in SUBSET All
  PROVE  Cardinality(S \cup T) <= Cardinality(S) + Cardinality(T)
  <1>1. IsFiniteSet(S) /\ IsFiniteSet(T) /\ Cardinality(S) \in Nat /\ Cardinality(T) \in Nat
    BY FiniteRows
  <1>2. S \cap T \in SUBSET All
    OBVIOUS
  <1>3. Cardinality(S \cap T) \in Nat
    BY <1>2, FiniteRows
  <1>4. Cardinality(S \cup T) = Cardinality(S) + Cardinality(T) - Cardinality(S \cap T)
    BY <1>1, FS_Union
  <1> QED BY <1>1, <1>3, <1>4

-----------------------------------------------------------------------------
(* The place of a user in the list *)

Ahead(k, order, u) == {v \in Listed(k) : Before(k, order, v, u)}

LEMMA PlaceBound ==
  ASSUME NEW k \in [All -> Nat], NEW order \in Orders, NEW u \in Listed(k)
  PROVE  /\ Position(k, order, u) \in Nat \ {0}
         /\ Position(k, order, u) <= Cardinality(Listed(k))
         /\ Position(k, order, u) <= MaxUser
  <1>1. Listed(k) \in SUBSET All /\ Ahead(k, order, u) \in SUBSET Listed(k)
    BY DEF Listed, Ahead
  <1>2. u \notin Ahead(k, order, u)
    BY DEF Before, Ahead, Listed, All
  <1>3. IsFiniteSet(Listed(k)) /\ Cardinality(Listed(k)) \in 0..MaxUser
        /\ Cardinality(Ahead(k, order, u)) \in Nat
    BY <1>1, FiniteRows
  <1>4. /\ Cardinality(Ahead(k, order, u)) <= Cardinality(Listed(k))
        /\ Cardinality(Ahead(k, order, u)) # Cardinality(Listed(k))
    BY <1>1, <1>2, <1>3, FS_Subset
  <1>5. Position(k, order, u) = 1 + Cardinality(Ahead(k, order, u))
    BY DEF Position, Ahead
  <1> QED BY <1>3, <1>4, <1>5, ListingAssumption

\* The order is total: two rows are never at one place.
LEMMA OnePlaceEach ==
  ASSUME NEW k \in [All -> Nat], NEW order \in Orders, NEW u \in Listed(k), NEW v \in Listed(k),
         Position(k, order, u) = Position(k, order, v)
  PROVE  u = v
  <1>1. ASSUME NEW a \in Listed(k), NEW b \in Listed(k), Before(k, order, a, b)
        PROVE  Position(k, order, a) # Position(k, order, b)
    <2>1. a \in All /\ b \in All /\ k[a] \in Nat /\ k[b] \in Nat
      BY DEF Listed
    <2>2. Ahead(k, order, b) \in SUBSET All /\ a \in Ahead(k, order, b)
      BY <1>1 DEF Ahead, Listed
    <2>3. a \notin Ahead(k, order, a)
      BY <2>1 DEF Ahead, Before, All
    <2>4. Ahead(k, order, a) \in SUBSET Ahead(k, order, b)
      <3> SUFFICES ASSUME NEW w \in All, k[w] \in Nat, Before(k, order, w, a)
                   PROVE  Before(k, order, w, b)
        BY DEF Ahead, Listed
      <3> QED BY <1>1, <2>1 DEF Before, All
    <2>5. Cardinality(Ahead(k, order, a)) # Cardinality(Ahead(k, order, b))
      BY <2>2, <2>3, <2>4, FiniteRows, FS_Subset
    <2>6. Cardinality(Ahead(k, order, a)) \in Nat /\ Cardinality(Ahead(k, order, b)) \in Nat
      BY <2>2, <2>4, FiniteRows
    <2> QED BY <2>5, <2>6 DEF Position, Ahead
  <1>2. u = v \/ Before(k, order, u, v) \/ Before(k, order, v, u)
    BY DEF Before, Listed, All
  <1> QED BY <1>1, <1>2

\* A write moves a row that it does not write by a place at most.
LEMMA OnePlaceAtMost ==
  ASSUME NEW k \in [All -> Nat], NEW new \in [All -> Nat], NEW order \in Orders, NEW u \in All,
         \A w \in All \ {u} : new[w] = k[w],
         NEW v \in Listed(k) \ {u}
  PROVE  Position(new, order, v) - Position(k, order, v) \in {-1, 0, 1}
  <1> DEFINE rest == Ahead(k, order, v) \ {u}
  <1>1. Ahead(k, order, v) \in SUBSET All /\ Ahead(new, order, v) \in SUBSET All
        /\ rest \in SUBSET All /\ u \notin rest
    BY DEF Ahead, Listed
  <1>2. rest = Ahead(new, order, v) \ {u}
    <2>1. v \in All /\ v # u
      BY DEF Listed
    <2>2. \A w \in All \ {u} :
            w \in Ahead(k, order, v) <=> w \in Ahead(new, order, v)
      BY <2>1 DEF Ahead, Listed, Before
    <2> QED BY <1>1, <2>2
  <1>3. \A S \in SUBSET All : S \ {u} = rest =>
          Cardinality(S) \in {Cardinality(rest), Cardinality(rest) + 1}
    <2> SUFFICES ASSUME NEW S \in SUBSET All, S \ {u} = rest
                 PROVE  Cardinality(S) \in {Cardinality(rest), Cardinality(rest) + 1}
      OBVIOUS
    <2>1. IsFiniteSet(rest)
      BY <1>1, FiniteRows
    <2>2. S = rest \/ S = rest \cup {u}
      OBVIOUS
    <2>3. Cardinality(rest \cup {u}) = Cardinality(rest) + 1
      BY <1>1, <2>1, FS_AddElement
    <2> QED BY <2>2, <2>3
  <1>4. Cardinality(rest) \in Nat
    BY <1>1, FiniteRows
  <1> HIDE DEF rest
  <1>5. /\ Cardinality(Ahead(k, order, v)) \in {Cardinality(rest), Cardinality(rest) + 1}
        /\ Cardinality(Ahead(new, order, v)) \in {Cardinality(rest), Cardinality(rest) + 1}
    BY <1>1, <1>2, <1>3 DEF rest
  <1>6. /\ Position(k, order, v) = 1 + Cardinality(Ahead(k, order, v))
        /\ Position(new, order, v) = 1 + Cardinality(Ahead(new, order, v))
    BY DEF Position, Ahead
  <1> QED BY <1>4, <1>5, <1>6

-----------------------------------------------------------------------------
(* The steps *)

LEMMA ParsedType ==
  ASSUME NEW v \in LimitInputs, NEW p \in PageInputs
  PROVE  /\ ParsedLimit(v) \in 1..MaxLimit /\ ParsedLimit(v) \in Nat \ {0}
         /\ ParsedPage(p) \in 1..MaxInt /\ ParsedPage(p) \in Nat \ {0}
  BY ListingAssumption DEF ParsedLimit, ParsedPage

LEMMA WalkFields ==
  ASSUME ListingTypeOK
  PROVE  /\ walk.limit \in Nat \ {0} /\ walk.first \in Nat \ {0} /\ walk.page \in Nat \ {0}
         /\ walk.page <= MaxInt /\ walk.total \in Nat /\ walk.total <= MaxUser
         /\ walk.got \in [All -> Nat] /\ walk.order \in Orders
         /\ MaxInt \in Nat /\ MaxUser \in Nat /\ MaxUser <= MaxInt
         /\ key \in [All -> Nat] /\ Listed(key) \subseteq All
         /\ stayed \subseteq All /\ earlier \subseteq All /\ moved \subseteq All
         /\ pushes \in Nat /\ pulls \in Nat
  BY ListingAssumption DEF ListingTypeOK, Listed

\* Where a row of the list is; the pages are disjoint.
LEMMA Places ==
  ASSUME ListingTypeOK
  PROVE  /\ \A u \in Listed(key) : Place(u) \in Nat \ {0} /\ Place(u) <= MaxUser
                                   /\ Place(u) <= Cardinality(Listed(key))
         /\ \A u, v \in Listed(key) : Place(u) = Place(v) => u = v
  BY WalkFields, PlaceBound, OnePlaceEach DEF Place

LEMMA Counted ==
  ASSUME ListingTypeOK
  PROVE  /\ Lost \in SUBSET All /\ Uncounted \in SUBSET All
         /\ Again \in SUBSET All /\ Strayed \in SUBSET All
         /\ Cardinality(Lost) \in Nat /\ Cardinality(Uncounted) \in Nat
         /\ Cardinality(Again) \in Nat /\ Cardinality(Strayed) \in Nat
  <1>1. /\ Lost \in SUBSET All /\ Uncounted \in SUBSET All
        /\ Again \in SUBSET All /\ Strayed \in SUBSET All
    BY WalkFields DEF Lost, Uncounted, Again, Strayed
  <1> QED BY <1>1, FiniteRows

LEMMA StartWalkInv ==
  ASSUME ListingInv, NEW order \in Orders, NEW v \in LimitInputs, NEW p \in PageInputs,
         StartWalk(order, v, p)
  PROVE  ListingInv'
  <1> DEFINE none == [u \in All |-> 0]
             inFront == {u \in Listed(key) :
                           Position(key, order, u) <= (ParsedPage(p) - 1) * ParsedLimit(v)}
  <1>1. /\ walk' = [pc |-> "count", order |-> order, limit |-> ParsedLimit(v),
                    first |-> ParsedPage(p), page |-> ParsedPage(p), total |-> 0, got |-> none]
        /\ key' = key /\ moved' = {} /\ pushes' = 0 /\ pulls' = 0
    <2>1. NotWalking = [pc |-> "idle", order |-> "desc", limit |-> 1, first |-> 1, page |-> 1,
                        total |-> 0, got |-> none]
      BY DEF NotWalking
    <2> HIDE DEF none
    <2> QED BY <2>1 DEF StartWalk
  <1>2. stayed' = Listed(key) \ inFront /\ earlier' = inFront
    BY DEF StartWalk
  <1> HIDE DEF none
  <1>3. none \in [All -> Nat] /\ \A u \in All : none[u] = 0
    BY DEF none
  <1>4. inFront \subseteq Listed(key) /\ Listed(key)' = Listed(key) /\ Listed(key) \subseteq All
    BY <1>1 DEF Listed
  <1>5. ListingTypeOK'
    <2> HIDE DEF inFront
    <2>1. 0 \in 0..MaxUser /\ 0 \in Nat
      BY ListingAssumption
    <2>2. walk' \in [pc : {"idle", "count", "select", "done", "failed"}, order : Orders,
                     limit : 1..MaxLimit, first : 1..MaxInt, page : 1..MaxInt,
                     total : 0..MaxUser, got : [All -> Nat]]
      BY <1>1, <1>3, <2>1, ParsedType
    <2> QED BY <1>1, <1>2, <1>4, <2>1, <2>2 DEF ListingInv, ListingTypeOK
  <1>6. Got' = {}
    BY <1>1, <1>3 DEF Got
  <1>7. /\ Start(walk.first)' = (ParsedPage(p) - 1) * ParsedLimit(v)
        /\ Start(walk.page)' = Start(walk.first)' /\ Start(walk.first)' \in Nat
        /\ walk'.page = walk'.first /\ walk'.first \in Nat /\ walk'.pc = "count"
    BY <1>1, ParsedType DEF Start
  <1>8. \A u \in Listed(key) : Place(u)' = Position(key, order, u)
    BY <1>1 DEF Place
  <1>9. \A u \in Listed(key) : u \in inFront <=> Place(u)' <= Start(walk.first)'
    BY <1>7, <1>8 DEF inFront
  <1> HIDE DEF inFront
  <1>10. \A u \in Listed(key) : Place(u)' \in Nat /\ Place(u)' <= MaxUser
    BY <1>8, PlaceBound, WalkFields DEF ListingInv
  <1>11. Start(walk.first)' > MaxInt => stayed' = {}
    BY <1>2, <1>4, <1>7, <1>9, <1>10, ListingAssumption
  <1>12. Cardinality({}) = 0
    BY FS_EmptySet
  <1>13. Lost' = {} /\ Again' = {} /\ Strayed' = {}
    <2>1. Lost' = {}
      BY <1>2, <1>7, <1>9 DEF Lost
    <2>2. Again' = {}
      BY <1>1, <1>3, <1>6 DEF Again
    <2>3. Strayed' = {}
      BY <1>2, <1>4, <1>6, <1>7, <1>9, <1>10 DEF Strayed
    <2> QED BY <2>1, <2>2, <2>3
  <1>14. NoRepeats' /\ OnlyItsPages' /\ WalkComplete'
    <2>1. {u \in All \ moved' : walk'.got[u] > 1} = {} /\ earlier' \cap Got' = {}
      BY <1>1, <1>3, <1>6
    <2>2. walk'.pc # "failed" /\ walk'.pc # "done"
      BY <1>7
    <2> QED BY <1>1, <1>12, <2>1, <2>2 DEF NoRepeats, OnlyItsPages, WalkComplete
  <1>15. walk'.pc # "select" /\ pulls' = 0 /\ pushes' = 0
    BY <1>1
  <1> QED
    BY <1>5, <1>6, <1>7, <1>11, <1>12, <1>13, <1>14, <1>15 DEF ListingInv

LEMMA CountInv == ASSUME ListingInv, Count PROVE ListingInv'
  <1>1. /\ walk.pc = "count"
        /\ walk' = [walk EXCEPT !.pc = "select", !.total = Cardinality(Listed(key))]
        /\ UNCHANGED <<key, stayed, earlier, moved, pushes, pulls>>
    BY DEF Count, history
  <1>2. ListingTypeOK /\ Cardinality(Listed(key)) \in 0..MaxUser
    BY FiniteRows, WalkFields DEF ListingInv
  <1>3. ListingTypeOK'
    BY <1>1, <1>2 DEF ListingTypeOK
  <1>4. /\ walk'.pc = "select" /\ walk'.total = Cardinality(Listed(key))
        /\ walk'.order = walk.order /\ walk'.limit = walk.limit /\ walk'.first = walk.first
        /\ walk'.page = walk.page /\ walk'.got = walk.got
    BY <1>1, <1>2 DEF ListingTypeOK
  <1>5. Got' = Got /\ \A u : Place(u)' = Place(u)
    BY <1>1, <1>4 DEF Got, Place
  <1>6. \A n : Start(n)' = Start(n)
    BY <1>4 DEF Start
  <1>7. NoRepeats' /\ OnlyItsPages' /\ WalkComplete'
    BY <1>1, <1>4, <1>5 DEF ListingInv, NoRepeats, OnlyItsPages, WalkComplete
  <1>8. Uncounted' = {}
    <2>1. stayed \subseteq Listed(key)
      BY <1>2 DEF ListingTypeOK
    <2>2. Cardinality(Listed(key)) \in Nat
      BY <1>2
    <2> QED BY <1>1, <1>2, <1>4, <1>5, <2>1, <2>2, Places DEF Uncounted
  <1>9. Lost' = Lost /\ Again' = Again /\ Strayed' = Strayed
    BY <1>1, <1>4, <1>5, <1>6 DEF Lost, Again, Strayed
  <1>10. Fetching /\ Cardinality(Uncounted') <= pushes
    BY <1>1, <1>2, <1>8, FS_EmptySet, WalkFields DEF Fetching
  <1> QED
    BY <1>1, <1>3, <1>4, <1>5, <1>6, <1>7, <1>9, <1>10 DEF ListingInv

\* What a SELECT leaves of the walk: the page is shown once more, and only rows
\* that were counted make the client ask for the next.
LEMMA SelectStep ==
  ASSUME ListingInv, Select
  PROVE  LET page == PageOf(walk.order, walk.limit, Offset(walk.page, walk.limit))
             more == HasNext(walk.page, walk.limit, walk.total) IN
         /\ walk.pc = "select" /\ UNCHANGED <<key, stayed, earlier, moved, pushes, pulls>>
         /\ walk'.pc = (IF more THEN "count" ELSE "done")
         /\ walk'.page = (IF more THEN walk.page + 1 ELSE walk.page)
         /\ walk'.order = walk.order /\ walk'.limit = walk.limit /\ walk'.first = walk.first
         /\ \A u \in All : walk'.got[u] = walk.got[u] + (IF u \in page THEN 1 ELSE 0)
         /\ Got' = Got \cup page /\ page \subseteq Listed(key)
         /\ more <=> walk.page * walk.limit < walk.total
         /\ ListingTypeOK'
  <1> DEFINE page == PageOf(walk.order, walk.limit, Offset(walk.page, walk.limit))
             more == HasNext(walk.page, walk.limit, walk.total)
             shown == [u \in All |-> walk.got[u] + (IF u \in page THEN 1 ELSE 0)]
  <1>1. ListingTypeOK
    BY DEF ListingInv
  <1>2. page \subseteq Listed(key)
    BY DEF PageOf
  <1>3. more <=> walk.page * walk.limit < walk.total
    BY <1>1, WalkFields, NextPage
  <1>4. /\ walk' = [walk EXCEPT !.got = shown,
                               !.pc = IF more THEN "count" ELSE "done",
                               !.page = IF more THEN walk.page + 1 ELSE walk.page]
        /\ walk.pc = "select" /\ UNCHANGED <<key, stayed, earlier, moved, pushes, pulls>>
    BY <1>1 DEF Select, ListingTypeOK, history
  <1>5. shown \in [All -> Nat] /\ \A u \in All : shown[u] = walk.got[u] + (IF u \in page THEN 1 ELSE 0)
    BY <1>1, WalkFields
  <1> HIDE DEF page, more, shown
  <1>6. more => walk.page + 1 \in 1..MaxInt
    <2>1. walk.page <= walk.page * walk.limit /\ walk.page * walk.limit \in Nat
      BY <1>1, WalkFields
    <2> QED BY <1>1, <1>3, <2>1, WalkFields
  <1>7. /\ walk'.pc = (IF more THEN "count" ELSE "done")
        /\ walk'.page = (IF more THEN walk.page + 1 ELSE walk.page)
        /\ walk'.order = walk.order /\ walk'.limit = walk.limit /\ walk'.first = walk.first
        /\ walk'.got = shown
    BY <1>1, <1>4 DEF ListingTypeOK
  <1>8. ListingTypeOK'
    BY <1>1, <1>4, <1>5, <1>6 DEF ListingTypeOK
  <1>9. Got' = Got \cup page
    <2>1. \A u \in All : shown[u] > 0 <=> walk.got[u] > 0 \/ u \in page
      BY <1>1, <1>5, WalkFields
    <2>2. page \subseteq All
      BY <1>1, <1>2, WalkFields
    <2> QED BY <1>7, <2>1, <2>2 DEF Got
  <1> QED BY <1>2, <1>3, <1>4, <1>5, <1>7, <1>8, <1>9 DEF page, more

LEMMA SelectInv == ASSUME ListingInv, Select PROVE ListingInv'
  <1> DEFINE start == Start(walk.page)
             page == PageOf(walk.order, walk.limit, Offset(walk.page, walk.limit))
             more == HasNext(walk.page, walk.limit, walk.total)
  <1>1. ListingTypeOK /\ Fetching /\ walk.first <= walk.page /\ walk.pc = "select"
    BY SelectStep DEF ListingInv, Fetching
  <1>2. /\ start \in Nat /\ Start(walk.first) \in Nat /\ Start(walk.first) <= start
        /\ walk.page * walk.limit = start + walk.limit
        /\ Start(walk.page + 1) = start + walk.limit
    <2>1. walk.page \in Nat \ {0} /\ walk.first \in Nat \ {0} /\ walk.limit \in Nat
      BY <1>1, WalkFields
    <2>2. start \in Nat
      BY <1>1, <2>1, StartOrder
    <2>3. Start(walk.first) \in Nat /\ Start(walk.first) <= start
      BY <1>1, <2>1, StartOrder
    <2>4. Start(walk.page + 1) = walk.page * walk.limit /\ Start(walk.page + 1) = start + walk.limit
      BY <1>1, <2>1, StartOrder
    <2> QED BY <2>2, <2>3, <2>4
  <1>3. /\ \A u \in Listed(key) : Place(u) \in Nat \ {0} /\ Place(u) <= MaxUser
        /\ stayed \subseteq Listed(key) \ moved /\ earlier \subseteq Listed(key) \ moved
        /\ Listed(key) \subseteq All
    BY <1>1, Places, WalkFields DEF ListingTypeOK
  <1>4. more <=> start + walk.limit < walk.total
    BY <1>2, SelectStep
  <1>5. start <= MaxInt => \A u \in Listed(key) : u \in page <=> start < Place(u) /\ Place(u) <= start + walk.limit
    <2> SUFFICES ASSUME start <= MaxInt, NEW u \in Listed(key)
                 PROVE  u \in page <=> start < Place(u) /\ Place(u) <= start + walk.limit
      OBVIOUS
    <2>1. Offset(walk.page, walk.limit) = start
      BY <1>1, WalkFields, OffsetExact DEF Start
    <2>2. Place(u) \in Nat /\ walk.limit \in Nat
      BY <1>1, <1>3, WalkFields
    <2> QED BY <1>2, <2>1, <2>2 DEF PageOf, Place
  <1>6. start > MaxInt => walk.page = walk.first /\ Got = {} /\ stayed = {} /\ ~more
    BY <1>1, <1>2, <1>4, WalkFields DEF ListingInv
  <1>7. /\ UNCHANGED <<key, stayed, earlier, moved, pushes, pulls>>
        /\ walk'.pc = (IF more THEN "count" ELSE "done")
        /\ walk'.page = (IF more THEN walk.page + 1 ELSE walk.page)
        /\ walk'.limit = walk.limit /\ walk'.first = walk.first /\ walk'.order = walk.order
        /\ \A u \in All : walk'.got[u] = walk.got[u] + (IF u \in page THEN 1 ELSE 0)
        /\ Got' = Got \cup page /\ page \subseteq Listed(key)
        /\ ListingTypeOK'
    BY SelectStep
  <1>8. /\ \A u : Place(u)' = Place(u)
        /\ \A n : Start(n)' = Start(n)
        /\ Listed(key)' = Listed(key)
    BY <1>7 DEF Place, Start
  <1>9. /\ \A u \in All : walk.got[u] \in Nat /\ (walk.got[u] > 0 <=> u \in Got)
        /\ Got \subseteq All /\ walk.limit \in Nat \ {0} /\ walk.page \in Nat \ {0}
        /\ walk.first \in Nat \ {0} /\ pushes \in Nat /\ pulls \in Nat /\ walk.total \in Nat
        /\ MaxInt \in Nat
    BY <1>1, WalkFields DEF Got
  <1>10. /\ Got \ moved \subseteq Listed(key)
         /\ Cardinality(Lost) <= pulls /\ Cardinality(Uncounted) <= pushes
         /\ Cardinality(Again) <= pushes /\ Cardinality(Strayed) <= pushes
    BY <1>1 DEF ListingInv
  <1>11. /\ Lost \in SUBSET All /\ Uncounted \in SUBSET All
         /\ Again \in SUBSET All /\ Strayed \in SUBSET All
         /\ Cardinality(Lost) \in Nat /\ Cardinality(Uncounted) \in Nat
         /\ Cardinality(Again) \in Nat /\ Cardinality(Strayed) \in Nat
    BY <1>1, Counted
  <1>12. /\ Lost = {u \in stayed \ Got : Place(u) <= start}
         /\ Again = {u \in All \ moved : walk.got[u] > 1 \/ (u \in Got /\ Place(u) > start)}
         /\ Strayed = {u \in earlier : u \in Got \/ Place(u) > Start(walk.first)}
    BY DEF Lost, Again, Strayed
  <1> HIDE DEF start, page, more
  <1>13. start <= MaxInt => {u \in All \ moved : walk'.got[u] > 1} \subseteq Again
    <2> SUFFICES ASSUME start <= MaxInt, NEW u \in All \ moved, walk'.got[u] > 1
                 PROVE  walk.got[u] > 1 \/ (u \in Got /\ Place(u) > start)
      BY <1>12
    <2>1. walk'.got[u] = walk.got[u] + (IF u \in page THEN 1 ELSE 0)
      BY <1>7
    <2> QED BY <1>2, <1>3, <1>5, <1>7, <1>9, <2>1
  <1>14. NoRepeats'
    <2>1. CASE start <= MaxInt
      <3>1. {u \in All \ moved' : walk'.got[u] > 1} \in SUBSET Again
        BY <1>7, <1>13, <2>1
      <3>2. Cardinality({u \in All \ moved' : walk'.got[u] > 1}) <= Cardinality(Again)
        BY <1>11, <3>1, NoMore
      <3>3. Cardinality({u \in All \ moved' : walk'.got[u] > 1}) \in Nat
        BY <1>11, <3>1, FiniteRows
      <3> QED BY <1>7, <1>9, <1>10, <1>11, <3>2, <3>3 DEF NoRepeats
    <2>2. CASE start > MaxInt
      <3>1. \A u \in All : walk.got[u] = 0
        BY <1>6, <1>9, <2>2
      <3>2. \A u \in All : ~(walk'.got[u] > 1)
        BY <1>7, <3>1
      <3>3. {u \in All \ moved' : walk'.got[u] > 1} = {}
        BY <3>2
      <3> QED BY <1>7, <1>9, <3>3, FS_EmptySet DEF NoRepeats
    <2> QED BY <1>2, <1>9, <2>1, <2>2
  <1>15. start <= MaxInt => earlier \cap Got' \subseteq Strayed
    BY <1>2, <1>3, <1>5, <1>7, <1>12
  <1>16. OnlyItsPages'
    <2>1. SUFFICES ASSUME Start(walk.first) <= MaxInt
                   PROVE  walk'.pc # "failed" /\ Cardinality(earlier' \cap Got') <= pushes'
      BY <1>7, <1>8 DEF OnlyItsPages, Start
    <2>2. start <= MaxInt
      BY <1>2, <1>6, <1>9, <2>1 DEF start
    <2>3. Cardinality(earlier \cap Got') <= Cardinality(Strayed) /\ Cardinality(earlier \cap Got') \in Nat
      BY <1>11, <1>15, <2>2, NoMore, FiniteRows
    <2> QED BY <1>7, <1>9, <1>10, <1>11, <2>3
  <1>17. WalkComplete'
    <2> SUFFICES ASSUME walk'.pc = "done" PROVE Cardinality(stayed \ Got') <= pulls + pushes
      BY <1>7 DEF WalkComplete
    <2>1. ~more
      BY <1>7
    <2>2. CASE start > MaxInt
      <3>1. stayed \ Got' = {}
        BY <1>6, <2>2
      <3> QED BY <1>9, <3>1, FS_EmptySet
    <2>3. CASE start <= MaxInt
      <3>1. \A u \in stayed \ Got' : u \in Lost \cup Uncounted
        <4> SUFFICES ASSUME NEW u \in stayed \ Got' PROVE u \in Lost \cup Uncounted
          OBVIOUS
        <4>1. u \in Listed(key) /\ u \notin Got /\ u \notin page /\ Place(u) \in Nat
          BY <1>3, <1>7
        <4>2. Place(u) <= start \/ Place(u) > walk.total
          BY <1>2, <1>4, <1>5, <1>9, <2>1, <2>3, <4>1
        <4> QED BY <1>12, <4>1, <4>2 DEF Uncounted
      <3>2. stayed \ Got' \in SUBSET (Lost \cup Uncounted)
        BY <3>1
      <3>3. Cardinality(stayed \ Got') <= Cardinality(Lost \cup Uncounted)
        BY <1>11, <3>2, NoMore
      <3>4. Cardinality(Lost \cup Uncounted) <= Cardinality(Lost) + Cardinality(Uncounted)
        BY <1>11, CardinalityOfTwo
      <3>5. Cardinality(stayed \ Got') \in Nat /\ Cardinality(Lost \cup Uncounted) \in Nat
        BY <1>11, <3>2, FiniteRows
      <3> QED BY <1>9, <1>10, <1>11, <3>3, <3>4, <3>5
    <2> QED BY <1>2, <1>9, <2>2, <2>3
  <1>18. ASSUME Fetching' PROVE more /\ start <= MaxInt /\ walk'.pc = "count"
    BY <1>2, <1>6, <1>7, <1>9, <1>18 DEF Fetching
  <1>19. ASSUME Fetching'
         PROVE  /\ walk.page' # walk.first' /\ Start(walk.page)' = start + walk.limit
                /\ Start(walk.page)' <= MaxInt /\ Start(walk.first)' = Start(walk.first)
    <2>1. walk.page' = walk.page + 1 /\ walk.first' = walk.first
      BY <1>7, <1>18, <1>19
    <2>2. Start(walk.page)' = Start(walk.page + 1)
      BY <1>7, <2>1 DEF Start
    <2>3. walk.total <= MaxInt
      BY <1>1, WalkFields
    <2> QED BY <1>1, <1>2, <1>4, <1>7, <1>8, <1>9, <1>18, <1>19, <2>1, <2>2, <2>3 DEF Start
  <1>20. ASSUME Fetching' PROVE Lost' \in SUBSET Lost
    <2>1. Lost' = {u \in stayed \ Got' : Place(u) <= start + walk.limit}
      BY <1>7, <1>8, <1>19, <1>20 DEF Lost
    <2> QED BY <1>2, <1>3, <1>5, <1>7, <1>9, <1>12, <1>18, <1>20, <2>1
  <1>21. ASSUME Fetching' PROVE Again' \in SUBSET Again
    <2> SUFFICES ASSUME NEW u \in Again' PROVE u \in Again
      OBVIOUS
    <2>1. u \in All \ moved
      BY <1>7 DEF Again
    <2>2. walk'.got[u] > 1 \/ (u \in Got' /\ Place(u) > start + walk.limit)
      BY <1>7, <1>8, <1>19, <1>21 DEF Again
    <2>3. CASE walk'.got[u] > 1
      BY <1>13, <1>18, <1>21, <2>1, <2>3
    <2>4. CASE u \in Got' /\ Place(u) > start + walk.limit
      <3>1. u \notin page
        BY <1>2, <1>3, <1>5, <1>7, <1>9, <1>18, <1>21, <2>4
      <3>2. u \in Got /\ u \in Listed(key) /\ Place(u) \in Nat
        BY <1>3, <1>7, <1>10, <2>1, <2>4, <3>1
      <3> QED BY <1>2, <1>9, <1>12, <2>1, <2>4, <3>2
    <2> QED BY <2>2, <2>3, <2>4
  <1>22. ASSUME Fetching' PROVE Strayed' \in SUBSET Strayed
    <2> SUFFICES ASSUME NEW u \in Strayed' PROVE u \in Strayed
      OBVIOUS
    <2>1. u \in earlier /\ (u \in Got' \/ Place(u) > Start(walk.first))
      BY <1>7, <1>8, <1>19, <1>22 DEF Strayed
    <2> QED BY <1>12, <1>15, <1>18, <1>22, <2>1
  <1>23. ASSUME Fetching'
         PROVE  /\ Cardinality(Lost') <= pulls /\ Cardinality(Again') <= pushes
                /\ Cardinality(Strayed') <= pushes
    BY <1>9, <1>10, <1>11, <1>20, <1>21, <1>22, <1>23, NoMore, FiniteRows
  <1>24. Got' \ moved' \subseteq Listed(key)'
    BY <1>7, <1>8, <1>10
  <1>25. walk.first' <= walk.page' /\ (Start(walk.first)' > MaxInt => stayed' = {})
    <2>1. Start(walk.first)' = Start(walk.first)
      BY <1>7 DEF Start
    <2> QED BY <1>1, <1>7, <1>9, <2>1 DEF ListingInv
  <1>26. Fetching' => walk'.pc # "select"
    BY <1>18
  <1> QED
    BY <1>7, <1>14, <1>16, <1>17, <1>19, <1>23, <1>24, <1>25, <1>26 DEF ListingInv

LEMMA SelectFailsInv == ASSUME ListingInv, SelectFails PROVE ListingInv'
  <1>1. /\ ListingTypeOK /\ walk.pc = "select" /\ walk' = [walk EXCEPT !.pc = "failed"]
        /\ Offset(walk.page, walk.limit) < 0
        /\ UNCHANGED <<key, stayed, earlier, moved, pushes, pulls>>
    BY DEF SelectFails, ListingInv, history
  <1>2. /\ walk'.pc = "failed" /\ walk'.order = walk.order /\ walk'.limit = walk.limit
        /\ walk'.first = walk.first /\ walk'.page = walk.page /\ walk'.got = walk.got
        /\ ListingTypeOK'
    BY <1>1 DEF ListingTypeOK
  <1>3. Start(walk.first) > MaxInt
    <2>1. SUFFICES ASSUME ~(Start(walk.first) > MaxInt) PROVE FALSE
      OBVIOUS
    <2>2. walk.page \in Nat \ {0} /\ walk.first \in Nat \ {0} /\ walk.limit \in Nat /\ MaxInt \in Nat
      BY <1>1, WalkFields
    <2>3. Start(walk.first) \in Nat /\ Start(walk.page) \in Nat
      BY <1>1, <2>2, StartOrder
    <2>4. Start(walk.page) <= MaxInt
      BY <1>1, <2>1, <2>2, <2>3 DEF ListingInv, Fetching
    <2>5. Offset(walk.page, walk.limit) = Start(walk.page)
      BY <2>2, <2>4, OffsetExact DEF Start
    <2> QED BY <1>1, <2>3, <2>5
  <1>4. Start(walk.first) \in Nat /\ MaxInt \in Nat
    BY <1>1, WalkFields, StartOrder
  <1>5. Got' = Got /\ ~Fetching'
    BY <1>2 DEF Got, Fetching
  <1>6. NoRepeats' /\ WalkComplete' /\ OnlyItsPages'
    BY <1>1, <1>2, <1>3, <1>4 DEF NoRepeats, WalkComplete, OnlyItsPages, ListingInv, Start
  <1> QED BY <1>1, <1>2, <1>5, <1>6 DEF ListingInv

\* A write brings at most one row from one side of a place to the other, and counts it.
LEMMA Crossing ==
  ASSUME ListingTypeOK, NEW u \in All, NEW k \in 0..MaxKey, Write(u, k), NEW bound \in Int,
         NEW S \in SUBSET All, NEW T \in SUBSET All, \A v \in T \ S : v \in Listed(key) \ {u}
  PROVE  /\ (\A v \in T \ S : Place(v) <= bound /\ Place(v)' > bound) =>
              Cardinality(T) <= Cardinality(S) + (pushes' - pushes)
         /\ (\A v \in T \ S : Place(v) > bound /\ Place(v)' <= bound) =>
              Cardinality(T) <= Cardinality(S) + (pulls' - pulls)
  <1> DEFINE new == [key EXCEPT ![u] = k]
             Shift(v) == Position(new, walk.order, v) - Position(key, walk.order, v)
  <1>1. /\ key' = new /\ walk' = walk
        /\ pushes' = pushes + (IF \E v \in Listed(key) \ {u} : Shift(v) > 0 THEN 1 ELSE 0)
        /\ pulls' = pulls + (IF \E v \in Listed(key) \ {u} : Shift(v) < 0 THEN 1 ELSE 0)
    BY DEF Write
  <1>2. new \in [All -> Nat] /\ \A w \in All \ {u} : new[w] = key[w]
    BY WalkFields, ListingAssumption
  <1>3. \A v \in Listed(key) \ {u} : Shift(v) \in {-1, 0, 1}
    BY <1>2, WalkFields, OnePlaceAtMost
  <1>4. \A v \in Listed(key) \ {u} :
          Shift(v) = Place(v)' - Place(v) /\ Place(v) \in Nat /\ Place(v)' \in Int
    <2> SUFFICES ASSUME NEW v \in Listed(key) \ {u}
                 PROVE  Shift(v) = Place(v)' - Place(v) /\ Place(v) \in Nat /\ Place(v)' \in Int
      OBVIOUS
    <2>1. v \in Listed(new)
      BY <1>2 DEF Listed
    <2>2. Position(new, walk.order, v) \in Nat
      BY <1>2, <2>1, WalkFields, PlaceBound
    <2>3. Place(v)' = Position(new, walk.order, v) /\ Place(v) = Position(key, walk.order, v)
      BY <1>1 DEF Place
    <2> QED BY <2>2, <2>3, Places
  <1> HIDE DEF new, Shift
  <1>5. /\ Cardinality(S) \in Nat /\ Cardinality(T) \in Nat /\ pushes \in Nat /\ pulls \in Nat
        /\ T \subseteq S => Cardinality(T) <= Cardinality(S)
    BY FiniteRows, NoMore, WalkFields
  <1>6. ASSUME \A v \in T \ S : Place(v) <= bound /\ Place(v)' > bound
        PROVE  Cardinality(T) <= Cardinality(S) + (pushes' - pushes)
    <2>1. \A v \in T \ S : Shift(v) > 0 /\ Place(v) = bound
      BY <1>3, <1>4, <1>6
    <2>2. Cardinality(T) <= Cardinality(S) + 1
      BY <2>1, AtMostOneMore, Places
    <2>3. T \subseteq S \/ \E v \in Listed(key) \ {u} : Shift(v) > 0
      BY <2>1
    <2> QED BY <1>1, <1>5, <2>2, <2>3
  <1>7. ASSUME \A v \in T \ S : Place(v) > bound /\ Place(v)' <= bound
        PROVE  Cardinality(T) <= Cardinality(S) + (pulls' - pulls)
    <2>1. \A v \in T \ S : Shift(v) < 0 /\ Place(v) = bound + 1
      BY <1>3, <1>4, <1>7
    <2>2. Cardinality(T) <= Cardinality(S) + 1
      BY <2>1, AtMostOneMore, Places
    <2>3. T \subseteq S \/ \E v \in Listed(key) \ {u} : Shift(v) < 0
      BY <2>1
    <2> QED BY <1>1, <1>5, <2>2, <2>3
  <1> QED BY <1>6, <1>7

LEMMA WriteInv ==
  ASSUME ListingInv, NEW u \in All, NEW k \in 0..MaxKey, Write(u, k)
  PROVE  ListingInv'
  <1> DEFINE new == [key EXCEPT ![u] = k]
  <1>1. /\ Fetching /\ key' = new /\ walk' = walk
        /\ moved' = (IF key[u] > 0 THEN moved \cup {u} ELSE moved)
        /\ stayed' = stayed \ {u} /\ earlier' = earlier \ {u}
    BY DEF Write, Fetching
  <1>2. /\ pushes \in Nat /\ pushes' \in Nat /\ pushes <= pushes'
        /\ pulls \in Nat /\ pulls' \in Nat /\ pulls <= pulls'
    <2>1. pushes \in Nat /\ pulls \in Nat
      BY WalkFields DEF ListingInv
    <2>2. pushes' \in {pushes, pushes + 1} /\ pulls' \in {pulls, pulls + 1}
      BY <2>1 DEF Write
    <2> QED BY <2>1, <2>2
  <1>3. ListingTypeOK /\ new \in [All -> 0..MaxKey] /\ \A w \in All \ {u} : new[w] = key[w]
    BY DEF ListingInv, ListingTypeOK
  <1>4. Listed(key)' \ {u} = Listed(key) \ {u} /\ Listed(key) \subseteq All
    BY <1>1, <1>3 DEF Listed
  <1>5. ListingTypeOK'
    <2>1. moved' \subseteq All
      BY <1>1, <1>3, WalkFields
    <2>2. stayed' \subseteq Listed(key)' \ moved' /\ earlier' \subseteq Listed(key)' \ (moved' \cup stayed')
      BY <1>1, <1>3, <1>4 DEF ListingTypeOK
    <2> HIDE DEF new
    <2> QED BY <1>1, <1>2, <1>3, <2>1, <2>2 DEF ListingTypeOK
  <1> HIDE DEF new
  <1>6. Got' = Got /\ (Fetching' <=> Fetching) /\ \A n : Start(n)' = Start(n)
    BY <1>1 DEF Got, Fetching, Start
  <1>7. /\ Got \ moved \subseteq Listed(key) /\ stayed \subseteq Listed(key)
        /\ earlier \subseteq Listed(key) /\ pushes \in Nat /\ pulls \in Nat
    BY <1>3, WalkFields DEF ListingInv, ListingTypeOK
  <1>8. \A v \in Got \ moved' : v \in Got \ moved /\ v \in Listed(key) \ {u}
    BY <1>1, <1>3, <1>7 DEF Listed
  <1>9. Got' \ moved' \subseteq Listed(key)'
    BY <1>4, <1>6, <1>8
  <1>10. Start(walk.page) \in Nat /\ Start(walk.first) \in Nat /\ walk.total \in Nat
    <2>1. walk.page \in Nat \ {0} /\ walk.first \in Nat \ {0} /\ walk.total \in Nat
      BY <1>3, WalkFields
    <2>2. Start(walk.page) \in Nat
      BY <1>3, <2>1, StartOrder
    <2>3. Start(walk.first) \in Nat
      BY <1>3, <2>1, StartOrder
    <2> QED BY <2>1, <2>2, <2>3
  <1>11. /\ Lost \in SUBSET All /\ Uncounted \in SUBSET All
         /\ Again \in SUBSET All /\ Strayed \in SUBSET All
         /\ Cardinality(Lost) \in Nat /\ Cardinality(Uncounted) \in Nat
         /\ Cardinality(Again) \in Nat /\ Cardinality(Strayed) \in Nat
    BY <1>3, Counted
  <1>12. /\ Lost' \in SUBSET All /\ Uncounted' \in SUBSET All
         /\ Again' \in SUBSET All /\ Strayed' \in SUBSET All
         /\ Cardinality(Lost') \in Nat /\ Cardinality(Uncounted') \in Nat
         /\ Cardinality(Again') \in Nat /\ Cardinality(Strayed') \in Nat
    <2>1. /\ Lost' \in SUBSET All /\ Uncounted' \in SUBSET All
          /\ Again' \in SUBSET All /\ Strayed' \in SUBSET All
      BY <1>1, <1>3, WalkFields DEF Lost, Uncounted, Again, Strayed
    <2> QED BY <2>1, FiniteRows
  <1>13. \A v \in Listed(key) \ {u} : Place(v) \in Nat /\ Place(v)' \in Nat
    <2>1. \A v \in Listed(key)' : Place(v)' \in Nat
      BY <1>5, PlaceBound, WalkFields, <1>1, <1>3, ListingAssumption DEF Place
    <2> QED BY <1>3, <1>4, <2>1, Places
  <1>14. Cardinality(Lost') <= Cardinality(Lost) + (pulls' - pulls)
    <2>1. \A v \in Lost' \ Lost : /\ v \in Listed(key) \ {u}
                                  /\ Place(v) > Start(walk.page) /\ Place(v)' <= Start(walk.page)
      BY <1>1, <1>6, <1>7, <1>10, <1>13 DEF Lost
    <2> QED BY <1>3, <1>10, <1>11, <1>12, <2>1, Crossing
  <1>15. Cardinality(Uncounted') <= Cardinality(Uncounted) + (pushes' - pushes)
    <2>1. \A v \in Uncounted' \ Uncounted : /\ v \in Listed(key) \ {u}
                                            /\ Place(v) <= walk.total /\ Place(v)' > walk.total
      BY <1>1, <1>6, <1>7, <1>10, <1>13 DEF Uncounted
    <2> QED BY <1>3, <1>10, <1>11, <1>12, <2>1, Crossing
  <1>16. Cardinality(Again') <= Cardinality(Again) + (pushes' - pushes)
    <2>1. \A v \in Again' \ Again : /\ v \in Listed(key) \ {u}
                                    /\ Place(v) <= Start(walk.page) /\ Place(v)' > Start(walk.page)
      <3> SUFFICES ASSUME NEW v \in Again', v \notin Again
                   PROVE  /\ v \in Listed(key) \ {u}
                          /\ Place(v) <= Start(walk.page) /\ Place(v)' > Start(walk.page)
        OBVIOUS
      <3>1. /\ v \in All \ moved' /\ v \in All \ moved
            /\ walk.got[v] > 1 \/ (v \in Got /\ Place(v)' > Start(walk.page))
        BY <1>1, <1>6 DEF Again
      <3>2. ~(walk.got[v] > 1) /\ ~(v \in Got /\ Place(v) > Start(walk.page))
        BY <3>1 DEF Again
      <3>3. v \in Listed(key) \ {u}
        BY <1>8, <3>1, <3>2
      <3> QED BY <1>10, <1>13, <3>1, <3>2, <3>3
    <2> QED BY <1>3, <1>10, <1>11, <1>12, <2>1, Crossing
  <1>17. Cardinality(Strayed') <= Cardinality(Strayed) + (pushes' - pushes)
    <2>1. \A v \in Strayed' \ Strayed : /\ v \in Listed(key) \ {u}
                                        /\ Place(v) <= Start(walk.first) /\ Place(v)' > Start(walk.first)
      BY <1>1, <1>6, <1>7, <1>10, <1>13 DEF Strayed
    <2> QED BY <1>3, <1>10, <1>11, <1>12, <2>1, Crossing
  <1>18. NoRepeats'
    <2> DEFINE twice == {v \in All \ moved : walk.got[v] > 1}
               after == {v \in All \ moved' : walk'.got[v] > 1}
    <2>1. after \in SUBSET twice /\ twice \in SUBSET All
      BY <1>1
    <2>2. Cardinality(twice) <= pushes
      BY DEF ListingInv, NoRepeats
    <2>3. NoRepeats' <=> Cardinality(after) <= pushes'
      BY DEF NoRepeats
    <2> HIDE DEF twice, after
    <2>4. /\ Cardinality(after) <= Cardinality(twice)
          /\ Cardinality(after) \in Nat /\ Cardinality(twice) \in Nat
      BY <2>1, NoMore, FiniteRows
    <2>5. Cardinality(after) <= pushes'
      BY <1>2, <2>2, <2>4
    <2> QED BY <2>3, <2>5
  <1>19. OnlyItsPages'
    <2> DEFINE shown == earlier \cap Got
               after == earlier' \cap Got'
    <2>1. after \in SUBSET shown /\ shown \in SUBSET All
      BY <1>1, <1>6, <1>7, <1>4
    <2>2. \/ Cardinality(shown) <= pushes /\ walk.pc # "failed"
          \/ ~((walk.first - 1) * walk.limit <= MaxInt)
      BY DEF ListingInv, OnlyItsPages
    <2>3. \/ ~((walk.first - 1) * walk.limit <= MaxInt)
          \/ walk.pc # "failed" /\ ~(Cardinality(after) > pushes')
      <3> HIDE DEF shown, after
      <3>1. /\ Cardinality(after) <= Cardinality(shown)
            /\ Cardinality(after) \in Nat /\ Cardinality(shown) \in Nat
        BY <2>1, NoMore, FiniteRows
      <3>2. Cardinality(shown) <= pushes => Cardinality(after) <= pushes'
        BY <1>2, <3>1
      <3>3. Cardinality(after) <= pushes' => ~(Cardinality(after) > pushes')
        BY <1>2, <3>1
      <3> QED BY <2>2, <3>2, <3>3
    <2>4. Cardinality(after) \in Nat
      BY <2>1, FiniteRows
    <2> QED BY <1>1, <1>2, <2>3, <2>4 DEF OnlyItsPages
  <1>20. WalkComplete'
    BY <1>1 DEF WalkComplete, Fetching
  <1>21. /\ walk.page = walk.first => Got = {}
         /\ walk.page # walk.first => Start(walk.page) <= MaxInt
         /\ Start(walk.first) > MaxInt => stayed = {}
         /\ Cardinality(Lost) <= pulls
         /\ walk.pc = "select" => Cardinality(Uncounted) <= pushes
         /\ Cardinality(Again) <= pushes /\ Cardinality(Strayed) <= pushes
         /\ walk.first <= walk.page
    BY <1>1 DEF ListingInv
  <1>22. /\ Cardinality(Lost') <= pulls'
         /\ walk'.pc = "select" => Cardinality(Uncounted') <= pushes'
         /\ Cardinality(Again') <= pushes' /\ Cardinality(Strayed') <= pushes'
    BY <1>1, <1>2, <1>7, <1>11, <1>12, <1>14, <1>15, <1>16, <1>17, <1>21
  <1>23. /\ walk'.page = walk'.first => Got' = {}
         /\ walk'.page # walk'.first => Start(walk.page)' <= MaxInt
         /\ Start(walk.first)' > MaxInt => stayed' = {}
         /\ walk'.first <= walk'.page
    BY <1>1, <1>6, <1>21
  <1> QED
    BY <1>5, <1>9, <1>18, <1>19, <1>20, <1>22, <1>23 DEF ListingInv

LEMMA ListingStep == ListingInv /\ [ListingNext]_listingVars => ListingInv'
  <1> SUFFICES ASSUME ListingInv, [ListingNext]_listingVars PROVE ListingInv'
    OBVIOUS
  <1>1. CASE UNCHANGED listingVars
    <2>1. UNCHANGED <<key, walk, stayed, earlier, moved, pushes, pulls>>
      BY <1>1 DEF listingVars, history
    <2>2. Got' = Got /\ UNCHANGED <<Fetching, Lost, Uncounted, Again, Strayed>>
      BY <2>1 DEF Got, Fetching, Lost, Uncounted, Again, Strayed, Place, Start
    <2> QED
      BY <2>1, <2>2 DEF ListingInv, ListingTypeOK, NoRepeats, OnlyItsPages, WalkComplete, Start
  <1>2. ASSUME NEW u \in All, Delete(u) \/ \E k \in 1..MaxKey : Insert(u, k) \/ Update(u, k)
        PROVE  ListingInv'
    <2>1. 0 \in 0..MaxKey /\ 1..MaxKey \subseteq 0..MaxKey
      BY ListingAssumption
    <2>2. PICK k \in 0..MaxKey : Write(u, k)
      BY <1>2, <2>1 DEF Insert, Update, Delete
    <2> QED BY <2>2, WriteInv
  <1> QED
    BY <1>1, <1>2, StartWalkInv, CountInv, SelectInv, SelectFailsInv DEF ListingNext

\* What the walk keeps while the list changes under it, for any list, any page
\* size within MaxLimit, any width of int and any number of writes.
THEOREM ListingInvariance == ListingSpec => []ListingInv
  <1>1. ListingInit => ListingInv
    <2> SUFFICES ASSUME ListingInit PROVE ListingInv
      OBVIOUS
    <2> DEFINE none == [u \in All |-> 0]
    <2>1. /\ walk = [pc |-> "idle", order |-> "desc", limit |-> 1, first |-> 1, page |-> 1,
                     total |-> 0, got |-> none]
          /\ key \in [All -> 0..MaxKey] /\ stayed = {} /\ earlier = {} /\ moved = {}
          /\ pushes = 0 /\ pulls = 0
      BY DEF ListingInit, NotWalking
    <2>2. none \in [All -> Nat] /\ \A u \in All : none[u] = 0
      OBVIOUS
    <2> HIDE DEF none
    <2>3. ListingTypeOK
      <3>1. 1 \in 1..MaxLimit /\ 1 \in 1..MaxInt /\ 0 \in 0..MaxUser /\ "desc" \in Orders /\ 0 \in Nat
        BY ListingAssumption DEF Orders
      <3>2. walk \in [pc : {"idle", "count", "select", "done", "failed"}, order : Orders,
                      limit : 1..MaxLimit, first : 1..MaxInt, page : 1..MaxInt,
                      total : 0..MaxUser, got : [All -> Nat]]
        BY <2>1, <2>2, <3>1
      <3> QED BY <2>1, <3>1, <3>2, Zenon DEF ListingTypeOK
    <2>4. Got = {} /\ ~Fetching /\ walk.first = 1 /\ walk.page = 1
      BY <2>1, <2>2 DEF Got, Fetching
    <2>5. NoRepeats /\ OnlyItsPages /\ WalkComplete
      <3>1. {u \in All \ moved : walk.got[u] > 1} = {} /\ earlier \cap Got = {}
        BY <2>1, <2>2
      <3>2. Cardinality({}) <= 0 /\ walk.pc # "failed"
        BY <2>1, FS_EmptySet
      <3>3. walk.pc = "idle"
        BY <2>1
      <3>4. NoRepeats
        BY <2>1, <3>1, <3>2 DEF NoRepeats
      <3>5. OnlyItsPages
        BY <2>1, <3>1, <3>2 DEF OnlyItsPages
      <3> QED BY <3>3, <3>4, <3>5 DEF WalkComplete
    <2> QED BY <2>1, <2>3, <2>4, <2>5 DEF ListingInv
  <1> QED BY <1>1, ListingStep, PTL DEF ListingSpec

\* Pages, limits, totals and what the client has got keep their types; no page
\* number that a client is led to leaves the range of an int.
THEOREM ListingTypeCorrect == ListingSpec => []ListingTypeOK
  <1>1. ListingInv => ListingTypeOK
    BY DEF ListingInv
  <1> QED BY <1>1, ListingInvariance, PTL

\* A client that follows hasNext to the end has got everybody who was in the
\* list from its first page on and was not written, but for one at most per
\* insertion, update or deletion of somebody else that moved rows: for any list,
\* any sort column and any parameters, those whose offset overflows included.
THEOREM WalkCompleteAlways == ListingSpec => []WalkComplete
  <1>1. ListingInv => WalkComplete
    BY DEF ListingInv
  <1> QED BY <1>1, ListingInvariance, PTL

\* Of the users who were not written themselves during a walk, it shows at most
\* as many twice as writes moved rows back, whoever was deleted meanwhile.
THEOREM NoRepeatsAlways == ListingSpec => []NoRepeats
  <1>1. ListingInv => NoRepeats
    BY DEF ListingInv
  <1> QED BY <1>1, ListingInvariance, PTL

\* A walk that begins at a page whose offset is an int does not fail, and shows
\* users of the pages before it only as writes moved them back, one per write.
THEOREM OnlyItsPagesAlways == ListingSpec => []OnlyItsPages
  <1>1. ListingInv => OnlyItsPages
    BY DEF ListingInv
  <1> QED BY <1>1, ListingInvariance, PTL
=============================================================================
