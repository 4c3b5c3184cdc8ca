------------------------------ MODULE UserListing ------------------------------
(***************************************************************************)
(* GET /admin/users: query.Parse, UserRepository.List and query.NewMeta,   *)
(* as an administrator's client uses them: from any page it likes, page    *)
(* after page until hasNext is false.  List counts and selects in two      *)
(* statements outside of any transaction; between them and between the     *)
(* pages users come and go, and writes change the column that is sorted by *)
(* or the columns that are filtered by.                                    *)
(***************************************************************************)
EXTENDS Integers, FiniteSets

CONSTANTS
  MaxUser,       \* bound: users are 1..MaxUser, in the order of their ids
  MaxKey,        \* bound: the sort column has the values 1..MaxKey
  MaxShifts,     \* bound: during a walk, so many writes move the rows of others
  DefaultLimit, MaxLimit,
  LimitInputs,   \* what clients send as "limit"; Garbage is not a number, or no int
  PageInputs,    \* what they send as "page"
  Garbage,
  MaxInt         \* bound: the largest int, 2^63 - 1 in the code

ASSUME ListingAssumption ==
  /\ MaxUser \in Nat /\ MaxKey \in Nat /\ MaxShifts \in Nat
  /\ DefaultLimit \in 1..MaxLimit /\ MaxLimit \in Nat \ {0}
  /\ MaxInt \in Nat \ {0} /\ MaxUser <= MaxInt
  /\ LimitInputs \cup PageInputs \subseteq (-(MaxInt + 1))..MaxInt \cup {Garbage}

VARIABLES
  key,     \* the sort column of the rows; 0: no such row, or the filters do not match
  walk,    \* the client's walk, and the request it has sent
  stayed,  \* history: rows of its pages when the walk began, not written since
  earlier, \* history: rows of the pages in front of the first then, not written since
  moved,   \* history: users whose row was written during the walk
  pushes,  \* history: writes that moved rows of others back
  pulls    \* history: writes that moved rows of others forward

history == <<stayed, earlier, moved, pushes, pulls>>
listingVars == <<key, walk, history>>

All == 1..MaxUser
Orders == {"asc", "desc"}

Listed(k) == {u \in All : k[u] > 0}

\* got: how often the walk has shown each user.
NotWalking ==
  [pc |-> "idle", order |-> "desc", limit |-> 1, first |-> 1, page |-> 1, total |-> 0,
   got |-> [u \in All |-> 0]]

\* Every variable has its type; a page is never longer than MaxLimit.
ListingTypeOK ==
  /\ key \in [All -> 0..MaxKey]
  /\ walk \in [pc : {"idle", "count", "select", "done", "failed"}, order : Orders,
               limit : 1..MaxLimit, first : 1..MaxInt, page : 1..MaxInt, total : 0..MaxUser,
               got : [All -> Nat]]
  /\ moved \subseteq All /\ stayed \subseteq Listed(key) \ moved
  /\ earlier \subseteq Listed(key) \ (moved \cup stayed)
  /\ pushes \in Nat /\ pulls \in Nat

ListingInit ==
  /\ key \in [All -> 0..MaxKey]
  /\ walk = NotWalking
  /\ stayed = {} /\ earlier = {} /\ moved = {} /\ pushes = 0 /\ pulls = 0

-----------------------------------------------------------------------------
(* query *)

\* Mutant: no upper bound.
ParsedLimit_Unbounded(v) == IF v = Garbage \/ v < 1 THEN DefaultLimit ELSE v
\* parseInt and the clamps of Parse.
ParsedLimit(v) ==
  IF v = Garbage \/ v < 1 THEN DefaultLimit
  ELSE IF v > MaxLimit THEN MaxLimit ELSE v

ParsedPage(v) == IF v = Garbage \/ v < 1 THEN 1 ELSE v

\* What an int whose values end at max makes of n.
Wrapped(n, max) == ((n + max + 1) % (2 * (max + 1))) - (max + 1)

\* Mutant: the product is computed in a narrower int.
Offset_Narrow(page, limit) == Wrapped((page - 1) * limit, MaxInt \div 2)
\* Params.Offset.
Offset(page, limit) == Wrapped((page - 1) * limit, MaxInt)

\* Mutant: a last page that is not full is not counted.
TotalPages_Floor(total, limit) == total \div limit
\* NewMeta.
TotalPages(total, limit) == (total + limit - 1) \div limit
HasNext(page, limit, total) == page < TotalPages(total, limit)

-----------------------------------------------------------------------------
(* UserRepository.List *)

\* ORDER BY the column in the order asked for, then the id ASC.
Before(k, order, u, v) ==
  \/ IF order = "asc" THEN k[u] < k[v] ELSE k[v] < k[u]
  \/ k[u] = k[v] /\ u < v
Position(k, order, u) == 1 + Cardinality({v \in Listed(k) : Before(k, order, v, u)})

\* Mutant: pages overlap by a row.
PageOf_Overlap(order, limit, offset) ==
  {u \in Listed(key) : Position(key, order, u) \in (offset + 1)..(offset + limit + 1)}
\* LIMIT ... OFFSET ...
PageOf(order, limit, offset) ==
  {u \in Listed(key) : Position(key, order, u) \in (offset + 1)..(offset + limit)}

StartWalk(order, v, p) ==
  LET inFront == {u \in Listed(key) :
                    Position(key, order, u) <= (ParsedPage(p) - 1) * ParsedLimit(v)} IN
  /\ walk.pc \in {"idle", "done", "failed"}
  /\ walk' = [NotWalking EXCEPT !.pc = "count", !.order = order, !.limit = ParsedLimit(v),
                                !.first = ParsedPage(p), !.page = ParsedPage(p)]
  /\ stayed' = Listed(key) \ inFront /\ earlier' = inFront
  /\ moved' = {} /\ pushes' = 0 /\ pulls' = 0
  /\ UNCHANGED key

\* SELECT COUNT(*).
Count ==
  /\ walk.pc = "count"
  /\ walk' = [walk EXCEPT !.pc = "select", !.total = Cardinality(Listed(key))]
  /\ UNCHANGED <<key, history>>

\* The SELECT, the answer with its meta, and the client's next request.
Select ==
  LET offset == Offset(walk.page, walk.limit)
      page == PageOf(walk.order, walk.limit, offset)
      more == HasNext(walk.page, walk.limit, walk.total) IN
  /\ walk.pc = "select" /\ offset >= 0
  /\ walk' = [walk EXCEPT !.got = [u \in All |-> @[u] + (IF u \in page THEN 1 ELSE 0)],
                          !.pc = IF more THEN "count" ELSE "done",
                          !.page = IF more THEN @ + 1 ELSE @]
  /\ UNCHANGED <<key, history>>

\* PostgreSQL refuses a negative OFFSET, and the answer is an internal error.
SelectFails ==
  /\ walk.pc = "select" /\ Offset(walk.page, walk.limit) < 0
  /\ walk' = [walk EXCEPT !.pc = "failed"]
  /\ UNCHANGED <<key, history>>

-----------------------------------------------------------------------------
(* Others.  A write moves the row it writes, and each other one by a place at most. *)

Write(u, k) ==
  LET new == [key EXCEPT ![u] = k]
      Shift(v) == Position(new, walk.order, v) - Position(key, walk.order, v)
      others == Listed(key) \ {u} IN
  /\ walk.pc \in {"count", "select"} /\ pushes + pulls < MaxShifts
  /\ key' = new
  /\ moved' = IF key[u] > 0 THEN moved \cup {u} ELSE moved
  /\ stayed' = stayed \ {u} /\ earlier' = earlier \ {u}
  /\ pushes' = pushes + (IF \E v \in others : Shift(v) > 0 THEN 1 ELSE 0)
  /\ pulls' = pulls + (IF \E v \in others : Shift(v) < 0 THEN 1 ELSE 0)
  /\ UNCHANGED walk

\* A registration, or an UPDATE that makes a row match.  Its place may be anywhere, by
\* createdAt too: created_at is the time the INSERT began, not when it is seen.
Insert(u, k) == key[u] = 0 /\ k > 0 /\ Write(u, k)

\* An UPDATE of the sort column: updated_at by any statement, or the name or the role.
Update(u, k) == key[u] > 0 /\ k > 0 /\ k # key[u] /\ Write(u, k)

\* A deletion, or an UPDATE after which the row does not match any more.
Delete(u) == key[u] > 0 /\ Write(u, 0)

ListingNext ==
  \/ \E order \in Orders, v \in LimitInputs, p \in PageInputs : StartWalk(order, v, p)
  \/ Count
  \/ Select \/ SelectFails
  \/ \E u \in All : Delete(u) \/ \E k \in 1..MaxKey : Insert(u, k) \/ Update(u, k)

ListingSpec == ListingInit /\ [][ListingNext]_listingVars

-----------------------------------------------------------------------------
Got == {u \in All : walk.got[u] > 0}

\* A walk that came to its end has shown everyone of its pages who was there all the time and
\* was not written, but for one user at most per write that moved the rows of others: forward
\* over the end of the page before, or back behind the total that was counted.
WalkComplete ==
  walk.pc = "done" => Cardinality(stayed \ Got) <= pulls + pushes

\* It shows a user twice who was written himself, or one more per write that moved the rows
\* of others back.  Deletions repeat nobody.
NoRepeats == Cardinality({u \in All \ moved : walk.got[u] > 1}) <= pushes

\* If the offset of its first page is an int a walk never fails, and shows users of the pages
\* in front of it only as they are moved back, one per write; an offset that is no int makes
\* it fail or show some other page.
OnlyItsPages ==
  (walk.first - 1) * walk.limit <= MaxInt =>
    /\ walk.pc # "failed"
    /\ Cardinality(earlier \cap Got) <= pushes
=============================================================================
