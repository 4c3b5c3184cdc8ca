------------------------------ MODULE AvatarProofs ------------------------------
(***************************************************************************)
(* For any number of users, files and overlapping requests: no profile     *)
(* links to a file that a request has removed, and requests leave no more  *)
(* files behind than mishaps befell them.                                  *)
(***************************************************************************)
EXTENDS AvatarStore, FiniteSetTheorems, TLAPS

Row == [exists : BOOLEAN, avatar : Files \cup {None}]
File == [st : {"unused", "stored", "removed"}, owner : Users \cup {None}]

\* A request that has stored a file and not yet written it into the row.
Pending(r) == At(r, "write") /\ req[r].upload # None

Request ==
  [pc : {"idle", "upload", "write", "delete", "compensate", "cleanUp"},
   user : Users \cup {None}, current : Files \cup {None},
   upload : Files \cup {None}, expired : BOOLEAN]

\* Types, and: a request in progress is somebody's.
Typed ==
  /\ TypeOK
  /\ \A r \in Reqs : IF At(r, "idle") THEN req[r] = Idle ELSE req[r].user \in Users

\* A name that is still to be drawn is nowhere.
Fresh == \A f \in Files : disk[f].st = "unused" =>
  /\ \A u \in Users : row[u].avatar # f
  /\ \A r \in Reqs : req[r].upload # f /\ req[r].current # f

\* Rows and requests refer to files of their own user.
Owned ==
  /\ \A u \in Users : row[u].avatar # None => disk[row[u].avatar].owner = u
  /\ \A r \in Reqs :
       /\ req[r].upload # None => disk[req[r].upload].owner = req[r].user
       /\ req[r].current # None => disk[req[r].current].owner = req[r].user

\* A pending file is in the hands of one request only.
PendingOK == \A r \in Reqs : Pending(r) =>
  /\ Stored(req[r].upload)
  /\ \A u \in Users : row[u].avatar # req[r].upload
  /\ \A s \in Reqs : /\ req[s].current # req[r].upload
                     /\ s # r => req[s].upload # req[r].upload

\* What is about to be removed is in no row.
CompensateOK == \A r \in Reqs : At(r, "compensate") /\ req[r].upload # None =>
  req[r].upload \in lost \/ \A u \in Users : row[u].avatar # req[r].upload
CleanUpOK == \A r \in Reqs : At(r, "cleanUp") /\ req[r].current # None =>
  \A u \in Users : row[u].avatar # req[r].current

\* The inductive invariant of AvatarsServed.
AvInv ==
  Typed /\ Fresh /\ Owned /\ PendingOK /\ CompensateOK /\ CleanUpOK /\ AvatarsServed

\* A request of u in progress, and the file that it will still remove or put in the row.
Active(r, u) == ~At(r, "idle") /\ req[r].user = u
Charge(r) ==
  IF req[r].expired THEN None
  ELSE IF At(r, "write") \/ At(r, "compensate") THEN req[r].upload
  ELSE IF At(r, "cleanUp") THEN req[r].current ELSE None

\* The files of u that are in storage.
Mine(u, f) == Stored(f) /\ disk[f].owner = u

\* Files of u that no request will remove, and that are not the avatar.
Loose(u) == {f \in Files : /\ Mine(u, f) /\ f # row[u].avatar
                           /\ \A r \in Reqs : Active(r, u) => Charge(r) # f}
\* Requests of u that have not written the row yet; one is stale if the avatar is no
\* longer the one it has read, and writing will make the avatar loose.
Early(u) == {r \in Reqs : Active(r, u) /\ (At(r, "upload") \/ At(r, "write") \/ At(r, "delete"))}
Stale(u) == \E r \in Early(u) : req[r].current # row[u].avatar

\* Every loose file and every early request is owed to a mishap, but for one early request
\* that found nobody else when it began.  Once a request is stale, the one that has written
\* before it is over with its share, and there is no exception.
OwedTo(u) ==
  /\ Cardinality(Loose(u)) + Cardinality(Early(u)) <= mishaps[u] + 1
  /\ Stale(u) \/ Early(u) = {} => Cardinality(Loose(u)) + Cardinality(Early(u)) <= mishaps[u]
\* The inductive invariant of NoStrayFiles, given AvInv.
OwedOK == \A u \in Users : OwedTo(u)

-----------------------------------------------------------------------------
(* Types *)

LEMMA TypedFacts ==
  ASSUME Typed
  PROVE  /\ row \in [Users -> [exists : BOOLEAN, avatar : Files \cup {None}]]
         /\ disk \in [Files -> [st : {"unused", "stored", "removed"}, owner : Users \cup {None}]]
         /\ req \in [Reqs -> Request]
         /\ mishaps \in [Users -> Nat] /\ lost \subseteq Files
         /\ \A r \in Reqs : At(r, "idle") => req[r] = Idle
         /\ \A r \in Reqs : ~At(r, "idle") => req[r].user \in Users
  BY DEF Typed, TypeOK, Request

\* What a request, a row or a file may become.
LEMMA RequestStep ==
  ASSUME NEW q \in Request, NEW pc \in {"idle", "upload", "write", "delete", "compensate", "cleanUp"},
         NEW f \in Files \cup {None}
  PROVE  /\ [q EXCEPT !.pc = pc] \in Request
         /\ [q EXCEPT !.expired = TRUE] \in Request
         /\ [q EXCEPT !.pc = pc, !.upload = f] \in Request
         /\ q.upload \in Files \cup {None} /\ q.current \in Files \cup {None}
         /\ q.user \in Users \cup {None}
<1>1. [q EXCEPT !.pc = pc] \in Request
  BY DEF Request
<1>2. [q EXCEPT !.expired = TRUE] \in Request
  BY DEF Request
<1>3. [q EXCEPT !.pc = pc, !.upload = f] \in Request
  BY DEF Request
<1>4. /\ q.upload \in Files \cup {None} /\ q.current \in Files \cup {None}
      /\ q.user \in Users \cup {None}
  BY DEF Request
<1> QED
  BY <1>1, <1>2, <1>3, <1>4

LEMMA RowStep ==
  ASSUME NEW x \in Row, NEW f \in Files \cup {None} PROVE [x EXCEPT !.avatar = f] \in Row
  BY DEF Row

LEMMA FileStep ==
  ASSUME NEW x \in File PROVE [x EXCEPT !.st = "removed"] \in File
  BY DEF File

\* Requests change one at a time.
LEMMA OneRequest ==
  ASSUME Typed, NEW r \in Reqs, NEW q, req' = [req EXCEPT ![r] = q]
  PROVE  req'[r] = q /\ \A s \in Reqs : s # r => req'[s] = req[s]
  BY TypedFacts

LEMMA InitAvInv == Init => AvInv /\ OwedOK
<1> SUFFICES ASSUME Init PROVE AvInv /\ OwedOK
  OBVIOUS
<1>1. /\ \A u \in Users : row[u].avatar = None
      /\ \A f \in Files : disk[f].st = "unused"
      /\ \A r \in Reqs : /\ req[r] = Idle /\ At(r, "idle")
                         /\ req[r].upload = None /\ req[r].current = None
  BY DEF Init, Idle, At
<1>2. Typed
  BY <1>1 DEF Init, Typed, TypeOK, Idle, Request
<1>3. Fresh /\ Owned /\ PendingOK /\ CompensateOK /\ CleanUpOK /\ AvatarsServed
  BY <1>1, AvatarAssumption DEF Fresh, Owned, PendingOK, CompensateOK, CleanUpOK, AvatarsServed,
     Pending
<1>4. OwedOK
  <2> SUFFICES ASSUME NEW u \in Users PROVE OwedTo(u)
    BY DEF OwedOK
  <2>1. Loose(u) = {} /\ Early(u) = {} /\ mishaps[u] = 0
    BY <1>1 DEF Init, Loose, Early, Active, Mine, Stored
  <2> QED
    BY <2>1, FS_EmptySet DEF OwedTo
<1> QED
  BY <1>2, <1>3, <1>4 DEF AvInv

-----------------------------------------------------------------------------
(* A request begins or ends *)

\* What Idle does not carry needs no care.
LEMMA IdleEmpty ==
  Idle.pc = "idle" /\ Idle.user = None /\ Idle.current = None /\ Idle.upload = None
    /\ Idle.expired = FALSE
  BY DEF Idle

LEMMA MishapTyped ==
  ASSUME Typed, NEW u \in Users, Mishap(u) PROVE mishaps' \in [Users -> Nat]
<1>1. mishaps \in [Users -> Nat]
  BY TypedFacts
<1> QED
  BY <1>1 DEF Mishap

LEMMA BeginKeeps ==
  ASSUME AvInv, NEW r \in Reqs, NEW u \in Users, NEW pc \in {"upload", "write", "delete"},
         Begin(r, u, pc)
  PROVE  AvInv'
<1> DEFINE q == [Idle EXCEPT !.pc = pc, !.user = u, !.current = row[u].avatar]
<1>1. /\ q.pc = pc /\ q.user = u /\ q.current = row[u].avatar /\ q.upload = None
      /\ q.expired = FALSE
  BY DEF Idle
<1>2. Typed /\ req' = [req EXCEPT ![r] = q] /\ UNCHANGED <<row, disk, lost>>
  BY DEF Begin, AvInv
<1>3. row[u].avatar \in Files \cup {None}
  BY <1>2, TypedFacts
<1> HIDE DEF q
<1>4. req'[r] = q /\ \A s \in Reqs : s # r => req'[s] = req[s]
  BY <1>2, OneRequest
<1>5. mishaps' \in [Users -> Nat]
  BY <1>2, TypedFacts, MishapTyped DEF Begin
<1>6. Typed'
  <2>1. q \in Request
    BY <1>3 DEF q, Idle, Request
  <2>2. TypeOK'
    BY <1>2, <1>5, <2>1 DEF Typed, TypeOK, Request
  <2> QED
    BY <1>1, <1>2, <1>4, <2>2 DEF Typed, At
<1>7. Fresh'
  BY <1>1, <1>2, <1>4, AvatarAssumption DEF AvInv, Fresh
<1>8. Owned'
  BY <1>1, <1>2, <1>4 DEF AvInv, Owned
<1>9. PendingOK'
  BY <1>1, <1>2, <1>4 DEF AvInv, PendingOK, Pending, At, Stored
<1>10. CompensateOK' /\ CleanUpOK'
  BY <1>1, <1>2, <1>4 DEF AvInv, CompensateOK, CleanUpOK, At
<1>11. AvatarsServed'
  BY <1>2 DEF AvInv, AvatarsServed, Stored
<1> QED
  BY <1>6, <1>7, <1>8, <1>9, <1>10, <1>11 DEF AvInv

\* A request that is over refers to nothing.
LEMMA FinishKeeps ==
  ASSUME AvInv, NEW r \in Reqs, Finish(r), UNCHANGED <<row, disk, lost>>,
         mishaps' \in [Users -> Nat]
  PROVE  AvInv'
<1>1. Typed /\ req' = [req EXCEPT ![r] = Idle]
  BY DEF Finish, AvInv
<1>2. req'[r] = Idle /\ \A s \in Reqs : s # r => req'[s] = req[s]
  BY <1>1, OneRequest
<1>3. Typed'
  <2>1. Idle \in Request
    BY DEF Idle, Request
  <2>2. TypeOK'
    BY <1>1, <2>1 DEF Typed, TypeOK, Request
  <2> QED
    BY <1>1, <1>2, <2>2, IdleEmpty DEF Typed, At
<1>4. Fresh'
  BY <1>2, IdleEmpty, AvatarAssumption DEF AvInv, Fresh
<1>5. Owned' /\ PendingOK' /\ CompensateOK' /\ CleanUpOK'
  BY <1>2, IdleEmpty DEF AvInv, Owned, PendingOK, Pending, CompensateOK, CleanUpOK, At, Stored
<1>6. AvatarsServed'
  BY DEF AvInv, AvatarsServed, Stored
<1> QED
  BY <1>3, <1>4, <1>5, <1>6 DEF AvInv

-----------------------------------------------------------------------------
(* A request goes on *)

\* Only the place of a request changes.
LEMMA GotoFields ==
  ASSUME Typed, NEW r \in Reqs, NEW pc, Goto(r, pc)
  PROVE  /\ req'[r].pc = pc /\ req'[r].user = req[r].user /\ req'[r].current = req[r].current
         /\ req'[r].upload = req[r].upload /\ req'[r].expired = req[r].expired
         /\ \A s \in Reqs : s # r => req'[s] = req[s]
  BY TypedFacts DEF Goto

LEMMA GotoTyped ==
  ASSUME Typed, NEW r \in Reqs, NEW pc \in {"write", "compensate", "cleanUp"}, Goto(r, pc),
         ~At(r, "idle"),
         row' \in [Users -> [exists : BOOLEAN, avatar : Files \cup {None}]],
         UNCHANGED disk, lost' \subseteq Files, mishaps' \in [Users -> Nat]
  PROVE  Typed'
<1>1. req' \in [Reqs -> Request]
  <2>1. req[r] \in Request
    BY TypedFacts
  <2>2. [req[r] EXCEPT !.pc = pc] \in Request
    BY <2>1, RequestStep
  <2> QED
    BY <2>2, TypedFacts DEF Goto
<1>2. TypeOK'
  BY <1>1, TypedFacts DEF TypeOK, Request
<1>3. \A s \in Reqs : IF At(s, "idle")' THEN req'[s] = Idle ELSE req'[s].user \in Users
  BY GotoFields, TypedFacts DEF At
<1> QED
  BY <1>2, <1>3 DEF Typed, At

LEMMA UploadKeeps == ASSUME AvInv, NEW r \in Reqs, NEW f \in Files, UploadImage(r, f) PROVE AvInv'
<1>1. /\ Typed /\ At(r, "upload") /\ disk[f].st = "unused" /\ f # None
      /\ disk' = [disk EXCEPT ![f] = [st |-> "stored", owner |-> req[r].user]]
      /\ UNCHANGED <<row, mishaps, lost>>
  BY AvatarAssumption DEF UploadImage, AvInv
<1>2. /\ req'[r].pc = "write" /\ req'[r].user = req[r].user /\ req'[r].current = req[r].current
      /\ req'[r].upload = f
      /\ \A s \in Reqs : s # r => req'[s] = req[s]
  BY <1>1, TypedFacts DEF UploadImage
<1>3. /\ disk'[f].st = "stored" /\ disk'[f].owner = req[r].user
      /\ \A g \in Files : g # f => disk'[g] = disk[g]
  BY <1>1, TypedFacts
<1>4. Typed'
  <2>1. req' \in [Reqs -> Request]
    <3>1. req[r] \in Request /\ req \in [Reqs -> Request]
      BY TypedFacts, <1>1
    <3>2. [req[r] EXCEPT !.pc = "write", !.upload = f] \in Request
      BY <3>1, RequestStep
    <3>3. req' = [req EXCEPT ![r] = [req[r] EXCEPT !.pc = "write", !.upload = f]]
      BY <1>1, <3>1 DEF UploadImage
    <3> QED
      BY <3>1, <3>2, <3>3
  <2>2. disk' \in [Files -> [st : {"unused", "stored", "removed"}, owner : Users \cup {None}]]
    <3>1. [st |-> "stored", owner |-> req[r].user]
            \in [st : {"unused", "stored", "removed"}, owner : Users \cup {None}]
      BY <1>1, TypedFacts DEF Request
    <3> QED
      BY <1>1, <3>1, TypedFacts
  <2>3. TypeOK'
    BY <1>1, <2>1, <2>2, TypedFacts DEF TypeOK, Request
  <2> QED
    BY <1>1, <1>2, <2>3, TypedFacts DEF Typed, At
\* f was nowhere before.
<1>5. /\ \A u \in Users : row[u].avatar # f
      /\ \A s \in Reqs : req[s].upload # f /\ req[s].current # f
  BY <1>1 DEF AvInv, Fresh
<1>6. Fresh'
  BY <1>1, <1>2, <1>3 DEF AvInv, Fresh
<1>7. Owned'
  BY <1>1, <1>2, <1>3, <1>5, TypedFacts DEF AvInv, Owned
<1>8. PendingOK'
  <2> SUFFICES ASSUME NEW s \in Reqs, Pending(s)'
               PROVE  /\ Stored(req[s].upload)'
                      /\ \A u \in Users : row'[u].avatar # req'[s].upload
                      /\ \A t \in Reqs : /\ req'[t].current # req'[s].upload
                                         /\ t # s => req'[t].upload # req'[s].upload
    BY DEF PendingOK
  <2>1. CASE s = r
    BY <1>1, <1>2, <1>3, <1>5, <2>1 DEF Stored
  <2>2. CASE s # r
    <3>1. Pending(s) /\ req'[s] = req[s] /\ req[s].upload # f
      BY <1>2, <1>5, <2>2 DEF Pending, At
    <3>2. Stored(req[s].upload)'
      <4>1. Stored(req[s].upload) /\ req[s].upload \in Files
        BY <1>1, <3>1, TypedFacts DEF AvInv, PendingOK, Pending, Request
      <4> QED
        BY <1>3, <3>1, <4>1 DEF Stored
    <3> QED
      BY <1>1, <1>2, <3>1, <3>2 DEF AvInv, PendingOK
  <2> QED
    BY <2>1, <2>2
<1>9. CompensateOK' /\ CleanUpOK'
  BY <1>1, <1>2 DEF AvInv, CompensateOK, CleanUpOK, At
<1>10. AvatarsServed'
  BY <1>1, <1>3, <1>5, TypedFacts DEF AvInv, AvatarsServed, Stored
<1> QED
  BY <1>4, <1>6, <1>7, <1>8, <1>9, <1>10 DEF AvInv

\* The provider has kept a file that no row and no request knows.
LEMMA UploadUnansweredKeeps ==
  ASSUME AvInv, NEW r \in Reqs, NEW f \in Files, UploadUnanswered(r, f) PROVE AvInv'
<1>1. /\ Typed /\ At(r, "upload") /\ ~At(r, "idle") /\ disk[f].st = "unused" /\ f # None
      /\ disk' = [disk EXCEPT ![f] = [st |-> "stored", owner |-> req[r].user]]
      /\ Mishap(req[r].user) /\ req' = [req EXCEPT ![r] = Idle] /\ UNCHANGED <<row, lost>>
  BY AvatarAssumption DEF UploadUnanswered, Finish, AvInv, At
<1>2. req'[r] = Idle /\ \A s \in Reqs : s # r => req'[s] = req[s]
  BY <1>1, OneRequest
<1>3. /\ disk'[f].st = "stored" /\ \A g \in Files : g # f => disk'[g] = disk[g]
      /\ req[r].user \in Users
  BY <1>1, TypedFacts
<1>4. Typed'
  <2>1. Idle \in Request
    BY DEF Idle, Request
  <2>2. disk' \in [Files -> [st : {"unused", "stored", "removed"}, owner : Users \cup {None}]]
    <3>1. [st |-> "stored", owner |-> req[r].user]
            \in [st : {"unused", "stored", "removed"}, owner : Users \cup {None}]
      BY <1>3
    <3> QED
      BY <1>1, <3>1, TypedFacts
  <2>3. mishaps' \in [Users -> Nat]
    BY <1>1, <1>3, MishapTyped
  <2>4. TypeOK'
    BY <1>1, <2>1, <2>2, <2>3, TypedFacts DEF TypeOK, Request
  <2> QED
    BY <1>1, <1>2, <2>4, IdleEmpty, TypedFacts DEF Typed, At
\* f was nowhere before.
<1>5. /\ \A u \in Users : row[u].avatar # f /\ row[u].avatar \in Files \cup {None}
      /\ \A s \in Reqs : /\ req[s].upload # f /\ req[s].current # f
                         /\ req[s].upload \in Files \cup {None}
                         /\ req[s].current \in Files \cup {None}
  BY <1>1, TypedFacts, RequestStep DEF AvInv, Fresh
<1>6. Fresh'
  BY <1>1, <1>2, <1>3, IdleEmpty, AvatarAssumption DEF AvInv, Fresh
<1>7. Owned'
  BY <1>1, <1>2, <1>3, <1>5, IdleEmpty DEF AvInv, Owned
<1>8. PendingOK'
  <2> SUFFICES ASSUME NEW s \in Reqs, Pending(s)'
               PROVE  /\ Stored(req[s].upload)'
                      /\ \A u \in Users : row'[u].avatar # req'[s].upload
                      /\ \A t \in Reqs : /\ req'[t].current # req'[s].upload
                                         /\ t # s => req'[t].upload # req'[s].upload
    BY DEF PendingOK
  <2>1. s # r /\ req'[s] = req[s] /\ Pending(s) /\ req[s].upload \in Files /\ req[s].upload # None
    BY <1>2, <1>5, IdleEmpty DEF Pending, At
  <2>2. Stored(req[s].upload)'
    BY <1>3, <1>5, <2>1 DEF AvInv, PendingOK, Stored
  <2> QED
    BY <1>1, <1>2, <2>1, <2>2, IdleEmpty DEF AvInv, PendingOK
<1>9. CompensateOK' /\ CleanUpOK'
  BY <1>1, <1>2, IdleEmpty DEF AvInv, CompensateOK, CleanUpOK, At
<1>10. AvatarsServed'
  BY <1>1, <1>3, <1>5 DEF AvInv, AvatarsServed, Stored
<1> QED
  BY <1>4, <1>6, <1>7, <1>8, <1>9, <1>10 DEF AvInv

\* The failed UPDATE has left the file pending; it is in no row.
LEMMA WriteFailsKeeps == ASSUME AvInv, NEW r \in Reqs, WriteFails(r) PROVE AvInv'
<1>1. Typed /\ At(r, "write") /\ UNCHANGED <<row, disk, mishaps, lost>>
  BY DEF WriteFails, AvInv
<1>2. CASE req[r].upload = None
  BY <1>1, <1>2, FinishKeeps, TypedFacts DEF WriteFails, Compensation
<1>3. CASE req[r].upload # None
  <2>1. Goto(r, "compensate") /\ Pending(r) /\ ~At(r, "idle")
    BY <1>1, <1>3 DEF WriteFails, Compensation, Pending, At
  <2>2. /\ req'[r].pc = "compensate" /\ req'[r].user = req[r].user
        /\ req'[r].current = req[r].current /\ req'[r].upload = req[r].upload
        /\ \A s \in Reqs : s # r => req'[s] = req[s]
    BY <1>1, <2>1, GotoFields
  <2>3. Typed'
    BY <1>1, <2>1, GotoTyped, TypedFacts
  <2>4. Fresh' /\ Owned'
    BY <1>1, <2>2 DEF AvInv, Fresh, Owned
  <2>5. PendingOK' /\ CleanUpOK'
    BY <1>1, <2>2 DEF AvInv, PendingOK, Pending, CleanUpOK, At, Stored
  <2>6. CompensateOK'
    BY <1>1, <2>1, <2>2 DEF AvInv, PendingOK, CompensateOK, At
  <2>7. AvatarsServed'
    BY <1>1 DEF AvInv, AvatarsServed, Stored
  <2> QED
    BY <2>3, <2>4, <2>5, <2>6, <2>7 DEF AvInv
<1> QED
  BY <1>2, <1>3

\* The row takes the request's file, or NULL.
LEMMA WrittenRow ==
  ASSUME Typed, NEW r \in Reqs, Written(r), ~At(r, "idle")
  PROVE  /\ row' \in [Users -> [exists : BOOLEAN, avatar : Files \cup {None}]]
         /\ req[r].user \in Users
         /\ row'[req[r].user].avatar = req[r].upload
         /\ \A u \in Users : u # req[r].user => row'[u] = row[u]
<1>1. req[r].user \in Users /\ req[r] \in Request
  BY TypedFacts
<1>2. req[r].upload \in Files \cup {None}
  BY <1>1, RequestStep
<1>3. row \in [Users -> Row] /\ row[req[r].user] \in Row
  BY <1>1, TypedFacts DEF Row
<1>4. [row[req[r].user] EXCEPT !.avatar = req[r].upload] \in Row
  BY <1>2, <1>3, RowStep
<1>5. row' = [row EXCEPT ![req[r].user] = [row[req[r].user] EXCEPT !.avatar = req[r].upload]]
  BY DEF Written
<1>6. row' \in [Users -> Row]
  BY <1>3, <1>4, <1>5
<1>7. row'[req[r].user].avatar = req[r].upload
  BY <1>1, <1>3, <1>5 DEF Row
<1> QED
  BY <1>1, <1>3, <1>5, <1>6, <1>7 DEF Row

\* What holds after an UPDATE wherever the request goes, unless it ends.
LEMMA WrittenKeeps ==
  ASSUME AvInv, NEW r \in Reqs, At(r, "write"), Written(r), UNCHANGED disk,
         NEW pc \in {"compensate", "cleanUp"}, Goto(r, pc), mishaps' \in [Users -> Nat],
         lost \subseteq lost', lost' \subseteq Files,
         pc = "compensate" => req[r].upload = None \/ req[r].upload \in lost'
  PROVE  AvInv'
<1>1. Typed /\ ~At(r, "idle")
  BY DEF AvInv, At
<1>2. /\ row' \in [Users -> [exists : BOOLEAN, avatar : Files \cup {None}]]
      /\ req[r].user \in Users
      /\ row'[req[r].user].avatar = req[r].upload
      /\ \A u \in Users : u # req[r].user => row'[u] = row[u]
  BY <1>1, WrittenRow
<1>3. /\ req'[r].pc = pc /\ req'[r].user = req[r].user
      /\ req'[r].current = req[r].current /\ req'[r].upload = req[r].upload
      /\ \A s \in Reqs : s # r => req'[s] = req[s]
  BY <1>1, GotoFields
<1>4. Typed'
  BY <1>1, <1>2, GotoTyped
\* The file was pending, and in nobody else's hands.
<1>5. req[r].upload # None =>
        /\ Stored(req[r].upload)
        /\ \A s \in Reqs : req[s].current # req[r].upload /\ (s # r => req[s].upload # req[r].upload)
  BY DEF AvInv, PendingOK, Pending
<1>6. Fresh'
  BY <1>2, <1>3, <1>5, AvatarAssumption DEF AvInv, Fresh
<1>7. Owned'
  BY <1>2, <1>3 DEF AvInv, Owned
<1>8. PendingOK'
  BY <1>2, <1>3, <1>5 DEF AvInv, PendingOK, Pending, At, Stored
<1>9. CompensateOK'
  BY <1>2, <1>3, <1>5 DEF AvInv, CompensateOK, At
\* The file that r read as current belongs to r's user, and has left the row.
<1>10. CleanUpOK'
  <2> SUFFICES ASSUME NEW s \in Reqs, At(s, "cleanUp")', req'[s].current # None, NEW u \in Users
               PROVE  row'[u].avatar # req'[s].current
    BY DEF CleanUpOK
  <2>1. req'[s].current = req[s].current
    BY <1>3
  <2>2. CASE u = req[r].user
    BY <1>2, <1>5, <2>1, <2>2
  <2>3. CASE u # req[r].user /\ s # r
    BY <1>2, <1>3, <2>3 DEF AvInv, CleanUpOK, At
  <2>4. CASE u # req[r].user /\ s = r
    BY <1>2, <1>3, <2>4 DEF AvInv, Owned
  <2> QED
    BY <2>2, <2>3, <2>4
<1>11. AvatarsServed'
  BY <1>2, <1>5 DEF AvInv, AvatarsServed, Stored
<1> QED
  BY <1>4, <1>6, <1>7, <1>8, <1>9, <1>10, <1>11 DEF AvInv

\* DeleteAvatar's UPDATE takes the avatar away, and the request ends.
LEMMA ClearedKeeps ==
  ASSUME AvInv, NEW r \in Reqs, ~At(r, "idle"), UNCHANGED <<disk, lost>>,
         row' \in [Users -> [exists : BOOLEAN, avatar : Files \cup {None}]],
         \A u \in Users : row'[u].avatar \in {row[u].avatar, None},
         mishaps' \in [Users -> Nat], Finish(r)
  PROVE  AvInv'
<1>1. Typed /\ req' = [req EXCEPT ![r] = Idle]
  BY DEF Finish, AvInv
<1>2. req'[r] = Idle /\ \A s \in Reqs : s # r => req'[s] = req[s]
  BY <1>1, OneRequest
<1>3. Typed'
  <2>1. Idle \in Request
    BY DEF Idle, Request
  <2>2. TypeOK'
    BY <1>1, <2>1 DEF Typed, TypeOK, Request
  <2> QED
    BY <1>1, <1>2, <2>2, IdleEmpty DEF Typed, At
<1>4. Fresh'
  BY <1>2, IdleEmpty, AvatarAssumption DEF AvInv, Fresh
<1>5. Owned' /\ CompensateOK' /\ CleanUpOK'
  BY <1>2, IdleEmpty DEF AvInv, Owned, CompensateOK, CleanUpOK, At, Stored
<1>6. PendingOK'
  BY <1>2, IdleEmpty DEF AvInv, PendingOK, Pending, At, Stored
<1>7. AvatarsServed'
  BY DEF AvInv, AvatarsServed, Stored
<1> QED
  BY <1>3, <1>4, <1>5, <1>6, <1>7 DEF AvInv
-----------------------------------------------------------------------------
(* The actions *)

LEMMA WriteKeeps == ASSUME AvInv, NEW r \in Reqs, Write(r) PROVE AvInv'
<1>1. /\ At(r, "write") /\ Written(r) /\ Goto(r, "cleanUp") /\ UNCHANGED <<disk, mishaps, lost>>
      /\ Typed
  BY DEF Write, AvInv
<1>2. mishaps' \in [Users -> Nat] /\ lost \subseteq lost' /\ lost' \subseteq Files
  BY <1>1, TypedFacts
<1> QED
  BY <1>1, <1>2, WrittenKeeps

LEMMA WriteUnansweredKeeps == ASSUME AvInv, NEW r \in Reqs, WriteUnanswered(r) PROVE AvInv'
<1>1. /\ At(r, "write") /\ Written(r) /\ UNCHANGED disk /\ Mishap(req[r].user) /\ Compensation(r)
      /\ lost' = lost \cup ({req[r].upload} \ {None})
      /\ Typed /\ ~At(r, "idle")
  BY DEF WriteUnanswered, AvInv, At
<1>2. mishaps' \in [Users -> Nat]
  BY <1>1, MishapTyped, TypedFacts
<1>3. req[r].upload \in Files \cup {None}
  BY <1>1, TypedFacts, RequestStep
<1>4. CASE req[r].upload = None
  <2>1. /\ row' \in [Users -> [exists : BOOLEAN, avatar : Files \cup {None}]]
        /\ row'[req[r].user].avatar = None
        /\ \A u \in Users : u # req[r].user => row'[u] = row[u]
    BY <1>1, <1>4, WrittenRow
  <2>2. \A u \in Users : row'[u].avatar \in {row[u].avatar, None}
    BY <2>1
  <2>3. Finish(r) /\ lost' = lost
    BY <1>1, <1>4 DEF Compensation
  <2> QED
    BY <1>1, <1>2, <2>1, <2>2, <2>3, ClearedKeeps
<1>5. CASE req[r].upload # None
  <2>1. Goto(r, "compensate")
    BY <1>1, <1>5 DEF Compensation
  <2>2. lost \subseteq lost' /\ lost' \subseteq Files /\ req[r].upload \in lost'
    BY <1>1, <1>3, <1>5, TypedFacts
  <2> QED
    BY <1>1, <1>2, <2>1, <2>2, WrittenKeeps
<1> QED
  BY <1>4, <1>5

LEMMA DeleteRowKeeps == ASSUME AvInv, NEW r \in Reqs, DeleteRow(r) PROVE AvInv'
<1>1. /\ Typed /\ At(r, "delete") /\ ~At(r, "idle") /\ UNCHANGED <<disk, lost>>
      /\ row' = [row EXCEPT ![req[r].user] = [exists |-> FALSE, avatar |-> None]]
      /\ \/ Goto(r, "cleanUp") /\ UNCHANGED mishaps
         \/ Finish(r) /\ Mishap(req[r].user)
  BY DEF DeleteRow, AvInv, At
<1>2. /\ req[r].user \in Users
      /\ row' \in [Users -> [exists : BOOLEAN, avatar : Files \cup {None}]]
      /\ row'[req[r].user].avatar = None
      /\ \A u \in Users : u # req[r].user => row'[u] = row[u]
  BY <1>1, TypedFacts
<1>3. \A u \in Users : row'[u].avatar \in {row[u].avatar, None}
  BY <1>2
<1>4. CASE Finish(r) /\ Mishap(req[r].user)
  <2>1. mishaps' \in [Users -> Nat]
    BY <1>1, <1>4, MishapTyped, TypedFacts
  <2> QED
    BY <1>1, <1>2, <1>3, <1>4, <2>1, ClearedKeeps
<1>5. CASE Goto(r, "cleanUp") /\ UNCHANGED mishaps
  <2>1. /\ req'[r].pc = "cleanUp" /\ req'[r].user = req[r].user
        /\ req'[r].current = req[r].current /\ req'[r].upload = req[r].upload
        /\ \A s \in Reqs : s # r => req'[s] = req[s]
    BY <1>1, <1>5, GotoFields
  <2>2. Typed'
    <3>1. lost' \subseteq Files /\ mishaps' \in [Users -> Nat]
      BY <1>1, <1>5, TypedFacts
    <3> QED
      BY <1>1, <1>2, <1>5, <3>1, GotoTyped
  <2>3. Fresh'
    BY <1>1, <1>3, <2>1, AvatarAssumption DEF AvInv, Fresh
  <2>4. Owned'
    BY <1>1, <1>2, <2>1 DEF AvInv, Owned
  <2>5. PendingOK'
    BY <1>1, <1>3, <2>1 DEF AvInv, PendingOK, Pending, At, Stored
  <2>6. CompensateOK'
    BY <1>1, <1>3, <2>1 DEF AvInv, CompensateOK, At
\* The file that r read as current belongs to r's user, whose row is gone.
  <2>7. CleanUpOK'
    <3> SUFFICES ASSUME NEW s \in Reqs, At(s, "cleanUp")', req'[s].current # None, NEW u \in Users
                 PROVE  row'[u].avatar # req'[s].current
      BY DEF CleanUpOK
    <3>1. CASE u = req[r].user
      BY <1>2, <3>1
    <3>2. CASE u # req[r].user /\ s # r
      BY <1>2, <2>1, <3>2 DEF AvInv, CleanUpOK, At
    <3>3. CASE u # req[r].user /\ s = r
      BY <1>2, <2>1, <3>3 DEF AvInv, Owned
    <3> QED
      BY <3>1, <3>2, <3>3
  <2>8. AvatarsServed'
    BY <1>1, <1>3 DEF AvInv, AvatarsServed, Stored
  <2> QED
    BY <2>2, <2>3, <2>4, <2>5, <2>6, <2>7, <2>8 DEF AvInv
<1> QED
  BY <1>1, <1>4, <1>5

\* A file goes that is in no row and in no other request's hands.
LEMMA RemoveKeeps ==
  ASSUME AvInv, NEW r \in Reqs, NEW f \in Files \cup {None},
         f \in {req[r].upload, req[r].current}, ~Pending(r),
         f # None => f \in lost \/ \A u \in Users : row[u].avatar # f,
         Remove(r, f), Finish(r), UNCHANGED <<row, mishaps, lost>>
  PROVE  AvInv'
<1>1. Typed /\ req' = [req EXCEPT ![r] = Idle]
  BY DEF Finish, AvInv
<1>2. req'[r] = Idle /\ \A s \in Reqs : s # r => req'[s] = req[s]
  BY <1>1, OneRequest
<1>3. CASE UNCHANGED disk
  BY <1>1, <1>3, FinishKeeps, TypedFacts
<1>4. CASE f # None /\ Stored(f) /\ disk' = [disk EXCEPT ![f].st = "removed"]
  <2>1. f \in Files
    BY <1>4
  <2>2. disk \in [Files -> File]
    BY <1>1, TypedFacts DEF File
  <2>3. disk' = [disk EXCEPT ![f] = [disk[f] EXCEPT !.st = "removed"]]
    BY <1>4
  <2>4. [disk[f] EXCEPT !.st = "removed"] \in File
    BY <2>1, <2>2, FileStep
  <2>5. disk' \in [Files -> File]
    BY <2>2, <2>3, <2>4
  <2>6. /\ disk'[f].st = "removed" /\ disk'[f].owner = disk[f].owner
        /\ \A g \in Files : g # f => disk'[g] = disk[g]
    BY <2>1, <2>2, <2>3 DEF File
  <2>7. Typed'
    <3>1. Idle \in Request
      BY DEF Idle, Request
    <3>2. TypeOK'
      BY <1>1, <2>5, <3>1 DEF Typed, TypeOK, Request, File
    <3> QED
      BY <1>1, <1>2, <3>2, IdleEmpty DEF Typed, At
  <2>8. \A g \in Files : disk'[g].owner = disk[g].owner /\ (disk'[g].st = "unused" => disk[g].st = "unused")
    BY <2>6
  <2>9. Fresh'
    BY <1>2, <2>8, IdleEmpty, AvatarAssumption DEF AvInv, Fresh
  <2>10. \A s \in Reqs : /\ req[s].upload \in Files \cup {None}
                         /\ req[s].current \in Files \cup {None}
    BY <1>1, TypedFacts, RequestStep
  <2>11. Owned'
    <3>1. \A u \in Users : row[u].avatar \in Files \cup {None}
      BY <1>1, TypedFacts
    <3> QED
      BY <1>2, <2>8, <2>10, <3>1, IdleEmpty DEF AvInv, Owned
  <2>12. PendingOK'
    <3> SUFFICES ASSUME NEW s \in Reqs, Pending(s)'
                 PROVE  /\ Stored(req[s].upload)'
                        /\ \A u \in Users : row'[u].avatar # req'[s].upload
                        /\ \A t \in Reqs : /\ req'[t].current # req'[s].upload
                                           /\ t # s => req'[t].upload # req'[s].upload
      BY DEF PendingOK
    <3>1. s # r /\ req'[s] = req[s] /\ Pending(s) /\ req[s].upload \in Files
      BY <1>2, <2>10, IdleEmpty DEF Pending, At
    <3>2. req[s].upload # f
      BY <3>1 DEF AvInv, PendingOK
    <3>3. Stored(req[s].upload)'
      BY <2>6, <3>1, <3>2 DEF AvInv, PendingOK, Stored
    <3>4. req[s].upload # None
      BY <3>1 DEF Pending
    <3> QED
      BY <1>2, <3>1, <3>3, <3>4, IdleEmpty DEF AvInv, PendingOK
  <2>13. CompensateOK' /\ CleanUpOK'
    BY <1>2, IdleEmpty DEF AvInv, CompensateOK, CleanUpOK, At
  <2>14. AvatarsServed'
    <3> SUFFICES ASSUME NEW u \in Users, row[u].avatar # None
                 PROVE  disk'[row[u].avatar].st = "stored" \/ row[u].avatar \in lost
      BY DEF AvatarsServed, Stored
    <3>1. row[u].avatar \in Files
      BY <1>1, TypedFacts
    <3>2. CASE row[u].avatar = f
      BY <1>4, <3>2
    <3>3. CASE row[u].avatar # f
      BY <2>6, <3>1, <3>3 DEF AvInv, AvatarsServed, Stored
    <3> QED
      BY <3>2, <3>3
  <2> QED
    BY <2>7, <2>9, <2>11, <2>12, <2>13, <2>14 DEF AvInv
<1> QED
  BY <1>3, <1>4 DEF Remove

LEMMA CompensateKeeps == ASSUME AvInv, NEW r \in Reqs, Compensate(r) PROVE AvInv'
<1>1. /\ Typed /\ At(r, "compensate") /\ Remove(r, req[r].upload) /\ Finish(r)
      /\ UNCHANGED <<row, mishaps, lost>>
  BY DEF Compensate, AvInv
<1>2. req[r].upload \in Files \cup {None} /\ ~Pending(r)
  BY <1>1, TypedFacts, RequestStep DEF Pending, At
<1>3. req[r].upload # None => req[r].upload \in lost \/ \A u \in Users : row[u].avatar # req[r].upload
  BY <1>1 DEF AvInv, CompensateOK
<1> QED
  BY <1>1, <1>2, <1>3, RemoveKeeps

LEMMA CleanUpKeeps == ASSUME AvInv, NEW r \in Reqs, CleanUp(r) PROVE AvInv'
<1>1. /\ Typed /\ At(r, "cleanUp") /\ Remove(r, req[r].current) /\ Finish(r)
      /\ UNCHANGED <<row, mishaps, lost>>
  BY DEF CleanUp, AvInv
<1>2. req[r].current \in Files \cup {None} /\ ~Pending(r)
  BY <1>1, TypedFacts, RequestStep DEF Pending, At
<1>3. req[r].current # None => \A u \in Users : row[u].avatar # req[r].current
  BY <1>1 DEF AvInv, CleanUpOK
<1> QED
  BY <1>1, <1>2, <1>3, RemoveKeeps

LEMMA ExpireKeeps == ASSUME AvInv, NEW r \in Reqs, Expire(r) PROVE AvInv'
<1>1. /\ Typed /\ ~At(r, "idle") /\ UNCHANGED <<row, disk, lost>>
      /\ req' = [req EXCEPT ![r] = [req[r] EXCEPT !.expired = TRUE]]
      /\ Mishap(req[r].user)
  BY DEF Expire, AvInv
<1>2. req \in [Reqs -> Request] /\ req[r] \in Request
  BY <1>1, TypedFacts
<1>3. [req[r] EXCEPT !.expired = TRUE] \in Request
  BY <1>2, RequestStep
<1>4. /\ req'[r].pc = req[r].pc /\ req'[r].user = req[r].user
      /\ req'[r].current = req[r].current /\ req'[r].upload = req[r].upload
      /\ \A s \in Reqs : s # r => req'[s] = req[s]
  BY <1>1, <1>2 DEF Request
<1>5. Typed'
  <2>1. req' \in [Reqs -> Request]
    BY <1>1, <1>2, <1>3
  <2>2. mishaps' \in [Users -> Nat]
    BY <1>1, MishapTyped, TypedFacts
  <2>3. TypeOK'
    BY <1>1, <2>1, <2>2, TypedFacts DEF TypeOK, Request
  <2> QED
    BY <1>1, <1>4, <2>3, TypedFacts DEF Typed, At
<1>6. Fresh' /\ Owned'
  BY <1>1, <1>4 DEF AvInv, Fresh, Owned
<1>7. PendingOK'
  BY <1>1, <1>4 DEF AvInv, PendingOK, Pending, At, Stored
<1>8. CompensateOK' /\ CleanUpOK'
  BY <1>1, <1>4 DEF AvInv, CompensateOK, CleanUpOK, At
<1>9. AvatarsServed'
  BY <1>1 DEF AvInv, AvatarsServed, Stored
<1> QED
  BY <1>5, <1>6, <1>7, <1>8, <1>9 DEF AvInv

\* A call fails, or the request ends before its time.
LEMMA EndKeeps ==
  ASSUME AvInv, NEW r \in Reqs, UploadFails(r) \/ DeleteFails(r) \/ Die(r) PROVE AvInv'
<1>1. /\ Typed /\ ~At(r, "idle") /\ Finish(r) /\ UNCHANGED <<row, disk, lost>>
      /\ Mishap(req[r].user) \/ UNCHANGED mishaps
  BY DEF UploadFails, DeleteFails, Die, AvInv, At
<1>2. mishaps' \in [Users -> Nat]
  BY <1>1, MishapTyped, TypedFacts
<1> QED
  BY <1>1, <1>2, FinishKeeps

LEMMA NextAvInv == AvInv /\ [Next]_vars => AvInv'
<1> SUFFICES ASSUME AvInv, [Next]_vars PROVE AvInv'
  OBVIOUS
<1>1. ASSUME NEW r \in Reqs, NEW u \in Users, UpdateAvatar(r, u) \/ DeleteAvatar(r, u) \/ DeleteUser(r, u)
      PROVE  AvInv'
  BY <1>1, BeginKeeps DEF UpdateAvatar, DeleteAvatar, DeleteUser
<1>2. ASSUME NEW r \in Reqs, NEW f \in Files, UploadImage(r, f) \/ UploadUnanswered(r, f) PROVE AvInv'
  BY <1>2, UploadKeeps, UploadUnansweredKeeps
<1>3. ASSUME NEW r \in Reqs, Write(r) \/ WriteFails(r) \/ WriteUnanswered(r) PROVE AvInv'
  BY <1>3, WriteKeeps, WriteFailsKeeps, WriteUnansweredKeeps
<1>4. ASSUME NEW r \in Reqs, DeleteRow(r) \/ Compensate(r) \/ CleanUp(r) \/ Expire(r) PROVE AvInv'
  BY <1>4, DeleteRowKeeps, CompensateKeeps, CleanUpKeeps, ExpireKeeps
<1>5. ASSUME NEW r \in Reqs, UploadFails(r) \/ DeleteFails(r) \/ Die(r) PROVE AvInv'
  BY <1>5, EndKeeps
<1>6. CASE UNCHANGED vars
  BY <1>6 DEF vars, AvInv, Typed, TypeOK, Fresh, Owned, PendingOK, Pending, CompensateOK, CleanUpOK,
     AvatarsServed, At, Stored
<1> QED
  BY <1>1, <1>2, <1>3, <1>4, <1>5, <1>6 DEF Next

\* AvInv is an invariant: Init establishes it and every step keeps it.
LEMMA AvatarInvariance == Spec => []AvInv
<1>1. Init => AvInv
  BY InitAvInv
<1> QED
  BY <1>1, NextAvInv, PTL DEF Spec

\* Every variable has its type, for any number of users, files and requests.
THEOREM AvatarTypeCorrect == Spec => []TypeOK
<1>1. AvInv => TypeOK
  BY DEF AvInv, Typed
<1> QED
  BY <1>1, AvatarInvariance, PTL

\* However many updates, removals and deletions overlap, expire or die half-way:
\* the avatar that a row names is in storage, or its UPDATE was taken for a failure.
THEOREM AvatarsServedAlways == Spec => []AvatarsServed
<1>1. AvInv => AvatarsServed
  BY DEF AvInv
<1> QED
  BY <1>1, AvatarInvariance, PTL
-----------------------------------------------------------------------------
(* What is left behind *)

\* The loose files of a user, and his requests that have not written yet.
LEMMA OwedTypes ==
  ASSUME NEW u
  PROVE  /\ Loose(u) \subseteq Files /\ IsFiniteSet(Loose(u)) /\ Cardinality(Loose(u)) \in Nat
         /\ Early(u) \subseteq Reqs /\ IsFiniteSet(Early(u)) /\ Cardinality(Early(u)) \in Nat
<1>1. Loose(u) \in SUBSET Files /\ Early(u) \in SUBSET Reqs
  BY DEF Loose, Early
<1> QED
  BY <1>1, AvatarAssumption, FS_Subset, FS_CardinalityType

\* The same sets after a step.
LEMMA OwedTypesNext ==
  ASSUME NEW u
  PROVE  /\ IsFiniteSet(Loose(u)') /\ Cardinality(Loose(u)') \in Nat
         /\ IsFiniteSet(Early(u)') /\ Cardinality(Early(u)') \in Nat
<1>1. Loose(u)' \in SUBSET Files /\ Early(u)' \in SUBSET Reqs
  BY DEF Loose, Early
<1> QED
  BY <1>1, AvatarAssumption, FS_Subset, FS_CardinalityType

LEMMA OneMoreLoose ==
  ASSUME NEW u, NEW x, Loose(u)' \subseteq Loose(u) \cup {x}
  PROVE  /\ Cardinality(Loose(u)') <= Cardinality(Loose(u)) + 1
         /\ Loose(u)' \subseteq Loose(u) => Cardinality(Loose(u)') <= Cardinality(Loose(u))
<1>1. Loose(u)' \subseteq Loose(u) => Cardinality(Loose(u)') <= Cardinality(Loose(u))
  BY OwedTypes, FS_Subset
<1>2. IsFiniteSet(Loose(u) \cup {x}) /\ Cardinality(Loose(u) \cup {x}) <= Cardinality(Loose(u)) + 1
  BY OwedTypes, FS_AddElement
<1>3. Cardinality(Loose(u)') <= Cardinality(Loose(u) \cup {x})
  BY <1>2, FS_Subset
<1>4. Cardinality(Loose(u) \cup {x}) \in Nat
  BY <1>2, FS_CardinalityType
<1> QED
  BY <1>1, <1>2, <1>3, <1>4, OwedTypes, OwedTypesNext

\* A step after which the same requests are early: a file gets loose only with a mishap.
LEMMA Stays ==
  ASSUME Typed, NEW v \in Users, OwedTo(v), Early(v)' = Early(v), Stale(v)' => Stale(v), NEW x,
         Loose(v)' \subseteq Loose(v) \cup {x},
         \/ Loose(v)' \subseteq Loose(v) /\ mishaps'[v] = mishaps[v]
         \/ mishaps'[v] = mishaps[v] + 1
  PROVE  OwedTo(v)'
<1> DEFINE L == Cardinality(Loose(v))
           E == Cardinality(Early(v))
           LN == Cardinality(Loose(v)')
           m == mishaps[v]
           n == mishaps'[v]
<1>1. L \in Nat /\ E \in Nat /\ LN \in Nat /\ m \in Nat
  BY OwedTypes, OwedTypesNext, TypedFacts
<1>2. LN - L <= n - m /\ n \in Nat
  <2>1. LN <= L + 1 /\ (Loose(v)' \subseteq Loose(v) => LN <= L)
    BY OneMoreLoose
  <2>2. (LN <= L /\ n = m) \/ n = m + 1
    BY <2>1
  <2> HIDE DEF L, LN, m, n
  <2> QED
    BY <1>1, <2>1, <2>2
<1>3. L + E <= m + 1
  BY DEF OwedTo
<1>4. (Stale(v) \/ Early(v) = {}) => L + E <= m
  BY DEF OwedTo
<1> HIDE DEF L, E, LN, m, n
<1>5. LN + E <= n + 1 /\ (L + E <= m => LN + E <= n)
  BY <1>1, <1>2, <1>3
<1>6. (Stale(v)' \/ Early(v)' = {}) => LN + E <= n
  BY <1>4, <1>5
<1> QED
  BY <1>5, <1>6 DEF OwedTo, LN, E, n

\* A request that has been early writes or ends: a file gets loose with it only if some
\* request was stale, or with a mishap.
LEMMA Leaves ==
  ASSUME Typed, NEW v \in Users, OwedTo(v), NEW r \in Early(v), Early(v)' = Early(v) \ {r}, NEW x,
         Loose(v)' \subseteq Loose(v) \cup {x},
         \/ Loose(v)' \subseteq Loose(v) /\ mishaps'[v] = mishaps[v]
         \/ Stale(v) /\ mishaps'[v] = mishaps[v]
         \/ mishaps'[v] = mishaps[v] + 1
  PROVE  OwedTo(v)'
<1> DEFINE L == Cardinality(Loose(v))
           E == Cardinality(Early(v))
           LN == Cardinality(Loose(v)')
           EN == Cardinality(Early(v)')
           m == mishaps[v]
           n == mishaps'[v]
<1>1. L \in Nat /\ E \in Nat /\ LN \in Nat /\ EN \in Nat /\ m \in Nat
  BY OwedTypes, OwedTypesNext, TypedFacts
<1>2. EN = E - 1
  BY OwedTypes, FS_RemoveElement
<1>3. L + E <= m + 1
  BY DEF OwedTo
<1>4. Stale(v) => L + E <= m
  BY DEF OwedTo
<1>5. LN <= L + 1 /\ (Loose(v)' \subseteq Loose(v) => LN <= L)
  BY OneMoreLoose
<1> HIDE DEF L, E, LN, EN, m, n
<1>6. \/ LN <= L /\ n = m
      \/ L + E <= m /\ n = m
      \/ n = m + 1
  BY <1>4, <1>5 DEF m, n
<1>7. LN + EN <= n /\ n \in Nat
  BY <1>1, <1>2, <1>3, <1>5, <1>6
<1>8. LN + EN <= n + 1
  BY <1>1, <1>7
<1> QED
  BY <1>7, <1>8 DEF OwedTo, LN, EN, n

\* A step of one request, seen from what the others hold.
LEMMA LooseStep ==
  ASSUME NEW v \in Users, NEW r \in Reqs, \A s \in Reqs : s # r => req'[s] = req[s], NEW X,
         \A f \in Files :
           (Mine(v, f)' /\ f # row'[v].avatar /\ f \notin X /\ (Active(r, v)' => Charge(r)' # f))
             => (Mine(v, f) /\ f # row[v].avatar /\ (Active(r, v) => Charge(r) # f))
  PROVE  Loose(v)' \subseteq Loose(v) \cup X
<1>1. \A s \in Reqs : s # r => /\ Active(s, v)' <=> Active(s, v)
                               /\ Charge(s)' = Charge(s)
  BY DEF Active, Charge, At
<1> SUFFICES ASSUME NEW f \in Files, f \in Loose(v)', f \notin X PROVE f \in Loose(v)
  BY OwedTypes DEF Loose
<1>2. Mine(v, f)' /\ f # row'[v].avatar /\ \A s \in Reqs : Active(s, v)' => Charge(s)' # f
  BY DEF Loose
<1>3. Mine(v, f) /\ f # row[v].avatar /\ (Active(r, v) => Charge(r) # f)
  BY <1>2
<1>4. \A s \in Reqs : Active(s, v) => Charge(s) # f
  BY <1>1, <1>2, <1>3
<1> QED
  BY <1>3, <1>4 DEF Loose

LEMMA EarlyStep ==
  ASSUME NEW v \in Users, NEW r \in Reqs, \A s \in Reqs : s # r => req'[s] = req[s]
  PROVE  /\ \A s \in Reqs : s # r => (s \in Early(v)' <=> s \in Early(v))
         /\ r \in Early(v)' => Early(v)' = Early(v) \cup {r}
         /\ r \notin Early(v)' => Early(v)' = Early(v) \ {r}
<1>1. \A s \in Reqs : s # r => (s \in Early(v)' <=> s \in Early(v))
  BY DEF Early, Active, At
<1>2. Early(v) \subseteq Reqs /\ Early(v)' \subseteq Reqs
  BY DEF Early
<1> QED
  BY <1>1, <1>2

\* A step of a request that is not one of u's leaves u as it is.
LEMMA OthersOwed ==
  ASSUME NEW u \in Users, NEW r \in Reqs, OwedTo(u), \A s \in Reqs : s # r => req'[s] = req[s],
         ~Active(r, u), ~Active(r, u)', row'[u] = row[u], mishaps'[u] = mishaps[u],
         \A f \in Files : Mine(u, f)' <=> Mine(u, f)
  PROVE  OwedTo(u)'
<1>1. \A s \in Reqs : Active(s, u)' <=> Active(s, u)
  BY DEF Active, At
<1>2. \A s \in Reqs : Active(s, u) => s # r /\ req'[s] = req[s]
  OBVIOUS
<1>3. Early(u)' = Early(u)
  BY <1>1, <1>2 DEF Early, At
<1>4. Stale(u)' <=> Stale(u)
  BY <1>2, <1>3 DEF Stale, Early
<1>5. \A s \in Reqs : Active(s, u) => Charge(s)' = Charge(s)
  BY <1>2 DEF Charge, At
<1>6. Loose(u)' = Loose(u)
  BY <1>1, <1>5 DEF Loose
<1> QED
  BY <1>3, <1>4, <1>6 DEF OwedTo

\* The other users need no care in a step that is about one user's request.
LEMMA StepOwed ==
  ASSUME OwedOK, NEW r \in Reqs, NEW v \in Users, v = req[r].user,
         req'[r].user = v \/ At(r, "idle")',
         \A s \in Reqs : s # r => req'[s] = req[s],
         \A u \in Users : u # v => mishaps'[u] = mishaps[u],
         \A u \in Users : u # v => row'[u] = row[u],
         \A u \in Users : u # v => \A f \in Files : Mine(u, f)' <=> Mine(u, f),
         OwedTo(v)'
  PROVE  OwedOK'
<1> SUFFICES ASSUME NEW u \in Users, u # v PROVE OwedTo(u)'
  BY DEF OwedOK
<1>1. OwedTo(u) /\ ~Active(r, u) /\ ~Active(r, u)'
  BY DEF OwedOK, Active, At
<1>2. row'[u] = row[u] /\ mishaps'[u] = mishaps[u] /\ \A f \in Files : Mine(u, f)' <=> Mine(u, f)
  OBVIOUS
<1> QED
  BY <1>1, <1>2, OthersOwed

\* What a step may do to the count of mishaps.
LEMMA MishapFacts ==
  ASSUME Typed, NEW v \in Users, Mishap(v) \/ UNCHANGED mishaps
  PROVE  /\ mishaps' \in [Users -> Nat]
         /\ Mishap(v) => mishaps'[v] = mishaps[v] + 1
         /\ \A u \in Users : u # v => mishaps'[u] = mishaps[u]
<1>1. mishaps \in [Users -> Nat]
  BY TypedFacts
<1> QED
  BY <1>1 DEF Mishap

LEMMA BeginOwed ==
  ASSUME AvInv, OwedOK, NEW r \in Reqs, NEW v \in Users, NEW pc \in {"upload", "write", "delete"},
         Begin(r, v, pc)
  PROVE  OwedOK'
<1> DEFINE q == [Idle EXCEPT !.pc = pc, !.user = v, !.current = row[v].avatar]
<1>1. /\ q.pc = pc /\ q.user = v /\ q.current = row[v].avatar /\ q.upload = None /\ q.expired = FALSE
  BY DEF Idle
<1>2. Typed /\ At(r, "idle") /\ req' = [req EXCEPT ![r] = q] /\ UNCHANGED <<row, disk, lost>>
  BY DEF Begin, AvInv
<1> HIDE DEF q
<1>3. req'[r] = q /\ \A s \in Reqs : s # r => req'[s] = req[s]
  BY <1>2, OneRequest
<1>4. \/ ~Busy(v) /\ UNCHANGED mishaps
      \/ Mishap(v)
  BY DEF Begin
<1>5. \A u \in Users, f \in Files : Mine(u, f)' <=> Mine(u, f)
  BY <1>2 DEF Mine, Stored
<1>6. r \notin Early(v) /\ r \in Early(v)' /\ ~Active(r, v) /\ Charge(r)' = None
  <2>1. r \notin Early(v) /\ ~Active(r, v)
    BY <1>2 DEF Early, Active, At
  <2>2. r \in Early(v)'
    BY <1>1, <1>3 DEF Early, Active, At
  <2>3. Charge(r)' = None
    BY <1>1, <1>3 DEF Charge, At
  <2> QED
    BY <2>1, <2>2, <2>3
<1>7. Loose(v)' \subseteq Loose(v)
  <2>1. Loose(v)' \subseteq Loose(v) \cup {}
    BY <1>2, <1>3, <1>5, <1>6, LooseStep
  <2> QED
    BY <2>1
<1>8. Early(v)' = Early(v) \cup {r}
  BY <1>3, <1>6, EarlyStep
<1>9. Stale(v)' => Stale(v)
  BY <1>1, <1>2, <1>3, <1>8 DEF Stale, Early
<1>10. ~Busy(v) => Early(v) = {}
  BY DEF Busy, Early, Active, At
<1> DEFINE L == Cardinality(Loose(v))
           E == Cardinality(Early(v))
           LN == Cardinality(Loose(v)')
           EN == Cardinality(Early(v)')
           m == mishaps[v]
           n == mishaps'[v]
<1>11. L \in Nat /\ E \in Nat /\ LN \in Nat /\ m \in Nat
  BY <1>2, OwedTypes, OwedTypesNext, TypedFacts
<1>12. LN <= L /\ EN = E + 1
  BY <1>6, <1>7, <1>8, OwedTypes, FS_Subset, FS_AddElement
<1>13. OwedTo(v)
  BY DEF OwedOK
<1>14. OwedTo(v)'
  <2>1. CASE ~Busy(v) /\ UNCHANGED mishaps
    <3>1. Early(v) = {} /\ n = m
      BY <1>10, <2>1
    <3>2. L + E <= m
      BY <1>13, <3>1 DEF OwedTo
    <3>3. E = 0
      BY <3>1, FS_EmptySet
    <3> HIDE DEF L, E, LN, EN, m, n
    <3>4. LN + EN <= n + 1
      BY <1>11, <1>12, <3>1, <3>2, <3>3
    <3>5. ~Stale(v)' /\ Early(v)' # {}
      BY <1>1, <1>2, <1>3, <1>8, <3>1 DEF Stale
    <3> QED
      BY <3>4, <3>5 DEF OwedTo, LN, EN, n
  <2>2. CASE Mishap(v)
    <3>1. n = m + 1
      BY <1>2, <2>2, MishapFacts
    <3>2. L + E <= m + 1
      BY <1>13 DEF OwedTo
    <3>3. Stale(v) => L + E <= m
      BY <1>13 DEF OwedTo
    <3> HIDE DEF L, E, LN, EN, m, n
    <3>4. LN + EN <= n + 1 /\ (L + E <= m => LN + EN <= n)
      BY <1>11, <1>12, <3>1, <3>2
    <3>5. (Stale(v)' \/ Early(v)' = {}) => LN + EN <= n
      BY <1>8, <1>9, <3>3, <3>4
    <3> QED
      BY <3>4, <3>5 DEF OwedTo, LN, EN, n
  <2> QED
    BY <1>4, <2>1, <2>2
<1> SUFFICES ASSUME NEW u \in Users, u # v PROVE OwedTo(u)'
  BY <1>14 DEF OwedOK
<1>15. ~Active(r, u) /\ ~Active(r, u)' /\ row'[u] = row[u] /\ mishaps'[u] = mishaps[u]
  BY <1>1, <1>2, <1>3, <1>4, MishapFacts DEF Active, At
<1>16. OwedTo(u)
  BY DEF OwedOK
<1> QED
  BY <1>3, <1>5, <1>15, <1>16, OthersOwed

\* A fresh file is stored, and the rest of storage stays as it is.
LEMMA StoredFile ==
  ASSUME Typed, NEW v \in Users, NEW f \in Files, disk[f].st = "unused",
         disk' = [disk EXCEPT ![f] = [st |-> "stored", owner |-> v]]
  PROVE  \A u \in Users, g \in Files : g # f \/ u # v => (Mine(u, g)' <=> Mine(u, g))
<1>1. /\ disk'[f].st = "stored" /\ disk'[f].owner = v
      /\ \A g \in Files : g # f => disk'[g] = disk[g]
  BY TypedFacts
<1> QED
  BY <1>1 DEF Mine, Stored

LEMMA UploadOwed ==
  ASSUME AvInv, OwedOK, NEW r \in Reqs, NEW f \in Files, UploadImage(r, f) PROVE OwedOK'
<1>1. Typed /\ At(r, "upload") /\ ~At(r, "idle") /\ ~req[r].expired /\ disk[f].st = "unused"
  BY DEF UploadImage, AvInv, At
<1>2. PICK v \in Users : v = req[r].user
  BY <1>1, TypedFacts
<1>3. /\ disk' = [disk EXCEPT ![f] = [st |-> "stored", owner |-> v]]
      /\ UNCHANGED <<row, mishaps, lost>>
  BY <1>2 DEF UploadImage
<1>4. /\ req'[r].pc = "write" /\ req'[r].user = v /\ req'[r].current = req[r].current
      /\ req'[r].upload = f /\ req'[r].expired = req[r].expired
      /\ \A s \in Reqs : s # r => req'[s] = req[s]
  BY <1>1, <1>2, TypedFacts DEF UploadImage
<1>5. \A u \in Users, g \in Files : g # f \/ u # v => (Mine(u, g)' <=> Mine(u, g))
  BY <1>1, <1>3, StoredFile
<1>6. Charge(r) = None /\ Charge(r)' = f /\ Active(r, v)' /\ r \in Early(v) /\ r \in Early(v)'
  <2>1. Charge(r) = None
    BY <1>1 DEF Charge, At
  <2>2. Charge(r)' = f
    BY <1>1, <1>4 DEF Charge, At
  <2>3. Active(r, v)' /\ r \in Early(v) /\ r \in Early(v)'
    BY <1>1, <1>2, <1>4 DEF Active, Early, At
  <2> QED
    BY <2>1, <2>2, <2>3
<1>7. Loose(v)' \subseteq Loose(v) \cup {}
  <2>1. \A g \in Files : Mine(v, g)' /\ g # row'[v].avatar /\ Charge(r)' # g =>
          Mine(v, g) /\ g # row[v].avatar /\ Charge(r) # g
    BY <1>3, <1>5, <1>6, AvatarAssumption
  <2> QED
    BY <1>4, <1>6, <2>1, LooseStep
<1>8. Early(v)' = Early(v)
  BY <1>4, <1>6, EarlyStep
<1>9. Stale(v)' => Stale(v)
  BY <1>3, <1>4, <1>8 DEF Stale, Early
<1>10. OwedTo(v)'
  BY <1>1, <1>3, <1>7, <1>8, <1>9, Stays DEF OwedOK
<1> QED
  BY <1>2, <1>3, <1>4, <1>5, <1>10, StepOwed

\* A request of v that was early ends, or goes on to compensate what it has stored.
LEMMA EndsEarly ==
  ASSUME AvInv, OwedOK, NEW r \in Reqs, NEW v \in Users, v = req[r].user,
         At(r, "upload") \/ At(r, "write") \/ At(r, "delete"),
         At(r, "idle")' \/ (req'[r].pc = "compensate" /\ req'[r].user = v),
         \A s \in Reqs : s # r => req'[s] = req[s],
         NEW x,
         \A f \in Files :
           (Mine(v, f)' /\ f # row'[v].avatar /\ f # x /\ (At(r, "idle")' \/ Charge(r)' # f))
             => (Mine(v, f) /\ f # row[v].avatar /\ Charge(r) # f),
         Mishap(v) \/ (x = None /\ UNCHANGED mishaps),
         \A u \in Users : u # v => row'[u] = row[u],
         \A u \in Users : u # v => \A f \in Files : Mine(u, f)' <=> Mine(u, f)
  PROVE  OwedOK'
<1>1. Typed /\ OwedTo(v)
  BY DEF AvInv, OwedOK
<1>2. r \in Early(v) /\ r \notin Early(v)'
  BY DEF Early, Active, At
<1>3. Early(v)' = Early(v) \ {r}
  BY <1>2, EarlyStep
<1>4. Loose(v)' \subseteq Loose(v) \cup {x}
  <2>1. Active(r, v) /\ (Active(r, v)' <=> ~At(r, "idle")')
    BY DEF Active, At
  <2>2. \A f \in Files :
          (Mine(v, f)' /\ f # row'[v].avatar /\ f \notin {x} /\ (Active(r, v)' => Charge(r)' # f))
            => (Mine(v, f) /\ f # row[v].avatar /\ (Active(r, v) => Charge(r) # f))
    BY <2>1
  <2> QED
    BY <2>2, LooseStep
<1>5. x = None => Loose(v)' \subseteq Loose(v)
  BY <1>4, OwedTypesNext, AvatarAssumption DEF Loose
<1>6. \/ Loose(v)' \subseteq Loose(v) /\ mishaps'[v] = mishaps[v]
      \/ mishaps'[v] = mishaps[v] + 1
  BY <1>1, <1>5, MishapFacts
<1>7. OwedTo(v)'
  BY <1>1, <1>2, <1>3, <1>4, <1>6, Leaves
<1>8. \A u \in Users : u # v => mishaps'[u] = mishaps[u]
  BY <1>1, MishapFacts
<1>9. req'[r].user = v \/ At(r, "idle")'
  OBVIOUS
<1> QED
  BY <1>7, <1>8, <1>9, StepOwed

LEMMA UploadUnansweredOwed ==
  ASSUME AvInv, OwedOK, NEW r \in Reqs, NEW f \in Files, UploadUnanswered(r, f) PROVE OwedOK'
<1>1. /\ Typed /\ At(r, "upload") /\ ~At(r, "idle") /\ disk[f].st = "unused"
      /\ req' = [req EXCEPT ![r] = Idle] /\ UNCHANGED row
  BY DEF UploadUnanswered, Finish, AvInv, At
<1>2. PICK v \in Users : v = req[r].user
  BY <1>1, TypedFacts
<1>3. disk' = [disk EXCEPT ![f] = [st |-> "stored", owner |-> v]] /\ Mishap(v)
  BY <1>2 DEF UploadUnanswered
<1>4. At(r, "idle")' /\ \A s \in Reqs : s # r => req'[s] = req[s]
  BY <1>1, OneRequest, IdleEmpty DEF At
<1>5. \A u \in Users, g \in Files : g # f \/ u # v => (Mine(u, g)' <=> Mine(u, g))
  BY <1>1, <1>3, StoredFile
<1>6. Charge(r) = None
  BY <1>1 DEF Charge, At
<1>7. \A g \in Files : Mine(v, g)' /\ g # row'[v].avatar /\ g # f =>
        Mine(v, g) /\ g # row[v].avatar /\ Charge(r) # g
  BY <1>1, <1>5, <1>6, AvatarAssumption
<1>8. /\ \A u \in Users : u # v => row'[u] = row[u]
      /\ \A u \in Users : u # v => \A g \in Files : Mine(u, g)' <=> Mine(u, g)
  BY <1>1, <1>5
<1> QED
  BY <1>1, <1>2, <1>3, <1>4, <1>7, <1>8, EndsEarly

LEMMA FailsOwed ==
  ASSUME AvInv, OwedOK, NEW r \in Reqs, UploadFails(r) \/ DeleteFails(r) \/ WriteFails(r)
  PROVE  OwedOK'
<1>1. /\ Typed /\ UNCHANGED <<row, disk, mishaps, lost>>
      /\ At(r, "upload") \/ At(r, "write") \/ At(r, "delete")
      /\ Finish(r) \/ (Goto(r, "compensate") /\ At(r, "write"))
      /\ Finish(r) => Charge(r) = None
      /\ ~At(r, "idle")
  <2>1. CASE UploadFails(r)
    BY <2>1 DEF UploadFails, AvInv, Charge, At
  <2>2. CASE DeleteFails(r)
    BY <2>2 DEF DeleteFails, AvInv, Charge, At
  <2>3. CASE WriteFails(r)
    <3>1. Typed /\ At(r, "write") /\ Compensation(r) /\ UNCHANGED <<row, disk, mishaps, lost>>
      BY <2>3 DEF WriteFails, AvInv
    <3>2. CASE req[r].upload = None
      BY <3>1, <3>2 DEF Compensation, Charge, At
    <3>3. CASE req[r].upload # None
      <4>1. Goto(r, "compensate")
        BY <3>1, <3>3 DEF Compensation
      <4>2. req'[r].pc = "compensate" /\ Idle.pc = "idle"
        BY <3>1, <4>1, GotoFields, IdleEmpty
      <4>3. ~Finish(r)
        BY <3>1, <4>2, OneRequest DEF Finish
      <4> QED
        BY <3>1, <4>1, <4>3 DEF At
    <3> QED
      BY <3>2, <3>3
  <2> QED
    BY <2>1, <2>2, <2>3
<1>2. PICK v \in Users : v = req[r].user
  BY <1>1, TypedFacts
<1>3. \A u \in Users, f \in Files : Mine(u, f)' <=> Mine(u, f)
  BY <1>1 DEF Mine, Stored
<1>4. CASE Finish(r)
  <2>1. At(r, "idle")' /\ \A s \in Reqs : s # r => req'[s] = req[s]
    BY <1>1, <1>4, OneRequest, IdleEmpty DEF At, Finish
  <2>2. \A f \in Files : Mine(v, f)' /\ f # row'[v].avatar =>
          Mine(v, f) /\ f # row[v].avatar /\ Charge(r) # f
    BY <1>1, <1>3, <1>4, AvatarAssumption
  <2> QED
    BY <1>1, <1>2, <1>3, <2>1, <2>2, EndsEarly
<1>5. CASE Goto(r, "compensate") /\ At(r, "write")
  <2>1. /\ req'[r].pc = "compensate" /\ req'[r].user = v
        /\ req'[r].upload = req[r].upload /\ req'[r].expired = req[r].expired
        /\ \A s \in Reqs : s # r => req'[s] = req[s]
    BY <1>1, <1>2, <1>5, GotoFields
  <2>2. Charge(r)' = Charge(r) /\ ~At(r, "idle")'
    BY <1>5, <2>1 DEF Charge, At
  <2>3. \A f \in Files : Mine(v, f)' /\ f # row'[v].avatar /\ Charge(r)' # f =>
          Mine(v, f) /\ f # row[v].avatar /\ Charge(r) # f
    BY <1>1, <1>3, <2>2
  <2> QED
    BY <1>1, <1>2, <1>3, <2>1, <2>2, <2>3, EndsEarly
<1> QED
  BY <1>1, <1>4, <1>5

\* The avatar leaves the row with the request that takes charge of what it had read as
\* current: the two are the same file unless the request was stale.
LEMMA ReplacedOwed ==
  ASSUME AvInv, OwedOK, NEW r \in Reqs, NEW v \in Users, v = req[r].user,
         At(r, "write") \/ At(r, "delete"), ~req[r].expired, Goto(r, "cleanUp"),
         UNCHANGED <<disk, mishaps>>,
         \A u \in Users : u # v => row'[u] = row[u],
         Charge(r) # None => row'[v].avatar = Charge(r)
  PROVE  OwedOK'
<1> DEFINE old == row[v].avatar
<1>1. Typed /\ OwedTo(v)
  BY DEF AvInv, OwedOK
<1>2. /\ req'[r].pc = "cleanUp" /\ req'[r].user = v /\ req'[r].current = req[r].current
      /\ req'[r].expired = req[r].expired
      /\ \A s \in Reqs : s # r => req'[s] = req[s]
  BY <1>1, GotoFields
<1>3. \A u \in Users, f \in Files : Mine(u, f)' <=> Mine(u, f)
  BY DEF Mine, Stored
<1>4. Charge(r)' = req[r].current /\ Active(r, v)'
  BY <1>2 DEF Charge, Active, At
<1>5. r \in Early(v) /\ r \notin Early(v)'
  BY <1>2 DEF Early, Active, At
<1>6. Early(v)' = Early(v) \ {r}
  BY <1>2, <1>5, EarlyStep
<1>7. \A f \in Files :
        (Mine(v, f)' /\ f # row'[v].avatar /\ f \notin {old} /\ (Active(r, v)' => Charge(r)' # f))
          => (Mine(v, f) /\ f # row[v].avatar /\ (Active(r, v) => Charge(r) # f))
  BY <1>3, AvatarAssumption
<1>8. Loose(v)' \subseteq Loose(v) \cup {old}
  BY <1>2, <1>7, LooseStep
<1>9. CASE req[r].current = old
  <2>1. old \notin Loose(v)'
    BY <1>4, <1>9 DEF Loose
  <2>2. Loose(v)' \subseteq Loose(v)
    BY <1>8, <2>1
  <2> QED
    BY <1>1, <1>2, <1>3, <1>5, <1>6, <1>8, <2>2, Leaves, StepOwed
<1>10. CASE req[r].current # old
  <2>1. Stale(v)
    BY <1>5, <1>10 DEF Stale
  <2> QED
    BY <1>1, <1>2, <1>3, <1>5, <1>6, <1>8, <2>1, Leaves, StepOwed
<1> QED
  BY <1>9, <1>10

LEMMA WriteOwed == ASSUME AvInv, OwedOK, NEW r \in Reqs, Write(r) PROVE OwedOK'
<1>1. /\ Typed /\ At(r, "write") /\ ~At(r, "idle") /\ Written(r) /\ Goto(r, "cleanUp")
      /\ ~req[r].expired /\ UNCHANGED <<disk, mishaps, lost>>
  BY DEF Write, AvInv, At
<1>2. PICK v \in Users : v = req[r].user
  BY <1>1, TypedFacts
<1>3. row'[v].avatar = req[r].upload /\ \A u \in Users : u # v => row'[u] = row[u]
  BY <1>1, <1>2, WrittenRow
<1>4. Charge(r) = req[r].upload
  BY <1>1 DEF Charge
<1> QED
  BY <1>1, <1>2, <1>3, <1>4, ReplacedOwed

\* What leaves the row is nobody's, and that is a mishap.
LEMMA WriteUnansweredOwed == ASSUME AvInv, OwedOK, NEW r \in Reqs, WriteUnanswered(r) PROVE OwedOK'
<1>1. /\ Typed /\ At(r, "write") /\ ~At(r, "idle") /\ Written(r) /\ Compensation(r)
      /\ ~req[r].expired /\ Mishap(req[r].user) /\ UNCHANGED disk
  BY DEF WriteUnanswered, AvInv, At
<1>2. PICK v \in Users : v = req[r].user
  BY <1>1, TypedFacts
<1>3. row'[v].avatar = req[r].upload /\ \A u \in Users : u # v => row'[u] = row[u]
  BY <1>1, <1>2, WrittenRow
<1>4. Charge(r) = req[r].upload
  BY <1>1 DEF Charge
<1>5. \A u \in Users, f \in Files : Mine(u, f)' <=> Mine(u, f)
  BY <1>1 DEF Mine, Stored
<1>6. \A f \in Files : Mine(v, f)' /\ f # row'[v].avatar /\ f # row[v].avatar =>
        Mine(v, f) /\ f # row[v].avatar /\ Charge(r) # f
  BY <1>3, <1>4, <1>5
<1>7. CASE Finish(r)
  <2>1. At(r, "idle")' /\ \A s \in Reqs : s # r => req'[s] = req[s]
    BY <1>1, <1>7, OneRequest, IdleEmpty DEF At, Finish
  <2> QED
    BY <1>1, <1>2, <1>3, <1>5, <1>6, <2>1, EndsEarly
<1>8. CASE Goto(r, "compensate")
  <2>1. /\ req'[r].pc = "compensate" /\ req'[r].user = v
        /\ \A s \in Reqs : s # r => req'[s] = req[s]
    BY <1>1, <1>2, <1>8, GotoFields
  <2> QED
    BY <1>1, <1>2, <1>3, <1>5, <1>6, <2>1, EndsEarly
<1> QED
  BY <1>1, <1>7, <1>8 DEF Compensation

LEMMA DeleteRowOwed == ASSUME AvInv, OwedOK, NEW r \in Reqs, DeleteRow(r) PROVE OwedOK'
<1>1. /\ Typed /\ At(r, "delete") /\ ~At(r, "idle") /\ ~req[r].expired /\ UNCHANGED disk
      /\ row' = [row EXCEPT ![req[r].user] = [exists |-> FALSE, avatar |-> None]]
      /\ \/ Goto(r, "cleanUp") /\ UNCHANGED mishaps
         \/ Finish(r) /\ Mishap(req[r].user)
  BY DEF DeleteRow, AvInv, At
<1>2. PICK v \in Users : v = req[r].user
  BY <1>1, TypedFacts
<1>3. row'[v].avatar = None /\ \A u \in Users : u # v => row'[u] = row[u]
  BY <1>1, <1>2, TypedFacts
<1>4. Charge(r) = None
  BY <1>1 DEF Charge, At
<1>5. CASE Goto(r, "cleanUp") /\ UNCHANGED mishaps
  BY <1>1, <1>2, <1>3, <1>4, <1>5, ReplacedOwed
<1>6. CASE Finish(r) /\ Mishap(v)
  <2>1. At(r, "idle")' /\ \A s \in Reqs : s # r => req'[s] = req[s]
    BY <1>1, <1>6, OneRequest, IdleEmpty DEF At, Finish
  <2>2. \A u \in Users, f \in Files : Mine(u, f)' <=> Mine(u, f)
    BY <1>1 DEF Mine, Stored
  <2>3. \A f \in Files : Mine(v, f)' /\ f # row'[v].avatar /\ f # row[v].avatar =>
          Mine(v, f) /\ f # row[v].avatar /\ Charge(r) # f
    BY <1>4, <2>2, AvatarAssumption
  <2> QED
    BY <1>1, <1>2, <1>3, <1>6, <2>1, <2>2, <2>3, EndsEarly
<1> QED
  BY <1>1, <1>2, <1>5, <1>6

\* The file in charge is removed, unless the context is done and it was nobody's already.
LEMMA RemoveOwed ==
  ASSUME AvInv, OwedOK, NEW r \in Reqs, At(r, "compensate") \/ At(r, "cleanUp"),
         NEW f \in Files \cup {None}, f = (IF At(r, "compensate") THEN req[r].upload ELSE req[r].current),
         Remove(r, f), Finish(r), UNCHANGED <<row, mishaps>>
  PROVE  OwedOK'
<1>1. /\ Typed /\ req' = [req EXCEPT ![r] = Idle] /\ disk \in [Files -> File] /\ ~At(r, "idle")
      /\ ~At(r, "upload") /\ ~At(r, "write") /\ ~At(r, "delete")
  BY TypedFacts DEF Finish, AvInv, File, At
<1>2. PICK v \in Users : v = req[r].user
  BY <1>1, TypedFacts
<1>3. At(r, "idle")' /\ \A s \in Reqs : s # r => req'[s] = req[s]
  BY <1>1, OneRequest, IdleEmpty DEF At
<1>4. f # None => disk[f].owner = v
  BY <1>2 DEF AvInv, Owned
<1>5. \A g \in Files : disk'[g].owner = disk[g].owner /\ (g # f => disk'[g] = disk[g])
  BY <1>1 DEF Remove, File
<1>6. \A u \in Users, g \in Files : g # f \/ u # v => (Mine(u, g)' <=> Mine(u, g))
  <2> SUFFICES ASSUME NEW u \in Users, NEW g \in Files, g # f \/ u # v
               PROVE  Mine(u, g)' <=> Mine(u, g)
    OBVIOUS
  <2>1. CASE g # f
    BY <1>5, <2>1 DEF Mine, Stored
  <2>2. CASE g = f
    BY <1>4, <1>5, <2>2, AvatarAssumption DEF Mine
  <2> QED
    BY <2>1, <2>2
<1>7. Charge(r) = (IF req[r].expired THEN None ELSE f)
  BY DEF Charge, At
<1>8. ~req[r].expired /\ f # None => ~Mine(v, f)'
  <2> SUFFICES ASSUME ~req[r].expired, f # None PROVE ~(disk'[f].st = "stored")
    BY DEF Mine, Stored
  <2>1. CASE Stored(f)
    BY <1>1, <2>1 DEF Remove, File
  <2>2. CASE ~Stored(f)
    BY <2>2 DEF Remove, Stored
  <2> QED
    BY <2>1, <2>2
<1>9. req[r].expired => UNCHANGED disk
  BY DEF Remove
<1>10. \A g \in Files : Mine(v, g)' => Mine(v, g) /\ Charge(r) # g
  <2> SUFFICES ASSUME NEW g \in Files, Mine(v, g)' PROVE Mine(v, g) /\ Charge(r) # g
    OBVIOUS
  <2>1. CASE g # f
    BY <1>6, <1>7, <2>1, AvatarAssumption
  <2>2. CASE g = f /\ req[r].expired
    BY <1>7, <1>9, <2>2, AvatarAssumption DEF Mine, Stored
  <2>3. CASE g = f /\ ~req[r].expired
    BY <1>8, <2>3, AvatarAssumption
  <2> QED
    BY <2>1, <2>2, <2>3
<1>11. Loose(v)' \subseteq Loose(v) \cup {}
  BY <1>3, <1>10, LooseStep
<1>12. r \notin Early(v) /\ r \notin Early(v)'
  BY <1>1, <1>3 DEF Early, Active
<1>13. Early(v)' = Early(v)
  BY <1>3, <1>12, EarlyStep
<1>14. Stale(v)' => Stale(v)
  BY <1>3, <1>12, <1>13 DEF Stale, Early
<1>15. OwedTo(v)'
  BY <1>1, <1>11, <1>13, <1>14, Stays DEF OwedOK
<1> QED
  BY <1>2, <1>3, <1>6, <1>15, StepOwed

LEMMA CompensateOwed == ASSUME AvInv, OwedOK, NEW r \in Reqs, Compensate(r) \/ CleanUp(r) PROVE OwedOK'
<1>1. /\ At(r, "compensate") \/ At(r, "cleanUp")
      /\ Remove(r, IF At(r, "compensate") THEN req[r].upload ELSE req[r].current)
      /\ Finish(r) /\ UNCHANGED <<row, mishaps>>
  BY DEF Compensate, CleanUp, At
<1>2. req[r].upload \in Files \cup {None} /\ req[r].current \in Files \cup {None}
  BY TypedFacts, RequestStep DEF AvInv
<1> QED
  BY <1>1, <1>2, RemoveOwed

\* A request lets go of the file in its charge.
LEMMA LostOwed ==
  ASSUME AvInv, OwedOK, NEW r \in Reqs, Die(r) \/ Expire(r) PROVE OwedOK'
<1>1. Typed /\ ~At(r, "idle") /\ UNCHANGED <<row, disk>> /\ Mishap(req[r].user)
  BY DEF Die, Expire, AvInv
<1>2. PICK v \in Users : v = req[r].user
  BY <1>1, TypedFacts
<1>3. \A u \in Users, f \in Files : Mine(u, f)' <=> Mine(u, f)
  BY <1>1 DEF Mine, Stored
<1>4. /\ \A s \in Reqs : s # r => req'[s] = req[s]
      /\ \/ At(r, "idle")'
         \/ req'[r].pc = req[r].pc /\ req'[r].user = v /\ req'[r].current = req[r].current
  <2>1. CASE Die(r)
    BY <1>1, <2>1, OneRequest, IdleEmpty DEF Die, Finish, At
  <2>2. CASE Expire(r)
    <3>1. req \in [Reqs -> Request] /\ req[r] \in Request
      BY <1>1, TypedFacts
    <3> QED
      BY <1>2, <2>2, <3>1 DEF Expire, Request
  <2> QED
    BY <2>1, <2>2
<1>5. \A f \in Files : Mine(v, f)' /\ f # row'[v].avatar /\ f # Charge(r) =>
        Mine(v, f) /\ f # row[v].avatar /\ Charge(r) # f
  BY <1>1, <1>3
<1>6. Loose(v)' \subseteq Loose(v) \cup {Charge(r)}
  BY <1>4, <1>5, LooseStep
<1>7. mishaps'[v] = mishaps[v] + 1 /\ \A u \in Users : u # v => mishaps'[u] = mishaps[u]
  BY <1>1, <1>2, MishapFacts
<1>8. OwedTo(v)
  BY DEF OwedOK
<1>9. OwedTo(v)'
  <2>1. CASE r \in Early(v) /\ r \notin Early(v)'
    BY <1>1, <1>4, <1>6, <1>7, <1>8, <2>1, EarlyStep, Leaves
  <2>2. CASE r \in Early(v) <=> r \in Early(v)'
    <3>1. Early(v)' = Early(v)
      BY <1>4, <2>2, EarlyStep
    <3>2. \A s \in Early(v)' : req'[s].current = req[s].current
      BY <1>4 DEF Early, Active
    <3>3. Stale(v)' => Stale(v)
      BY <1>1, <3>1, <3>2 DEF Stale
    <3> QED
      BY <1>1, <1>6, <1>7, <1>8, <3>1, <3>3, Stays
  <2>3. r \in Early(v)' => r \in Early(v)
    BY <1>1, <1>2, <1>4 DEF Early, Active, At
  <2> QED
    BY <2>1, <2>2, <2>3
<1>10. req'[r].user = v \/ At(r, "idle")'
  BY <1>4
<1>11. \A u \in Users : u # v => row'[u] = row[u]
  BY <1>1
<1> QED
  BY <1>2, <1>3, <1>4, <1>7, <1>9, <1>10, <1>11, StepOwed

LEMMA NextOwed == AvInv /\ OwedOK /\ [Next]_vars => OwedOK'
<1> SUFFICES ASSUME AvInv, OwedOK, [Next]_vars PROVE OwedOK'
  OBVIOUS
<1>1. ASSUME NEW r \in Reqs, NEW u \in Users, UpdateAvatar(r, u) \/ DeleteAvatar(r, u) \/ DeleteUser(r, u)
      PROVE  OwedOK'
  BY <1>1, BeginOwed DEF UpdateAvatar, DeleteAvatar, DeleteUser
<1>2. ASSUME NEW r \in Reqs, NEW f \in Files, UploadImage(r, f) \/ UploadUnanswered(r, f) PROVE OwedOK'
  BY <1>2, UploadOwed, UploadUnansweredOwed
<1>3. ASSUME NEW r \in Reqs, Write(r) \/ WriteUnanswered(r) \/ DeleteRow(r) PROVE OwedOK'
  BY <1>3, WriteOwed, WriteUnansweredOwed, DeleteRowOwed
<1>4. ASSUME NEW r \in Reqs, UploadFails(r) \/ DeleteFails(r) \/ WriteFails(r) PROVE OwedOK'
  BY <1>4, FailsOwed
<1>5. ASSUME NEW r \in Reqs, Compensate(r) \/ CleanUp(r) \/ Die(r) \/ Expire(r) PROVE OwedOK'
  BY <1>5, CompensateOwed, LostOwed
<1>6. CASE UNCHANGED vars
  BY <1>6 DEF vars, OwedOK, OwedTo, Loose, Early, Stale, Active, Mine, Stored, Charge, At
<1> QED
  BY <1>1, <1>2, <1>3, <1>4, <1>5, <1>6 DEF Next

\* However requests overlap, expire, die or lose answers: when a user's requests are over,
\* storage holds at most one file more than the avatar for each such mishap; a failed
\* upload or UPDATE that was answered leaves none.
THEOREM NoStrayFilesAlways == Spec => []NoStrayFiles
<1>1. Init => AvInv /\ OwedOK
  BY InitAvInv
<1>2. AvInv /\ OwedOK => NoStrayFiles
  <2> SUFFICES ASSUME AvInv, OwedOK, NEW u \in Users, ~Busy(u)
               PROVE  Cardinality({f \in Files : Stored(f) /\ disk[f].owner = u /\ f # row[u].avatar})
                        <= mishaps[u]
    BY DEF NoStrayFiles
  <2>1. \A r \in Reqs : ~Active(r, u)
    BY DEF Busy, Active
  <2>2. Loose(u) = {f \in Files : Stored(f) /\ disk[f].owner = u /\ f # row[u].avatar}
    BY <2>1 DEF Loose, Mine
  <2>3. Early(u) = {}
    BY <2>1 DEF Early
  <2>4. Cardinality(Loose(u)) + 0 <= mishaps[u]
    BY <2>3, FS_EmptySet DEF OwedOK, OwedTo
  <2>5. Cardinality(Loose(u)) <= mishaps[u]
    BY <2>4, OwedTypes
  <2> QED
    BY <2>2, <2>5
<1> QED
  BY <1>1, <1>2, NextAvInv, NextOwed, PTL DEF Spec

=============================================================================
