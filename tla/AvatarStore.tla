------------------------------ MODULE AvatarStore ------------------------------
(***************************************************************************)
(* Avatars live in two places that no transaction spans: the row of the    *)
(* user (avatar_public_id) and the storage provider (internal/storage).    *)
(* UserService.UpdateAvatar and DeleteAvatar and AdminService.DeleteUser   *)
(* read the row, write it, and clean up the storage after it with what     *)
(* they had read.                                                          *)
(***************************************************************************)
EXTENDS Integers, FiniteSets

CONSTANTS
  Users,  \* whose rows exist at the start, without avatars
  Files,  \* public IDs; UploadImage draws them at random, so each once
  Reqs,   \* requests in flight together
  None,   \* NULL
  MaxMishaps  \* bound: what may go wrong for one user

ASSUME AvatarAssumption ==
  /\ None \notin Users \cup Files
  /\ IsFiniteSet(Files) /\ IsFiniteSet(Reqs)
  /\ MaxMishaps \in Nat

VARIABLES
  row,      \* avatar_public_id, per user
  disk,     \* the storage provider
  req,      \* the requests
  mishaps,  \* history: how often a request of this user overlapped another or lost a step
  lost      \* history: files whose UPDATE was carried out but reported as failed

vars == <<row, disk, req, mishaps, lost>>

Idle == [pc |-> "idle", user |-> None, current |-> None, upload |-> None, expired |-> FALSE]

\* Every variable has its type.
TypeOK ==
  /\ row \in [Users -> [exists : BOOLEAN, avatar : Files \cup {None}]]
  /\ disk \in [Files -> [st : {"unused", "stored", "removed"}, owner : Users \cup {None}]]
  /\ req \in [Reqs -> [pc : {"idle", "upload", "write", "delete", "compensate", "cleanUp"},
                       user : Users \cup {None}, current : Files \cup {None},
                       upload : Files \cup {None}, expired : BOOLEAN]]
  /\ mishaps \in [Users -> Nat]
  /\ lost \subseteq Files

Init ==
  /\ row = [u \in Users |-> [exists |-> TRUE, avatar |-> None]]
  /\ disk = [f \in Files |-> [st |-> "unused", owner |-> None]]
  /\ req = [r \in Reqs |-> Idle]
  /\ mishaps = [u \in Users |-> 0]
  /\ lost = {}

At(r, pc) == req[r].pc = pc
Goto(r, pc) == req' = [req EXCEPT ![r].pc = pc]
Finish(r) == req' = [req EXCEPT ![r] = Idle]
Stored(f) == disk[f].st = "stored"
Busy(u) == \E r \in Reqs : ~At(r, "idle") /\ req[r].user = u
Mishap(u) == mishaps[u] < MaxMishaps /\ mishaps' = [mishaps EXCEPT ![u] = @ + 1]

-----------------------------------------------------------------------------
\* GetByID; the request keeps this copy of the row.
Begin(r, u, pc) ==
  /\ At(r, "idle")
  /\ row[u].exists
  /\ req' = [req EXCEPT ![r] = [Idle EXCEPT !.pc = pc, !.user = u, !.current = row[u].avatar]]
  /\ IF Busy(u) THEN Mishap(u) ELSE UNCHANGED mishaps
  /\ UNCHANGED <<row, disk, lost>>

UpdateAvatar(r, u) == Begin(r, u, "upload")
DeleteAvatar(r, u) == Begin(r, u, "write")
DeleteUser(r, u) == Begin(r, u, "delete")

\* UploadImage: the file is created under a fresh name, or the call fails and
\* leaves nothing, or it fails although the provider has kept the file.
UploadImage(r, f) ==
  /\ At(r, "upload")
  /\ ~req[r].expired
  /\ disk[f].st = "unused"
  /\ disk' = [disk EXCEPT ![f] = [st |-> "stored", owner |-> req[r].user]]
  /\ req' = [req EXCEPT ![r].pc = "write", ![r].upload = f]
  /\ UNCHANGED <<row, mishaps, lost>>

UploadFails(r) ==
  /\ At(r, "upload")
  /\ Finish(r)
  /\ UNCHANGED <<row, disk, mishaps, lost>>

\* The answer is lost, or the process dies before it comes.
UploadUnanswered(r, f) ==
  /\ At(r, "upload")
  /\ ~req[r].expired
  /\ disk[f].st = "unused"
  /\ disk' = [disk EXCEPT ![f] = [st |-> "stored", owner |-> req[r].user]]
  /\ Mishap(req[r].user)
  /\ Finish(r)
  /\ UNCHANGED <<row, lost>>

\* Mutant: DeleteAvatar writes the empty string.
Written_Empty(r) ==
  row' = [row EXCEPT ![req[r].user].avatar =
            IF req[r].upload = None THEN "" ELSE req[r].upload]
\* UserRepository.UpdateAvatar; DeleteAvatar writes NULL.
Written(r) == row' = [row EXCEPT ![req[r].user].avatar = req[r].upload]
Write(r) ==
  /\ At(r, "write")
  /\ ~req[r].expired
  /\ row[req[r].user].exists
  /\ Written(r)
  /\ Goto(r, "cleanUp")
  /\ UNCHANGED <<disk, mishaps, lost>>

\* Mutant: the new file is left where it is.
Compensation_None(r) == Finish(r)
\* On an error the service takes the new file back.
Compensation(r) ==
  IF req[r].upload = None THEN Finish(r) ELSE Goto(r, "compensate")

\* The statement fails, or the row is gone.
WriteFails(r) ==
  /\ At(r, "write")
  /\ Compensation(r)
  /\ UNCHANGED <<row, disk, mishaps, lost>>

\* The server carries it out, and the connection breaks before it says so.
WriteUnanswered(r) ==
  /\ At(r, "write")
  /\ ~req[r].expired
  /\ row[req[r].user].exists
  /\ Written(r)
  /\ lost' = lost \cup ({req[r].upload} \ {None})
  /\ Mishap(req[r].user)
  /\ Compensation(r)
  /\ UNCHANGED disk

\* UserRepository.Delete, and its failures.
DeleteRow(r) ==
  /\ At(r, "delete")
  /\ ~req[r].expired
  /\ row[req[r].user].exists
  /\ row' = [row EXCEPT ![req[r].user] = [exists |-> FALSE, avatar |-> None]]
  /\ \/ Goto(r, "cleanUp") /\ UNCHANGED mishaps
     \/ Finish(r) /\ Mishap(req[r].user)
  /\ UNCHANGED <<disk, lost>>

DeleteFails(r) ==
  /\ At(r, "delete")
  /\ Finish(r)
  /\ UNCHANGED <<row, disk, mishaps, lost>>

\* storage.Delete: with a context that is done it does nothing.
Remove(r, f) ==
  IF f # None /\ ~req[r].expired /\ Stored(f)
  THEN disk' = [disk EXCEPT ![f].st = "removed"] ELSE UNCHANGED disk

\* Mutant: the old file is taken for the new one.
Compensate_OldFile(r) ==
  /\ At(r, "compensate")
  /\ Remove(r, req[r].current)
  /\ Finish(r)
  /\ UNCHANGED <<row, mishaps, lost>>

\* The last step of each request.  UpdateAvatar takes back the new file after
\* an error; otherwise the file that the request had read as current goes.
Compensate(r) ==
  /\ At(r, "compensate")
  /\ Remove(r, req[r].upload)
  /\ Finish(r)
  /\ UNCHANGED <<row, mishaps, lost>>

CleanUp(r) ==
  /\ At(r, "cleanUp")
  /\ Remove(r, req[r].current)
  /\ Finish(r)
  /\ UNCHANGED <<row, mishaps, lost>>

-----------------------------------------------------------------------------
\* The timeout of middleware.Timeout, or the client has gone.
Expire(r) ==
  /\ ~At(r, "idle")
  /\ ~req[r].expired
  /\ req' = [req EXCEPT ![r].expired = TRUE]
  /\ Mishap(req[r].user)
  /\ UNCHANGED <<row, disk, lost>>

\* The process dies, the handler panics, or storage.Delete fails: whatever
\* the request still had to do is not done.
Die(r) ==
  /\ ~At(r, "idle")
  /\ Finish(r)
  /\ Mishap(req[r].user)
  /\ UNCHANGED <<row, disk, lost>>

Next ==
  \/ \E r \in Reqs, u \in Users : UpdateAvatar(r, u) \/ DeleteAvatar(r, u) \/ DeleteUser(r, u)
  \/ \E r \in Reqs, f \in Files : UploadImage(r, f) \/ UploadUnanswered(r, f)
  \/ \E r \in Reqs :
       \/ UploadFails(r) \/ Write(r) \/ WriteFails(r) \/ WriteUnanswered(r)
       \/ DeleteRow(r) \/ DeleteFails(r) \/ Compensate(r) \/ CleanUp(r)
       \/ Expire(r) \/ Die(r)

Spec == Init /\ [][Next]_vars

-----------------------------------------------------------------------------
\* The avatar a profile links to is there: no request, however late, removes
\* a file that a later one has put in its place.  The exception is an UPDATE
\* whose success was taken for a failure and compensated.
AvatarsServed ==
  \A u \in Users : row[u].avatar # None => Stored(row[u].avatar) \/ row[u].avatar \in lost

\* A file is left behind only for something that went wrong, one for one at most: a
\* request that overlapped another of its user, expired, died, or lost an answer.  Failed
\* uploads and UPDATEs are undone.
NoStrayFiles ==
  \A u \in Users : ~Busy(u) =>
    Cardinality({f \in Files : Stored(f) /\ disk[f].owner = u /\ f # row[u].avatar}) <= mishaps[u]
=============================================================================
