------------------------------- MODULE Database -------------------------------
(***************************************************************************)
(* The PostgreSQL tables the API shares between all its requests           *)
(* (migrations/, internal/repository/), and the effect of each SQL         *)
(* statement on them.                                                      *)
(*                                                                         *)
(* A table is a total function from the keys that can ever be inserted to  *)
(* a row record; "st" is "free" before the INSERT, "row" while the row     *)
(* exists and "gone" after the DELETE.  Keys are random (gen_random_uuid,  *)
(* security.RandomToken), hence never inserted twice.  Times are left out: *)
(* a token that has expired is refused, which is what Abort does in        *)
(* Requests.                                                               *)
(***************************************************************************)
EXTENDS Integers, FiniteSets

CONSTANTS
  Users,      \* primary keys of the table users
  Spellings,  \* the e-mail addresses clients type
  Lower,      \* LOWER() and strings.ToLower on Spellings
  Passwords,
  Tokens,     \* raw values of refresh tokens (one per token_hash)
  Verifs,     \* raw values of e-mail verification tokens
  Resets,     \* raw values of password reset tokens
  None,       \* NULL
  InitUsers   \* the table users at the start

VARIABLES users, refresh, once

tables == <<users, refresh, once>>

OneTime == Verifs \cup Resets
Roles == {"user", "admin"}
Life == {"free", "row", "gone"}

UserRows ==
  [st : Life, email : Spellings \cup {None}, pw : Passwords \cup {None},
   role : Roles, verified : BOOLEAN, active : BOOLEAN, version : Nat]

\* family and cred are history: the token the login handed out that this one
\* was rotated from, and the password that login presented.
RefreshRows ==
  [st : Life, user : Users \cup {None}, version : Nat, revoked : BOOLEAN,
   family : Tokens \cup {None}, cred : Passwords \cup {None}]

\* uses is history: how many requests were let through by this token.
OnceRows == [st : Life, user : Users \cup {None}, used : BOOLEAN, uses : Nat]

NoUser(st) ==
  [st |-> st, email |-> None, pw |-> None, role |-> "user",
   verified |-> FALSE, active |-> FALSE, version |-> 0]
NoRefresh(st) ==
  [st |-> st, user |-> None, version |-> 0, revoked |-> FALSE,
   family |-> None, cred |-> None]
NoOnce(st) == [st |-> st, user |-> None, used |-> FALSE, uses |-> 0]

ASSUME LowerAssumption ==
  /\ Lower \in [Spellings -> Spellings]
  /\ \A s \in Spellings : Lower[Lower[s]] = Lower[s]

ASSUME KeysAssumption ==
  /\ None \notin Users \cup Tokens \cup OneTime \cup Passwords \cup Spellings
  /\ Verifs \cap Resets = {}

ASSUME InitUsersAssumption ==
  /\ InitUsers \in [Users -> UserRows]
  /\ \A u \in Users :
       \/ InitUsers[u] = NoUser("free")
       \/ /\ InitUsers[u].st = "row"
          /\ InitUsers[u].pw \in Passwords
          /\ InitUsers[u].email \in Spellings
          /\ Lower[InitUsers[u].email] = InitUsers[u].email
  /\ \A u, v \in Users :
       InitUsers[u].st = "row" /\ InitUsers[u].email = InitUsers[v].email => u = v

DatabaseTypeOK ==
  /\ users \in [Users -> UserRows]
  /\ refresh \in [Tokens -> RefreshRows]
  /\ once \in [OneTime -> OnceRows]

DatabaseInit ==
  /\ users = InitUsers
  /\ refresh = [t \in Tokens |-> NoRefresh("free")]
  /\ once = [o \in OneTime |-> NoOnce("free")]

-----------------------------------------------------------------------------
(* users *)

Exists(u) == users[u].st = "row"

\* GetByEmail: WHERE LOWER(email) = LOWER($1).
GetByEmail(s) == {u \in Users : Exists(u) /\ Lower[users[u].email] = Lower[s]}

\* Mutant: no unique index.
EmailTaken_NoIndex(e) == FALSE
\* The UNIQUE index on users.email (migrations/000001).
EmailTaken(e) == \E u \in Users : Exists(u) /\ users[u].email = e

\* INSERT INTO users ... VALUES ($1, LOWER($2), ...).
InsertUser(u, s, p) ==
  users' = [users EXCEPT ![u] =
              [st |-> "row", email |-> Lower[s], pw |-> p, role |-> "user",
               verified |-> FALSE, active |-> TRUE, version |-> 0]]

\* Mutant: the version stays.
WritePassword_KeepsVersion(u, p) == users' = [users EXCEPT ![u].pw = p]
\* UPDATE users SET password_hash = $2, token_version = token_version + 1.
WritePassword(u, p) ==
  users' = [users EXCEPT ![u].pw = p, ![u].version = @ + 1]

\* UPDATE users SET token_version = token_version + 1.
IncrementTokenVersion(u) == users' = [users EXCEPT ![u].version = @ + 1]

-----------------------------------------------------------------------------
(* refresh_tokens *)

Unrevoked(t) == refresh[t].st = "row" /\ ~refresh[t].revoked

\* What Rotate accepts: not revoked, and of the user's current version.
Live(t) ==
  /\ Unrevoked(t)
  /\ Exists(refresh[t].user)
  /\ refresh[t].version = users[refresh[t].user].version

\* Mutant: the row gets the version at the INSERT, not the one that was read.
NewRefresh_CurrentVersion(u, v, f, c) ==
  [st |-> "row", user |-> u, version |-> users[u].version, revoked |-> FALSE,
   family |-> f, cred |-> c]
\* A row as Create and Rotate insert it.
NewRefresh(u, v, f, c) ==
  [st |-> "row", user |-> u, version |-> v, revoked |-> FALSE, family |-> f, cred |-> c]

\* UPDATE refresh_tokens SET revoked_at = COALESCE(revoked_at, NOW()).
Revoke(S) ==
  refresh' = [t \in Tokens |->
                IF t \in S /\ refresh[t].st = "row"
                THEN [refresh[t] EXCEPT !.revoked = TRUE] ELSE refresh[t]]

\* The rows WHERE user_id = $1 AND revoked_at IS NULL.
UnrevokedOf(u) == {t \in Tokens : Unrevoked(t) /\ refresh[t].user = u}

-----------------------------------------------------------------------------
(* email_verification_tokens, password_reset_tokens *)

Unused(o) == once[o].st = "row" /\ ~once[o].used

\* The rows of the table K WHERE user_id = $1 AND used_at IS NULL.
UnusedOf(K, u) == {o \in K : Unused(o) /\ once[o].user = u}

NewOnce(u) == [st |-> "row", user |-> u, used |-> FALSE, uses |-> 0]

\* DELETE the unused rows among S, then INSERT o.
ReplaceUnused(S, o, u) ==
  once' = [x \in OneTime |->
             IF x = o THEN NewOnce(u)
             ELSE IF x \in S /\ Unused(x) THEN NoOnce("gone")
             ELSE once[x]]

\* UPDATE ... SET used_at = NOW().
SpendOnce(o) ==
  once' = [once EXCEPT ![o].used = TRUE, ![o].uses = @ + 1]

-----------------------------------------------------------------------------
\* DELETE FROM users WHERE id = $1; every foreign key is ON DELETE CASCADE.
DeleteCascade(u) ==
  /\ users' = [users EXCEPT ![u] = NoUser("gone")]
  /\ refresh' = [t \in Tokens |->
                   IF refresh[t].user = u THEN NoRefresh("gone") ELSE refresh[t]]
  /\ once' = [o \in OneTime |->
                IF once[o].user = u THEN NoOnce("gone") ELSE once[o]]
=============================================================================
