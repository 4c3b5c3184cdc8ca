----------------------------- MODULE SessionTable -----------------------------
(***************************************************************************)
(* What the session subsystem promises, without tables, versions or locks: *)
(* every user has a set of live refresh tokens.  A token becomes live by a *)
(* login that proved the password after the last KillAll of the user, or   *)
(* in exchange for the live token it replaces; a token that stops being    *)
(* live never comes back.                                                  *)
(***************************************************************************)
CONSTANTS Users, Tokens, Reqs, None

VARIABLES
  live,     \* live tokens of each user
  dead,     \* tokens that were handed out and are not live
  pending   \* whom a login in progress has proved to be

sessionVars == <<live, dead, pending>>

SessionTypeOK ==
  /\ live \in [Users -> SUBSET Tokens]
  /\ dead \subseteq Tokens
  /\ pending \in [Reqs -> Users \cup {None}]

Unissued == Tokens \ (dead \cup UNION {live[u] : u \in Users})

Init ==
  /\ live = [u \in Users |-> {}]
  /\ dead = {}
  /\ pending = [r \in Reqs |-> None]

Authenticate(r, u) ==
  /\ pending[r] = None
  /\ pending' = [pending EXCEPT ![r] = u]
  /\ UNCHANGED <<live, dead>>

Drop(r) ==
  /\ pending' = [pending EXCEPT ![r] = None]
  /\ UNCHANGED <<live, dead>>

Grant(r, t) ==
  /\ pending[r] # None
  /\ t \in Unissued
  /\ live' = [live EXCEPT ![pending[r]] = @ \cup {t}]
  /\ pending' = [pending EXCEPT ![r] = None]
  /\ UNCHANGED dead

\* A login overtaken by KillAll is handed a token that never works.
GrantDead(t) ==
  /\ t \in Unissued
  /\ dead' = dead \cup {t}
  /\ UNCHANGED <<live, pending>>

Rotate(u, t, n) ==
  /\ t \in live[u]
  /\ n \in Unissued
  /\ live' = [live EXCEPT ![u] = (@ \ {t}) \cup {n}]
  /\ dead' = dead \cup {t}
  /\ UNCHANGED pending

Revoke(S) ==
  /\ live' = [u \in Users |-> live[u] \ S]
  /\ dead' = dead \cup (S \cap UNION {live[u] : u \in Users})
  /\ UNCHANGED pending

KillAll(u) ==
  /\ live' = [live EXCEPT ![u] = {}]
  /\ dead' = dead \cup live[u]
  /\ pending' = [r \in Reqs |-> IF pending[r] = u THEN None ELSE pending[r]]

Next ==
  \/ \E r \in Reqs, u \in Users : Authenticate(r, u)
  \/ \E r \in Reqs : Drop(r)
  \/ \E r \in Reqs, t \in Tokens : Grant(r, t)
  \/ \E t \in Tokens : GrantDead(t)
  \/ \E u \in Users, t, n \in Tokens : Rotate(u, t, n)
  \/ \E S \in SUBSET Tokens : Revoke(S)
  \/ \E u \in Users : KillAll(u)

Spec == Init /\ [][Next]_sessionVars
=============================================================================
