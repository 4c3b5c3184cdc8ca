-------------------------------- MODULE MCApi ---------------------------------
\* Instances of Api for TLC.
EXTENDS ApiInvariant, TLC

CONSTANTS u1, u2, e1, e1Upper, e2

\* Addresses: e1Upper is e1 in other letters.
McLower == [s \in Spellings |-> IF s = e1Upper THEN e1 ELSE s]

Member(email, pw, role, verified) ==
  [NoUser("row") EXCEPT !.email = email, !.pw = pw, !.role = role,
                        !.verified = verified, !.active = TRUE]

SomePassword == CHOOSE p \in Passwords : TRUE

\* One confirmed user.
OneMember == [u \in Users |->
  IF u = u1 THEN Member(e1, SomePassword, "user", TRUE) ELSE NoUser("free")]
\* Two administrators.
TwoAdmins == [u \in Users |->
  IF u = u1 THEN Member(e1, SomePassword, "admin", TRUE)
  ELSE IF u = u2 THEN Member(e2, SomePassword, "admin", TRUE) ELSE NoUser("free")]
\* An administrator and a member.
AdminAndMember == [u \in Users |->
  IF u = u1 THEN Member(e1, SomePassword, "admin", TRUE)
  ELSE IF u = u2 THEN Member(e2, SomePassword, "user", TRUE) ELSE NoUser("free")]
\* Nobody yet.
Nobody == [u \in Users |-> NoUser("free")]

Symmetry == Permutations(Tokens) \cup Permutations(Reqs)
=============================================================================
