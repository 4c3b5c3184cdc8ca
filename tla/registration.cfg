SPECIFICATION Spec
CONSTANTS
  None = None
  u1 = u1
  u2 = u2
  e1 = e1
  e1Upper = e1Upper
  e2 = e2
  Users = {u1, u2}
  Spellings = {e1, e1Upper, e2}
  Lower <- McLower
  Passwords = {p1}
  Tokens = {t1, t2}
  Verifs = {o1, o2, o3}
  Resets = {}
  InitUsers <- Nobody
  Reqs = {r1, r2}
  SignedIn = {}
  MaxVersion = 1
  RequireEmailVerification = TRUE
  Kinds = {"login", "logout", "register", "resend", "verifyEmail", "delete", "seed"}
SYMMETRY Symmetry
INVARIANTS UniqueEmail SessionsOnlyAfterMail
