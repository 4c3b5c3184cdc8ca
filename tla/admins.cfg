SPECIFICATION FairSpec
CONSTANTS
  None = None
  u1 = u1
  u2 = u2
  e1 = e1
  e1Upper = e1Upper
  e2 = e2
  Users = {u1, u2}
  Spellings = {e1, e2}
  Lower <- McLower
  Passwords = {p1}
  Tokens = {t1, t2}
  Verifs = {}
  Resets = {}
  InitUsers <- TwoAdmins
  Reqs = {r1, r2}
  SignedIn = {u1}
  MaxVersion = 1
  RequireEmailVerification = TRUE
  Kinds = {"login", "logout", "refresh", "status", "role", "delete"}
INVARIANTS IInv TokensOfExistingUsers
PROPERTIES LastAdminFallsToStaleRequest RequestsFinish
