SPECIFICATION Spec
CONSTANTS
  None = None
  u1 = u1
  u2 = u2
  e1 = e1
  e1Upper = e1Upper
  e2 = e2
  Users = {u1}
  Spellings = {e1}
  Lower <- McLower
  Passwords = {p1, p2}
  Tokens = {t1, t2}
  Verifs = {}
  Resets = {o1}
  InitUsers <- OneMember
  Reqs = {r1, r2}
  SignedIn = {}
  MaxVersion = 2
  RequireEmailVerification = TRUE
  Kinds = {"login", "logout", "logoutAll", "changePassword"}
PROPERTY PasswordWriteNeedsLiveSession
