SPECIFICATION FairSpec
CONSTANTS
  Tabs = {b1, b2}
  Tokens = {t1, t2}
  User = User
  None = None
  Keep = Keep
INVARIANTS LogoutSticks LoggedOutTokensDie SessionSurvives
PROPERTY DeadCookieGoes
