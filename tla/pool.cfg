SPECIFICATION FairSpec
CONSTANTS
  Reqs = {r1, r2, r3}
  MaxOpenConns = 2
  Served = {"refresh", "resend", "verifyEmail", "logoutAll", "deleteUser"}
INVARIANTS NoHoldAndWait ExhaustedPoolMoves
PROPERTY RequestsFinish
