SPECIFICATION FairSpec
CONSTANTS
  Conns = {c1, c2}
  Settings <- McSettings
  MaxInt64 = 524287
  Megabyte = 16
INVARIANTS CleanExit ProductionIsStrict ServersAreComplete
PROPERTY SignalEnds
CHECK_DEADLOCK FALSE
