SPECIFICATION Spec
CONSTANTS
  Keys = {k1, k2}
  Callers = {c1, c2}
  Limit = 2
  Window = 2
  IdleTTL = 4
  Period = 2
  MaxDelay = 1
  MaxTime = 8
INVARIANTS AtMostLimit
PROPERTY RefusedOnlyAtLimit
