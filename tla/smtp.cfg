SPECIFICATION FairSpec
CONSTANTS
  Timeouts = {0, 2}
  Budgets = {0, 1, 3, 9}
  MaxTime = 9
INVARIANTS NoPlainPassword ReturnsInTime
PROPERTIES ImplementsTransport SendReturns
