\* Three servers, a budget of eighteen ticks, a slow resolver.
CONSTANTS
  Budget = 18
  CtxDeadlines <- MCDeadlines
  MinBackoff = 1
  BackoffShare = 16
  NumServers = 3
  MaxXmits = 4
  MaxSlow = 2
  MaxStray = 1
SPECIFICATION FairSpec
INVARIANTS
  TypeOK
  BudgetHolds
  EveryServerGetsItsShare
  CancelEndsWithTheWait
PROPERTIES
  CallReturns
