\* The comment on the cancellation watcher in exchange.
CONSTANTS
  Budget = 16
  CtxDeadlines <- MCDeadlines
  MinBackoff = 1
  BackoffShare = 16
  NumServers = 1
  MaxXmits = 4
  MaxSlow = 2
  MaxStray = 1
SPECIFICATION Spec
INVARIANTS
  CancelIsPrompt
