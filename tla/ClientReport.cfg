\* One report failing over across three servers, anonymous.
CONSTANTS
  r = r
  NoCall = NoCall
  Calls = {r}
  Reports = {r}
  NumServers = 3
  MaxXmits = 1
  Keyed = FALSE
  MaxGarbled = 0
  RidBound = 1
SPECIFICATION FairSpec
INVARIANTS
  ReportFailsOverInOrder
PROPERTIES
  Returns
