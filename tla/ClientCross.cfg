\* A query and a report on one signed client and one server, one corrupted datagram.
CONSTANTS
  q = q
  r = r
  NoCall = NoCall
  Calls = {q, r}
  Reports = {r}
  NumServers = 1
  MaxXmits = 1
  Keyed = TRUE
  MaxGarbled = 1
  RidBound = 2
SPECIFICATION Spec
INVARIANTS
  OkIsGenuine
PROPERTIES
  ImplementsCall
