\* One query racing two servers, with retransmission.
CONSTANTS
  q = q
  NoCall = NoCall
  Calls = {q}
  Reports = {}
  NumServers = 2
  MaxXmits = 2
  Keyed = TRUE
  MaxGarbled = 0
  RidBound = 1
SPECIFICATION FairSpec
INVARIANTS
  TypeOK
  NoAnswerDropped
  QuietOnceTold
PROPERTIES
  Returns
  LegsQuit
