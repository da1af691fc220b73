\* Two exchanges share the entry of a server that moves.
CONSTANTS
  e1 = e1
  e2 = e2
  a = a
  b = b
  NoEntry = NoEntry
  Exchanges = {e1,e2}
  Addrs = {a, b}
  Home = a
  Remember = FALSE
  TTL = 2
  MaxTime = 4
SPECIFICATION Spec
INVARIANTS
  TypeOK
  BoundedStaleness
