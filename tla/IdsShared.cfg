\* Two processes register on one file, with failures and crashes.
CONSTANTS
  w1 = w1
  w2 = w2
  Registrars = {w1, w2}
  Ids = {5, 6}
  Passwords = {"plain", "two words"}
  MaxRuns = 3
  Faults = TRUE
SPECIFICATION Spec
INVARIANTS
  TypeOK
  NeverTorn
  Authenticates
PROPERTIES
  RegisterIsIdempotent
  OthersPreservedAlone
