\* Nested containers of which one boundary is a prefix of the other.
CONSTANTS
  BndNum = 2
  BndMax = 4
  OutMax = 4
  Fields <- MCFields
  HeaderLines <- MCHeaderLines
  TextLines <- MCTextLines
  LastPieces <- MCLastPieces
  MaxHeld = 2
  Adjacent = FALSE
SPECIFICATION Spec
CHECK_DEADLOCK FALSE
INVARIANTS
  TypeOK
PROPERTIES
  ImplementsEntities
