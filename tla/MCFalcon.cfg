CONSTANTS
  MaxPackets <- MCMaxPackets
SPECIFICATION Spec
INVARIANTS
  TypeOK
  RoundTrip
  UnitsWellFormed
PROPERTIES
  HLSpec
CHECK_DEADLOCK FALSE
