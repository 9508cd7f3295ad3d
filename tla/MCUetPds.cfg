CONSTANTS
  MaxPackets <- MCMaxPackets
  SingleLookup = FALSE
  SampleOverflow = FALSE
SPECIFICATION Spec
INVARIANTS
  TypeOK
  RoundTrip
PROPERTIES
  HLSpec
CHECK_DEADLOCK FALSE
