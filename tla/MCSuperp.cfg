CONSTANTS
  MaxPackets <- MCMaxPackets
  SpecLsb = TRUE
SPECIFICATION Spec
INVARIANTS TypeOK RoundTrip
PROPERTIES HLSpec
CHECK_DEADLOCK FALSE
