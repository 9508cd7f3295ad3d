CONSTANTS
  MaxPackets <- MCMaxPackets
  SpecLsb = FALSE
SPECIFICATION Spec
INVARIANT RoundTrip
CHECK_DEADLOCK FALSE
