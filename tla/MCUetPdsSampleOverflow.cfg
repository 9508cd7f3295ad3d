CONSTANTS
  MaxPackets <- MCMaxPackets
  SingleLookup = FALSE
  SampleOverflow = TRUE
SPECIFICATION Spec
INVARIANTS
  RoundTrip
CHECK_DEADLOCK FALSE
