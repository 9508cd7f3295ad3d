CONSTANTS
  MaxPackets <- MCMaxPackets
  SingleLookup = TRUE
  SampleOverflow = FALSE
SPECIFICATION Spec
INVARIANTS
  RoundTrip
CHECK_DEADLOCK FALSE
