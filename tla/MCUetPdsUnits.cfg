CONSTANTS
  MaxPackets <- MCMaxPackets
  SingleLookup = FALSE
  SampleOverflow = FALSE
SPECIFICATION Spec
INVARIANTS
  UnitsWellFormed
CHECK_DEADLOCK FALSE
