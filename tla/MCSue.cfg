CONSTANTS
  MaxPackets <- MCMaxPackets
  Rules = {"gcc", "ms"}
SPECIFICATION Spec
INVARIANTS TypeOK RoundTrip
PROPERTIES HLSpec
CHECK_DEADLOCK FALSE
