\* Both ctypes rules: under the GCC rule (CPython <= 3.13) the small data
\* response comes out 12 bytes long, a byte shorter than the layout of
\* spec.md 4.1, because its c_uint8 : 2 / c_uint16 : 14 pair shares a unit.
CONSTANTS
  MaxPackets <- MCMaxPackets
  Rules = {"gcc", "ms"}
SPECIFICATION Spec
INVARIANTS
  RoundTrip
CHECK_DEADLOCK FALSE
