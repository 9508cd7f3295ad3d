\* Every SES constructor under the MS rule (CPython 3.14 with _pack_); the
\* GCC rule is the subject of MCUetSesSmallRules.cfg.
CONSTANTS
  MaxPackets <- MCMaxPackets
  Rules = {"ms"}
SPECIFICATION Spec
INVARIANTS
  TypeOK
  RoundTrip
PROPERTIES
  HLSpec
CHECK_DEADLOCK FALSE
