CONSTANTS
  ScriptNames <- MCScriptNames
  SuperpIpproto = 253
SPECIFICATION Spec
CHECK_DEADLOCK FALSE
INVARIANTS
  TypeOK
  OpsMatchTransaction
  SunhNextHdrNamesPayload
  AtomicExtAnnounced
  SesNamedByNextHdr
  CodesReadBack
  AtomicExtMatchesCode
PROPERTIES
  ScriptCompletes
