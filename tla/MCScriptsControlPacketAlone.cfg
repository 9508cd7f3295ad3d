CONSTANTS
  ScriptNames <- MCScriptNames
  SuperpIpproto = 253
SPECIFICATION Spec
CHECK_DEADLOCK FALSE
INVARIANT
  ControlPacketAlone
