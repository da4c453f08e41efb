CONSTANTS
  Frequencies = {1}
  LegacyTimeout = 2
  HeartbeatFreq = 3
  MaxAge = 4
SPECIFICATION Spec
INVARIANT CommandHasConnection
CHECK_DEADLOCK FALSE
