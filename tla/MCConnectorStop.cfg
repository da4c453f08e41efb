CONSTANTS
  Frequencies = {1}
  LegacyTimeout = 2
  HeartbeatFreq = 3
  MaxAge = 4
SPECIFICATION FairSpec
PROPERTY StopCompletes
CHECK_DEADLOCK FALSE
