CONSTANTS
  Frequencies = {1, 2}
  LegacyTimeout = 3
  HeartbeatFreq = 3
  MaxAge = 7
SPECIFICATION FairSpec
INVARIANTS ReadsItsConnection AnnouncedInTurn HeartbeatsOnTime
PROPERTY CloseCompletes
CHECK_DEADLOCK FALSE
