CONSTANTS
  Threads = {t1, t2}
  Requests <- MCRequests
  MaxRequests = 2
  Devices <- MCDevices
  FirstDevice = "d1"
  m_putEnabled = TRUE
  m_putAllowedHosts = {"near"}
  m_slidingBufferSize = 4
  m_fileMap <- MCFileMap
  Sizes = {1, 3}
  SMALL_FILE = 1
  MaxVersions = 2
  MaxObservations = 5
SPECIFICATION Spec
SYMMETRY MCThreads
CONSTRAINT FilesMatter
INVARIANTS PutIsExact ServedFileWhole AcceptedInRange
CHECK_DEADLOCK FALSE
