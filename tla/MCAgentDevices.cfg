CONSTANTS
  Floats <- NumberTexts
  Files <- AllFiles
  Versions = {11, 12, 14, 15}
  PreserveUuid = {"two"}
  Values = {"u2", "new"}
  AvailId <- Avail
  ChangedId <- Changed
  RemovedId <- Removed
  MaxCommands = 2
SPECIFICATION Spec
INVARIANTS ProbeRoundTrip FilterMatchesModel AcceptedSelectsDevice JsonAgrees
CHECK_DEADLOCK FALSE
