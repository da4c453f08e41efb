CONSTANTS
  Floats <- NumberTexts
  Files <- TwoDevices
  Versions = {15}
  PreserveUuid = {}
  Values = {"new"}
  AvailId <- Avail
  ChangedId <- Changed
  RemovedId <- Removed
  MaxCommands = 1
SPECIFICATION Spec
INVARIANT ProbedUuidResolves
CHECK_DEADLOCK FALSE
