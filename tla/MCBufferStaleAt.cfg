CONSTANTS
  Events = {"x", "y"}
  Conditions = {}
  DataSets = {}
  DiscreteSets = {}
  Values = {"v"}
  Codes = {}
  Keys = {}
  EntryValues = {"v"}
  Size = 2
  CheckpointFreq = 1
  Readers = {r1}
  Filters <- AllItems
  Counts = {}
  Null = Null
  MaxSequence = 5
SPECIFICATION Spec
INVARIANT CurrentAtAnswersAt
