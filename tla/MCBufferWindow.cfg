CONSTANTS
  Events = {"x", "y"}
  Conditions = {}
  DataSets = {}
  DiscreteSets = {}
  Values = {}
  Codes = {}
  Keys = {}
  EntryValues = {}
  Size = 4
  CheckpointFreq = 3
  Readers = {r1}
  Filters <- EachItem
  Counts <- SomeCounts
  Null = Null
  MaxSequence = 8
SPECIFICATION Spec
INVARIANTS TypeOK WindowIntact CheckpointsAreReplays CurrentIsReplay SampleIsExact
PROPERTY ImplementsLog
