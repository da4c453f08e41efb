CONSTANTS
  Events = {}
  Conditions = {"c"}
  DataSets = {"d", "e"}
  DiscreteSets = {"e"}
  Values = {}
  Codes = {n1, n2}
  Keys = {k1, k2}
  EntryValues = {v1, v2}
  Size = 2
  CheckpointFreq = 2
  Readers = {}
  Filters <- AllItems
  Counts = {}
  Null = Null
  MaxSequence = 6
SPECIFICATION Spec
SYMMETRY MergeSymmetry
INVARIANTS ChainIsActiveSet DataSetIsMerge
CHECK_DEADLOCK FALSE
