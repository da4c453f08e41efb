CONSTANTS
  Ids = {a, b, c}
  Types = {"Part", "CuttingTool"}
  ToolTypes = {"CuttingTool"}
  Documents <- StoredRemoved
  MaxAssets = 2
  Devices = {d}
  Threads = {t1}
  Frames = {f}
  Null = Null
  MaxCount = 2
SPECIFICATION Spec
SYMMETRY IdSymmetry
INVARIANTS ListMatchesMap ListIsMostRecent
CHECK_DEADLOCK FALSE
