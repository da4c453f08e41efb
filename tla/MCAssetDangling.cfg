CONSTANTS
  Ids = {a, b}
  Types = {"CuttingTool"}
  ToolTypes = {"CuttingTool"}
  Documents <- Stored
  MaxAssets = 2
  Devices = {d}
  Threads = {t1}
  Frames = {f}
  Null = Null
  MaxCount = 2
SPECIFICATION Spec
SYMMETRY IdSymmetry
INVARIANT NoInvalidAccess
CHECK_DEADLOCK FALSE
