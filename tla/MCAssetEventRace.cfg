CONSTANTS
  Ids = {a, b}
  Types = {"Part"}
  ToolTypes = {}
  Documents <- Stored
  MaxAssets = 2
  Devices = {d}
  Threads = {t1, t2}
  Frames = {f}
  Null = Null
  MaxCount = 2
SPECIFICATION Spec
SYMMETRY IdSymmetry
INVARIANT ChangedIsPresent
