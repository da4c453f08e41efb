CONSTANTS
  Documents <- MCDocuments
  Updates <- MCUpdates
  Clients = {c1, c2}
  Id = "tool"
  DeviceUuid = "u1"
  Numbers <- NumberTexts
  MaxChanges = 3
SPECIFICATION Spec
SYMMETRY ClientSymmetry
INVARIANT ServedIsCurrent
