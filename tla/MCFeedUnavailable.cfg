CONSTANTS
  Adapters = {"a", "b"}
  Devices = {"mill", "robot"}
  None = "none"
  Items <- MCItems
  Def <- MCDef
  DeviceItems <- MCDeviceItems
  Config <- MCConfig
  Lines <- MCLines
  MaxLines <- MCMaxLines
  MaxBreaks = 1
SPECIFICATION Spec
INVARIANT AllUnavailable
CHECK_DEADLOCK FALSE
