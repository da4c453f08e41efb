CONSTANTS
  Directories <- MCDirectories
  PlainFiles <- MCPlainFiles
  Schemas <- MCSchemas
  Addresses <- MCAddresses
  Configs <- MCConfigs
  DeviceFiles <- MCDeviceFiles
  Candidates <- MCCandidates
  ConfigFile = "agent.cfg"
  Elsewhere = "bin/agent.cfg"
  MaxEdits = 2
SPECIFICATION Spec
INVARIANT StartsLoadedAgent
CHECK_DEADLOCK FALSE
