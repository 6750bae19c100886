SPECIFICATION ConfigSpec
CONSTANTS
  FlagFields = {"SessionID", "VarDisk", "Mounts", "Network"}
  FlagCPUs <- MCFlagCPUs
  FlagMems = {0, 511, 512}
  InitCPUs <- MCInitCPUs
  InitMems = {0, 512, 32768}
  HostCPUs = 8
  HostMem = 16384
  MemLimit = 32768
INVARIANTS
  BuiltMachineValid
  VarDiskUnderSessionLock
PROPERTIES
  InitDiskUsedUnlessTorn
