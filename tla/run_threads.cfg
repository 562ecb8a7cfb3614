CONSTANTS
  Enabled = TRUE
  Vcpus = 2
  None = None
  MayPanic = TRUE
  MayClose = TRUE
  MaxExits = 3
SPECIFICATION ExitingSpec
INVARIANTS
  TypeOK
  KindsWithinExits
  NoWaitCycle
  HolderInHost
PROPERTIES
  StopTerminates
  ShutdownHeard
