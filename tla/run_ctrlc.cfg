CONSTANTS
  Enabled = FALSE
  Vcpus = 1
  None = None
  MayPanic = FALSE
  MayClose = FALSE
  MaxExits = 1
SPECIFICATION FairSpec
PROPERTY StopTerminates
