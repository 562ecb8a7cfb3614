CONSTANTS
  Vcpu = {v1, v2}
  Sector = {s1}
  Data = {d1, d2}
  None = None
  IdxMod = 4
  QueueSize = 2
  SectorLen = 4
  MaxSubmit = 4
  MaxReset = 1
  IoMayFail = FALSE
SPECIFICATION FairSpec
INVARIANTS
  TypeOK
  NoLostKick
  NoLostInterrupt
  CompletionsOwned
PROPERTIES
  ImplementsService
  RequestsComplete
CHECK_DEADLOCK FALSE
