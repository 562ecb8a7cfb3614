CONSTANTS
  Vcpu = {v1, v2}
  Sector = {s1}
  Data = {d1, d2}
  None = None
  IdxMod = 4
  QueueSize = 2
  SectorLen = 4
  MaxSubmit = 2
  MaxReset = 1
  IoMayFail = TRUE
SPECIFICATION Spec
INVARIANT OkReadHasData
CHECK_DEADLOCK FALSE
