CONSTANTS
  Vcpu = {v0}
  Cpu0 = v0
  None = None
  Empty = Empty
  IdxMod = 4
  QueueSize = 2
  HasTap = TRUE
  TapMayFail = FALSE
  Splits = {FALSE}
  MaxRx = 2
  MaxTx = 0
  BlkExits = FALSE
  MaxReset = 0
SPECIFICATION FairSpec
PROPERTY RxDelivered
CHECK_DEADLOCK FALSE
