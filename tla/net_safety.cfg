CONSTANTS
  Vcpu = {v0, v1}
  Cpu0 = v0
  None = None
  Empty = Empty
  IdxMod = 4
  QueueSize = 2
  HasTap = TRUE
  TapMayFail = TRUE
  Splits = {TRUE, FALSE}
  MaxRx = 1
  MaxTx = 2
  BlkExits = TRUE
  MaxReset = 1
SPECIFICATION Spec
INVARIANTS
  InterruptRecorded
  ReadyQueueHasSize
PROPERTY ImplementsNetwork
CHECK_DEADLOCK FALSE
