CONSTANTS
  Vcpu = {v0, v1}
  Cpu0 = v0
  None = None
  Empty = Empty
  IdxMod = 4
  QueueSize = 2
  HasTap = TRUE
  TapMayFail = FALSE
  Splits = {FALSE}
  MaxRx = 2
  MaxTx = 1
  BlkExits = FALSE
  MaxReset = 0
SPECIFICATION ExitingSpec
INVARIANTS
  TypeOK
  InterruptDelivered
PROPERTIES
  ImplementsNetwork
  TxCompletes
  RxDelivered
CHECK_DEADLOCK FALSE
