CONSTANTS
  Device = {"blk", "net"}
  Independent = {"net"}
  WordSize = 512
  Sectors = 1031
  Plan <- MCPlan
  Unset = Unset
  MaxReset = 1
SPECIFICATION Spec
INVARIANTS
  TypeOK
  SeesDevice
  SettingsTaken
  IdleUntilReady
CHECK_DEADLOCK FALSE
