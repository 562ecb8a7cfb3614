CONSTANTS
  Recorder = {r1, r2}
  Op = {"record_io_exit", "record_hardware_failure", "record_cycles", "record_idle_cycles"}
  Reads = {"snapshot", "cpu_utilization"}
  Amount = {1, 2}
  U64 = 16
  None = None
  MaxRecord = 2
  MaxReset = 1
  MaxToggle = 1
  MaxRead = 2
SPECIFICATION Spec
SYMMETRY Symmetry
INVARIANTS
  KindsAgree
  ResetForgets
  DeltaBounded
  RateSound
CHECK_DEADLOCK FALSE
