CONSTANTS
  Memory = {64, 127, 128, 130, 65536, 65538}
  VcpuCount = {0, 1, 2, 3, 20, 255}
  HostCpus = {1, 128}
  Cmdline = {0, 200, 131071}
  Kernel <- MCKernel
SPECIFICATION Spec
INVARIANTS
  TypeOK
  RegionsDisjoint
  E820Protects
  RunsConfigured
  RegistersPoint
