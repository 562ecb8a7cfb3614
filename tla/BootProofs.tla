----------------------------- MODULE BootProofs -----------------------------
(***************************************************************************)
(* Proofs about Boot: for every number of vCPUs, memory size, command line *)
(* and kernel file, the setup keeps its parts apart and inside RAM, and    *)
(* the guest only starts with everything in place.                         *)
(***************************************************************************)
EXTENDS Boot, FiniteSetTheorems, TLAPS

\* The vCPUs 0 .. n-1 are n.
LEMMA VcpusCounted ==
  ASSUME NEW n \in Nat
  PROVE  Cardinality(0 .. n - 1) = n
<1>1. CASE n = 0
  <2>1. 0 .. n - 1 = {}
    BY <1>1
  <2> QED BY <1>1, <2>1, FS_EmptySet
<1>2. CASE n # 0
  BY <1>2, FS_Interval
<1> QED BY <1>1, <1>2

\* The fields of the configuration.
LEMMA ConfigFields ==
  ASSUME config \in Config
  PROVE  /\ config.memory \in Nat /\ config.vcpus \in 0..255
         /\ config.cmdline \in Nat /\ config.cmdline <= MAX_CMDLINE
         /\ KernelLen(config.kernel) \in Nat
<1>1. /\ config.memory \in Nat /\ config.vcpus \in 0..255
      /\ config.cmdline \in Nat /\ config.cmdline <= MAX_CMDLINE
  BY BootAssumption, CmdlineAssumption DEF Config
<1>2. /\ config.kernel \in Kernel
      /\ config.kernel.len \in Nat /\ config.kernel.setup_sects \in 0..255
  BY BootAssumption DEF Config
<1>3. KernelLen(config.kernel) \in Nat
  BY <1>2 DEF KernelLen
<1> QED BY <1>1, <1>3

\* Where a region that the setup writes may lie, and whose it is.
LEMMA PlannedPlaces ==
  ASSUME config \in Config, NEW r \in Planned
  PROVE  /\ r.start \in Nat /\ r.len \in Nat
         /\ \/ r = GdtRegion /\ r.start = 16384 /\ r.len = 24 /\ r.tag = "gdt"
            \/ r = ZeroPageRegion /\ r.start = 28672 /\ r.len = 4096 /\ r.tag = "zero_page"
            \/ /\ r = Region("cmdline", CMDLINE_START, config.cmdline + 1)
               /\ r.start = 131072 /\ r.len <= 131072 /\ r.tag = "cmdline"
            \/ /\ r = Region("rsdp", RSDP_START, RSDP_LEN)
               /\ r.start = 917504 /\ r.len = 36 /\ r.tag = "rsdp"
            \/ /\ r = Region("rsdt", rsdt_addr, RSDT_LEN)
               /\ r.start = 917540 /\ r.len = 40 /\ r.tag = "rsdt"
            \/ /\ r = Region("madt", madt_addr, MADT_LEN + APIC_LEN * config.vcpus)
               /\ r.start = 917580 /\ r.len <= 2084 /\ r.tag = "madt"
            \/ r = KernelRegion /\ r.start = 1048576 /\ r.tag = "kernel"
  BY ConfigFields, SMT DEF Planned, AcpiRegions, CmdlineRegions, KernelRegion, ZeroPageRegion,
     GdtRegion, Region, GDT_START, GDT_LEN, ZERO_PAGE_START, ZERO_PAGE_LEN, CMDLINE_START,
     RSDP_START, RSDP_LEN, rsdt_addr, RSDT_LEN, SDT_LEN, madt_addr, MADT_LEN, APIC_LEN,
     KERNEL_START, MAX_CMDLINE
-----------------------------------------------------------------------------
\* Every step of main() keeps both parts of the invariant.
LEMMA WrittenStep ==
  ASSUME config \in Config, WrittenByStep, [Next]_vars
  PROVE  config' \in Config /\ WrittenByStep'
<1> USE DEF WrittenByStep, WithVcpus, WithKernel, WithAcpi, BeforeAcpi, InRam,
            MadtEntries, AcpiRegions, CmdlineRegions, KernelRegion, ZeroPageRegion, GdtRegion,
            Planned, Go, Fail, Call, Write
<1>1. CASE UNCHANGED vars
  BY <1>1 DEF vars
<1>2. CASE Validate
  BY <1>2 DEF Validate
<1>3. CASE NewKvm \/ CreateVm \/ AllocMem \/ SetRegion
  BY <1>3 DEF NewKvm, CreateVm, AllocMem, SetRegion
<1>4. CASE SetupAcpi
  BY <1>4 DEF SetupAcpi
<1>5. CASE OpenKernel
  BY <1>5 DEF OpenKernel
<1>6. CASE LoadCmdline
  BY <1>6 DEF LoadCmdline
<1>7. CASE LoadKernel
  BY <1>7 DEF LoadKernel
<1>8. CASE KernelTooBig \/ KernelUnreadable
  BY <1>8 DEF KernelTooBig, KernelUnreadable
<1>9. CASE LoadZeroPage
  BY <1>9 DEF LoadZeroPage
<1>10. CASE CreateVcpu
  BY <1>10 DEF CreateVcpu
<1>11. CASE SetupLongMode
  <2>1. InRam(GdtRegion.start, GdtRegion.len)
    BY <1>11, ConfigFields DEF SetupLongMode, Valid, Region, GDT_START, GDT_LEN, MB
  <2> QED BY <1>11, <2>1 DEF SetupLongMode
<1>12. CASE OpenDisk
  BY <1>12 DEF OpenDisk
<1>13. CASE CreateTap \/ SpawnVcpus \/ Ended
  BY <1>13 DEF CreateTap, SpawnVcpus, Ended, vars
<1> QED BY <1>1, <1>2, <1>3, <1>4, <1>5, <1>6, <1>7, <1>8, <1>9, <1>10, <1>11, <1>12,
           <1>13
        DEF Next

\* vCPUs are created one after the other, and each is configured in its turn.
LEMMA VcpusStep ==
  ASSUME config \in Config, WrittenByStep, VcpusByTurn, [Next]_vars
  PROVE  VcpusByTurn'
<1>0. config.vcpus \in Nat
  BY ConfigFields
<1>1. PICK n \in 0 .. config.vcpus :
        /\ created = 0 .. n - 1
        /\ ready = created \/ (n > 0 /\ ready = 0 .. n - 2)
        /\ step \notin WithVcpus => n = 0
        /\ step \in {"tap", "spawn"} => ready = created /\ n = config.vcpus
  BY DEF VcpusByTurn
<1>2. Cardinality(created) = n
  BY <1>0, <1>1, VcpusCounted
<1> DEFINE Rest == /\ ready # {} => GdtRegion \in writes
                   /\ regs \subseteq {Registers}
                   /\ outcome = "running" => step = "spawn"
<1>3. Rest
  BY DEF VcpusByTurn
<1> USE DEF WithVcpus, WithKernel, WithAcpi, BeforeAcpi, WrittenByStep
<1>4. CASE /\ UNCHANGED <<config, created, ready, regs, writes>> /\ outcome' # "running"
           /\ step' = step
  BY <1>1, <1>3, <1>4 DEF VcpusByTurn, GdtRegion, Registers
<1>5. CASE /\ UNCHANGED <<config, created, ready, regs, outcome>> /\ outcome = "none"
           /\ writes \subseteq writes' /\ step \notin WithVcpus /\ step' \notin {"tap", "spawn"}
  BY <1>1, <1>3, <1>5 DEF VcpusByTurn, GdtRegion, Registers
<1>6. CASE CreateVcpu
  <2>1. CASE created' # created
    <3>1. /\ n < config.vcpus /\ created' = created \cup {n} /\ ready = created
          /\ UNCHANGED <<config, step, outcome, ready, regs, writes>>
          /\ outcome = "none" /\ step = "vcpus"
      BY <1>2, <1>6, <2>1 DEF CreateVcpu, Fail
    <3>2. created' = 0 .. n /\ ready' = 0 .. n - 1
      BY <1>0, <1>1, <3>1
    <3>3. n + 1 \in 0 .. config.vcpus /\ (n + 1) - 1 = n /\ (n + 1) - 2 = n - 1 /\ n + 1 > 0
      BY <1>0, <3>1
    <3> QED BY <1>3, <3>1, <3>2, <3>3 DEF VcpusByTurn, GdtRegion, Registers
  <2>2. CASE created' = created
    <3>1. UNCHANGED <<config, created, ready, regs, writes, step>> /\ outcome' # "running"
      <4>1. n \notin created
        BY <1>0, <1>1
      <4> QED BY <1>2, <1>6, <2>2, <4>1 DEF CreateVcpu, Fail
    <3> QED BY <1>4, <3>1
  <2> QED BY <2>1, <2>2
<1>7. CASE SetupLongMode
  <2>1. /\ writes' = writes \cup {GdtRegion} /\ outcome = "none" /\ outcome' # "running"
        /\ ready' \in {created, ready} /\ regs' \subseteq regs \cup {Registers}
        /\ UNCHANGED <<config, step, created>> /\ step = "vcpus"
    BY <1>7 DEF SetupLongMode
  <2> QED BY <1>1, <1>3, <2>1 DEF VcpusByTurn, GdtRegion, Registers
<1>8. CASE OpenDisk
  <2>1. /\ UNCHANGED <<config, created, ready, regs, writes, outcome>>
        /\ outcome = "none" /\ created = ready /\ n = config.vcpus /\ step' = "tap"
    BY <1>2, <1>8 DEF OpenDisk
  <2> QED BY <1>1, <1>3, <2>1 DEF VcpusByTurn, GdtRegion, Registers
<1>9. CASE CreateTap \/ SpawnVcpus
  <2>1. /\ UNCHANGED <<config, created, ready, regs, writes>>
        /\ step \in {"tap", "spawn"} /\ step' = "spawn"
    BY <1>9 DEF CreateTap, SpawnVcpus, Go
  <2> QED BY <1>1, <1>3, <2>1 DEF VcpusByTurn, GdtRegion, Registers
<1>10. CASE Validate \/ OpenKernel \/ KernelTooBig \/ KernelUnreadable
  BY <1>4, <1>5, <1>10 DEF Validate, OpenKernel, KernelTooBig, KernelUnreadable, Go, Fail
<1>11. CASE NewKvm \/ CreateVm \/ AllocMem \/ SetRegion
  BY <1>4, <1>5, <1>11 DEF NewKvm, CreateVm, AllocMem, SetRegion, Call, Go, Fail
<1>12. CASE SetupAcpi \/ LoadCmdline \/ LoadKernel \/ LoadZeroPage
  <2>1. /\ UNCHANGED <<config, created, ready, regs, outcome>> /\ outcome = "none"
        /\ writes \subseteq writes' /\ step \notin WithVcpus /\ step' \notin {"tap", "spawn"}
    BY <1>12 DEF SetupAcpi, LoadCmdline, LoadKernel, LoadZeroPage, Write, Go
  <2> QED BY <1>5, <2>1
<1>13. CASE Ended \/ UNCHANGED vars
  <2>1. UNCHANGED <<config, created, ready, regs, writes, outcome, step>>
    BY <1>13 DEF Ended, vars
  <2> QED BY <1>1, <1>3, <2>1 DEF VcpusByTurn, GdtRegion, Registers
<1> QED BY <1>6, <1>7, <1>8, <1>9, <1>10, <1>11, <1>12, <1>13 DEF Next
-----------------------------------------------------------------------------
\* The place in main() says what has been checked and written so far.
THEOREM SetupInvariant == Spec => [](config \in Config /\ WrittenByStep /\ VcpusByTurn)
<1>1. Init => config \in Config /\ WrittenByStep /\ VcpusByTurn
  <2> SUFFICES ASSUME Init PROVE WrittenByStep /\ VcpusByTurn
    BY DEF Init
  <2>1. WrittenByStep
    BY DEF Init, WrittenByStep, WithVcpus, WithKernel, WithAcpi, BeforeAcpi
  <2>2. 0 \in 0 .. config.vcpus /\ {} = 0 .. 0 - 1
    BY ConfigFields DEF Init
  <2>3. VcpusByTurn
    BY <2>2 DEF Init, VcpusByTurn, WithVcpus
  <2> QED BY <2>1, <2>3
<1>2. /\ config \in Config /\ WrittenByStep /\ VcpusByTurn
      /\ [Next]_vars
      => (config \in Config /\ WrittenByStep /\ VcpusByTurn)'
  BY WrittenStep, VcpusStep
<1> QED BY <1>1, <1>2, PTL DEF Spec

\* Every variable keeps its type; the MADT lists at most 255 processors.
THEOREM TypeCorrect == Spec => []TypeOK
<1>1. config \in Config /\ WrittenByStep /\ VcpusByTurn /\ disk \in BOOLEAN /\ tap \in BOOLEAN
      => TypeOK
  <2> SUFFICES ASSUME config \in Config, WrittenByStep, VcpusByTurn,
                      disk \in BOOLEAN, tap \in BOOLEAN
               PROVE  TypeOK
    OBVIOUS
  <2>1. \A r \in writes : r.start \in Nat /\ r.len \in Nat
    BY PlannedPlaces DEF WrittenByStep
  <2>2. madt \subseteq 0..254
    <3>1. madt = {} \/ madt = MadtEntries
      BY DEF WrittenByStep
    <3>2. config.vcpus \in 0..255
      BY ConfigFields
    <3>3. MadtEntries \subseteq 0..254
      BY <3>2 DEF MadtEntries
    <3> QED BY <3>1, <3>3
  <2>3. ready \subseteq created
    BY ConfigFields DEF VcpusByTurn
  <2> QED BY <2>1, <2>2, <2>3 DEF TypeOK
<1>2. Init => disk \in BOOLEAN /\ tap \in BOOLEAN
  BY DEF Init
<1>3. disk \in BOOLEAN /\ tap \in BOOLEAN /\ [Next]_vars => (disk \in BOOLEAN /\ tap \in BOOLEAN)'
  <2> SUFFICES ASSUME disk \in BOOLEAN, tap \in BOOLEAN, [Next]_vars
               PROVE  disk' \in BOOLEAN /\ tap' \in BOOLEAN
    OBVIOUS
  <2>1. CASE OpenDisk \/ CreateTap
    BY <2>1 DEF OpenDisk, CreateTap, devices
  <2>2. CASE ~OpenDisk /\ ~CreateTap
    <3>1. UNCHANGED devices
      BY <2>2, Zenon
         DEF Next, vars, Validate, NewKvm, CreateVm, AllocMem, SetRegion, Call, Fail,
             SetupAcpi, OpenKernel, LoadCmdline, LoadKernel, LoadZeroPage, Write, KernelTooBig,
             KernelUnreadable, CreateVcpu, SetupLongMode, SpawnVcpus, Ended
    <3> QED BY <3>1 DEF devices
  <2> QED BY <2>1, <2>2
<1> QED BY <1>1, <1>2, <1>3, SetupInvariant, PTL DEF Spec

\* No part of the setup overwrites another, and all of it lies in RAM.
THEOREM PartsDisjoint == Spec => []RegionsDisjoint
<1>1. config \in Config /\ WrittenByStep => RegionsDisjoint
  <2> SUFFICES ASSUME config \in Config, WrittenByStep, NEW r \in writes, NEW s \in writes, r # s
               PROVE  r.start + r.len <= s.start \/ s.start + s.len <= r.start
    BY DEF RegionsDisjoint, WrittenByStep
  <2> QED BY PlannedPlaces, SMT DEF WrittenByStep
<1> QED BY <1>1, SetupInvariant, PTL

\* The e820 map keeps the ACPI tables out of RAM and everything else in it.
THEOREM TablesProtected == Spec => []E820Protects
<1>1. config \in Config /\ WrittenByStep => E820Protects
  BY PlannedPlaces, SMT DEF WrittenByStep, E820Protects, E820_LOW_END, KERNEL_START
<1> QED BY <1>1, SetupInvariant, PTL

\* The guest only runs when every vCPU and every part of memory is set up.
THEOREM StartsConfigured == Spec => []RunsConfigured
<1>1. config \in Config /\ WrittenByStep /\ VcpusByTurn => RunsConfigured
  <2> SUFFICES ASSUME config \in Config, WrittenByStep, VcpusByTurn, outcome = "running"
               PROVE  /\ ready = created /\ created = madt /\ madt # {}
                      /\ {"zero_page", "gdt", "kernel", "rsdp"} \subseteq {r.tag : r \in writes}
    BY DEF RunsConfigured
  <2>1. /\ step = "spawn" /\ ready = created /\ created = MadtEntries /\ madt = MadtEntries
    BY DEF VcpusByTurn, WrittenByStep, WithVcpus, WithKernel, WithAcpi, MadtEntries
  <2>2. MadtEntries # {}
    <3>1. config.vcpus # 0
      BY <2>1, Zenon DEF WrittenByStep, Valid
    <3>2. 0 \in MadtEntries
      BY <3>1, ConfigFields DEF MadtEntries
    <3> QED BY <3>2
  <2>3. {GdtRegion, ZeroPageRegion, KernelRegion, Region("rsdp", RSDP_START, RSDP_LEN)} \subseteq writes
    BY <2>1, <2>2 DEF VcpusByTurn, WrittenByStep, WithVcpus, WithKernel, WithAcpi, AcpiRegions
  <2> QED BY <2>1, <2>2, <2>3 DEF GdtRegion, ZeroPageRegion, KernelRegion, Region
<1> QED BY <1>1, SetupInvariant, PTL

\* The registers of every vCPU name what has been written, for kernels that
\* are entered where they are loaded.
THEOREM RegistersNameWrites == EnteredAtStart => (Spec => []RegistersPoint)
<1> SUFFICES ASSUME EnteredAtStart PROVE Spec => []RegistersPoint
  OBVIOUS
<1>1. config \in Config /\ WrittenByStep /\ VcpusByTurn /\ RunsConfigured => RegistersPoint
  <2> SUFFICES ASSUME config \in Config, WrittenByStep, VcpusByTurn, RunsConfigured,
                      outcome = "running", NEW r \in regs
               PROVE  /\ Region("zero_page", r.rsi, ZERO_PAGE_LEN) \in writes
                      /\ Region("gdt", r.gdt_base, r.gdt_limit + 1) \in writes
                      /\ {r.cs + 7, r.ds + 7} \subseteq 8 .. r.gdt_limit
                      /\ r.rsp <= E820_LOW_END
                      /\ \A w \in writes : w.start + w.len <= r.rsp - 4096 \/ r.rsp <= w.start
                      /\ KernelLen(config.kernel) > 0 =>
                           r.rip \in KERNEL_START .. KERNEL_START + KernelLen(config.kernel) - 1
    BY DEF RegistersPoint
  <2>1. /\ r.rip = EntryPoint(config.kernel) /\ r.rsi = ZERO_PAGE_START /\ r.rsp = 589824
        /\ r.cs = 8 /\ r.ds = 16 /\ r.gdt_base = GDT_START /\ r.gdt_limit = 23
    BY SMT DEF VcpusByTurn, Registers, boot_params, ZERO_PAGE_START, GDT_START
  <2>2. GdtRegion \in writes /\ ZeroPageRegion \in writes
    BY DEF RunsConfigured, VcpusByTurn, WrittenByStep, WithVcpus
  <2>3. /\ Region("zero_page", r.rsi, ZERO_PAGE_LEN) = ZeroPageRegion
        /\ Region("gdt", r.gdt_base, r.gdt_limit + 1) = GdtRegion
    BY <2>1 DEF ZeroPageRegion, GdtRegion, GDT_LEN
  <2>4. /\ {r.cs + 7, r.ds + 7} \subseteq 8 .. r.gdt_limit
        /\ r.rsp <= E820_LOW_END
    BY <2>1, SMT DEF E820_LOW_END
  <2>5. \A w \in writes : w.start + w.len <= r.rsp - 4096 \/ r.rsp <= w.start
    BY <2>1, PlannedPlaces, SMT DEF WrittenByStep
  <2>6. EntryPoint(config.kernel) = KERNEL_START
    BY DEF EnteredAtStart, EntryPoint, Config
  <2>7. KernelLen(config.kernel) > 0 =>
          r.rip \in KERNEL_START .. KERNEL_START + KernelLen(config.kernel) - 1
    BY <2>1, <2>6, ConfigFields, SMT DEF KERNEL_START
  <2> QED BY <2>2, <2>3, <2>4, <2>5, <2>7
<1> QED BY <1>1, SetupInvariant, StartsConfigured, PTL
=============================================================================
