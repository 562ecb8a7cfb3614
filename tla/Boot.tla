-------------------------------- MODULE Boot --------------------------------
(***************************************************************************)
(* How main() (main.rs) builds the virtual machine: the checks of          *)
(* VmConfig::validate (config.rs), the KVM objects, guest memory           *)
(* (memory.rs), the ACPI tables (acpi.rs), the kernel with its boot        *)
(* parameters (loader.rs, linux.rs), the vCPUs (vcpu.rs) and the devices,  *)
(* in this order; the first error ends the program.  The module keeps      *)
(* where in guest memory each part writes and what the vCPUs are given.    *)
(*                                                                         *)
(* Addresses are bytes; all of them lie below 2^31 except the end of RAM,  *)
(* which is compared in MB.                                                *)
(***************************************************************************)
EXTENDS Integers, FiniteSets

CONSTANTS
  Memory,      \* values of --memory, MB
  VcpuCount,   \* values of --vcpus
  HostCpus,    \* values of num_cpus::get()
  Cmdline,     \* lengths of --cmdline, bytes
  Kernel       \* kernel files

ASSUME BootAssumption ==
  /\ Memory \subseteq Nat /\ VcpuCount \subseteq 0..255
  /\ HostCpus \subseteq Nat \ {0}
  /\ Cmdline \subseteq Nat
  /\ Kernel \subseteq [len : Nat, magic : BOOLEAN, setup_sects : 0..255,
                       code32_start : Nat]

\* An argument of a process has at most 128 KB with its terminator, which is
\* the limit of the host (MAX_ARG_STRLEN).
MAX_CMDLINE == 131071

ASSUME CmdlineAssumption == \A c \in Cmdline : c <= MAX_CMDLINE

VARIABLES
  config,      \* the command line and what it meets on the host
  step,        \* the next call of main()
  outcome,     \* "none", "running", or the error main() ends with
  writes,      \* what has been written to guest memory: [tag, start, len]
  madt,        \* processors that the MADT lists
  created,     \* vCPUs created
  ready,       \* vCPUs with registers set
  regs,        \* what the registers of these were set to
  disk, tap    \* whether the device has a file and an interface

devices == <<disk, tap>>
vars == <<config, step, outcome, writes, madt, created, ready, regs, devices>>

MB == 1024 * 1024

Config == [memory : Memory, vcpus : VcpuCount, host_cpus : HostCpus,
           cmdline : Cmdline, kernel : Kernel, files : BOOLEAN,
           disk : BOOLEAN]

\* Layout of guest memory.
GDT_START       == 16384      \* 0x4000
GDT_LEN         == 24
ZERO_PAGE_START == 28672      \* 0x7000
ZERO_PAGE_LEN   == 4096
CMDLINE_START   == 131072     \* 0x20000
RSDP_START      == 917504     \* 0xE0000
KERNEL_START    == 1048576    \* 0x100000

\* Mutant: one range of RAM, without the hole below 1 MB.
E820_NO_HOLE == KERNEL_START

E820_LOW_END == 654336        \* 0x9FC00

RSDP_LEN   == 36
SDT_LEN    == 36
RSDT_LEN   == SDT_LEN + 4
MADT_LEN   == 44
APIC_LEN   == 8
rsdt_addr  == RSDP_START + RSDP_LEN

\* Mutant: the pointer at the end of the RSDT is forgotten.
madt_after_header == rsdt_addr + SDT_LEN

madt_addr == rsdt_addr + SDT_LEN + 4

\* What main() passes to setup_long_mode.
boot_params_moved == 24576    \* Mutant: 0x6000
boot_params       == 28672    \* 0x7000

\* The end of the header in the kernel file: 0x1F1 and the size of SetupHeader.
HEADER_END == 497 + 119

\* What follows boot sector and setup code, whose sectors are 4 if the file
\* says 0; nothing, if the file ends before.
KernelLen(k) ==
  LET offset == ((IF k.setup_sects = 0 THEN 4 ELSE k.setup_sects) + 1) * 512
  IN  IF k.len > offset THEN k.len - offset ELSE 0

EntryPoint(k) == IF k.code32_start # 0 THEN k.code32_start ELSE KERNEL_START

\* setup_registers_32bit: the same for every vCPU.
Registers ==
  [rip |-> EntryPoint(config.kernel), rsi |-> boot_params, rsp |-> 589824,
   cs |-> 8, ds |-> 16, gdt_base |-> 16384, gdt_limit |-> 23]

\* VmConfig::validate; files: the kernel and the disk image exist.
Valid(c) ==
  /\ c.memory % 2 = 0 /\ c.memory >= 128 /\ c.memory <= 64 * 1024
  /\ c.vcpus # 0 /\ c.vcpus <= c.host_cpus * 2
  /\ c.files

\* GuestMemory::write_slice: the end has to lie within the memory.
InRam(start, len) == (start + len + MB - 1) \div MB <= config.memory

Region(tag, start, len) == [tag |-> tag, start |-> start, len |-> len]

\* Mutant: 0..=vcpu_count.
MadtEntriesInclusive == 0 .. config.vcpus

\* The processors of the MADT: for i in 0..vcpu_count.
MadtEntries == 0 .. config.vcpus - 1

\* setup_acpi writes the MADT, the RSDT and the RSDP.
AcpiRegions ==
  { Region("madt", madt_addr, MADT_LEN + APIC_LEN * config.vcpus),
    Region("rsdt", rsdt_addr, RSDT_LEN),
    Region("rsdp", RSDP_START, RSDP_LEN) }

\* load_linux writes the command line with its terminator unless it is empty.
CmdlineRegions ==
  IF config.cmdline = 0 THEN {}
  ELSE { Region("cmdline", CMDLINE_START, config.cmdline + 1) }

KernelRegion   == Region("kernel", KERNEL_START, KernelLen(config.kernel))
ZeroPageRegion == Region("zero_page", ZERO_PAGE_START, ZERO_PAGE_LEN)
GdtRegion      == Region("gdt", GDT_START, GDT_LEN)
-----------------------------------------------------------------------------
Fail(err) ==
  /\ outcome' = err
  /\ UNCHANGED <<config, step, writes, madt, created, ready, regs, devices>>

Go(from, to) == outcome = "none" /\ step = from /\ step' = to

\* The regions go to guest memory.
Write(from, to, regions) ==
  /\ Go(from, to)
  /\ \A r \in regions : InRam(r.start, r.len)
  /\ writes' = writes \cup regions
  /\ UNCHANGED <<config, outcome, madt, created, ready, regs, devices>>

\* A call that only the host can make fail.
Call(from, to, err) ==
  \/ /\ Go(from, to)
     /\ UNCHANGED <<config, outcome, writes, madt, created, ready, regs, devices>>
  \/ /\ outcome = "none" /\ step = from
     /\ Fail(err)

Validate ==
  \/ /\ Go("validate", "kvm") /\ Valid(config)
     /\ UNCHANGED <<config, outcome, writes, madt, created, ready, regs, devices>>
  \/ /\ outcome = "none" /\ step = "validate" /\ ~Valid(config)
     /\ Fail("exit 1")

NewKvm    == Call("kvm", "vm", "KvmInit")
\* create_vm, create_irq_chip, create_pit2
CreateVm  == Call("vm", "alloc", "VmCreation")
AllocMem  == Call("alloc", "region", "MemoryAllocation")
SetRegion == Call("region", "acpi", "MemorySetup")

\* Below, a write whose error has no action of its own cannot fail for an
\* accepted configuration; if it could, the specification would deadlock.
SetupAcpi ==
  /\ Go("acpi", "open")
  /\ \A r \in AcpiRegions : InRam(r.start, r.len)
  /\ writes' = writes \cup AcpiRegions
  /\ madt' = MadtEntries
  /\ UNCHANGED <<config, outcome, created, ready, regs, devices>>

\* load_linux: the kernel file is opened and its header checked, then the
\* command line, the kernel and last the zero page are written.
OpenKernel ==
  \/ /\ Go("open", "cmdline")
     /\ config.kernel.len >= HEADER_END /\ config.kernel.magic
     /\ UNCHANGED <<config, outcome, writes, madt, created, ready, regs, devices>>
  \/ /\ outcome = "none" /\ step = "open"
     /\ Fail("InternalError")

LoadCmdline  == Write("cmdline", "kernel", CmdlineRegions)
LoadKernel   == Write("kernel", "zero_page", {KernelRegion})
LoadZeroPage == Write("zero_page", "vcpus", {ZeroPageRegion})

KernelTooBig ==
  /\ outcome = "none" /\ step = "kernel"
  /\ ~InRam(KERNEL_START, KernelLen(config.kernel))
  /\ Fail("InternalError")

\* The seek to the kernel code, or the read of it, fails.
KernelUnreadable ==
  /\ outcome = "none" /\ step = "kernel"
  /\ Fail("InternalError")

\* One turn of the vCPU loop: create and CPUID, then GDT and registers.
CreateVcpu ==
  \/ /\ outcome = "none" /\ step = "vcpus" /\ created = ready
     /\ Cardinality(created) < config.vcpus
     /\ created' = created \cup {Cardinality(created)}
     /\ UNCHANGED <<config, step, outcome, writes, madt, ready, regs, devices>>
  \/ /\ outcome = "none" /\ step = "vcpus" /\ created = ready
     /\ Cardinality(created) < config.vcpus
     /\ \E err \in {"VcpuCreation", "CpuidSetup"} : Fail(err)

SetupLongMode ==
  \/ /\ outcome = "none" /\ step = "vcpus" /\ created # ready
     /\ writes' = writes \cup {GdtRegion}
     /\ ready' = created
     /\ regs' = regs \cup {Registers}
     /\ UNCHANGED <<config, step, outcome, madt, created, devices>>
  \/ /\ outcome = "none" /\ step = "vcpus" /\ created # ready
     /\ writes' = writes \cup {GdtRegion}
     /\ outcome' = "LongModeSetup"
     /\ UNCHANGED <<config, step, madt, created, ready, regs, devices>>

\* VirtioBlock::new: a disk that cannot be opened is no error, although
\* validate() has found the file.
OpenDisk ==
  /\ outcome = "none" /\ step = "vcpus" /\ created = ready
  /\ Cardinality(created) = config.vcpus
  /\ step' = "tap"
  /\ disk' \in (IF config.disk THEN BOOLEAN ELSE {FALSE})
  /\ UNCHANGED <<config, outcome, writes, madt, created, ready, regs, tap>>

\* TapInterface::new: nor is a TAP interface that cannot be created.
CreateTap ==
  /\ Go("tap", "spawn")
  /\ tap' \in BOOLEAN
  /\ UNCHANGED <<config, outcome, writes, madt, created, ready, regs, disk>>

\* Mutant: the threads start after the first vCPU.
SpawnEarly ==
  /\ outcome = "none" /\ step = "vcpus" /\ created = ready /\ created # {}
  /\ outcome' = "running"
  /\ UNCHANGED <<config, step, writes, madt, created, ready, regs, devices>>

SpawnVcpus ==
  /\ outcome = "none" /\ step = "spawn"
  /\ outcome' = "running"
  /\ UNCHANGED <<config, step, writes, madt, created, ready, regs, devices>>

Ended == outcome # "none" /\ UNCHANGED vars

Init ==
  /\ config \in Config
  /\ step = "validate" /\ outcome = "none"
  /\ writes = {} /\ madt = {} /\ created = {} /\ ready = {} /\ regs = {}
  /\ disk = FALSE /\ tap = FALSE

Next ==
  \/ Validate \/ NewKvm \/ CreateVm \/ AllocMem \/ SetRegion
  \/ SetupAcpi \/ OpenKernel \/ LoadCmdline \/ LoadKernel \/ KernelTooBig
  \/ KernelUnreadable \/ LoadZeroPage
  \/ CreateVcpu \/ SetupLongMode \/ OpenDisk \/ CreateTap \/ SpawnVcpus
  \/ Ended

Spec == Init /\ [][Next]_vars
-----------------------------------------------------------------------------
(***************************************************************************)
(* Properties.                                                             *)
(***************************************************************************)

\* Every variable has its type.
TypeOK ==
  /\ config \in Config
  /\ \A r \in writes : r.start \in Nat /\ r.len \in Nat
  /\ madt \subseteq 0..254 /\ ready \subseteq created
  /\ {disk, tap} \subseteq BOOLEAN

\* No part of the setup overwrites another: the regions for ACPI, command
\* line, kernel, zero page and GDT are disjoint and inside guest RAM, for
\* every number of vCPUs, command line and kernel that is accepted.
RegionsDisjoint ==
  \A r, s \in writes :
    /\ InRam(r.start, r.len)
    /\ r # s => r.start + r.len <= s.start \/ s.start + s.len <= r.start

\* The e820 map handed to the kernel keeps the ACPI tables out of RAM, and
\* has everything else the kernel is given in RAM.
E820Protects ==
  \A r \in writes :
    LET inHole == r.start >= E820_LOW_END /\ r.start + r.len <= KERNEL_START
        inRam  == r.start + r.len <= E820_LOW_END \/ r.start >= KERNEL_START
    IN  IF r.tag \in {"madt", "rsdt", "rsdp"} THEN inHole ELSE inRam

\* The guest only runs with every vCPU set up, each of them listed in the
\* MADT and no other, and with boot parameters, GDT and kernel in place.
RunsConfigured ==
  outcome = "running" =>
    /\ ready = created /\ created = madt /\ madt # {}
    /\ {"zero_page", "gdt", "kernel", "rsdp"} \subseteq {r.tag : r \in writes}

\* The registers name what has been written: zero page and GDT lie where the
\* loader and setup_gdt_32bit have put them, although each file has its own
\* constants; the stack is free low RAM, and the entry point lies in the
\* kernel unless the file is cut off before it.
RegistersPoint ==
  outcome = "running" =>
    \A r \in regs :
      /\ Region("zero_page", r.rsi, ZERO_PAGE_LEN) \in writes
      /\ Region("gdt", r.gdt_base, r.gdt_limit + 1) \in writes
      /\ {r.cs + 7, r.ds + 7} \subseteq 8 .. r.gdt_limit
      /\ r.rsp <= E820_LOW_END
      /\ \A w \in writes : w.start + w.len <= r.rsp - 4096 \/ r.rsp <= w.start
      /\ KernelLen(config.kernel) > 0 =>
           r.rip \in KERNEL_START .. KERNEL_START + KernelLen(config.kernel) - 1
-----------------------------------------------------------------------------
(***************************************************************************)
(* The inductive invariant of the proofs, in named parts.                  *)
(***************************************************************************)

\* Kernels as the boot protocol has them: entered where they are loaded.
EnteredAtStart == \A k \in Kernel : k.code32_start \in {0, KERNEL_START}

\* Everything that the setup writes for this configuration.
Planned == AcpiRegions \cup CmdlineRegions \cup {KernelRegion, ZeroPageRegion, GdtRegion}

WithVcpus    == {"vcpus", "tap", "spawn"}
WithKernel   == {"zero_page"} \cup WithVcpus
WithAcpi     == {"open", "cmdline", "kernel"} \cup WithKernel
BeforeAcpi   == {"kvm", "vm", "alloc", "region", "acpi"}

\* The place in main() says what has been checked and written so far.
WrittenByStep ==
  /\ step \in {"validate"} \cup BeforeAcpi \cup WithAcpi
  /\ step # "validate" => Valid(config)
  /\ writes \subseteq Planned
  /\ \A r \in writes : InRam(r.start, r.len)
  /\ step \in WithAcpi => AcpiRegions \subseteq writes /\ madt = MadtEntries
  /\ step \notin WithAcpi => madt = {}
  /\ step \in WithKernel => KernelRegion \in writes
  /\ step \in WithVcpus => ZeroPageRegion \in writes

\* The loop has been n times round, or once more up to the registers.
VcpusByTurn ==
  /\ \E n \in 0 .. config.vcpus :
       /\ created = 0 .. n - 1
       /\ ready = created \/ (n > 0 /\ ready = 0 .. n - 2)
       /\ step \notin WithVcpus => n = 0
       /\ step \in {"tap", "spawn"} => ready = created /\ n = config.vcpus
  /\ ready # {} => GdtRegion \in writes
  /\ regs \subseteq {Registers}
  /\ outcome = "running" => step = "spawn"
=============================================================================
