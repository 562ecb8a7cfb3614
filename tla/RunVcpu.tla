------------------------------ MODULE RunVcpu ------------------------------
(***************************************************************************)
(* The threads of the hypervisor (main.rs): main spawns one thread per     *)
(* vCPU, installs the Ctrl-C handler and joins the threads; run_vcpu is    *)
(* the loop of a thread.  The module keeps what the threads share: the     *)
(* stop flag, the three mutexes with their poisoning, the lock of the       *)
(* standard output, and the metrics.                                       *)
(* VirtioBlock and VirtioNet model what happens to the devices in between. *)
(*                                                                         *)
(* vcpu.run() is KVM_RUN: it returns whenever the guest or a signal makes  *)
(* it return, or never.                                                    *)
(***************************************************************************)
EXTENDS Metrics, FiniteSets

CONSTANTS
  Vcpus,      \* config.vcpus
  None,       \* no holder
  MayPanic,   \* whether the arithmetic of a device may panic
  MayClose,   \* whether the reader of the standard output may go away
  MaxExits    \* bound: exits of the guest while the metrics count them

ASSUME RunAssumption ==
  /\ Vcpus \in Nat \ {0}
  /\ None \notin 0..Vcpus
  /\ {MayPanic, MayClose} \subseteq BOOLEAN
  /\ MaxExits \in Nat

Vcpu  == 0 .. Vcpus - 1
Mutex == {"guest_mem", "virtio_net", "vm_fd", "stdout"}

VARIABLES
  main,          \* place of the main thread
  should_stop,
  holder,        \* holder of each mutex
  poisoned,      \* mutexes whose holder panicked
  pc,            \* place of each vCPU thread
  exit,          \* the result of the last vcpu.run()
  stdout_open,   \* what println! writes is read
  ctrlc          \* the thread of the Ctrl-C handler lives

console == <<stdout_open, ctrlc>>
vars == <<metrics, main, should_stop, holder, poisoned, pc, exit, console>>

OkExit  == {"io", "blk_read", "blk_write", "net_mmio", "hlt", "shutdown", "other"}
ErrExit == {"EAGAIN", "EINTR", "fatal"}

Alive == {"top", "try_mem", "try_net", "serve", "net_wait", "net_pulse",
          "run", "handle", "count", "serial", "net_mmio", "net_print", "net_count",
          "blk", "blk_wait", "blk_pulse", "blk_count", "bye"}
Pc    == {"unborn", "dead"} \cup Alive

Goto(v, to) == pc' = [pc EXCEPT ![v] = to]

Free(m)    == holder[m] = None
Lock(v, m) == Free(m) /\ holder' = [holder EXCEPT ![m] = v]
Unlock(M)  == holder' = [m \in Mutex |-> IF m \in M THEN None ELSE holder[m]]
-----------------------------------------------------------------------------
\* The loop head, and the poll of the network device on vCPU 0.

\* Mutant: the stop flag is not looked at.
TopUnstopped(v) ==
  /\ pc[v] = "top"
  /\ Goto(v, IF v = 0 THEN "try_mem" ELSE "run")
  /\ UNCHANGED <<metrics, main, should_stop, holder, poisoned, exit, console>>

Top(v) ==
  /\ pc[v] = "top"
  /\ Goto(v, IF should_stop THEN "dead" ELSE IF v = 0 THEN "try_mem" ELSE "run")
  /\ UNCHANGED <<metrics, main, should_stop, holder, poisoned, exit, console>>

\* try_lock fails on a poisoned mutex as on one that is held.
TryMem(v) ==
  /\ pc[v] = "try_mem"
  /\ IF Free("guest_mem") /\ "guest_mem" \notin poisoned
       THEN Lock(v, "guest_mem") /\ Goto(v, "try_net")
       ELSE UNCHANGED holder /\ Goto(v, "run")
  /\ UNCHANGED <<metrics, main, should_stop, poisoned, exit, console>>

\* Mutant: guest_mem is kept when virtio_net is not available.
TryNetKeepsMem(v) ==
  /\ pc[v] = "try_net"
  /\ IF Free("virtio_net") /\ "virtio_net" \notin poisoned
       THEN Lock(v, "virtio_net") /\ Goto(v, "serve")
       ELSE UNCHANGED holder /\ Goto(v, "run")
  /\ UNCHANGED <<metrics, main, should_stop, poisoned, exit, console>>

TryNet(v) ==
  /\ pc[v] = "try_net"
  /\ IF Free("virtio_net") /\ "virtio_net" \notin poisoned
       THEN Lock(v, "virtio_net") /\ Goto(v, "serve")
       ELSE Unlock({"guest_mem"}) /\ Goto(v, "run")
  /\ UNCHANGED <<metrics, main, should_stop, poisoned, exit, console>>

\* Mutant: vm_fd is already held when the interrupt is to be raised.
ServeIrqLocked(v) ==
  /\ pc[v] = "serve"
  /\ Lock(v, "vm_fd")
  /\ Goto(v, "net_wait")
  /\ UNCHANGED <<metrics, main, should_stop, poisoned, exit, console>>

\* process_rx and process_tx; there is work to interrupt the guest for.
ServeIrq(v) ==
  /\ pc[v] = "serve"
  /\ Goto(v, "net_wait")
  /\ UNCHANGED <<metrics, main, should_stop, holder, poisoned, exit, console>>

ServeIdle(v) ==
  /\ pc[v] = "serve"
  /\ Unlock({"guest_mem", "virtio_net"})
  /\ Goto(v, "run")
  /\ UNCHANGED <<metrics, main, should_stop, poisoned, exit, console>>

\* A modulo by the queue size 0, or in a debug build the overflow of a ring
\* address, ends the thread and poisons what it holds.
ServePanic(v) ==
  /\ pc[v] = "serve" /\ MayPanic
  /\ Unlock({"guest_mem", "virtio_net"})
  /\ poisoned' = poisoned \cup {"guest_mem", "virtio_net"}
  /\ Goto(v, "dead")
  /\ UNCHANGED <<metrics, main, should_stop, exit, console>>

NetIrqLock(v) ==
  /\ pc[v] = "net_wait"
  /\ Lock(v, "vm_fd")
  /\ Goto(v, "net_pulse")
  /\ UNCHANGED <<metrics, main, should_stop, poisoned, exit, console>>

NetIrqPulse(v) ==
  /\ pc[v] = "net_pulse"
  /\ Unlock({"guest_mem", "virtio_net", "vm_fd"})
  /\ Goto(v, "run")
  /\ UNCHANGED <<metrics, main, should_stop, poisoned, exit, console>>
-----------------------------------------------------------------------------
\* vcpu.run() and the exits.

RunReturn(v, e) ==
  /\ pc[v] = "run"
  /\ e \in OkExit \ {"shutdown"} => metrics["vcpu_exits"] < MaxExits
  /\ exit' = [exit EXCEPT ![v] = e]
  /\ IF e \in OkExit
       THEN record_vcpu_exit
       ELSE UNCHANGED metrics
  /\ Goto(v, "handle")
  /\ UNCHANGED <<main, should_stop, holder, poisoned, console>>

At(v, e) == pc[v] = "handle" /\ exit[v] = e

\* A byte for the serial port goes to the standard output and is flushed.
SerialLock(v) ==
  /\ At(v, "io")
  /\ Lock(v, "stdout")
  /\ Goto(v, "serial")
  /\ UNCHANGED <<metrics, main, should_stop, poisoned, exit, console>>

\* An error of the write is ignored.
SerialWrite(v) ==
  /\ pc[v] = "serial"
  /\ Unlock({"stdout"})
  /\ record_exit("io_exits")
  /\ Goto(v, "count")
  /\ UNCHANGED <<main, should_stop, poisoned, exit, console>>

\* Reads of the serial port, and writes to its other registers.
Io(v) ==
  /\ At(v, "io")
  /\ record_exit("io_exits")
  /\ Goto(v, "count")
  /\ UNCHANGED <<main, should_stop, holder, poisoned, exit, console>>

BlkRead(v) ==
  /\ At(v, "blk_read")
  /\ record_exit("mmio_exits")
  /\ Goto(v, "count")
  /\ UNCHANGED <<main, should_stop, holder, poisoned, exit, console>>

Hlt(v) ==
  /\ At(v, "hlt")
  /\ IF should_stop
       THEN UNCHANGED metrics /\ Goto(v, "dead")
       ELSE record_exit("hlt_exits") /\ Goto(v, "count")
  /\ UNCHANGED <<main, should_stop, holder, poisoned, exit, console>>

\* The second half of record_*_exit.
Count(v) ==
  /\ pc[v] = "count"
  /\ record_exit_end
  /\ Goto(v, "top")
  /\ UNCHANGED <<main, should_stop, holder, poisoned, exit, console>>

\* Ports and addresses that belong to nobody, exits without a case.
Other(v) ==
  /\ At(v, "other")
  /\ Goto(v, "top")
  /\ UNCHANGED <<metrics, main, should_stop, holder, poisoned, exit, console>>

\* A read or write of the network device; the exit is recorded with the
\* mutex held.
NetMmio(v) ==
  /\ At(v, "net_mmio") /\ "virtio_net" \notin poisoned
  /\ Lock(v, "virtio_net")
  /\ Goto(v, "net_mmio")
  /\ UNCHANGED <<metrics, main, should_stop, poisoned, exit, console>>

NetMmioPoisoned(v) ==
  /\ At(v, "net_mmio") /\ "virtio_net" \in poisoned /\ Free("virtio_net")
  /\ Goto(v, "top")
  /\ UNCHANGED <<metrics, main, should_stop, holder, poisoned, exit, console>>

\* A reset and a queue made ready are announced with println!, with
\* virtio_net locked.
NetPrint(v) ==
  /\ pc[v] = "net_mmio"
  /\ Lock(v, "stdout")
  /\ Goto(v, "net_print")
  /\ UNCHANGED <<metrics, main, should_stop, poisoned, exit, console>>

\* println! panics when nobody reads the standard output any more.
NetPrinted(v) ==
  /\ pc[v] = "net_print"
  /\ \/ /\ stdout_open
        /\ Unlock({"stdout"})
        /\ record_exit("mmio_exits")
        /\ Goto(v, "net_count")
        /\ UNCHANGED poisoned
     \/ /\ ~stdout_open
        /\ Unlock({"stdout", "virtio_net"})
        /\ poisoned' = poisoned \cup {"virtio_net"}
        /\ Goto(v, "dead")
        /\ UNCHANGED metrics
  /\ UNCHANGED <<main, should_stop, exit, console>>

NetMmioRecord(v) ==
  /\ pc[v] = "net_mmio"
  /\ record_exit("mmio_exits")
  /\ Goto(v, "net_count")
  /\ UNCHANGED <<main, should_stop, holder, poisoned, exit, console>>

NetMmioCount(v) ==
  /\ pc[v] = "net_count"
  /\ record_exit_end
  /\ Unlock({"virtio_net"})
  /\ Goto(v, "top")
  /\ UNCHANGED <<main, should_stop, poisoned, exit, console>>

\* A write to the block device, with or without an interrupt to inject.
BlkWrite(v) ==
  /\ At(v, "blk_write") /\ "guest_mem" \notin poisoned
  /\ Lock(v, "guest_mem")
  /\ Goto(v, "blk")
  /\ UNCHANGED <<metrics, main, should_stop, poisoned, exit, console>>

BlkWritePoisoned(v) ==
  /\ At(v, "blk_write") /\ "guest_mem" \in poisoned /\ Free("guest_mem")
  /\ record_error
  /\ Goto(v, "blk_count")
  /\ UNCHANGED <<main, should_stop, holder, poisoned, exit, console>>

BlkWriteDone(v) ==
  /\ pc[v] = "blk"
  /\ Unlock({"guest_mem"})
  /\ \E to \in {"blk_wait", "blk_count"} : Goto(v, to)
  /\ UNCHANGED <<metrics, main, should_stop, poisoned, exit, console>>

\* In a debug build the overflow of a ring address or of sector * 512 ends
\* the thread and poisons guest_mem.
BlkWritePanic(v) ==
  /\ pc[v] = "blk" /\ MayPanic
  /\ Unlock({"guest_mem"})
  /\ poisoned' = poisoned \cup {"guest_mem"}
  /\ Goto(v, "dead")
  /\ UNCHANGED <<metrics, main, should_stop, exit, console>>

BlkIrqLock(v) ==
  /\ pc[v] = "blk_wait"
  /\ Lock(v, "vm_fd")
  /\ Goto(v, "blk_pulse")
  /\ UNCHANGED <<metrics, main, should_stop, poisoned, exit, console>>

\* set_irq_line(5, true) may fail and is recorded as an error.
BlkIrqPulse(v) ==
  /\ pc[v] = "blk_pulse"
  /\ record_error \/ UNCHANGED metrics
  /\ Unlock({"vm_fd"})
  /\ Goto(v, "blk_count")
  /\ UNCHANGED <<main, should_stop, poisoned, exit, console>>

BlkCount(v) ==
  /\ pc[v] = "blk_count"
  /\ record_exit("mmio_exits")
  /\ Goto(v, "count")
  /\ UNCHANGED <<main, should_stop, holder, poisoned, exit, console>>

\* The message comes before the flag.
Shutdown(v) ==
  /\ At(v, "shutdown")
  /\ Lock(v, "stdout")
  /\ Goto(v, "bye")
  /\ UNCHANGED <<metrics, main, should_stop, poisoned, exit, console>>

\* Mutant: only this thread ends.
ByeAlone(v) ==
  /\ pc[v] = "bye"
  /\ Unlock({"stdout"})
  /\ Goto(v, "dead")
  /\ UNCHANGED <<metrics, main, should_stop, poisoned, exit, console>>

Bye(v) ==
  /\ pc[v] = "bye"
  /\ Unlock({"stdout"})
  /\ should_stop' = (should_stop \/ stdout_open)
  /\ Goto(v, "dead")
  /\ UNCHANGED <<metrics, main, poisoned, exit, console>>

Eagain(v) ==
  /\ At(v, "EAGAIN")
  /\ Goto(v, "top")
  /\ UNCHANGED <<metrics, main, should_stop, holder, poisoned, exit, console>>

Eintr(v) ==
  /\ At(v, "EINTR")
  /\ Goto(v, IF should_stop THEN "dead" ELSE "top")
  /\ UNCHANGED <<metrics, main, should_stop, holder, poisoned, exit, console>>

\* Any other errno ends the thread, and all threads.
Fatal(v) ==
  /\ At(v, "fatal")
  /\ IF should_stop THEN UNCHANGED metrics ELSE record_error
  /\ should_stop' = TRUE
  /\ Goto(v, "dead")
  /\ UNCHANGED <<main, holder, poisoned, exit, console>>
-----------------------------------------------------------------------------
\* main()

Spawn(v) ==
  /\ main = "spawn"
  /\ pc[v] = "unborn" /\ \A w \in 0 .. v - 1 : pc[w] # "unborn"
  /\ Goto(v, "top")
  /\ UNCHANGED <<metrics, main, should_stop, holder, poisoned, exit, console>>

SetHandler ==
  /\ main = "spawn"
  /\ \A v \in Vcpu : pc[v] # "unborn"
  /\ main' = "join"
  /\ UNCHANGED <<metrics, should_stop, holder, poisoned, pc, exit, console>>

\* The handler prints, then stores the flag; if it panics, its thread is gone.
CtrlC ==
  /\ main = "join" /\ ctrlc /\ Free("stdout")
  /\ should_stop' = (should_stop \/ stdout_open)
  /\ ctrlc' = stdout_open
  /\ UNCHANGED <<metrics, main, holder, poisoned, pc, exit, stdout_open>>

\* The other end of a pipe is closed.
CloseStdout ==
  /\ MayClose
  /\ stdout_open' = FALSE
  /\ UNCHANGED <<metrics, main, should_stop, holder, poisoned, pc, exit, ctrlc>>

JoinAll ==
  /\ main = "join"
  /\ \A v \in Vcpu : pc[v] = "dead"
  /\ main' = "done"
  /\ UNCHANGED <<metrics, should_stop, holder, poisoned, pc, exit, console>>

Terminated == main = "done" /\ UNCHANGED vars
-----------------------------------------------------------------------------
Init ==
  /\ MetricsInit
  /\ main = "spawn" /\ should_stop = FALSE
  /\ holder = [m \in Mutex |-> None] /\ poisoned = {}
  /\ pc = [v \in Vcpu |-> "unborn"]
  /\ exit = [v \in Vcpu |-> "other"]
  /\ stdout_open = TRUE /\ ctrlc = TRUE

\* Steps of a thread outside vcpu.run().
HostStep(v) ==
  \/ Top(v) \/ TryMem(v) \/ TryNet(v)
  \/ ServeIrq(v) \/ ServeIdle(v) \/ ServePanic(v)
  \/ NetIrqLock(v) \/ NetIrqPulse(v)
  \/ SerialLock(v) \/ SerialWrite(v) \/ Io(v) \/ BlkRead(v) \/ Hlt(v) \/ Count(v) \/ Other(v)
  \/ NetMmio(v) \/ NetMmioPoisoned(v) \/ NetPrint(v) \/ NetPrinted(v)
  \/ NetMmioRecord(v) \/ NetMmioCount(v)
  \/ BlkWrite(v) \/ BlkWritePoisoned(v) \/ BlkWriteDone(v)
  \/ BlkWritePanic(v)
  \/ BlkIrqLock(v) \/ BlkIrqPulse(v) \/ BlkCount(v)
  \/ Shutdown(v) \/ Bye(v) \/ Eagain(v) \/ Eintr(v) \/ Fatal(v)

GuestExit(v) == \E e \in OkExit \cup ErrExit : RunReturn(v, e)

Main == (\E v \in Vcpu : Spawn(v)) \/ SetHandler \/ JoinAll

Next ==
  \/ \E v \in Vcpu : HostStep(v) \/ GuestExit(v)
  \/ Main \/ CtrlC \/ CloseStdout
  \/ Terminated

Spec == Init /\ [][Next]_vars

\* Threads outside vcpu.run() are scheduled.
FairSpec == Spec /\ WF_vars(Main) /\ \A v \in Vcpu : WF_vars(HostStep(v))

\* In addition the guest never runs for ever without an exit.
ExitingSpec == FairSpec /\ \A v \in Vcpu : WF_vars(GuestExit(v))
-----------------------------------------------------------------------------
(***************************************************************************)
(* Properties.                                                             *)
(***************************************************************************)

\* Every variable has its type.
TypeOK ==
  /\ metrics \in [Counter -> Nat]
  /\ main \in {"spawn", "join", "done"} /\ should_stop \in BOOLEAN
  /\ holder \in [Mutex -> Vcpu \cup {None}]
  /\ poisoned \subseteq Mutex
  /\ pc \in [Vcpu -> Pc]
  /\ exit \in [Vcpu -> OkExit \cup ErrExit]
  /\ {stdout_open, ctrlc} \subseteq BOOLEAN

\* v has to wait for the mutex m.
WaitsFor(v, m) ==
  \/ m = "vm_fd" /\ pc[v] \in {"net_wait", "blk_wait"}
  \/ m = "virtio_net" /\ At(v, "net_mmio")
  \/ m = "guest_mem" /\ At(v, "blk_write")
  \/ m = "stdout" /\ (At(v, "shutdown") \/ pc[v] = "net_mmio" \/ At(v, "io"))

\* No set of threads waits for each other: vm_fd is only waited for by a
\* thread that holds guest_mem and virtio_net or nothing, the standard output
\* by one that holds virtio_net or nothing, the other two only by threads that
\* hold nothing.  Warnings printed with guest_mem or vm_fd held (main.rs:128,
\* 144, 148) also take the standard output, whose holders wait for nothing, so
\* they would close no circle; they are left out.
NoWaitCycle ==
  \A S \in (SUBSET Vcpu) \ {{}} :
    \E v \in S : \A m \in Mutex : WaitsFor(v, m) => holder[m] \notin S

\* A mutex is never held by a thread that runs the guest, goes round the loop
\* or has ended, by a panic too: nobody waits for a holder that does not
\* come back.
HolderInHost ==
  \A m \in Mutex :
    holder[m] # None => pc[holder[m]] \in Alive \ {"top", "run", "handle"}

\* The exits of each kind never outnumber the exits: also between the two
\* fetch_adds of record_io_exit and its siblings, in every interleaving.
KindsWithinExits ==
  metrics["io_exits"] + metrics["mmio_exits"] + metrics["hlt_exits"]
    <= metrics["vcpu_exits"]

\* Once a stop is requested, by Ctrl-C, a shutdown of the guest or a fatal
\* error, every thread ends and main returns.
StopTerminates == should_stop ~> main = "done"

\* A shutdown of the guest reaches all threads as long as the standard output
\* is read: the message, which may panic, is printed before the flag is set.
ShutdownHeard ==
  \A v \in Vcpu : At(v, "shutdown") ~> (should_stop \/ ~stdout_open)
-----------------------------------------------------------------------------
(***************************************************************************)
(* The inductive invariants of the proofs.                                 *)
(***************************************************************************)

\* Where in the code a thread has guest_mem, virtio_net, vm_fd and the
\* standard output.
MemAt == {"try_net", "serve", "net_wait", "net_pulse", "blk"}
NetAt == {"serve", "net_wait", "net_pulse", "net_mmio", "net_print", "net_count"}
IrqAt == {"net_pulse", "blk_pulse"}
OutAt == {"serial", "net_print", "bye"}

\* A thread holds a mutex exactly where the code has locked it and not
\* released it: two threads are never there at once.
LocksFollow ==
  \A v \in Vcpu :
    /\ holder["guest_mem"] = v <=> pc[v] \in MemAt
    /\ holder["virtio_net"] = v <=> pc[v] \in NetAt
    /\ holder["vm_fd"] = v <=> pc[v] \in IrqAt
    /\ holder["stdout"] = v <=> pc[v] \in OutAt

\* The exit that v is handling has been counted, but not yet its kind.
Uncounted ==
  {v \in Vcpu :
     \/ pc[v] = "handle" /\ exit[v] \in OkExit
     \/ pc[v] \in {"serial", "net_mmio", "net_print", "blk", "blk_wait",
                   "blk_pulse", "blk_count"}}

\* There is an exit on record for every kind on record, and for every kind
\* that is still to come.
ExitsCover ==
  IF Enabled
    THEN metrics["io_exits"] + metrics["mmio_exits"] + metrics["hlt_exits"]
           + Cardinality(Uncounted) <= metrics["vcpu_exits"]
    ELSE metrics = [c \in Counter |-> 0]
=============================================================================
