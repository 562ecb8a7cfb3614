---------------------------- MODULE VirtioBlock ----------------------------
(***************************************************************************)
(* The data plane of the VirtIO block device (virtio.rs) as it is driven   *)
(* by the vCPU threads of run_vcpu (main.rs).                              *)
(*                                                                         *)
(* A vCPU thread is either executing guest code or handling an MMIO exit.  *)
(* Every MMIO write to the device runs with the guest_mem mutex held, MMIO *)
(* reads do not take it.  The other vCPUs keep executing the guest, so the *)
(* rings in guest memory change under the device, and the steps of         *)
(* process_queue whose order the driver can observe are separate actions.  *)
(* irq 5 is pulsed after guest_mem has been released.                      *)
(*                                                                         *)
(* The guest driver is not part of the repository.  It is modelled from    *)
(* what the device expects of it: it owns the descriptors that are not on  *)
(* loan, publishes a chain before it bumps avail.idx, writes QUEUE_NOTIFY  *)
(* after publishing, and on irq 5 reads INTERRUPT_STATUS, acknowledges it  *)
(* and then consumes the used ring.  A chain is a header, one data and one *)
(* status descriptor; DescChain shows what the descriptor walk makes of    *)
(* it.  Ring areas and buffers lie in guest RAM.                           *)
(***************************************************************************)
EXTENDS RingIndex

CONSTANTS
  Vcpu,        \* the vCPU threads
  Sector,      \* sectors of the disk image
  Data,        \* contents of a sector
  None,        \* no holder, no chain, no data
  SectorLen,   \* bytes of a data buffer, as counted in a used element
  MaxSubmit,   \* bound: requests submitted in a behaviour
  MaxReset,    \* bound: device resets in a behaviour
  IoMayFail    \* whether seek, read or write of the disk file can fail

ASSUME BlockAssumption ==
  /\ None \notin Vcpu
  /\ None \notin Data
  /\ None # "OK"
  /\ SectorLen \in Nat \ {0}
  /\ MaxSubmit \in Nat
  /\ MaxReset \in Nat
  /\ IoMayFail \in BOOLEAN

VARIABLES
  \* registers of VirtioBlock
  status, interrupt_status, queue_num, queue_ready, last_avail_idx,
  disk,        \* the disk image
  \* run_vcpu
  guest_mem,   \* holder of the guest memory mutex
  pc,          \* where each vCPU thread is
  avail_idx, head_idx, written, work_done, \* locals of process_queue; one
                                           \* thread at a time is in there
  \* guest memory
  avail,       \* [idx, ring] written by the driver
  used,        \* [idx, ring] written by the device
  chain,       \* the request behind each descriptor head, None when free
  buf,         \* the data buffer of each chain
  stat,        \* the status byte of each chain
  \* guest driver and interrupt controller
  drv, kick, last_used, irq, nsub, nreset

regs    == <<status, interrupt_status, queue_num, queue_ready, last_avail_idx>>
locals  == <<avail_idx, head_idx, written, work_done>>
gmem    == <<avail, used, chain, buf, stat>>
driver  == <<drv, kick, last_used, irq, nsub, nreset>>
vars    == <<regs, disk, guest_mem, pc, locals, gmem, driver>>

Request == [op : {"out"}, sector : Sector, data : Data]
             \cup [op : {"in"}, sector : Sector, data : {None}]

ASSUME RequestAssumption == None \notin Request

QueuePc == {"loop", "used", "publish"}   \* in process_queue
IsrPc   == {"isr", "ack", "drain"}       \* in the guest's handler of irq 5
Pc      == {"guest", "irq"} \cup QueuePc \cup IsrPc

Goto(v, to) == pc' = [pc EXCEPT ![v] = to]

Outstanding == {h \in Desc : chain[h] # None}
-----------------------------------------------------------------------------
\* Register writes: what write() does to the device for one offset.

\* Mutant: a reset that keeps the position on the avail ring.
WriteStatusKeepsIdx(val) ==
  /\ status' = val
  /\ queue_ready' = IF val = 0 /\ status # 0 THEN 0 ELSE queue_ready
  /\ UNCHANGED <<interrupt_status, queue_num, last_avail_idx>>

WriteStatus(val) ==
  /\ status' = val
  /\ IF val = 0 /\ status # 0
       THEN queue_ready' = 0 /\ last_avail_idx' = 0
       ELSE UNCHANGED <<queue_ready, last_avail_idx>>
  /\ UNCHANGED <<interrupt_status, queue_num>>

WriteQueueNum(val) ==
  /\ queue_num' = val
  /\ UNCHANGED <<status, interrupt_status, queue_ready, last_avail_idx>>

WriteQueueReady(val) ==
  /\ queue_ready' = val
  /\ UNCHANGED <<status, interrupt_status, queue_num, last_avail_idx>>

\* The handler acknowledges the bit it has read, the only one the device sets.
WriteInterruptAck ==
  /\ interrupt_status' = 0
  /\ UNCHANGED <<status, queue_num, queue_ready, last_avail_idx>>
-----------------------------------------------------------------------------
\* QUEUE_NOTIFY: process_queue, entered with guest_mem locked.

\* The queue is not configured: process_queue returns false at once.
NotifyNotReady(v) ==
  /\ pc[v] = "guest" /\ kick[v] /\ guest_mem = None
  /\ queue_num = 0 \/ queue_ready = 0
  /\ kick' = [kick EXCEPT ![v] = FALSE]
  /\ UNCHANGED <<regs, disk, guest_mem, pc, locals, gmem,
                 drv, last_used, irq, nsub, nreset>>

\* avail.idx is read once, before the loop.
NotifyReady(v) ==
  /\ pc[v] = "guest" /\ kick[v] /\ guest_mem = None
  /\ queue_num # 0 /\ queue_ready # 0
  /\ kick' = [kick EXCEPT ![v] = FALSE]
  /\ guest_mem' = v
  /\ avail_idx' = avail.idx
  /\ work_done' = FALSE
  /\ Goto(v, "loop")
  /\ UNCHANGED <<regs, disk, head_idx, written, gmem,
                 drv, last_used, irq, nsub, nreset>>

\* Mutant: the sector is sought and never written.
WriteDiskLost(sector, data) == disk

\* What a write request makes of the disk.
WriteDisk(sector, data) == [disk EXCEPT ![sector] = data]

\* One turn of the while loop up to the used ring: fetch the head, transfer
\* between the disk and the data buffer, set the status byte.  A failed seek,
\* read or write leaves the data where it was and is not reported.  A short
\* read counts as a failed one (the buffer does not hold the sector), and a
\* device whose disk file could not be opened as one that fails every time;
\* what a failing file has taken of a write is left out.
ProcessChain(v) ==
  /\ pc[v] = "loop" /\ last_avail_idx # avail_idx
  /\ LET h == avail.ring[Slot(last_avail_idx)]
         r == chain[h]
     IN  \E ok \in IF IoMayFail THEN BOOLEAN ELSE {TRUE} :
           /\ head_idx' = h
           /\ disk' = IF ok /\ r.op = "out"
                        THEN WriteDisk(r.sector, buf[h]) ELSE disk
           /\ buf' = IF ok /\ r.op = "in"
                       THEN [buf EXCEPT ![h] = disk[r.sector]] ELSE buf
           /\ written' = IF ok /\ r.op = "in" THEN SectorLen + 1 ELSE 1
           /\ stat' = [stat EXCEPT ![h] = "OK"]
  /\ Goto(v, "used")
  /\ UNCHANGED <<regs, guest_mem, avail_idx, work_done, avail, used, chain,
                 driver>>

\* Mutant: the element goes one slot too far.
WriteUsedElemAhead(v) ==
  /\ pc[v] = "used"
  /\ used' = [used EXCEPT !.ring[Slot(used.idx + 1)] =
                            [id |-> head_idx, len |-> written]]
  /\ Goto(v, "publish")
  /\ UNCHANGED <<regs, disk, guest_mem, locals, avail, chain, buf, stat, driver>>

\* The used element goes to the slot of the used.idx found in guest memory.
WriteUsedElem(v) ==
  /\ pc[v] = "used"
  /\ used' = [used EXCEPT !.ring[Slot(used.idx)] =
                            [id |-> head_idx, len |-> written]]
  /\ Goto(v, "publish")
  /\ UNCHANGED <<regs, disk, guest_mem, locals, avail, chain, buf, stat, driver>>

\* used.idx makes the element visible to the driver.  The locals of the loop
\* body end here, those of process_queue in FinishQueue.
PublishUsed(v) ==
  /\ pc[v] = "publish"
  /\ used' = [used EXCEPT !.idx = WrappingInc(@)]
  /\ last_avail_idx' = WrappingInc(last_avail_idx)
  /\ work_done' = TRUE
  /\ Goto(v, "loop")
  /\ head_idx' = 0 /\ written' = 0
  /\ UNCHANGED <<status, interrupt_status, queue_num, queue_ready, disk,
                 guest_mem, avail_idx, avail, chain, buf, stat, driver>>

\* Mutant: the interrupt is raised without its status bit.
FinishQueueNoStatus(v) ==
  /\ pc[v] = "loop" /\ last_avail_idx = avail_idx
  /\ guest_mem' = None
  /\ Goto(v, IF work_done THEN "irq" ELSE "guest")
  /\ avail_idx' = 0 /\ work_done' = FALSE
  /\ UNCHANGED <<regs, disk, head_idx, written, gmem, driver>>

\* Mutant: guest_mem is not released.
FinishQueueLocked(v) ==
  /\ pc[v] = "loop" /\ last_avail_idx = avail_idx
  /\ interrupt_status' = IF work_done THEN 1 ELSE interrupt_status
  /\ Goto(v, IF work_done THEN "irq" ELSE "guest")
  /\ avail_idx' = 0 /\ work_done' = FALSE
  /\ UNCHANGED <<status, queue_num, queue_ready, last_avail_idx, disk, guest_mem,
                 head_idx, written, gmem, driver>>

\* The end of process_queue and the release of guest_mem.
FinishQueue(v) ==
  /\ pc[v] = "loop" /\ last_avail_idx = avail_idx
  /\ guest_mem' = None
  /\ interrupt_status' = IF work_done THEN 1 ELSE interrupt_status
  /\ Goto(v, IF work_done THEN "irq" ELSE "guest")
  /\ avail_idx' = 0 /\ work_done' = FALSE
  /\ UNCHANGED <<status, queue_num, queue_ready, last_avail_idx, disk,
                 head_idx, written, gmem, driver>>

\* set_irq_line(5, true); set_irq_line(5, false) under the vm_fd mutex: an
\* edge, latched by the interrupt controller until a vCPU takes it.  That the
\* ioctl fails, or that vm_fd is poisoned and the thread ends, is left to
\* RunVcpu: here the edge always arrives.
InjectIrq(v) ==
  /\ pc[v] = "irq"
  /\ irq' = TRUE
  /\ Goto(v, "guest")
  /\ UNCHANGED <<regs, disk, guest_mem, locals, gmem,
                 drv, kick, last_used, nsub, nreset>>
-----------------------------------------------------------------------------
\* The guest driver.

\* Rings as the driver allocates them: zeroed.
NewAvail == [idx |-> 0, ring |-> [s \in Desc |-> 0]]
NewUsed  == [idx |-> 0, ring |-> [s \in Desc |-> [id |-> 0, len |-> 0]]]

\* The driver puts a request on the ring, which has room for one per
\* descriptor chain; a notification is now due.
Submit(v, h, r) ==
  /\ pc[v] = "guest" /\ drv = "on" /\ nsub < MaxSubmit
  /\ chain[h] = None /\ Dist(avail.idx, last_used) < QueueSize
  /\ chain' = [chain EXCEPT ![h] = r]
  /\ buf' = [buf EXCEPT ![h] = r.data]
  /\ stat' = [stat EXCEPT ![h] = None]
  /\ avail' = [idx |-> WrappingInc(avail.idx),
               ring |-> [avail.ring EXCEPT ![Slot(avail.idx)] = h]]
  /\ kick' = [kick EXCEPT ![v] = TRUE]
  /\ nsub' = nsub + 1
  /\ UNCHANGED <<regs, disk, guest_mem, pc, locals, used, drv, last_used, irq,
                 nreset>>

\* Irq 5 is taken by one vCPU at a time.
TakeIrq(v) ==
  /\ pc[v] = "guest" /\ irq
  /\ \A w \in Vcpu : pc[w] \notin IsrPc
  /\ irq' = FALSE
  /\ Goto(v, "isr")
  /\ UNCHANGED <<regs, disk, guest_mem, locals, gmem,
                 drv, kick, last_used, nsub, nreset>>

\* An MMIO read: not under guest_mem, it may fall inside process_queue.
ReadInterruptStatus(v) ==
  /\ pc[v] = "isr"
  /\ Goto(v, IF interrupt_status = 0 THEN "guest" ELSE "ack")
  /\ UNCHANGED <<regs, disk, guest_mem, locals, gmem, driver>>

AckInterrupt(v) ==
  /\ pc[v] = "ack" /\ guest_mem = None
  /\ WriteInterruptAck
  /\ Goto(v, "drain")
  /\ UNCHANGED <<disk, guest_mem, locals, gmem, driver>>

\* The handler takes one completion off the used ring, with its data and its
\* status byte, and frees the chain.
Drain(v) ==
  /\ pc[v] = "drain" /\ last_used # used.idx
  /\ LET h == used.ring[Slot(last_used)].id
     IN  /\ chain' = [chain EXCEPT ![h] = None]
         /\ buf' = [buf EXCEPT ![h] = None]
         /\ stat' = [stat EXCEPT ![h] = None]
  /\ last_used' = WrappingInc(last_used)
  /\ UNCHANGED <<regs, disk, guest_mem, pc, locals, avail, used,
                 drv, kick, irq, nsub, nreset>>

DrainDone(v) ==
  /\ pc[v] = "drain" /\ last_used = used.idx
  /\ Goto(v, "guest")
  /\ UNCHANGED <<regs, disk, guest_mem, locals, gmem, driver>>

\* The driver writes 0 to STATUS, whatever is in flight.
DrvReset(v) ==
  /\ pc[v] = "guest" /\ guest_mem = None
  /\ drv # "off" /\ nreset < MaxReset
  /\ WriteStatus(0)
  /\ drv' = "off"
  /\ nreset' = nreset + 1
  /\ UNCHANGED <<disk, guest_mem, pc, locals, gmem, kick, last_used, irq, nsub>>

\* It starts over with zeroed rings, once no handler is running any more.
DrvAcknowledge(v) ==
  /\ pc[v] = "guest" /\ guest_mem = None
  /\ drv = "off"
  /\ \A w \in Vcpu : pc[w] \notin IsrPc
  /\ WriteStatus(1)
  /\ drv' = "acked"
  /\ avail' = NewAvail /\ used' = NewUsed
  /\ chain' = [h \in Desc |-> None]
  /\ buf' = [h \in Desc |-> None] /\ stat' = [h \in Desc |-> None]
  /\ last_used' = 0
  /\ UNCHANGED <<disk, guest_mem, pc, locals, kick, irq, nsub, nreset>>

DrvQueueNum(v) ==
  /\ pc[v] = "guest" /\ guest_mem = None
  /\ drv = "acked"
  /\ WriteQueueNum(QueueSize)
  /\ drv' = "sized"
  /\ UNCHANGED <<disk, guest_mem, pc, locals, gmem, kick, last_used, irq, nsub,
                 nreset>>

DrvQueueReady(v) ==
  /\ pc[v] = "guest" /\ guest_mem = None
  /\ drv = "sized"
  /\ WriteQueueReady(1)
  /\ drv' = "on"
  /\ UNCHANGED <<disk, guest_mem, pc, locals, gmem, kick, last_used, irq, nsub,
                 nreset>>
-----------------------------------------------------------------------------
Init ==
  /\ status = 0 /\ interrupt_status = 0
  /\ queue_num = 0 /\ queue_ready = 0 /\ last_avail_idx = 0
  /\ disk \in [Sector -> Data]
  /\ guest_mem = None
  /\ pc = [v \in Vcpu |-> "guest"]
  /\ avail_idx = 0 /\ head_idx = 0 /\ written = 0 /\ work_done = FALSE
  /\ avail = NewAvail /\ used = NewUsed
  /\ chain = [h \in Desc |-> None]
  /\ buf = [h \in Desc |-> None]
  /\ stat = [h \in Desc |-> None]
  /\ drv = "off" /\ kick = [v \in Vcpu |-> FALSE]
  /\ last_used = 0 /\ irq = FALSE /\ nsub = 0 /\ nreset = 0

\* The steps of the thread once the guest has nothing new to ask for.
Handle(v) ==
  \/ NotifyNotReady(v) \/ NotifyReady(v)
  \/ ProcessChain(v) \/ WriteUsedElem(v) \/ PublishUsed(v)
  \/ FinishQueue(v) \/ InjectIrq(v)
  \/ TakeIrq(v) \/ ReadInterruptStatus(v) \/ AckInterrupt(v)
  \/ Drain(v) \/ DrainDone(v)

Configure(v) ==
  \/ DrvReset(v) \/ DrvAcknowledge(v) \/ DrvQueueNum(v) \/ DrvQueueReady(v)

Next ==
  \E v \in Vcpu :
    \/ Handle(v)
    \/ Configure(v)
    \/ \E h \in Desc, r \in Request : Submit(v, h, r)

Spec == Init /\ [][Next]_vars

\* A runnable host thread keeps running, and a guest with interrupts enabled
\* finishes its handler and the notification it owes.  New requests and
\* resets are the guest's choice.
Fairness == \A v \in Vcpu : WF_vars(Handle(v))

FairSpec == Spec /\ Fairness
-----------------------------------------------------------------------------
(***************************************************************************)
(* Properties.                                                             *)
(***************************************************************************)

\* Every variable has its type: indices are u16 values, the heads on the
\* rings are descriptors of the queue, the mutex is held by a vCPU or free.
TypeOK ==
  /\ status \in {0, 1} /\ interrupt_status \in {0, 1}
  /\ queue_num \in {0, QueueSize} /\ queue_ready \in {0, 1}
  /\ last_avail_idx \in Idx
  /\ disk \in [Sector -> Data]
  /\ guest_mem \in Vcpu \cup {None}
  /\ pc \in [Vcpu -> Pc]
  /\ avail_idx \in Idx /\ head_idx \in Desc
  /\ written \in {0, 1, SectorLen + 1} /\ work_done \in BOOLEAN
  /\ avail \in [idx : Idx, ring : [Desc -> Desc]]
  /\ used \in [idx : Idx,
               ring : [Desc -> [id : Desc, len : {0, 1, SectorLen + 1}]]]
  /\ chain \in [Desc -> Request \cup {None}]
  /\ buf \in [Desc -> Data \cup {None}]
  /\ stat \in [Desc -> {"OK", None}]
  /\ drv \in {"off", "acked", "sized", "on"}
  /\ kick \in [Vcpu -> BOOLEAN]
  /\ last_used \in Idx /\ irq \in BOOLEAN
  /\ nsub \in 0..MaxSubmit /\ nreset \in 0..MaxReset

\* A thread is inside process_queue.
Processing == \E v \in Vcpu : pc[v] \in QueuePc

\* avail.idx is read once per notification while other vCPUs keep
\* submitting: a request on the ring is either in the range that process_queue
\* is working through, or the notification that will find it is still to come.
NoLostKick ==
  drv = "on" =>
    \/ \E v \in Vcpu : kick[v]
    \/ Processing /\ avail_idx = avail.idx
    \/ ~Processing /\ last_avail_idx = avail.idx

\* interrupt_status is set under guest_mem, the edge on irq 5 is raised after
\* it is released, and another vCPU can acknowledge in between: still no
\* completion is left on the used ring with nobody on the way to consume it.
NoLostInterrupt ==
  last_used # used.idx =>
    \/ \E v \in Vcpu : pc[v] \in {"ack", "drain"}
    \/ \E v \in Vcpu : pc[v] \in QueuePc /\ work_done
    \/ /\ interrupt_status = 1
       /\ irq \/ \E v \in Vcpu : pc[v] \in {"irq", "isr"}

\* The unread part of the used ring names requests that the driver is waiting
\* for, each of them once, in the order of submission and with the status
\* byte written, also when the indices wrap and the ring is full: the
\* device never overwrites a completion that has not been read.
CompletionsOwned ==
  drv = "on" =>
    \A k \in 0 .. Dist(used.idx, last_used) - 1 :
      LET s == Slot(IdxAt(last_used, k))
          h == used.ring[s].id
      IN  /\ h = avail.ring[s]
          /\ chain[h] # None /\ stat[h] = "OK"
          /\ \A j \in 0 .. k - 1 :
               used.ring[Slot(IdxAt(last_used, j))].id # h

\* A read that is reported complete with status OK has filled its buffer.
OkReadHasData ==
  \A h \in Outstanding :
    stat[h] = "OK" /\ chain[h].op = "in" => buf[h] # None

\* On a disk file that does not fail, the device executes what the driver
\* submits, exactly once and in order, and hands back each result once.  The
\* refinement mapping reads the pending requests off the avail ring from
\* last_avail_idx on, and the results off the used ring from the driver's
\* last_used on; the request in process_queue counts as executed from the
\* moment of the transfer.
Executed == IF \E v \in Vcpu : pc[v] \in {"used", "publish"} THEN 1 ELSE 0

Pending ==
  IF drv # "on" THEN <<>> ELSE
  [k \in 1 .. Dist(avail.idx, last_avail_idx) - Executed |->
     LET h == avail.ring[Slot(IdxAt(last_avail_idx, k - 1 + Executed))]
     IN  [tag |-> h, req |-> chain[h]]]

Done ==
  IF drv # "on" THEN <<>> ELSE
  [k \in 1 .. Dist(last_avail_idx, last_used) + Executed |->
     LET h == IF k <= Dist(used.idx, last_used)
                THEN used.ring[Slot(IdxAt(last_used, k - 1))].id
                ELSE head_idx
     IN  [tag |-> h, req |-> chain[h], data |-> buf[h]]]

Service == INSTANCE BlockService
             WITH Tag <- Desc, pending <- Pending, done <- Done

ImplementsService == Service!Spec

\* Every request is eventually completed and its completion consumed, unless
\* the driver resets the device.
RequestsComplete ==
  \A h \in Desc :
    (drv = "on" /\ chain[h] # None) ~> (chain[h] = None \/ drv # "on")
-----------------------------------------------------------------------------
(***************************************************************************)
(* What holds in every reachable state and makes the safety properties     *)
(* inductive.                                                              *)
(***************************************************************************)

\* process_queue runs under guest_mem and nobody holds it outside.
HolderProcesses == \A v \in Vcpu : pc[v] \in QueuePc <=> guest_mem = v

\* The registers follow the driver's configuration: the queue is ready only
\* for a driver that has finished it, and a queue that is not ready has no
\* request and no index left from before the reset.
RegistersFollow ==
  /\ drv = "off" <=> status = 0
  /\ drv = "on" <=> queue_ready = 1
  /\ drv \in {"sized", "on"} => queue_num = QueueSize
  /\ drv # "on" => guest_mem = None /\ last_avail_idx = 0
  /\ drv \in {"acked", "sized"} =>
       avail.idx = 0 /\ used.idx = 0 /\ last_used = 0

\* The k-th entry of the ring from the driver's last_used on.
SlotAt(k) == Slot(IdxAt(last_used, k))
HeadAt(k) == avail.ring[SlotAt(k)]

\* How far the driver and the device are ahead of last_used.
Submitted == Dist(avail.idx, last_used)
Completed == Dist(last_avail_idx, last_used)
Snapshot  == Dist(avail_idx, last_used)

\* The indices keep their order around the ring, and a full ring is the limit.
IndicesOrdered ==
  drv = "on" =>
    /\ used.idx = last_avail_idx
    /\ Completed <= Submitted /\ Submitted <= QueueSize
    /\ \A v \in Vcpu :
         /\ pc[v] \in QueuePc => Completed <= Snapshot /\ Snapshot <= Submitted
         /\ pc[v] \in {"used", "publish"} => Completed < Snapshot

\* The heads on the avail ring are outstanding requests, each there once.
HeadsOwned ==
  drv = "on" =>
    \A k \in 0 .. Submitted - 1 :
      /\ chain[HeadAt(k)] # None
      /\ \A j \in 0 .. Submitted - 1 : HeadAt(j) = HeadAt(k) => j = k

\* The used ring repeats the heads of the avail ring up to used.idx.
UsedFollowsAvail ==
  drv = "on" =>
    \A k \in 0 .. Completed - 1 :
      used.ring[SlotAt(k)].id = HeadAt(k) /\ stat[HeadAt(k)] = "OK"

\* The request in process_queue is the one at last_avail_idx.
RequestAtHand ==
  drv = "on" =>
    \A v \in Vcpu :
      /\ pc[v] \in {"used", "publish"} =>
           head_idx = avail.ring[Slot(last_avail_idx)] /\ stat[head_idx] = "OK"
      /\ pc[v] = "publish" => used.ring[Slot(last_avail_idx)].id = head_idx

\* The buffer of a write request holds what the driver put there.
OutDataKept ==
  \A h \in Outstanding : chain[h].op = "out" => buf[h] = chain[h].data

RingInv ==
  /\ HolderProcesses /\ RegistersFollow
  /\ IndicesOrdered /\ HeadsOwned /\ UsedFollowsAvail /\ RequestAtHand
  /\ OutDataKept
=============================================================================
