----------------------------- MODULE VirtioNet -----------------------------
(***************************************************************************)
(* The VirtIO network device (virtio_net.rs) with its TAP back end         *)
(* (tap.rs), as it is driven by the vCPU threads of run_vcpu (main.rs).    *)
(*                                                                         *)
(* QUEUE_NOTIFY does nothing: the queues are served by the thread of       *)
(* vCPU 0, once on each turn of its loop before it enters the guest, if it *)
(* gets guest_mem and virtio_net with try_lock.  It then delivers at most  *)
(* one packet, transmits everything on the TX ring and pulses irq 6, all   *)
(* with both mutexes held.  Every MMIO access to the device takes          *)
(* virtio_net; MMIO writes to the block device hold guest_mem.             *)
(*                                                                         *)
(* The guest driver and the host's side of the TAP interface are not part  *)
(* of the repository.  The driver configures both queues through           *)
(* QUEUE_SEL, posts receive buffers, posts packets and notifies, and on    *)
(* irq 6 reads INTERRUPT_STATUS, acknowledges it and consumes both used    *)
(* rings.  Ring areas and buffers lie in guest RAM.                        *)
(***************************************************************************)
EXTENDS RingIndex, Sequences

CONSTANTS
  Vcpu,        \* the vCPU threads
  Cpu0,        \* the one with cpu_id 0
  None,        \* no holder, no buffer
  Empty,       \* what is in a receive buffer that has been posted
  HasTap,      \* whether the TAP interface could be created
  TapMayFail,  \* whether a write to the TAP interface can fail
  Splits,      \* whether packets to send have their header apart: subset of BOOLEAN
  BlkExits,    \* whether the guest uses the block device, too
  MaxRx,       \* bound: packets the host sends
  MaxTx,       \* bound: packets the guest sends
  MaxReset     \* bound: device resets

ASSUME NetAssumption ==
  /\ Cpu0 \in Vcpu
  /\ None \notin Vcpu /\ Empty # None
  /\ HasTap \in BOOLEAN /\ TapMayFail \in BOOLEAN /\ Splits \subseteq BOOLEAN
  /\ BlkExits \in BOOLEAN
  /\ MaxRx \in Nat /\ MaxTx \in Nat /\ MaxReset \in Nat

VARIABLES
  \* VirtioNet
  queue_sel, queues, interrupt_status,
  \* run_vcpu
  guest_mem, virtio_net,   \* holders of the mutexes
  pc, op,                  \* place of each thread, register access at hand
  rx_work, tx_work,        \* locals of the poll
  \* TAP interface
  tap_in, tap_out,         \* packets to be read, packets written
  \* guest memory
  avail, used, chain,      \* rings and buffers of each queue
  \* guest driver and interrupt controller
  g, drv, kick, last_used, irq, nrx, ntx, nreset

regs   == <<queue_sel, queues, interrupt_status>>
locks  == <<guest_mem, virtio_net>>
work   == <<rx_work, tx_work>>
tap    == <<tap_in, tap_out>>
gmem   == <<avail, used, chain>>
driver == <<g, drv, kick, last_used, irq, nrx, ntx, nreset>>
vars   == <<regs, locks, pc, op, work, tap, gmem, driver>>

RX == 0
TX == 1
Queue == {RX, TX}

\* VirtQueue::new()
NewQueue == [queue_size |-> 0, ready |-> FALSE, last_avail_idx |-> 0]

\* A packet on its way to the guest; big: longer than a receive buffer.
Packet == [id : 1..MaxRx, big : BOOLEAN]

\* A packet the guest sends; split: the first descriptor holds the header
\* and nothing else, the data is in the next one.
Frame == [id : 1..MaxTx, split : Splits]

ASSUME PacketAssumption == None \notin Packet /\ None \notin Frame

\* The register writes that take the driver from reset to DRIVER_OK.
Setup == << [reg |-> "status", val |-> 1],
            [reg |-> "sel", val |-> RX], [reg |-> "num", val |-> QueueSize],
            [reg |-> "ready", val |-> 1],
            [reg |-> "sel", val |-> TX], [reg |-> "num", val |-> QueueSize],
            [reg |-> "ready", val |-> 1],
            [reg |-> "status", val |-> 4] >>
On     == drv = Len(Setup)
Access == {Setup[i] : i \in DOMAIN Setup}
            \cup {[reg |-> r, val |-> 0] : r \in {"status", "notify"}}
            \cup {[reg |-> "isr", val |-> 0], [reg |-> "ack", val |-> 1]}

NoAccess == [reg |-> "none", val |-> 0]

PollPc == {"rx", "rx_idx", "tx", "tx_idx", "irq"}
Pc     == {"top", "guest", "mmio", "blk"} \cup PollPc

Goto(v, to) == pc' = [pc EXCEPT ![v] = to]
-----------------------------------------------------------------------------
\* VirtQueue

\* get_avail_desc_idx finds the index in guest memory ahead of its own.
HasAvail(q) == queues[q].last_avail_idx # avail[q].idx

\* Mutant: the newest entry of the ring instead of the oldest.
AvailDescLast(q) == avail[q].ring[(avail[q].idx - 1) % queues[q].queue_size]

AvailDesc(q) == avail[q].ring[queues[q].last_avail_idx % queues[q].queue_size]

\* Mutant: the element goes one slot too far.
UsedElemAhead(q, h) ==
  used' = [used EXCEPT
             ![q].ring[(queues[q].last_avail_idx + 1) % queues[q].queue_size] = h]

\* The two halves of add_used: the element goes to the slot of
\* last_avail_idx, and used.idx becomes last_avail_idx.
UsedElem(q, h) ==
  used' = [used EXCEPT
             ![q].ring[queues[q].last_avail_idx % queues[q].queue_size] = h]

UsedIdx(q) ==
  LET i == WrappingInc(queues[q].last_avail_idx)
  IN  /\ queues' = [queues EXCEPT ![q].last_avail_idx = i]
      /\ used' = [used EXCEPT ![q].idx = i]
-----------------------------------------------------------------------------
\* VirtioNet::write and the INTERRUPT_STATUS case of VirtioNet::read

WriteStatus(val) ==
  /\ IF val = 0
       THEN /\ queues' = [q \in Queue |-> NewQueue]
            /\ queue_sel' = 0
       ELSE UNCHANGED <<queues, queue_sel>>
  /\ UNCHANGED interrupt_status

WriteQueueSel(val) ==
  /\ queue_sel' = val
  /\ UNCHANGED <<queues, interrupt_status>>

\* Mutant: the selected queue is ignored.
WriteQueueNumFirst(val) ==
  /\ queues' = [queues EXCEPT ![RX].queue_size = val]
  /\ UNCHANGED <<queue_sel, interrupt_status>>

\* The driver selects queues 0 and 1 only and gives sizes that fit a u16;
\* MmioRegisters has the check of queue_sel and the truncation.
WriteQueueNum(val) ==
  /\ queues' = [queues EXCEPT ![queue_sel].queue_size = val]
  /\ UNCHANGED <<queue_sel, interrupt_status>>

WriteQueueReady(val) ==
  /\ queues' = [queues EXCEPT ![queue_sel].ready = (val = 1)]
  /\ UNCHANGED <<queue_sel, interrupt_status>>

\* Bit 0 is the only one the device sets and the driver acknowledges.
WriteInterruptAck ==
  /\ interrupt_status' = 0
  /\ UNCHANGED <<queues, queue_sel>>

Perform(o) ==
  \/ o.reg = "status" /\ WriteStatus(o.val)
  \/ o.reg = "sel" /\ WriteQueueSel(o.val)
  \/ o.reg = "num" /\ WriteQueueNum(o.val)
  \/ o.reg = "ready" /\ WriteQueueReady(o.val)
  \/ o.reg = "ack" /\ WriteInterruptAck
  \/ o.reg \in {"notify", "isr"} /\ UNCHANGED regs
-----------------------------------------------------------------------------
\* The loop of run_vcpu

\* vCPU 0 gets both mutexes.
Poll(v) ==
  /\ pc[v] = "top" /\ v = Cpu0
  /\ guest_mem = None /\ virtio_net = None
  /\ guest_mem' = v /\ virtio_net' = v
  /\ Goto(v, "rx")
  /\ UNCHANGED <<regs, op, work, tap, gmem, driver>>

\* Another vCPU, or a try_lock that fails: straight into the guest.
PollSkip(v) ==
  /\ pc[v] = "top"
  /\ v = Cpu0 => guest_mem # None \/ virtio_net # None
  /\ Goto(v, "guest")
  /\ UNCHANGED <<regs, locks, op, work, tap, gmem, driver>>

\* Mutant: nothing received ends the whole poll.
RxNothingDone(v) ==
  /\ pc[v] = "rx"
  /\ ~HasTap \/ ~queues[RX].ready \/ ~HasAvail(RX) \/ tap_in = <<>>
  /\ Goto(v, "irq")
  /\ UNCHANGED <<regs, locks, op, work, tap, gmem, driver>>

\* process_rx finds nothing it can do.
RxNothing(v) ==
  /\ pc[v] = "rx"
  /\ ~HasTap \/ ~queues[RX].ready \/ ~HasAvail(RX) \/ tap_in = <<>>
  /\ Goto(v, "tx")
  /\ UNCHANGED <<regs, locks, op, work, tap, gmem, driver>>

RxEnabled == HasTap /\ queues[RX].ready /\ HasAvail(RX) /\ tap_in # <<>>

\* Mutant: a packet that does not fit the buffer stays in the TAP queue.
RxTooBigStays(v) ==
  /\ pc[v] = "rx" /\ RxEnabled
  /\ Head(tap_in).big
  /\ Goto(v, "tx")
  /\ UNCHANGED <<regs, locks, op, work, tap, gmem, driver>>

\* A packet that does not fit the buffer has left the TAP queue.
RxTooBig(v) ==
  /\ pc[v] = "rx" /\ RxEnabled
  /\ Head(tap_in).big
  /\ tap_in' = Tail(tap_in)
  /\ Goto(v, "tx")
  /\ UNCHANGED <<regs, locks, op, work, tap_out, gmem, driver>>

RxPacket(v) ==
  /\ pc[v] = "rx" /\ RxEnabled
  /\ ~Head(tap_in).big
  /\ tap_in' = Tail(tap_in)
  /\ chain' = [chain EXCEPT ![RX][AvailDesc(RX)] = Head(tap_in)]
  /\ UsedElem(RX, AvailDesc(RX))
  /\ Goto(v, "rx_idx")
  /\ UNCHANGED <<regs, locks, op, work, tap_out, avail, driver>>

\* used.idx makes the element visible to the driver.  interrupt_status is set
\* right after it; the guest cannot tell them apart, since it reads
\* INTERRUPT_STATUS through a handler that waits for virtio_net.
RxPublish(v) ==
  /\ pc[v] = "rx_idx"
  /\ UsedIdx(RX)
  /\ interrupt_status' = 1
  /\ rx_work' = TRUE
  /\ Goto(v, "tx")
  /\ UNCHANGED <<queue_sel, locks, op, tx_work, tap, avail, chain, driver>>

TxEnabled == HasTap /\ queues[TX].ready /\ HasAvail(TX)

\* The end of process_tx, also when it has not started.
TxNothing(v) ==
  /\ pc[v] = "tx" /\ ~TxEnabled
  /\ Goto(v, "irq")
  /\ UNCHANGED <<regs, locks, op, work, tap, gmem, driver>>

\* Only the first descriptor is looked at: a packet with its header apart is
\* no longer than the header and is not written.  One that is not written, or
\* whose write fails, is gone and does not count as work.
TxPacket(v) ==
  /\ pc[v] = "tx" /\ TxEnabled
  /\ \/ /\ ~chain[TX][AvailDesc(TX)].split
        /\ tap_out' = Append(tap_out, chain[TX][AvailDesc(TX)])
        /\ tx_work' = TRUE
     \/ /\ TapMayFail \/ chain[TX][AvailDesc(TX)].split
        /\ UNCHANGED <<tap_out, tx_work>>
  /\ UsedElem(TX, AvailDesc(TX))
  /\ Goto(v, "tx_idx")
  /\ UNCHANGED <<regs, locks, op, rx_work, tap_in, avail, chain, driver>>

\* Mutant: the status bit is only set for packets that were sent.
TxPublishSent(v) ==
  /\ pc[v] = "tx_idx"
  /\ UsedIdx(TX)
  /\ interrupt_status' = IF tx_work THEN 1 ELSE interrupt_status
  /\ Goto(v, "tx")
  /\ UNCHANGED <<queue_sel, locks, op, work, tap, avail, chain, driver>>

\* Likewise for a transmission, sent or not.
TxPublish(v) ==
  /\ pc[v] = "tx_idx"
  /\ UsedIdx(TX)
  /\ interrupt_status' = 1
  /\ Goto(v, "tx")
  /\ UNCHANGED <<queue_sel, locks, op, work, tap, avail, chain, driver>>

\* Mutant: transmissions do not count.
PulseForRx == rx_work /\ interrupt_status # 0

\* There was work, and should_interrupt().
PulseDue == (rx_work \/ tx_work) /\ interrupt_status # 0

\* An edge on irq 6, with both mutexes still held; then into the guest.  The
\* vm_fd mutex it takes, and a set_irq_line that fails, are in RunVcpu.
NetIrq(v) ==
  /\ pc[v] = "irq"
  /\ irq' = (irq \/ PulseDue)
  /\ guest_mem' = None /\ virtio_net' = None
  /\ rx_work' = FALSE /\ tx_work' = FALSE
  /\ Goto(v, "guest")
  /\ UNCHANGED <<regs, op, tap, gmem,
                 g, drv, kick, last_used, nrx, ntx, nreset>>

\* An MMIO exit: the handler gets virtio_net, and lets go of it when done.
MmioBegin(v, o) ==
  /\ pc[v] = "guest" /\ virtio_net = None
  /\ virtio_net' = v
  /\ op' = [op EXCEPT ![v] = o]
  /\ Goto(v, "mmio")
  /\ UNCHANGED <<regs, guest_mem, work, tap>>

\* An exit for the block device holds guest_mem for as long as it takes.
BlkBegin(v) ==
  /\ pc[v] = "guest" /\ guest_mem = None
  /\ g[v] = "run" /\ BlkExits
  /\ guest_mem' = v
  /\ Goto(v, "blk")
  /\ UNCHANGED <<regs, virtio_net, op, work, tap, gmem, driver>>

BlkEnd(v) ==
  /\ pc[v] = "blk"
  /\ guest_mem' = None
  /\ Goto(v, "top")
  /\ UNCHANGED <<regs, virtio_net, op, work, tap, gmem, driver>>

\* Any other exit: serial port, HLT, EINTR, an address nobody serves.  Right
\* before an access to this device it would only bring an earlier poll.
OtherExit(v) ==
  /\ pc[v] = "guest" /\ g[v] \in {"run", "drain"} /\ ~kick[v]
  /\ Goto(v, "top")
  /\ UNCHANGED <<regs, locks, op, work, tap, gmem, driver>>
-----------------------------------------------------------------------------
\* The guest driver: what it does by itself, and its MMIO accesses.

\* A ring as the driver allocates it: zeroed.
NewRing == [idx |-> 0, ring |-> [s \in Desc |-> 0]]

Running(v) == pc[v] = "guest" /\ g[v] = "run"

\* An empty receive buffer, or a packet to send, becomes available, and a
\* notification is due.
Post(v, q, h, b) ==
  /\ Running(v) /\ On
  /\ chain[q][h] = None
  /\ chain' = [chain EXCEPT ![q][h] = b]
  /\ avail' = [avail EXCEPT ![q].ring[Slot(avail[q].idx)] = h,
                            ![q].idx = WrappingInc(@)]
  /\ kick' = [kick EXCEPT ![v] = TRUE]
  /\ UNCHANGED <<regs, locks, pc, op, work, tap, used,
                 g, drv, last_used, irq, nrx, nreset>>

PostRx(v, h) ==
  /\ Post(v, RX, h, Empty)
  /\ UNCHANGED ntx

Send(v, h, split) ==
  /\ ntx < MaxTx
  /\ Post(v, TX, h, [id |-> ntx + 1, split |-> split])
  /\ ntx' = ntx + 1

Notify(v) ==
  /\ g[v] = "run" /\ kick[v]
  /\ MmioBegin(v, [reg |-> "notify", val |-> 0])
  /\ kick' = [kick EXCEPT ![v] = FALSE]
  /\ UNCHANGED <<gmem, g, drv, last_used, irq, nrx, ntx, nreset>>

\* Irq 6 is taken by one vCPU at a time.
TakeIrq(v) ==
  /\ Running(v) /\ irq
  /\ \A w \in Vcpu : g[w] = "run"
  /\ irq' = FALSE
  /\ g' = [g EXCEPT ![v] = "isr"]
  /\ UNCHANGED <<regs, locks, pc, op, work, tap, gmem,
                 drv, kick, last_used, nrx, ntx, nreset>>

ReadInterruptStatus(v) ==
  /\ g[v] = "isr"
  /\ MmioBegin(v, [reg |-> "isr", val |-> 0])
  /\ UNCHANGED <<gmem, driver>>

AckInterrupt(v) ==
  /\ g[v] = "ack"
  /\ MmioBegin(v, [reg |-> "ack", val |-> 1])
  /\ UNCHANGED <<gmem, driver>>

\* The handler consumes both used rings and frees the buffers.
Drain(v, q) ==
  /\ pc[v] = "guest" /\ g[v] = "drain"
  /\ last_used[q] # used[q].idx
  /\ chain' = [chain EXCEPT ![q][used[q].ring[Slot(last_used[q])]] = None]
  /\ last_used' = [last_used EXCEPT ![q] = WrappingInc(@)]
  /\ UNCHANGED <<regs, locks, pc, op, work, tap, avail, used,
                 g, drv, kick, irq, nrx, ntx, nreset>>

DrainDone(v) ==
  /\ pc[v] = "guest" /\ g[v] = "drain"
  /\ \A q \in Queue : last_used[q] = used[q].idx
  /\ g' = [g EXCEPT ![v] = "run"]
  /\ UNCHANGED <<regs, locks, pc, op, work, tap, gmem,
                 drv, kick, last_used, irq, nrx, ntx, nreset>>

\* The next register write of the configuration.  The first one is made with
\* zeroed rings, once no handler is running any more.
Configure(v) ==
  /\ Running(v) /\ ~On
  /\ drv = 0 => \A w \in Vcpu : g[w] = "run"
  /\ MmioBegin(v, Setup[drv + 1])
  /\ drv' = drv + 1
  /\ IF drv = 0
       THEN /\ avail' = [q \in Queue |-> NewRing] /\ used' = [q \in Queue |-> NewRing]
            /\ chain' = [q \in Queue |-> [h \in Desc |-> None]]
            /\ last_used' = [q \in Queue |-> 0]
       ELSE UNCHANGED <<gmem, last_used>>
  /\ UNCHANGED <<g, kick, irq, nrx, ntx, nreset>>

Reset(v) ==
  /\ Running(v) /\ drv # 0 /\ nreset < MaxReset
  /\ MmioBegin(v, [reg |-> "status", val |-> 0])
  /\ drv' = 0
  /\ nreset' = nreset + 1
  /\ UNCHANGED <<gmem, g, kick, last_used, irq, nrx, ntx>>

MmioEnd(v) ==
  /\ pc[v] = "mmio"
  /\ Perform(op[v])
  /\ g' = CASE op[v].reg = "isr" ->
                 [g EXCEPT ![v] = IF interrupt_status = 0 THEN "run" ELSE "ack"]
            [] op[v].reg = "ack" -> [g EXCEPT ![v] = "drain"]
            [] OTHER -> g
  /\ virtio_net' = None
  /\ op' = [op EXCEPT ![v] = NoAccess]
  /\ Goto(v, "top")
  /\ UNCHANGED <<guest_mem, work, tap, gmem,
                 drv, kick, last_used, irq, nrx, ntx, nreset>>

\* The host puts a packet on the TAP interface.
HostSend(big) ==
  /\ HasTap /\ nrx < MaxRx
  /\ tap_in' = Append(tap_in, [id |-> nrx + 1, big |-> big])
  /\ nrx' = nrx + 1
  /\ UNCHANGED <<regs, locks, pc, op, work, tap_out, gmem,
                 g, drv, kick, last_used, irq, ntx, nreset>>
-----------------------------------------------------------------------------
Init ==
  /\ queue_sel = 0 /\ queues = [q \in Queue |-> NewQueue]
  /\ interrupt_status = 0
  /\ guest_mem = None /\ virtio_net = None
  /\ pc = [v \in Vcpu |-> "top"]
  /\ op = [v \in Vcpu |-> NoAccess]
  /\ rx_work = FALSE /\ tx_work = FALSE
  /\ tap_in = <<>> /\ tap_out = <<>>
  /\ avail = [q \in Queue |-> NewRing] /\ used = [q \in Queue |-> NewRing]
  /\ chain = [q \in Queue |-> [h \in Desc |-> None]]
  /\ g = [v \in Vcpu |-> "run"] /\ drv = 0
  /\ kick = [v \in Vcpu |-> FALSE] /\ last_used = [q \in Queue |-> 0]
  /\ irq = FALSE /\ nrx = 0 /\ ntx = 0 /\ nreset = 0

\* Steps of the host thread outside vcpu.run().
HostStep(v) ==
  \/ Poll(v) \/ PollSkip(v)
  \/ RxNothing(v) \/ RxTooBig(v) \/ RxPacket(v) \/ RxPublish(v)
  \/ TxNothing(v) \/ TxPacket(v) \/ TxPublish(v) \/ NetIrq(v)
  \/ MmioEnd(v) \/ BlkEnd(v)

\* Steps the guest owes: its notification and its interrupt handler.
GuestStep(v) ==
  \/ Notify(v) \/ TakeIrq(v) \/ ReadInterruptStatus(v) \/ AckInterrupt(v)
  \/ \E q \in Queue : Drain(v, q)
  \/ DrainDone(v)

\* Steps the guest may take or not.
GuestChoice(v) ==
  \/ \E h \in Desc : PostRx(v, h) \/ \E split \in Splits : Send(v, h, split)
  \/ Configure(v) \/ Reset(v) \/ BlkBegin(v) \/ OtherExit(v)

Next ==
  \/ \E v \in Vcpu : HostStep(v) \/ GuestStep(v) \/ GuestChoice(v)
  \/ \E big \in BOOLEAN : HostSend(big)

Spec == Init /\ [][Next]_vars

\* A runnable host thread keeps running, and a guest that is entered again
\* and again runs its handler and makes the notification it owes.  An idle
\* guest stays in vcpu.run(): HLT and the timers are handled by KVM's own
\* interrupt chip.
Fairness == \A v \in Vcpu : WF_vars(HostStep(v)) /\ SF_vars(GuestStep(v))

FairSpec == Spec /\ Fairness

\* In addition vCPU 0 keeps leaving the guest, for whatever reason.
ExitingSpec == FairSpec /\ WF_vars(OtherExit(Cpu0))
-----------------------------------------------------------------------------
(***************************************************************************)
(* Properties.                                                             *)
(***************************************************************************)

\* Every variable has its type: indices are u16 values, rings hold
\* descriptors, the mutexes are held by a vCPU or free.
TypeOK ==
  /\ queue_sel \in Queue
  /\ queues \in [Queue -> [queue_size : {0, QueueSize}, ready : BOOLEAN,
                           last_avail_idx : Idx]]
  /\ interrupt_status \in {0, 1}
  /\ guest_mem \in Vcpu \cup {None} /\ virtio_net \in Vcpu \cup {None}
  /\ pc \in [Vcpu -> Pc] /\ op \in [Vcpu -> Access \cup {NoAccess}]
  /\ rx_work \in BOOLEAN /\ tx_work \in BOOLEAN
  /\ tap_in \in Seq(Packet) /\ tap_out \in Seq(Frame)
  /\ avail \in [Queue -> [idx : Idx, ring : [Desc -> Desc]]]
  /\ used \in [Queue -> [idx : Idx, ring : [Desc -> Desc]]]
  /\ DOMAIN chain = Queue
  /\ chain[RX] \in [Desc -> {None, Empty} \cup Packet]
  /\ chain[TX] \in [Desc -> {None} \cup Frame]
  /\ g \in [Vcpu -> {"run", "isr", "ack", "drain"}]
  /\ drv \in 0..Len(Setup) /\ kick \in [Vcpu -> BOOLEAN]
  /\ last_used \in [Queue -> Idx] /\ irq \in BOOLEAN
  /\ nrx \in 0..MaxRx /\ ntx \in 0..MaxTx
  /\ nreset \in 0..MaxReset

Unread == \E q \in Queue : last_used[q] # used[q].idx

\* The handler has seen the interrupt and is going to consume the rings.
Consuming == \E v \in Vcpu : g[v] \in {"ack", "drain"}

\* The poll that published the completions has not come to the interrupt yet.
Polling == \E v \in Vcpu : pc[v] \in PollPc

\* No completion is left on a used ring without INTERRUPT_STATUS set or a
\* handler on its way to the rings, even if TAP writes fail and no irq is
\* raised for them: the next interrupt will find the completion.
InterruptRecorded == Unread => Consuming \/ interrupt_status = 1

\* A completion on a used ring has its edge on irq 6 raised, about to be
\* raised by the poll, or already taken by a handler on its way to the rings.
InterruptDelivered ==
  Unread =>
    \/ Consuming
    \/ Polling /\ (rx_work \/ tx_work)
    \/ interrupt_status = 1 /\ (irq \/ \E v \in Vcpu : g[v] = "isr")

\* A queue that the poll uses has a size: the modulo in get_avail_desc_idx
\* and add_used does not panic with virtio_net and guest_mem locked.
ReadyQueueHasSize ==
  \A q \in Queue : queues[q].ready => queues[q].queue_size # 0

\* Packets reach the guest and the TAP interface once and in order; the only
\* losses are packets larger than the buffer, packets to send whose header
\* lies apart, and failed TAP writes.  The mapping reads the packets off the
\* rings: the one between its transfer and the update of used.idx counts as
\* transferred.
InFlight(at) == IF \E v \in Vcpu : pc[v] = at THEN 1 ELSE 0

Delivered ==
  IF ~On THEN <<>> ELSE
  [k \in 1 .. Dist(used[RX].idx, last_used[RX]) + InFlight("rx_idx") |->
     chain[RX][used[RX].ring[Slot(IdxAt(last_used[RX], k - 1))]]]

Pending ==
  IF ~On THEN <<>> ELSE
  LET f == InFlight("tx_idx")
      i == queues[TX].last_avail_idx
  IN  [k \in 1 .. Dist(avail[TX].idx, i) - f |->
         chain[TX][avail[TX].ring[Slot(IdxAt(i, k - 1 + f))]]]

Network == INSTANCE NetService
             WITH delivered <- Delivered, pending <- Pending,
                  MayRefuse <- TapMayFail

ImplementsNetwork == Network!Spec

\* A packet the guest sends is eventually transmitted and its buffer comes
\* back, unless the device is reset: on whichever vCPU it is sent, if vCPU 0
\* keeps leaving the guest.
TxCompletes ==
  \A h \in Desc : (On /\ chain[TX][h] # None) ~> (~On \/ chain[TX][h] = None)

\* A packet from the host is eventually read from the TAP interface as long
\* as the guest has a receive buffer posted.
RxDelivered ==
  \A n \in 1..MaxRx :
    (On /\ HasAvail(RX) /\ tap_in # <<>> /\ Head(tap_in).id = n)
      ~> (~On \/ ~HasAvail(RX) \/ tap_in = <<>> \/ Head(tap_in).id # n)
-----------------------------------------------------------------------------
(***************************************************************************)
(* What holds in every reachable state and makes the safety properties     *)
(* inductive.                                                              *)
(***************************************************************************)

\* The poll runs on vCPU 0 with both mutexes, a register access with one.
LocksHeld ==
  \A v \in Vcpu :
    /\ pc[v] \in PollPc => v = Cpu0 /\ guest_mem = v /\ virtio_net = v
    /\ pc[v] = "mmio" => virtio_net = v
    /\ pc[v] = "blk" => guest_mem = v

\* The access at hand is the one that the guest is waiting for.
AccessFollows ==
  \A v \in Vcpu :
    pc[v] = "mmio" => g[v] = IF op[v].reg \in {"isr", "ack"} THEN op[v].reg ELSE "run"

\* A register write of the configuration is at hand.
ConfigAtHand(v) == pc[v] = "mmio" /\ op[v].reg \in {"status", "sel", "num", "ready"}
Configuring == \E v \in Vcpu : ConfigAtHand(v)

\* The registers after the first n writes of Setup.
StageAt(n) ==
  /\ queue_sel = IF n >= 5 THEN TX ELSE RX
  /\ queues[RX].queue_size = IF n >= 3 THEN QueueSize ELSE 0
  /\ queues[RX].ready = (n >= 4)
  /\ queues[TX].queue_size = IF n >= 6 THEN QueueSize ELSE 0
  /\ queues[TX].ready = (n >= 7)
  /\ n < Len(Setup) => \A q \in Queue : queues[q].last_avail_idx = 0

\* The device is as far as the driver, but for the write at hand.
SetupFollows ==
  /\ \A v \in Vcpu :
       ConfigAtHand(v) => op[v] = IF drv = 0 THEN [reg |-> "status", val |-> 0]
                                  ELSE Setup[drv]
  /\ Configuring /\ drv = 0 => \E n \in 1 .. Len(Setup) : StageAt(n)
  /\ Configuring /\ drv # 0 => StageAt(drv - 1)
  /\ ~Configuring => StageAt(drv)

\* The k-th entry of a ring from the driver's last_used on.
SlotAt(q, k) == Slot(IdxAt(last_used[q], k))
HeadAt(q, k) == avail[q].ring[SlotAt(q, k)]

\* How far the driver and the device are ahead of last_used.
Submitted(q) == Dist(avail[q].idx, last_used[q])
Completed(q) == Dist(queues[q].last_avail_idx, last_used[q])

\* The place at which the device has written an element that used.idx does
\* not cover yet.
IdxPc(q) == IF q = RX THEN "rx_idx" ELSE "tx_idx"
Halfway(q) == \E v \in Vcpu : pc[v] = IdxPc(q)

\* Rings are empty until the driver is done with the configuration, then the
\* indices keep their order and a full ring is the limit.
RingsOrdered ==
  \A q \in Queue :
    /\ drv \in 1 .. Len(Setup) - 1 =>
         avail[q].idx = 0 /\ used[q].idx = 0 /\ last_used[q] = 0
    /\ ~On => ~Halfway(q)
    /\ On => /\ used[q].idx = queues[q].last_avail_idx
             /\ Completed(q) <= Submitted(q) /\ Submitted(q) <= QueueSize
             /\ Halfway(q) => Completed(q) < Submitted(q)

\* The heads on an avail ring are buffers on loan, each there once, and the
\* used ring repeats them as far as the device has come.
RingsOwned ==
  On => \A q \in Queue :
    /\ \A k \in 0 .. Submitted(q) - 1 :
         /\ chain[q][HeadAt(q, k)] # None
         /\ \A j \in 0 .. Submitted(q) - 1 : HeadAt(q, j) = HeadAt(q, k) => j = k
    /\ \A k \in 0 .. Completed(q) - 1 : used[q].ring[SlotAt(q, k)] = HeadAt(q, k)
    /\ Halfway(q) =>
         used[q].ring[SlotAt(q, Completed(q))] = HeadAt(q, Completed(q))

\* Without failing writes and headers apart, every transmission is work.
SentIsWork ==
  ~TapMayFail /\ TRUE \notin Splits =>
    \A v \in Vcpu : pc[v] = "tx_idx" => tx_work
=============================================================================
