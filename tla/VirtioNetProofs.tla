-------------------------- MODULE VirtioNetProofs --------------------------
(***************************************************************************)
(* Safety of the network device, for any number of vCPUs, packets and      *)
(* resets, any index width and any queue size dividing it.                 *)
(***************************************************************************)
EXTENDS VirtioNet, RingIndexProofs

-----------------------------------------------------------------------------
(***************************************************************************)
(* The register writes of the configuration.                               *)
(***************************************************************************)

\* The driver writes STATUS, then selects, sizes and readies each queue, and
\* is done with DRIVER_OK.
LEMMA SetupWrites ==
  /\ Len(Setup) = 8
  /\ Setup[1] = [reg |-> "status", val |-> 1]
  /\ Setup[2] = [reg |-> "sel", val |-> RX]
  /\ Setup[3] = [reg |-> "num", val |-> QueueSize]
  /\ Setup[4] = [reg |-> "ready", val |-> 1]
  /\ Setup[5] = [reg |-> "sel", val |-> TX]
  /\ Setup[6] = [reg |-> "num", val |-> QueueSize]
  /\ Setup[7] = [reg |-> "ready", val |-> 1]
  /\ Setup[8] = [reg |-> "status", val |-> 4]
BY SMT DEF Setup

\* What an access can be.
LEMMA AccessForms ==
  ASSUME NEW o \in Access
  PROVE  /\ o.reg \in {"status", "sel", "num", "ready", "notify", "isr", "ack"}
         /\ o.reg = "sel" => o.val \in Queue
         /\ o.reg = "num" => o.val = QueueSize
<1>1. DOMAIN Setup = 1..8
  BY SMT DEF Setup
<1>2. CASE \E i \in 1..8 : o = Setup[i]
  <2>1. o \in {Setup[1], Setup[2], Setup[3], Setup[4], Setup[5], Setup[6], Setup[7], Setup[8]}
    BY <1>2
  <2> QED BY <2>1, SetupWrites DEF Queue
<1>3. CASE o \in {[reg |-> r, val |-> 0] : r \in {"status", "notify"}}
  BY <1>3
<1>4. CASE o \in {[reg |-> "isr", val |-> 0], [reg |-> "ack", val |-> 1]}
  BY <1>4
<1> QED BY <1>1, <1>2, <1>3, <1>4 DEF Access

\* The accesses that the driver makes.
LEMMA DriverAccess ==
  /\ \A n \in 0..7 : Setup[n + 1] \in Access
  /\ [reg |-> "status", val |-> 0] \in Access
  /\ [reg |-> "notify", val |-> 0] \in Access
  /\ [reg |-> "isr", val |-> 0] \in Access
  /\ [reg |-> "ack", val |-> 1] \in Access
<1>1. DOMAIN Setup = 1..8
  BY SMT DEF Setup
<1>2. \A n \in 0..7 : n + 1 \in 1..8
  OBVIOUS
<1> QED BY <1>1, <1>2 DEF Access

\* The writes of the configuration are what ConfigAtHand looks for.
LEMMA SetupRegs ==
  \A n \in 1..8 : Setup[n].reg \in {"status", "sel", "num", "ready"}
<1> SUFFICES ASSUME NEW n \in 1..8 PROVE Setup[n].reg \in {"status", "sel", "num", "ready"}
  OBVIOUS
<1>1. n \in {1, 2, 3, 4, 5, 6, 7, 8}
  OBVIOUS
<1> QED BY <1>1, SetupWrites

\* Drivers and device agree on which queues exist.
LEMMA QueueCases == RX = 0 /\ TX = 1 /\ RX # TX /\ Queue = {0, 1}
BY DEF RX, TX, Queue

\* A queue that is ready has the driver's size: its slots are Slot's.
LEMMA StageSizes ==
  ASSUME NEW n \in 0..8, StageAt(n), NEW q \in Queue, queues[q].ready
  PROVE  queues[q].queue_size = QueueSize
<1>1. CASE q = RX
  <2>1. n >= 4
    BY <1>1 DEF StageAt
  <2>2. n >= 3
    BY <2>1
  <2> QED BY <1>1, <2>2 DEF StageAt
<1>2. CASE q = TX
  <2>1. n >= 7
    BY <1>2 DEF StageAt
  <2>2. n >= 6
    BY <2>1
  <2> QED BY <1>2, <2>2 DEF StageAt
<1> QED BY <1>1, <1>2 DEF Queue

\* A queue is made ready after it has been sized.
LEMMA ReadySize ==
  ASSUME TypeOK, SetupFollows, NEW q \in Queue, queues[q].ready
  PROVE  queues[q].queue_size = QueueSize
<1>1. drv \in 0..8
  BY SetupWrites DEF TypeOK
<1>2. PICK n \in 0..8 : StageAt(n)
  <2>1. CASE Configuring /\ drv = 0
    BY <2>1, SetupWrites DEF SetupFollows
  <2>2. CASE Configuring /\ drv # 0
    BY <1>1, <2>2 DEF SetupFollows
  <2>3. CASE ~Configuring
    BY <1>1, <2>3 DEF SetupFollows
  <2> QED BY <2>1, <2>2, <2>3
<1> QED BY <1>2, StageSizes
-----------------------------------------------------------------------------
(***************************************************************************)
(* Types.                                                                  *)
(***************************************************************************)

\* Indices, slots and heads.
LEMMA IndexFacts ==
  /\ 0 \in Idx /\ 0 \in Desc
  /\ \A i \in Idx : Slot(i) \in Desc /\ WrappingInc(i) \in Idx
BY RingAssumption, SlotType, IndexTypes DEF Idx, Desc

\* The head that the device takes off a ring.
LEMMA HeadTyped ==
  ASSUME TypeOK, SetupFollows, NEW q \in Queue, queues[q].ready
  PROVE  /\ queues[q].last_avail_idx % queues[q].queue_size = Slot(queues[q].last_avail_idx)
         /\ Slot(queues[q].last_avail_idx) \in Desc
         /\ AvailDesc(q) = avail[q].ring[Slot(queues[q].last_avail_idx)]
         /\ AvailDesc(q) \in Desc
<1>1. queues[q].queue_size = QueueSize
  BY ReadySize
<1>2. queues[q].last_avail_idx \in Idx /\ avail[q].ring \in [Desc -> Desc]
  BY DEF TypeOK
<1>3. Slot(queues[q].last_avail_idx) \in Desc
  BY <1>2, IndexFacts
<1> QED BY <1>1, <1>2, <1>3 DEF AvailDesc, Slot

\* The initial values have their types.
LEMMA TypeInit == Init => TypeOK
<1> SUFFICES ASSUME Init PROVE TypeOK
  OBVIOUS
<1> USE RingAssumption, NetAssumption, IndexFacts
<1>1. queue_sel \in Queue
      /\ queues \in [Queue -> [queue_size : {0, QueueSize}, ready : BOOLEAN, last_avail_idx : Idx]]
  BY DEF Init, NewQueue, Queue, RX
<1>2. /\ avail \in [Queue -> [idx : Idx, ring : [Desc -> Desc]]]
      /\ used \in [Queue -> [idx : Idx, ring : [Desc -> Desc]]]
  BY DEF Init, NewRing
<1>3. /\ DOMAIN chain = Queue
      /\ chain[RX] \in [Desc -> {None, Empty} \cup Packet]
      /\ chain[TX] \in [Desc -> {None} \cup Frame]
  BY DEF Init, Queue
<1>4. pc \in [Vcpu -> Pc] /\ op \in [Vcpu -> Access \cup {NoAccess}]
  BY DEF Init, Pc
<1>5. /\ g \in [Vcpu -> {"run", "isr", "ack", "drain"}]
      /\ kick \in [Vcpu -> BOOLEAN] /\ last_used \in [Queue -> Idx]
  BY DEF Init
<1>6. tap_in \in Seq(Packet) /\ tap_out \in Seq(Frame)
  BY DEF Init
<1>7. drv \in 0..Len(Setup) /\ nrx \in 0..MaxRx /\ ntx \in 0..MaxTx
      /\ nreset \in 0..MaxReset
  BY SetupWrites DEF Init
<1>8. rx_work \in BOOLEAN /\ tx_work \in BOOLEAN /\ irq \in BOOLEAN
  BY DEF Init
<1>9. interrupt_status \in {0, 1} /\ guest_mem \in Vcpu \cup {None} /\ virtio_net \in Vcpu \cup {None}
  BY DEF Init
<1> QED BY <1>1, <1>2, <1>3, <1>4, <1>5, <1>6, <1>7, <1>8, <1>9 DEF TypeOK

\* A register access writes values of the registers' types.
LEMMA PerformTyped ==
  ASSUME TypeOK, NEW o \in Access, Perform(o)
  PROVE  /\ queue_sel' \in Queue
         /\ queues' \in [Queue -> [queue_size : {0, QueueSize}, ready : BOOLEAN,
                                   last_avail_idx : Idx]]
         /\ interrupt_status' \in {0, 1}
<1> USE AccessForms DEF TypeOK
<1>1. CASE o.reg = "status" /\ WriteStatus(o.val)
  <2>1. NewQueue \in [queue_size : {0, QueueSize}, ready : BOOLEAN, last_avail_idx : Idx]
    BY IndexFacts DEF NewQueue
  <2>2. 0 \in Queue
    BY DEF Queue, RX
  <2> QED BY <1>1, <2>1, <2>2 DEF WriteStatus
<1>2. CASE o.reg = "sel" /\ WriteQueueSel(o.val)
  BY <1>2 DEF WriteQueueSel
<1>3. CASE o.reg = "num" /\ WriteQueueNum(o.val)
  BY <1>3 DEF WriteQueueNum
<1>4. CASE o.reg = "ready" /\ WriteQueueReady(o.val)
  <2>1. (o.val = 1) \in BOOLEAN
    OBVIOUS
  <2> DEFINE b == (o.val = 1)
  <2> HIDE DEF b
  <2>2. queues' = [queues EXCEPT ![queue_sel].ready = b]
    BY <1>4 DEF WriteQueueReady, b
  <2>3. b \in BOOLEAN
    BY DEF b
  <2> DEFINE QT == [queue_size : {0, QueueSize}, ready : BOOLEAN, last_avail_idx : Idx]
  <2> DEFINE e == [queues[queue_sel] EXCEPT !.ready = b]
  <2>4. e \in QT
    <3>1. queues[queue_sel] \in QT
      OBVIOUS
    <3> QED BY <2>3, <3>1
  <2>5. queues' = [queues EXCEPT ![queue_sel] = e]
    BY <2>2
  <2>6. queues' \in [Queue -> QT]
    <3> HIDE DEF e, QT
    <3>1. queues \in [Queue -> QT]
      BY DEF QT
    <3> QED BY <2>4, <2>5, <3>1
  <2> QED BY <1>4, <2>6 DEF WriteQueueReady
<1>5. CASE o.reg = "ack" /\ WriteInterruptAck
  BY <1>5 DEF WriteInterruptAck
<1>6. CASE UNCHANGED regs
  BY <1>6 DEF regs
<1> QED BY <1>1, <1>2, <1>3, <1>4, <1>5, <1>6 DEF Perform

\* The variables that a step leaves alone keep their types.
LEMMA FrameTyped ==
  ASSUME TypeOK
  PROVE  /\ UNCHANGED regs =>
              /\ queue_sel' \in Queue /\ interrupt_status' \in {0, 1}
              /\ queues' \in [Queue -> [queue_size : {0, QueueSize}, ready : BOOLEAN,
                                        last_avail_idx : Idx]]
         /\ UNCHANGED locks => /\ guest_mem' \in Vcpu \cup {None}
                               /\ virtio_net' \in Vcpu \cup {None}
         /\ UNCHANGED work => rx_work' \in BOOLEAN /\ tx_work' \in BOOLEAN
         /\ UNCHANGED tap => tap_in' \in Seq(Packet) /\ tap_out' \in Seq(Frame)
         /\ UNCHANGED gmem =>
              /\ avail' \in [Queue -> [idx : Idx, ring : [Desc -> Desc]]]
              /\ used' \in [Queue -> [idx : Idx, ring : [Desc -> Desc]]]
              /\ DOMAIN chain' = Queue
              /\ chain'[RX] \in [Desc -> {None, Empty} \cup Packet]
              /\ chain'[TX] \in [Desc -> {None} \cup Frame]
         /\ UNCHANGED driver =>
              /\ g' \in [Vcpu -> {"run", "isr", "ack", "drain"}]
              /\ drv' \in 0..Len(Setup) /\ kick' \in [Vcpu -> BOOLEAN]
              /\ last_used' \in [Queue -> Idx] /\ irq' \in BOOLEAN
              /\ nrx' \in 0..MaxRx /\ ntx' \in 0..MaxTx
              /\ nreset' \in 0..MaxReset
         /\ UNCHANGED op => op' \in [Vcpu -> Access \cup {NoAccess}]
         /\ \A v \in Vcpu, to \in Pc : Goto(v, to) => pc' \in [Vcpu -> Pc]
         /\ UNCHANGED pc => pc' \in [Vcpu -> Pc]
<1> USE DEF TypeOK
<1>1. UNCHANGED regs =>
        /\ queue_sel' \in Queue /\ interrupt_status' \in {0, 1}
        /\ queues' \in [Queue -> [queue_size : {0, QueueSize}, ready : BOOLEAN,
                                  last_avail_idx : Idx]]
  BY DEF regs
<1>2. UNCHANGED locks => guest_mem' \in Vcpu \cup {None} /\ virtio_net' \in Vcpu \cup {None}
  BY DEF locks
<1>3. UNCHANGED work => rx_work' \in BOOLEAN /\ tx_work' \in BOOLEAN
  BY DEF work
<1>4. UNCHANGED tap => tap_in' \in Seq(Packet) /\ tap_out' \in Seq(Frame)
  BY DEF tap
<1>5. UNCHANGED gmem =>
        /\ avail' \in [Queue -> [idx : Idx, ring : [Desc -> Desc]]]
        /\ used' \in [Queue -> [idx : Idx, ring : [Desc -> Desc]]]
        /\ DOMAIN chain' = Queue
        /\ chain'[RX] \in [Desc -> {None, Empty} \cup Packet]
        /\ chain'[TX] \in [Desc -> {None} \cup Frame]
  BY DEF gmem
<1>6. UNCHANGED driver =>
        /\ g' \in [Vcpu -> {"run", "isr", "ack", "drain"}]
        /\ drv' \in 0..Len(Setup) /\ kick' \in [Vcpu -> BOOLEAN]
        /\ last_used' \in [Queue -> Idx] /\ irq' \in BOOLEAN
        /\ nrx' \in 0..MaxRx /\ ntx' \in 0..MaxTx
        /\ nreset' \in 0..MaxReset
  BY DEF driver
<1>7. \A v \in Vcpu, to \in Pc : Goto(v, to) => pc' \in [Vcpu -> Pc]
  BY DEF Goto
<1> QED BY <1>1, <1>2, <1>3, <1>4, <1>5, <1>6, <1>7

\* The element goes to a slot of the ring.
LEMMA UsedTyped ==
  ASSUME TypeOK, NEW q \in Queue
  PROVE  /\ \A s \in Desc, h \in Desc : used' = [used EXCEPT ![q].ring[s] = h] =>
              used' \in [Queue -> [idx : Idx, ring : [Desc -> Desc]]]
         /\ UsedIdx(q) =>
              /\ used' \in [Queue -> [idx : Idx, ring : [Desc -> Desc]]]
              /\ queues' \in [Queue -> [queue_size : {0, QueueSize}, ready : BOOLEAN,
                                        last_avail_idx : Idx]]
<1>1. ASSUME NEW s \in Desc, NEW h \in Desc, used' = [used EXCEPT ![q].ring[s] = h]
      PROVE  used' \in [Queue -> [idx : Idx, ring : [Desc -> Desc]]]
  BY <1>1 DEF TypeOK
<1>2. ASSUME UsedIdx(q)
      PROVE  /\ used' \in [Queue -> [idx : Idx, ring : [Desc -> Desc]]]
             /\ queues' \in [Queue -> [queue_size : {0, QueueSize}, ready : BOOLEAN,
                                       last_avail_idx : Idx]]
  <2> DEFINE i == WrappingInc(queues[q].last_avail_idx)
  <2>1. i \in Idx
    BY IndexFacts DEF TypeOK
  <2>2. used' = [used EXCEPT ![q].idx = i] /\ queues' = [queues EXCEPT ![q].last_avail_idx = i]
    BY <1>2 DEF UsedIdx
  <2> HIDE DEF i
  <2>3. used' \in [Queue -> [idx : Idx, ring : [Desc -> Desc]]]
    BY <2>1, <2>2 DEF TypeOK
  <2> DEFINE QT == [queue_size : {0, QueueSize}, ready : BOOLEAN, last_avail_idx : Idx]
             e == [queues[q] EXCEPT !.last_avail_idx = i]
  <2>4. e \in QT
    <3>1. queues[q] \in QT
      BY DEF TypeOK
    <3> QED BY <2>1, <3>1
  <2>5. queues' = [queues EXCEPT ![q] = e]
    BY <2>2
  <2>6. queues' \in [Queue -> QT]
    <3> HIDE DEF e, QT
    <3>1. queues \in [Queue -> QT]
      BY DEF QT, TypeOK
    <3> QED BY <2>4, <2>5, <3>1
  <2> QED BY <2>3, <2>6
<1> QED BY <1>1, <1>2

\* An access takes the mutex and is one of the driver's.
LEMMA BeginTyped ==
  ASSUME TypeOK, NEW v \in Vcpu, NEW o \in Access, MmioBegin(v, o)
  PROVE  /\ queue_sel' \in Queue /\ interrupt_status' \in {0, 1}
         /\ queues' \in [Queue -> [queue_size : {0, QueueSize}, ready : BOOLEAN,
                                   last_avail_idx : Idx]]
         /\ guest_mem' \in Vcpu \cup {None} /\ virtio_net' \in Vcpu \cup {None}
         /\ pc' \in [Vcpu -> Pc] /\ op' \in [Vcpu -> Access \cup {NoAccess}]
         /\ rx_work' \in BOOLEAN /\ tx_work' \in BOOLEAN
         /\ tap_in' \in Seq(Packet) /\ tap_out' \in Seq(Frame)
<1>1. UNCHANGED regs /\ UNCHANGED work /\ UNCHANGED tap /\ guest_mem' = guest_mem
      /\ virtio_net' = v /\ Goto(v, "mmio") /\ "mmio" \in Pc
  BY DEF MmioBegin, Pc
<1>2. op' \in [Vcpu -> Access \cup {NoAccess}]
  BY DEF MmioBegin, TypeOK
<1>3. guest_mem' \in Vcpu \cup {None} /\ virtio_net' \in Vcpu \cup {None}
  BY <1>1 DEF TypeOK
<1> QED BY <1>1, <1>2, <1>3, FrameTyped

-----------------------------------------------------------------------------
(***************************************************************************)
(* Positions on the rings.                                                 *)
(***************************************************************************)

\* The inductive invariant.
NetInv == LocksHeld /\ AccessFollows /\ SetupFollows /\ RingsOrdered /\ RingsOwned

\* Positions are distances from last_used, and name their indices.
LEMMA Positions ==
  ASSUME TypeOK, NEW q \in Queue
  PROVE  /\ avail[q].idx \in Idx /\ queues[q].last_avail_idx \in Idx /\ last_used[q] \in Idx
         /\ Completed(q) \in Nat /\ Submitted(q) \in Nat
         /\ IdxAt(last_used[q], Completed(q)) = queues[q].last_avail_idx
         /\ IdxAt(last_used[q], Submitted(q)) = avail[q].idx
<1>1. avail[q].idx \in Idx /\ queues[q].last_avail_idx \in Idx /\ last_used[q] \in Idx
  BY DEF TypeOK
<1>2. \A a, b \in Idx : Dist(a, b) \in Nat
  BY RingAssumption DEF Idx, Dist
<1> QED BY <1>1, <1>2, DistIsDistance DEF Completed, Submitted

\* Slots and heads of a window have their types.
LEMMA WindowTypes ==
  ASSUME TypeOK, NEW q \in Queue, NEW k \in Nat, k < IdxMod
  PROVE  SlotAt(q, k) \in Desc /\ HeadAt(q, k) \in Desc
<1>1. last_used[q] \in Idx /\ k \in 0 .. IdxMod - 1 /\ avail[q].ring \in [Desc -> Desc]
  BY RingAssumption DEF TypeOK
<1>2. IdxAt(last_used[q], k) \in Idx
  BY <1>1, IndexTypes
<1>3. SlotAt(q, k) \in Desc
  BY <1>2, SlotType DEF SlotAt, Idx
<1> QED BY <1>1, <1>3 DEF HeadAt

\* The slots of a window of at most QueueSize entries are different.
LEMMA WindowSlots ==
  ASSUME TypeOK, NEW q \in Queue, NEW j \in Nat, NEW k \in Nat,
         j < QueueSize, k < QueueSize, SlotAt(q, j) = SlotAt(q, k)
  PROVE  j = k
BY SlotInjective, RingAssumption DEF TypeOK, SlotAt

\* Nobody configures the device while vCPU 0 polls it.
LEMMA PollExcludes ==
  ASSUME LocksHeld, NEW v \in Vcpu, pc[v] \in PollPc
  PROVE  /\ v = Cpu0 /\ guest_mem = v /\ virtio_net = v
         /\ ~Configuring
         /\ \A w \in Vcpu : w # v => pc[w] \notin PollPc
BY DEF LocksHeld, Configuring, ConfigAtHand, PollPc

\* What the device finds on a ring that is not empty: the driver is done with
\* the configuration, and the head is a buffer on loan.
LEMMA HeadAtHand ==
  ASSUME TypeOK, NetInv, ~Configuring, NEW q \in Queue, queues[q].ready, HasAvail(q)
  PROVE  /\ On /\ Completed(q) < Submitted(q) /\ Submitted(q) <= QueueSize
         /\ Slot(queues[q].last_avail_idx) = SlotAt(q, Completed(q))
         /\ SlotAt(q, Completed(q)) \in Desc
         /\ queues[q].last_avail_idx % queues[q].queue_size = SlotAt(q, Completed(q))
         /\ AvailDesc(q) = HeadAt(q, Completed(q))
         /\ AvailDesc(q) \in Desc
         /\ chain[q][AvailDesc(q)] # None
         /\ used[q].idx = queues[q].last_avail_idx
<1>1. drv \in 0..8 /\ Len(Setup) = 8 /\ StageAt(drv)
  BY SetupWrites DEF TypeOK, NetInv, SetupFollows
<1>2. On
  <2>1. CASE drv = 0
    <3>1. queues[RX].ready = (drv >= 4) /\ queues[TX].ready = (drv >= 7)
      BY <1>1 DEF StageAt
    <3>2. ~(drv >= 4) /\ ~(drv >= 7)
      BY <2>1
    <3>3. ~queues[RX].ready /\ ~queues[TX].ready
      BY <3>1, <3>2
    <3> QED BY <3>3 DEF Queue
  <2>2. CASE drv \in 1..7
    <3>1. queues[q].last_avail_idx = 0
      BY <1>1, <2>2 DEF StageAt
    <3>2. avail[q].idx = 0
      BY <1>1, <2>2 DEF NetInv, RingsOrdered
    <3> QED BY <3>1, <3>2 DEF HasAvail
  <2> QED BY <1>1, <2>1, <2>2 DEF On
<1>3. Completed(q) <= Submitted(q) /\ Submitted(q) <= QueueSize /\ used[q].idx = queues[q].last_avail_idx
  BY <1>2 DEF NetInv, RingsOrdered
<1>4. Completed(q) # Submitted(q)
  BY Positions DEF HasAvail
<1>5. Completed(q) \in Nat /\ Submitted(q) \in Nat
  BY Positions
<1>6. Completed(q) < Submitted(q) /\ Completed(q) \in 0 .. Submitted(q) - 1
  BY <1>3, <1>4, <1>5
<1>7. chain[q][HeadAt(q, Completed(q))] # None
  BY <1>2, <1>6 DEF NetInv, RingsOwned
<1>8. Slot(queues[q].last_avail_idx) = SlotAt(q, Completed(q))
  BY Positions DEF SlotAt
<1>9. /\ queues[q].last_avail_idx % queues[q].queue_size = Slot(queues[q].last_avail_idx)
      /\ Slot(queues[q].last_avail_idx) \in Desc
      /\ AvailDesc(q) = avail[q].ring[Slot(queues[q].last_avail_idx)]
      /\ AvailDesc(q) \in Desc
  BY HeadTyped DEF NetInv
<1> QED BY <1>2, <1>3, <1>6, <1>7, <1>8, <1>9 DEF HeadAt
-----------------------------------------------------------------------------
\* Steps of the host threads keep the types.
LEMMA TypeHost ==
  ASSUME TypeOK, NetInv, NEW v \in Vcpu, HostStep(v)
  PROVE  TypeOK'
<1>p. \A x \in PollPc \cup {"top", "guest", "mmio", "blk"} : x \in Pc
  BY DEF Pc
<1>1. CASE Poll(v)
  <2>1. UNCHANGED <<regs, op, work, tap, gmem, driver>> /\ Goto(v, "rx")
        /\ guest_mem' \in Vcpu \cup {None} /\ virtio_net' \in Vcpu \cup {None}
    BY <1>1 DEF Poll
  <2> QED BY <2>1, <1>p, FrameTyped DEF TypeOK, PollPc
<1>2. CASE PollSkip(v) \/ RxNothing(v) \/ TxNothing(v)
  <2>1. UNCHANGED <<regs, locks, op, work, tap, gmem, driver>>
        /\ (Goto(v, "guest") \/ Goto(v, "tx") \/ Goto(v, "irq"))
    BY <1>2 DEF PollSkip, RxNothing, TxNothing
  <2> QED BY <2>1, <1>p, FrameTyped DEF TypeOK, PollPc
<1>3. CASE RxTooBig(v)
  <2>1. UNCHANGED <<regs, locks, op, work, tap_out, gmem, driver>> /\ Goto(v, "tx")
    BY <1>3 DEF RxTooBig
  <2>2. tap_in' \in Seq(Packet)
    BY <1>3 DEF RxTooBig, RxEnabled, TypeOK
  <2>3. tap_out' \in Seq(Frame)
    BY <2>1 DEF TypeOK
  <2> QED BY <2>1, <2>2, <2>3, <1>p, FrameTyped DEF TypeOK, PollPc
<1>4. CASE RxPacket(v)
  <2>1. UNCHANGED <<regs, locks, op, work, tap_out, avail, driver>> /\ Goto(v, "rx_idx")
    BY <1>4 DEF RxPacket
  <2>2. RX \in Queue /\ queues[RX].ready
    BY <1>4 DEF RxPacket, RxEnabled, Queue
  <2>3. /\ AvailDesc(RX) \in Desc
        /\ queues[RX].last_avail_idx % queues[RX].queue_size \in Desc
    BY <2>2, HeadTyped DEF NetInv
  <2>4. used' \in [Queue -> [idx : Idx, ring : [Desc -> Desc]]]
    BY <1>4, <2>2, <2>3, UsedTyped DEF RxPacket, UsedElem
  <2>5. tap_in # <<>> /\ tap_in \in Seq(Packet)
    BY <1>4 DEF RxPacket, RxEnabled, TypeOK
  <2>6. tap_in' \in Seq(Packet) /\ Head(tap_in) \in Packet
    BY <1>4, <2>5 DEF RxPacket
  <2>7. /\ DOMAIN chain' = Queue /\ chain'[TX] = chain[TX]
        /\ chain'[RX] = [chain[RX] EXCEPT ![AvailDesc(RX)] = Head(tap_in)]
    BY <1>4, <2>2, QueueCases DEF RxPacket, TypeOK
  <2>8. chain'[RX] \in [Desc -> {None, Empty} \cup Packet]
    BY <2>3, <2>6, <2>7 DEF TypeOK
  <2>9. chain'[TX] \in [Desc -> {None} \cup Frame]
    BY <2>7 DEF TypeOK
  <2>10. tap_out' \in Seq(Frame) /\ avail' \in [Queue -> [idx : Idx, ring : [Desc -> Desc]]]
    BY <2>1 DEF TypeOK
  <2> QED BY <2>1, <2>4, <2>6, <2>7, <2>8, <2>9, <2>10, <1>p, FrameTyped DEF TypeOK, PollPc
<1>5. CASE RxPublish(v)
  <2>1. UNCHANGED <<queue_sel, locks, op, tx_work, tap, avail, chain, driver>> /\ Goto(v, "tx")
        /\ interrupt_status' = 1 /\ rx_work' = TRUE
    BY <1>5 DEF RxPublish
  <2>2. /\ used' \in [Queue -> [idx : Idx, ring : [Desc -> Desc]]]
        /\ queues' \in [Queue -> [queue_size : {0, QueueSize}, ready : BOOLEAN,
                                  last_avail_idx : Idx]]
    BY <1>5, UsedTyped DEF RxPublish, Queue
  <2>3. rx_work' \in BOOLEAN /\ tx_work' \in BOOLEAN
    BY <2>1 DEF TypeOK
  <2>4. /\ queue_sel' \in Queue /\ avail' \in [Queue -> [idx : Idx, ring : [Desc -> Desc]]]
        /\ DOMAIN chain' = Queue
        /\ chain'[RX] \in [Desc -> {None, Empty} \cup Packet]
        /\ chain'[TX] \in [Desc -> {None} \cup Frame]
    BY <2>1 DEF TypeOK
  <2> QED BY <2>1, <2>2, <2>3, <2>4, <1>p, FrameTyped DEF TypeOK, PollPc
<1>6. CASE TxPacket(v)
  <2>1. UNCHANGED <<regs, locks, op, rx_work, tap_in, avail, chain, driver>> /\ Goto(v, "tx_idx")
    BY <1>6 DEF TxPacket
  <2>2. TX \in Queue /\ queues[TX].ready
    BY <1>6 DEF TxPacket, TxEnabled, Queue
  <2>3. /\ AvailDesc(TX) \in Desc
        /\ queues[TX].last_avail_idx % queues[TX].queue_size \in Desc
    BY <2>2, HeadTyped DEF NetInv
  <2>4. used' \in [Queue -> [idx : Idx, ring : [Desc -> Desc]]]
    BY <1>6, <2>2, <2>3, UsedTyped DEF TxPacket, UsedElem
  <2>5. tx_work' \in BOOLEAN /\ rx_work' \in BOOLEAN
    BY <1>6, <2>1 DEF TxPacket, TypeOK
  <2>6. /\ queue_sel' \in Queue /\ avail' \in [Queue -> [idx : Idx, ring : [Desc -> Desc]]]
        /\ DOMAIN chain' = Queue
        /\ chain'[RX] \in [Desc -> {None, Empty} \cup Packet]
        /\ chain'[TX] \in [Desc -> {None} \cup Frame]
        /\ tap_in' \in Seq(Packet)
    BY <2>1 DEF TypeOK, regs
  <2>x. TypeOK' \/ tap_out' \notin Seq(Frame)
    BY <2>1, <2>4, <2>5, <2>6, <1>p, FrameTyped DEF TypeOK, PollPc
  <2>7. tap_out' \in Seq(Frame)
    <3>1. tap_out \in Seq(Frame)
      BY DEF TypeOK
    <3>2. CASE UNCHANGED tap_out
      BY <3>1, <3>2
    <3>3. CASE tap_out' = Append(tap_out, chain[TX][AvailDesc(TX)])
      <4>1. chain[TX][AvailDesc(TX)] \in Frame
        <5>1. ~Configuring
          BY <1>6, PollExcludes DEF TxPacket, PollPc, NetInv
        <5>2. chain[TX][AvailDesc(TX)] # None
          BY <1>6, <2>2, <5>1, HeadAtHand DEF TxPacket, TxEnabled
        <5> QED BY <2>3, <5>2 DEF TypeOK
      <4> QED BY <3>1, <3>3, <4>1
    <3> QED BY <1>6, <3>2, <3>3 DEF TxPacket
  <2> QED BY <2>x, <2>7
<1>7. CASE TxPublish(v)
  <2>1. UNCHANGED <<queue_sel, locks, op, work, tap, avail, chain, driver>> /\ Goto(v, "tx")
        /\ interrupt_status' = 1
    BY <1>7 DEF TxPublish
  <2>2. /\ used' \in [Queue -> [idx : Idx, ring : [Desc -> Desc]]]
        /\ queues' \in [Queue -> [queue_size : {0, QueueSize}, ready : BOOLEAN,
                                  last_avail_idx : Idx]]
    BY <1>7, UsedTyped DEF TxPublish, Queue
  <2>3. /\ queue_sel' \in Queue /\ avail' \in [Queue -> [idx : Idx, ring : [Desc -> Desc]]]
        /\ DOMAIN chain' = Queue
        /\ chain'[RX] \in [Desc -> {None, Empty} \cup Packet]
        /\ chain'[TX] \in [Desc -> {None} \cup Frame]
    BY <2>1 DEF TypeOK
  <2> QED BY <2>1, <2>2, <2>3, <1>p, FrameTyped DEF TypeOK, PollPc
<1>8. CASE NetIrq(v)
  <2>1. UNCHANGED <<regs, op, tap, gmem, g, drv, kick, last_used, nrx, ntx, nreset>>
        /\ Goto(v, "guest") /\ guest_mem' = None /\ virtio_net' = None
    BY <1>8 DEF NetIrq
  <2>2. irq' \in BOOLEAN /\ rx_work' \in BOOLEAN /\ tx_work' \in BOOLEAN
    BY <1>8 DEF NetIrq
  <2>3. /\ g' \in [Vcpu -> {"run", "isr", "ack", "drain"}]
        /\ drv' \in 0..Len(Setup) /\ kick' \in [Vcpu -> BOOLEAN]
        /\ last_used' \in [Queue -> Idx]
        /\ nrx' \in 0..MaxRx /\ ntx' \in 0..MaxTx
        /\ nreset' \in 0..MaxReset
    BY <2>1 DEF TypeOK
  <2> QED BY <2>1, <2>2, <2>3, <1>p, FrameTyped DEF TypeOK
<1>9. CASE MmioEnd(v)
  <2>1. UNCHANGED <<guest_mem, work, tap, gmem, drv, kick, last_used, irq, nrx, ntx, nreset>>
        /\ Goto(v, "top") /\ virtio_net' = None /\ Perform(op[v])
        /\ op' = [op EXCEPT ![v] = NoAccess]
    BY <1>9 DEF MmioEnd
  <2>2. /\ queue_sel' \in Queue /\ interrupt_status' \in {0, 1}
        /\ queues' \in [Queue -> [queue_size : {0, QueueSize}, ready : BOOLEAN,
                                  last_avail_idx : Idx]]
    <3>1. op[v] \in Access
      <4>1. op[v].reg # "none"
        BY <2>1 DEF Perform
      <4> QED BY <4>1 DEF TypeOK, NoAccess
    <3> QED BY <2>1, <3>1, PerformTyped
  <2>3. g' \in [Vcpu -> {"run", "isr", "ack", "drain"}]
    BY <1>9 DEF MmioEnd, TypeOK
  <2>4. /\ drv' \in 0..Len(Setup) /\ kick' \in [Vcpu -> BOOLEAN]
        /\ last_used' \in [Queue -> Idx] /\ irq' \in BOOLEAN
        /\ nrx' \in 0..MaxRx /\ ntx' \in 0..MaxTx
        /\ nreset' \in 0..MaxReset
    BY <2>1 DEF TypeOK
  <2>5. /\ op' \in [Vcpu -> Access \cup {NoAccess}]
        /\ guest_mem' \in Vcpu \cup {None} /\ virtio_net' \in Vcpu \cup {None}
    BY <2>1 DEF TypeOK
  <2> QED BY <2>1, <2>2, <2>3, <2>4, <2>5, <1>p, FrameTyped DEF TypeOK
<1>10. CASE BlkEnd(v)
  <2>1. UNCHANGED <<regs, virtio_net, op, work, tap, gmem, driver>>
        /\ Goto(v, "top") /\ guest_mem' = None
    BY <1>10 DEF BlkEnd
  <2>2. guest_mem' \in Vcpu \cup {None} /\ virtio_net' \in Vcpu \cup {None}
    BY <2>1 DEF TypeOK
  <2> QED BY <2>1, <2>2, <1>p, FrameTyped DEF TypeOK
<1> QED BY <1>1, <1>2, <1>3, <1>4, <1>5, <1>6, <1>7, <1>8, <1>9, <1>10 DEF HostStep

\* Steps of the guest keep the types.
LEMMA TypeGuest ==
  ASSUME TypeOK, NetInv, NEW v \in Vcpu, GuestStep(v)
  PROVE  TypeOK'
<1>1. CASE Notify(v)
  <2>1. MmioBegin(v, [reg |-> "notify", val |-> 0])
        /\ UNCHANGED <<gmem, g, drv, last_used, irq, nrx, ntx, nreset>>
    BY <1>1 DEF Notify
  <2>2. kick' \in [Vcpu -> BOOLEAN]
    BY <1>1 DEF Notify, TypeOK
  <2>3. /\ g' \in [Vcpu -> {"run", "isr", "ack", "drain"}]
        /\ drv' \in 0..Len(Setup)
        /\ last_used' \in [Queue -> Idx] /\ irq' \in BOOLEAN
        /\ nrx' \in 0..MaxRx /\ ntx' \in 0..MaxTx
        /\ nreset' \in 0..MaxReset
    BY <2>1 DEF TypeOK
  <2> QED BY <2>1, <2>2, <2>3, FrameTyped, BeginTyped, DriverAccess DEF TypeOK
<1>2. CASE TakeIrq(v)
  <2>1. UNCHANGED <<regs, locks, pc, op, work, tap, gmem,
                    drv, kick, last_used, nrx, ntx, nreset>>
    BY <1>2 DEF TakeIrq
  <2>2. irq' \in BOOLEAN
    BY <1>2 DEF TakeIrq
  <2>3. g' \in [Vcpu -> {"run", "isr", "ack", "drain"}]
    BY <1>2 DEF TakeIrq, TypeOK
  <2>4. /\ drv' \in 0..Len(Setup) /\ kick' \in [Vcpu -> BOOLEAN]
        /\ last_used' \in [Queue -> Idx]
        /\ nrx' \in 0..MaxRx /\ ntx' \in 0..MaxTx
        /\ nreset' \in 0..MaxReset
    BY <2>1 DEF TypeOK
  <2> QED BY <2>1, <2>2, <2>3, <2>4, FrameTyped DEF TypeOK
<1>3. CASE ReadInterruptStatus(v) \/ AckInterrupt(v)
  <2>1. /\ \E o \in Access : MmioBegin(v, o)
        /\ UNCHANGED <<gmem, driver>>
    BY <1>3, DriverAccess DEF ReadInterruptStatus, AckInterrupt
  <2> QED BY <2>1, FrameTyped, BeginTyped DEF TypeOK
<1>4. ASSUME NEW q \in Queue, Drain(v, q) PROVE TypeOK'
  <2>1. UNCHANGED <<regs, locks, pc, op, work, tap, avail, used,
                    g, drv, kick, irq, nrx, ntx, nreset>>
    BY <1>4 DEF Drain
  <2> DEFINE h == used[q].ring[Slot(last_used[q])]
  <2>2. h \in Desc
    BY IndexFacts DEF TypeOK
  <2>3. chain' = [chain EXCEPT ![q][h] = None]
    BY <1>4 DEF Drain
  <2> HIDE DEF h
  <2>4. /\ DOMAIN chain' = Queue
        /\ chain'[RX] \in [Desc -> {None, Empty} \cup Packet]
        /\ chain'[TX] \in [Desc -> {None} \cup Frame]
    <3>1. DOMAIN chain = Queue /\ RX \in Queue /\ TX \in Queue /\ RX # TX
      BY QueueCases DEF TypeOK
    <3>2. CASE q = RX
      <4>1. chain'[TX] = chain[TX] /\ chain'[RX] = [chain[RX] EXCEPT ![h] = None]
        BY <2>3, <3>1, <3>2
      <4> QED BY <2>2, <2>3, <3>1, <4>1 DEF TypeOK
    <3>3. CASE q = TX
      <4>1. chain'[RX] = chain[RX] /\ chain'[TX] = [chain[TX] EXCEPT ![h] = None]
        BY <2>3, <3>1, <3>3
      <4> QED BY <2>2, <2>3, <3>1, <4>1 DEF TypeOK
    <3> QED BY <3>2, <3>3 DEF Queue
  <2>5. last_used' \in [Queue -> Idx]
    BY <1>4, IndexFacts DEF Drain, TypeOK
  <2>6. /\ avail' \in [Queue -> [idx : Idx, ring : [Desc -> Desc]]]
        /\ used' \in [Queue -> [idx : Idx, ring : [Desc -> Desc]]]
        /\ g' \in [Vcpu -> {"run", "isr", "ack", "drain"}]
        /\ drv' \in 0..Len(Setup) /\ kick' \in [Vcpu -> BOOLEAN] /\ irq' \in BOOLEAN
        /\ nrx' \in 0..MaxRx /\ ntx' \in 0..MaxTx
        /\ nreset' \in 0..MaxReset
    BY <2>1 DEF TypeOK
  <2> QED BY <2>1, <2>4, <2>5, <2>6, FrameTyped DEF TypeOK
<1>5. CASE DrainDone(v)
  <2>1. UNCHANGED <<regs, locks, pc, op, work, tap, gmem,
                    drv, kick, last_used, irq, nrx, ntx, nreset>>
    BY <1>5 DEF DrainDone
  <2>2. g' \in [Vcpu -> {"run", "isr", "ack", "drain"}]
    BY <1>5 DEF DrainDone, TypeOK
  <2>3. /\ drv' \in 0..Len(Setup) /\ kick' \in [Vcpu -> BOOLEAN]
        /\ last_used' \in [Queue -> Idx] /\ irq' \in BOOLEAN
        /\ nrx' \in 0..MaxRx /\ ntx' \in 0..MaxTx
        /\ nreset' \in 0..MaxReset
    BY <2>1 DEF TypeOK
  <2> QED BY <2>1, <2>2, <2>3, FrameTyped DEF TypeOK
<1> QED BY <1>1, <1>2, <1>3, <1>4, <1>5 DEF GuestStep

\* A buffer on the avail ring.
LEMMA PostTyped ==
  ASSUME TypeOK, NEW v \in Vcpu, NEW q \in Queue, NEW h \in Desc, NEW b, Post(v, q, h, b),
         q = RX => b \in {None, Empty} \cup Packet,
         q = TX => b \in {None} \cup Frame
  PROVE  /\ avail' \in [Queue -> [idx : Idx, ring : [Desc -> Desc]]]
         /\ DOMAIN chain' = Queue
         /\ chain'[RX] \in [Desc -> {None, Empty} \cup Packet]
         /\ chain'[TX] \in [Desc -> {None} \cup Frame]
         /\ kick' \in [Vcpu -> BOOLEAN]
<1>1. avail' \in [Queue -> [idx : Idx, ring : [Desc -> Desc]]]
  <2> DEFINE AT == [idx : Idx, ring : [Desc -> Desc]]
             e == [avail[q] EXCEPT !.ring[Slot(avail[q].idx)] = h, !.idx = WrappingInc(avail[q].idx)]
  <2>1. avail[q] \in AT /\ Slot(avail[q].idx) \in Desc /\ WrappingInc(avail[q].idx) \in Idx
    BY IndexFacts DEF TypeOK
  <2>2. e \in AT
    BY <2>1
  <2>3. avail' = [avail EXCEPT ![q] = e]
    BY DEF Post, TypeOK
  <2> HIDE DEF e, AT
  <2>4. avail \in [Queue -> AT]
    BY DEF TypeOK, AT
  <2>5. avail' \in [Queue -> AT]
    BY <2>2, <2>3, <2>4
  <2> QED BY <2>5 DEF AT
<1>2. chain' = [chain EXCEPT ![q][h] = b]
  BY DEF Post
<1>3. DOMAIN chain = Queue /\ RX \in Queue /\ TX \in Queue /\ RX # TX
  BY QueueCases DEF TypeOK
<1>4. /\ DOMAIN chain' = Queue
      /\ chain'[RX] \in [Desc -> {None, Empty} \cup Packet]
      /\ chain'[TX] \in [Desc -> {None} \cup Frame]
  <2>1. CASE q = RX
    <3>1. chain'[TX] = chain[TX] /\ chain'[RX] = [chain[RX] EXCEPT ![h] = b]
      BY <1>2, <1>3, <2>1
    <3> QED BY <1>2, <1>3, <2>1, <3>1 DEF TypeOK
  <2>2. CASE q = TX
    <3>1. chain'[RX] = chain[RX] /\ chain'[TX] = [chain[TX] EXCEPT ![h] = b]
      BY <1>2, <1>3, <2>2
    <3> QED BY <1>2, <1>3, <2>2, <3>1 DEF TypeOK
  <2> QED BY <2>1, <2>2 DEF Queue
<1>5. kick' \in [Vcpu -> BOOLEAN]
  BY DEF Post, TypeOK
<1> QED BY <1>1, <1>4, <1>5

\* What the guest and the host choose to do keeps the types.
LEMMA TypeChoice ==
  ASSUME TypeOK, NetInv, NEW v \in Vcpu, GuestChoice(v)
  PROVE  TypeOK'
<1> USE NetAssumption
<1>1. ASSUME NEW h \in Desc, PostRx(v, h) PROVE TypeOK'
  <2>1. Post(v, RX, h, Empty) /\ UNCHANGED ntx /\ RX \in Queue /\ RX # TX
    BY <1>1, QueueCases DEF PostRx, Queue
  <2>2. UNCHANGED <<regs, locks, pc, op, work, tap, used,
                 g, drv, last_used, irq, nrx, nreset>>
    BY <2>1 DEF Post
  <2>3. /\ avail' \in [Queue -> [idx : Idx, ring : [Desc -> Desc]]]
        /\ DOMAIN chain' = Queue
        /\ chain'[RX] \in [Desc -> {None, Empty} \cup Packet]
        /\ chain'[TX] \in [Desc -> {None} \cup Frame]
        /\ kick' \in [Vcpu -> BOOLEAN]
    BY <2>1, PostTyped
  <2>4. /\ used' \in [Queue -> [idx : Idx, ring : [Desc -> Desc]]]
        /\ g' \in [Vcpu -> {"run", "isr", "ack", "drain"}]
        /\ drv' \in 0..Len(Setup) /\ last_used' \in [Queue -> Idx] /\ irq' \in BOOLEAN
        /\ nrx' \in 0..MaxRx /\ ntx' \in 0..MaxTx
        /\ nreset' \in 0..MaxReset
    BY <2>1, <2>2 DEF TypeOK
  <2> QED BY <2>2, <2>3, <2>4, FrameTyped DEF TypeOK
<1>2. ASSUME NEW h \in Desc, NEW split \in Splits, Send(v, h, split) PROVE TypeOK'
  <2> DEFINE b == [id |-> ntx + 1, split |-> split]
  <2>1. Post(v, TX, h, b) /\ ntx' = ntx + 1 /\ ntx < MaxTx /\ TX \in Queue /\ RX # TX
    BY <1>2, QueueCases DEF Send, Queue
  <2>n. ntx \in 0..MaxTx
    BY DEF TypeOK
  <2>b. b \in Frame
    BY <2>1, <2>n DEF Frame
  <2> HIDE DEF b
  <2>2. UNCHANGED <<regs, locks, pc, op, work, tap, used,
                 g, drv, last_used, irq, nrx, nreset>>
    BY <2>1 DEF Post
  <2>3. /\ avail' \in [Queue -> [idx : Idx, ring : [Desc -> Desc]]]
        /\ DOMAIN chain' = Queue
        /\ chain'[RX] \in [Desc -> {None, Empty} \cup Packet]
        /\ chain'[TX] \in [Desc -> {None} \cup Frame]
        /\ kick' \in [Vcpu -> BOOLEAN]
    BY <2>1, <2>b, PostTyped
  <2>4. ntx' \in 0..MaxTx
    BY <2>1, <2>n
  <2>5. /\ used' \in [Queue -> [idx : Idx, ring : [Desc -> Desc]]]
        /\ g' \in [Vcpu -> {"run", "isr", "ack", "drain"}]
        /\ drv' \in 0..Len(Setup) /\ last_used' \in [Queue -> Idx] /\ irq' \in BOOLEAN
        /\ nrx' \in 0..MaxRx
        /\ nreset' \in 0..MaxReset
    BY <2>2 DEF TypeOK
  <2> QED BY <2>2, <2>3, <2>4, <2>5, FrameTyped DEF TypeOK
<1>3. CASE Configure(v)
  <2>0. drv \in 0..7 /\ Len(Setup) = 8
    BY <1>3, SetupWrites DEF Configure, On, TypeOK
  <2>1. MmioBegin(v, Setup[drv + 1]) /\ Setup[drv + 1] \in Access /\ drv' = drv + 1
        /\ UNCHANGED <<g, kick, irq, nrx, ntx, nreset>>
    BY <1>3, <2>0, DriverAccess DEF Configure
  <2>2. /\ avail' \in [Queue -> [idx : Idx, ring : [Desc -> Desc]]]
        /\ used' \in [Queue -> [idx : Idx, ring : [Desc -> Desc]]]
        /\ DOMAIN chain' = Queue
        /\ chain'[RX] \in [Desc -> {None, Empty} \cup Packet]
        /\ chain'[TX] \in [Desc -> {None} \cup Frame]
        /\ last_used' \in [Queue -> Idx]
    <3>1. CASE drv = 0
      <4>1. /\ avail' = [q \in Queue |-> NewRing] /\ used' = [q \in Queue |-> NewRing]
            /\ chain' = [q \in Queue |-> [h \in Desc |-> None]]
            /\ last_used' = [q \in Queue |-> 0]
        BY <1>3, <3>1 DEF Configure
      <4> DEFINE RT == [idx : Idx, ring : [Desc -> Desc]]
      <4>0. NewRing \in RT
        BY IndexFacts DEF NewRing
      <4> HIDE DEF RT
      <4>2. avail' \in [Queue -> RT]
        BY <4>0, <4>1
      <4>3. used' \in [Queue -> RT]
        BY <4>0, <4>1
      <4>4. /\ DOMAIN chain' = Queue
            /\ chain'[RX] \in [Desc -> {None, Empty} \cup Packet]
            /\ chain'[TX] \in [Desc -> {None} \cup Frame]
        BY <4>1 DEF Queue
      <4>5. last_used' \in [Queue -> Idx]
        BY <4>1, IndexFacts
      <4> QED BY <4>2, <4>3, <4>4, <4>5 DEF RT
    <3>2. CASE drv # 0
      <4>1. UNCHANGED <<gmem, last_used>>
        BY <1>3, <3>2 DEF Configure
      <4> QED BY <4>1, FrameTyped DEF TypeOK
    <3> QED BY <3>1, <3>2
  <2>3. /\ g' \in [Vcpu -> {"run", "isr", "ack", "drain"}]
        /\ drv' \in 0..Len(Setup) /\ kick' \in [Vcpu -> BOOLEAN] /\ irq' \in BOOLEAN
        /\ nrx' \in 0..MaxRx /\ ntx' \in 0..MaxTx
        /\ nreset' \in 0..MaxReset
    BY <2>0, <2>1 DEF TypeOK
  <2> QED BY <2>1, <2>2, <2>3, BeginTyped DEF TypeOK
<1>4. CASE Reset(v)
  <2>1. MmioBegin(v, [reg |-> "status", val |-> 0]) /\ drv' = 0
        /\ nreset < MaxReset /\ nreset' = nreset + 1
        /\ UNCHANGED <<gmem, g, kick, last_used, irq, nrx, ntx>>
    BY <1>4 DEF Reset
  <2>2. nreset' \in 0..MaxReset /\ drv' \in 0..Len(Setup)
    BY <2>1, SetupWrites DEF TypeOK
  <2>3. /\ g' \in [Vcpu -> {"run", "isr", "ack", "drain"}] /\ kick' \in [Vcpu -> BOOLEAN]
        /\ last_used' \in [Queue -> Idx] /\ irq' \in BOOLEAN
        /\ nrx' \in 0..MaxRx /\ ntx' \in 0..MaxTx
    BY <2>1 DEF TypeOK
  <2> QED BY <2>1, <2>2, <2>3, FrameTyped, BeginTyped, DriverAccess DEF TypeOK
<1>5. CASE BlkBegin(v)
  <2>1. /\ Goto(v, "blk") /\ "blk" \in Pc /\ guest_mem' = v
        /\ UNCHANGED <<regs, virtio_net, op, work, tap, gmem, driver>>
    BY <1>5 DEF BlkBegin, Pc
  <2>3. /\ guest_mem' \in Vcpu \cup {None} /\ virtio_net' \in Vcpu \cup {None}
        /\ g' \in [Vcpu -> {"run", "isr", "ack", "drain"}]
        /\ drv' \in 0..Len(Setup) /\ kick' \in [Vcpu -> BOOLEAN]
        /\ last_used' \in [Queue -> Idx] /\ irq' \in BOOLEAN
        /\ nrx' \in 0..MaxRx /\ ntx' \in 0..MaxTx /\ nreset' \in 0..MaxReset
    BY <2>1 DEF TypeOK, driver
  <2> QED BY <2>1, <2>3, FrameTyped DEF TypeOK
<1>6. CASE OtherExit(v)
  <2>1. Goto(v, "top") /\ "top" \in Pc /\ UNCHANGED <<regs, locks, op, work, tap, gmem, driver>>
    BY <1>6 DEF OtherExit, Pc
  <2> QED BY <2>1, FrameTyped DEF TypeOK
<1> QED BY <1>1, <1>2, <1>3, <1>4, <1>5, <1>6 DEF GuestChoice

\* Every step keeps the types.
LEMMA TypeStep ==
  ASSUME TypeOK, NetInv, [Next]_vars
  PROVE  TypeOK'
<1>1. ASSUME NEW big \in BOOLEAN, HostSend(big) PROVE TypeOK'
  <2>1. UNCHANGED <<regs, locks, pc, op, work, tap_out, gmem,
                    g, drv, kick, last_used, irq, ntx, nreset>>
        /\ nrx < MaxRx /\ nrx' = nrx + 1
    BY <1>1 DEF HostSend
  <2>2. nrx \in 0..MaxRx /\ nrx' \in 0..MaxRx
    BY <2>1, NetAssumption DEF TypeOK
  <2>3. [id |-> nrx + 1, big |-> big] \in Packet
    BY <2>1, <2>2, NetAssumption DEF Packet
  <2>4. tap_in' \in Seq(Packet)
    BY <1>1, <2>3 DEF HostSend, TypeOK
  <2>5. /\ tap_out' \in Seq(Frame)
        /\ g' \in [Vcpu -> {"run", "isr", "ack", "drain"}]
        /\ drv' \in 0..Len(Setup) /\ kick' \in [Vcpu -> BOOLEAN]
        /\ last_used' \in [Queue -> Idx] /\ irq' \in BOOLEAN
        /\ ntx' \in 0..MaxTx /\ nreset' \in 0..MaxReset
    BY <2>1 DEF TypeOK
  <2> QED BY <2>1, <2>2, <2>4, <2>5, FrameTyped DEF TypeOK
<1>2. CASE UNCHANGED vars
  <2>1. UNCHANGED <<regs, locks, pc, op, work, tap, gmem, driver>>
    BY <1>2 DEF vars
  <2> QED BY <2>1, FrameTyped DEF TypeOK
<1> QED BY <1>1, <1>2, TypeHost, TypeGuest, TypeChoice DEF Next
-----------------------------------------------------------------------------
(***************************************************************************)
(* Mutexes and accesses.                                                   *)
(***************************************************************************)

\* A mutex is held by the thread that is where the code holds it.
LEMMA LocksStep ==
  ASSUME TypeOK, LocksHeld, [Next]_vars
  PROVE  LocksHeld'
<1> USE NetAssumption DEF LocksHeld, PollPc
<1>t. pc \in [Vcpu -> Pc]
  BY DEF TypeOK
<1>1. ASSUME NEW v \in Vcpu, Poll(v) PROVE LocksHeld'
  BY <1>1, <1>t DEF Poll, Goto
<1>2. ASSUME NEW v \in Vcpu, PollSkip(v) PROVE LocksHeld'
  BY <1>2, <1>t DEF PollSkip, Goto, locks
<1>3. ASSUME NEW v \in Vcpu, RxNothing(v) \/ RxTooBig(v) \/ RxPacket(v) \/ RxPublish(v)
      PROVE  LocksHeld'
  BY <1>3, <1>t DEF RxNothing, RxTooBig, RxPacket, RxPublish, Goto, locks
<1>4. ASSUME NEW v \in Vcpu, TxNothing(v) \/ TxPacket(v) \/ TxPublish(v)
      PROVE  LocksHeld'
  BY <1>4, <1>t DEF TxNothing, TxPacket, TxPublish, Goto, locks
<1>5. ASSUME NEW v \in Vcpu, NetIrq(v) PROVE LocksHeld'
  BY <1>5, <1>t DEF NetIrq, Goto
<1>6. ASSUME NEW v \in Vcpu, MmioEnd(v) PROVE LocksHeld'
  BY <1>6, <1>t DEF MmioEnd, Goto
<1>7. ASSUME NEW v \in Vcpu, BlkEnd(v) PROVE LocksHeld'
  BY <1>7, <1>t DEF BlkEnd, Goto
<1>8. ASSUME NEW v \in Vcpu, NEW o, MmioBegin(v, o) PROVE LocksHeld'
  BY <1>8, <1>t DEF MmioBegin, Goto
<1>9. ASSUME NEW v \in Vcpu,
             Notify(v) \/ ReadInterruptStatus(v) \/ AckInterrupt(v) \/ Configure(v) \/ Reset(v)
      PROVE  LocksHeld'
  BY <1>8, <1>9 DEF Notify, ReadInterruptStatus, AckInterrupt, Configure, Reset
<1>10. ASSUME UNCHANGED <<locks, pc>> PROVE LocksHeld'
  BY <1>10 DEF locks
<1>11. ASSUME NEW v \in Vcpu,
              TakeIrq(v) \/ DrainDone(v) \/ (\E q \in Queue : Drain(v, q))
       PROVE  LocksHeld'
  BY <1>10, <1>11 DEF TakeIrq, DrainDone, Drain
<1>12. ASSUME NEW v \in Vcpu, NEW h \in Desc,
              PostRx(v, h) \/ (\E split \in Splits : Send(v, h, split))
       PROVE  LocksHeld'
  BY <1>10, <1>12 DEF PostRx, Send, Post
<1>13. ASSUME NEW v \in Vcpu, BlkBegin(v) PROVE LocksHeld'
  BY <1>13, <1>t DEF BlkBegin, Goto
<1>14. ASSUME NEW v \in Vcpu, OtherExit(v) PROVE LocksHeld'
  BY <1>14, <1>t DEF OtherExit, Goto, locks
<1>15. ASSUME NEW big \in BOOLEAN, HostSend(big) PROVE LocksHeld'
  BY <1>10, <1>15 DEF HostSend
<1>16. CASE UNCHANGED vars
  BY <1>10, <1>16 DEF vars
<1> QED BY <1>1, <1>2, <1>3, <1>4, <1>5, <1>6, <1>7, <1>9, <1>11, <1>12, <1>13, <1>14,
           <1>15, <1>16 DEF Next, HostStep, GuestStep, GuestChoice

\* The guest waits for the access that its thread is performing.
LEMMA AccessStep ==
  ASSUME TypeOK, AccessFollows, [Next]_vars
  PROVE  AccessFollows'
<1> USE DEF AccessFollows
<1>t. /\ pc \in [Vcpu -> Pc] /\ op \in [Vcpu -> Access \cup {NoAccess}]
      /\ g \in [Vcpu -> {"run", "isr", "ack", "drain"}]
  BY DEF TypeOK
<1>1. ASSUME NEW v \in Vcpu, NEW to \in {"top", "guest", "blk"} \cup PollPc, Goto(v, to),
             UNCHANGED <<op, g>>
      PROVE  AccessFollows'
  BY <1>1, <1>t DEF Goto, PollPc
<1>2. ASSUME NEW v \in Vcpu, HostStep(v), ~MmioEnd(v) PROVE AccessFollows'
  BY <1>1, <1>2 DEF HostStep, Poll, PollSkip, RxNothing, RxTooBig, RxPacket, RxPublish,
     TxNothing, TxPacket, TxPublish, NetIrq, BlkEnd, driver, PollPc
<1>3. ASSUME NEW v \in Vcpu, MmioEnd(v) PROVE AccessFollows'
  <2>1. /\ \A w \in Vcpu : w # v => pc'[w] = pc[w] /\ op'[w] = op[w] /\ g'[w] = g[w]
        /\ pc'[v] = "top"
    BY <1>3, <1>t DEF MmioEnd, Goto
  <2> QED BY <2>1
<1>4. ASSUME NEW v \in Vcpu, NEW o, MmioBegin(v, o), UNCHANGED g,
             g[v] = IF o.reg \in {"isr", "ack"} THEN o.reg ELSE "run"
      PROVE  AccessFollows'
  <2>1. /\ \A w \in Vcpu : w # v => pc'[w] = pc[w] /\ op'[w] = op[w]
        /\ op'[v] = o
    BY <1>4, <1>t DEF MmioBegin, Goto
  <2> QED BY <1>4, <2>1
<1>5. ASSUME NEW v \in Vcpu, Notify(v) \/ ReadInterruptStatus(v) \/ AckInterrupt(v)
      PROVE  AccessFollows'
  BY <1>4, <1>5 DEF Notify, ReadInterruptStatus, AckInterrupt, driver
<1>6. ASSUME NEW v \in Vcpu, Configure(v) PROVE AccessFollows'
  <2>1. drv + 1 \in 1..8
    BY <1>6, SetupWrites DEF Configure, On, TypeOK
  <2>2. Setup[drv + 1].reg \notin {"isr", "ack"}
    BY <2>1, SetupRegs
  <2> QED BY <1>4, <1>6, <2>2 DEF Configure, Running
<1>7. ASSUME NEW v \in Vcpu, Reset(v) PROVE AccessFollows'
  BY <1>4, <1>7 DEF Reset, Running
<1>8. ASSUME NEW v \in Vcpu, pc[v] # "mmio", UNCHANGED <<op, pc>>,
             \A w \in Vcpu : w # v => g'[w] = g[w]
      PROVE  AccessFollows'
  BY <1>8
<1>9. ASSUME NEW v \in Vcpu, TakeIrq(v) \/ DrainDone(v) PROVE AccessFollows'
  BY <1>8, <1>9, <1>t DEF TakeIrq, DrainDone, Running
<1>10. ASSUME UNCHANGED <<op, pc, g>> PROVE AccessFollows'
  BY <1>10
<1>11. ASSUME NEW v \in Vcpu, NEW q \in Queue, Drain(v, q) PROVE AccessFollows'
  BY <1>10, <1>11 DEF Drain
<1>12. ASSUME NEW v \in Vcpu, NEW h \in Desc,
              PostRx(v, h) \/ (\E split \in Splits : Send(v, h, split))
       PROVE  AccessFollows'
  BY <1>10, <1>12 DEF PostRx, Send, Post
<1>13. ASSUME NEW v \in Vcpu, BlkBegin(v) \/ OtherExit(v) PROVE AccessFollows'
  BY <1>1, <1>13 DEF BlkBegin, OtherExit, driver
<1>14. ASSUME NEW big \in BOOLEAN, HostSend(big) PROVE AccessFollows'
  BY <1>10, <1>14 DEF HostSend
<1>15. CASE UNCHANGED vars
  BY <1>10, <1>15 DEF vars, driver
<1> QED BY <1>2, <1>3, <1>5, <1>6, <1>7, <1>9, <1>11, <1>12, <1>13, <1>14, <1>15
        DEF Next, GuestStep, GuestChoice
-----------------------------------------------------------------------------
(***************************************************************************)
(* The registers follow the driver.                                        *)
(***************************************************************************)

\* A step that leaves registers, driver and accesses alone.
LEMMA SetupKept ==
  ASSUME SetupFollows, UNCHANGED <<queue_sel, queues, drv>>,
         \A w \in Vcpu : ConfigAtHand(w)' <=> ConfigAtHand(w),
         \A w \in Vcpu : ConfigAtHand(w) => op'[w] = op[w]
  PROVE  SetupFollows'
<1>1. \A n \in -1..8 : StageAt(n)' <=> StageAt(n)
  BY DEF StageAt
<1>2. Configuring' <=> Configuring
  BY DEF Configuring
<1>3. \A n : StageAt(n)' <=> StageAt(n)
  BY DEF StageAt
<1> QED BY <1>2, <1>3 DEF SetupFollows

\* Of the writes of Setup each takes the registers one stage further.
LEMMA StageStep ==
  ASSUME TypeOK, NEW n \in 1..8, StageAt(n - 1), Perform(Setup[n])
  PROVE  StageAt(n)'
<1> USE QueueCases, SetupWrites
<1>q. /\ DOMAIN queues = Queue
      /\ \A q \in Queue : DOMAIN queues[q] = {"queue_size", "ready", "last_avail_idx"}
  BY DEF TypeOK
<1>b. queues[RX].ready = (n - 1 >= 4) /\ queues[TX].ready = (n - 1 >= 7)
  BY DEF StageAt
<1>n. /\ n # 4 => (n - 1 >= 4) = (n >= 4)
      /\ n # 7 => (n - 1 >= 7) = (n >= 7)
  OBVIOUS
<1>1. CASE n = 1 \/ n = 8
  <2>1. Setup[n].reg = "status" /\ Setup[n].val # 0
    BY <1>1
  <2>2. UNCHANGED <<queues, queue_sel>>
    BY <2>1 DEF Perform, WriteStatus
  <2> QED BY <1>1, <2>2 DEF StageAt
<1>2. CASE n = 2
  <2>1. Setup[n].reg = "sel" /\ Setup[n].val = RX
    BY <1>2
  <2>2. UNCHANGED queues /\ queue_sel' = RX
    BY <2>1 DEF Perform, WriteQueueSel
  <2> QED BY <1>2, <2>2 DEF StageAt
<1>3. CASE n = 5
  <2>1. Setup[n].reg = "sel" /\ Setup[n].val = TX
    BY <1>3
  <2>2. UNCHANGED queues /\ queue_sel' = TX
    BY <2>1 DEF Perform, WriteQueueSel
  <2> QED BY <1>3, <2>2 DEF StageAt
<1>4. CASE n = 3 \/ n = 6
  <2>1. Setup[n].reg = "num" /\ Setup[n].val = QueueSize
    BY <1>4
  <2>2. UNCHANGED queue_sel /\ queues' = [queues EXCEPT ![queue_sel].queue_size = QueueSize]
    BY <2>1 DEF Perform, WriteQueueNum
  <2>3. queue_sel = IF n = 3 THEN RX ELSE TX
    BY <1>4 DEF StageAt
  <2>4. \A q \in Queue : /\ queues'[q].ready = queues[q].ready
                         /\ queues'[q].last_avail_idx = queues[q].last_avail_idx
                         /\ queues'[q].queue_size = IF q = queue_sel THEN QueueSize
                                                    ELSE queues[q].queue_size
    BY <1>q, <2>2
  <2>5. RX \in Queue /\ TX \in Queue
    OBVIOUS
  <2>6. /\ queues'[RX].ready = queues[RX].ready /\ queues'[TX].ready = queues[TX].ready
    BY <2>4, <2>5
  <2>7. CASE n = 3
    <3>1. queues'[RX].queue_size = QueueSize /\ queues'[TX].queue_size = queues[TX].queue_size
      BY <2>3, <2>4, <2>7
    <3>2. queues'[TX].queue_size = 0
      BY <2>7, <3>1 DEF StageAt
    <3> QED BY <1>b, <1>n, <2>2, <2>3, <2>4, <2>6, <2>7, <3>1, <3>2 DEF StageAt
  <2>8. CASE n = 6
    <3>1. queues'[TX].queue_size = QueueSize /\ queues'[RX].queue_size = queues[RX].queue_size
      BY <2>3, <2>4, <2>8
    <3>2. queues'[RX].queue_size = QueueSize
      BY <2>8, <3>1 DEF StageAt
    <3> QED BY <1>b, <1>n, <2>2, <2>3, <2>4, <2>6, <2>8, <3>1, <3>2 DEF StageAt
  <2> QED BY <1>4, <2>7, <2>8
<1>5. CASE n = 4 \/ n = 7
  <2>1. Setup[n].reg = "ready" /\ Setup[n].val = 1
    BY <1>5
  <2>2. UNCHANGED queue_sel /\ queues' = [queues EXCEPT ![queue_sel].ready = TRUE]
    BY <2>1 DEF Perform, WriteQueueReady
  <2>3. queue_sel = IF n = 4 THEN RX ELSE TX
    BY <1>5 DEF StageAt
  <2>4. \A q \in Queue : /\ queues'[q].queue_size = queues[q].queue_size
                         /\ queues'[q].last_avail_idx = queues[q].last_avail_idx
    BY <1>q, <2>2
  <2>5. RX \in Queue /\ TX \in Queue
    OBVIOUS
  <2>6. queues'[queue_sel].ready = TRUE
    BY <1>q, <2>2, <2>3, <2>5
  <2>7. CASE n = 4
    <3>1. queues'[RX].ready = TRUE
      BY <2>3, <2>6, <2>7
    <3>2. queues'[TX] = queues[TX]
      BY <1>q, <2>2, <2>3, <2>7
    <3>3. queues'[TX].ready = queues[TX].ready
      BY <3>2
    <3>4. queues'[RX].queue_size = QueueSize /\ queues'[TX].queue_size = 0
      BY <2>4, <2>7 DEF StageAt
    <3>5. (n >= 4) = TRUE
      BY <2>7
    <3>6. (n - 1 >= 7) = FALSE /\ (n >= 7) = FALSE
      BY <1>n, <2>7
    <3>7. queues'[RX].ready = (n >= 4) /\ queues'[TX].ready = (n >= 7)
      BY <1>b, <3>1, <3>3, <3>5, <3>6
    <3>8. /\ queue_sel' = IF n >= 5 THEN TX ELSE RX
          /\ queues'[RX].queue_size = IF n >= 3 THEN QueueSize ELSE 0
          /\ queues'[TX].queue_size = IF n >= 6 THEN QueueSize ELSE 0
      BY <2>2, <2>3, <2>7, <3>4
    <3>9. \A q \in Queue : queues'[q].last_avail_idx = 0
      BY <2>4, <2>7 DEF StageAt
    <3> QED BY <3>7, <3>8, <3>9 DEF StageAt
  <2>8. CASE n = 7
    <3>1. queues'[TX].ready = TRUE
      BY <2>3, <2>6, <2>8
    <3>2. queues'[RX] = queues[RX]
      BY <1>q, <2>2, <2>3, <2>8
    <3>3. queues'[RX].ready = queues[RX].ready
      BY <3>2
    <3>4. queues'[RX].queue_size = QueueSize /\ queues'[TX].queue_size = QueueSize
      BY <2>4, <2>8 DEF StageAt
    <3>5. (n >= 7) = TRUE
      BY <2>8
    <3>6. (n - 1 >= 4) = TRUE /\ (n >= 4) = TRUE
      BY <1>n, <2>8
    <3>7. queues'[RX].ready = (n >= 4) /\ queues'[TX].ready = (n >= 7)
      BY <1>b, <3>1, <3>3, <3>5, <3>6
    <3>8. /\ queue_sel' = IF n >= 5 THEN TX ELSE RX
          /\ queues'[RX].queue_size = IF n >= 3 THEN QueueSize ELSE 0
          /\ queues'[TX].queue_size = IF n >= 6 THEN QueueSize ELSE 0
      BY <2>2, <2>3, <2>8, <3>4
    <3>9. \A q \in Queue : queues'[q].last_avail_idx = 0
      BY <2>4, <2>8 DEF StageAt
    <3> QED BY <3>7, <3>8, <3>9 DEF StageAt
  <2> QED BY <1>5, <2>7, <2>8
<1> QED BY <1>1, <1>2, <1>3, <1>4, <1>5

\* A reset takes them back to the start.
LEMMA StageReset ==
  ASSUME Perform([reg |-> "status", val |-> 0])
  PROVE  StageAt(0)'
<1>1. queues' = [q \in Queue |-> NewQueue] /\ queue_sel' = 0
  BY DEF Perform, WriteStatus
<1>2. \A q \in Queue : queues'[q].queue_size = 0 /\ queues'[q].ready = FALSE
                       /\ queues'[q].last_avail_idx = 0
  BY <1>1 DEF NewQueue
<1>3. ~(0 >= 3) /\ ~(0 >= 4) /\ ~(0 >= 5) /\ ~(0 >= 6) /\ ~(0 >= 7)
  OBVIOUS
<1>4. (0 >= 4) = FALSE /\ (0 >= 7) = FALSE
  BY <1>3
<1> QED BY <1>1, <1>2, <1>3, <1>4 DEF StageAt, Queue, RX

\* Publishing moves last_avail_idx of a device that is configured.
LEMMA StagePublish ==
  ASSUME TypeOK, SetupFollows, ~Configuring, On, NEW q \in Queue, UsedIdx(q),
         UNCHANGED <<queue_sel, drv>>, ~Configuring'
  PROVE  SetupFollows'
<1>1. drv = 8 /\ Len(Setup) = 8
  BY SetupWrites DEF On
<1>2. StageAt(8)
  BY <1>1 DEF SetupFollows
<1>3. \A p \in Queue : queues'[p].queue_size = queues[p].queue_size
                       /\ queues'[p].ready = queues[p].ready
  BY DEF UsedIdx, TypeOK
<1>4. RX \in Queue /\ TX \in Queue
  BY DEF Queue
<1>5. /\ queues'[RX].queue_size = queues[RX].queue_size
      /\ queues'[TX].queue_size = queues[TX].queue_size
  BY <1>3, <1>4
<1>6. /\ queues'[RX].ready = queues[RX].ready
      /\ queues'[TX].ready = queues[TX].ready
  BY <1>3, <1>4
<1>7. StageAt(8)'
  BY <1>1, <1>2, <1>5, <1>6 DEF StageAt
<1> QED BY <1>1, <1>7 DEF SetupFollows, Configuring

\* The driver writes a register: the device is where it was, and the driver
\* one write ahead.
LEMMA SetupBegin ==
  ASSUME TypeOK, LocksHeld, SetupFollows, NEW v \in Vcpu,
         Configure(v) \/ Reset(v)
  PROVE  SetupFollows'
<1>t. pc \in [Vcpu -> Pc] /\ op \in [Vcpu -> Access \cup {NoAccess}]
      /\ drv \in 0..8 /\ Len(Setup) = 8
  BY SetupWrites DEF TypeOK
<1>1. PICK o : MmioBegin(v, o) /\ o = IF drv' = 0 THEN [reg |-> "status", val |-> 0]
                                      ELSE Setup[drv']
  <2>1. CASE Configure(v)
    <3>1. MmioBegin(v, Setup[drv + 1]) /\ drv' = drv + 1 /\ drv' # 0
      BY <1>t, <2>1 DEF Configure
    <3> QED BY <3>1
  <2>2. CASE Reset(v)
    <3>1. MmioBegin(v, [reg |-> "status", val |-> 0]) /\ drv' = 0
      BY <2>2 DEF Reset
    <3> QED BY <3>1
  <2> QED BY <2>1, <2>2
<1>2. \A w \in Vcpu : pc[w] # "mmio"
  BY <1>1, NetAssumption DEF MmioBegin, LocksHeld
<1>3. ~Configuring /\ StageAt(drv)
  BY <1>2 DEF Configuring, ConfigAtHand, SetupFollows
<1>4. /\ \A w \in Vcpu : pc'[w] = "mmio" => w = v
      /\ op'[v] = o /\ pc'[v] = "mmio"
  BY <1>1, <1>2, <1>t DEF MmioBegin, Goto
<1>5. \A w \in Vcpu : ConfigAtHand(w)' => w = v
  BY <1>4 DEF ConfigAtHand
<1>6. drv' \in 0..8 /\ (drv' = 0 => drv \in 1..8) /\ (drv' # 0 => drv' - 1 = drv)
  BY <1>t DEF Configure, Reset, On
<1>7. o.reg \in {"status", "sel", "num", "ready"}
  BY <1>1, <1>6, SetupRegs
<1>8. Configuring'
  BY <1>4, <1>7 DEF Configuring, ConfigAtHand
<1>9. UNCHANGED <<queue_sel, queues>>
  BY <1>1 DEF MmioBegin, regs
<1>10. \A n : StageAt(n)' <=> StageAt(n)
  BY <1>9 DEF StageAt
<1>11. drv' = 0 => \E n \in 1 .. Len(Setup) : StageAt(n)'
  BY <1>3, <1>6, <1>10, <1>t
<1>12. ASSUME drv' # 0 PROVE StageAt(drv - 1)'
  <2>1. PICK n \in 0..8 : n = drv
    BY <1>t
  <2>2. StageAt(n)' /\ n = drv' - 1
    BY <1>3, <1>6, <1>10, <1>12, <2>1
  <2> QED BY <2>2 DEF StageAt
<1> QED BY <1>1, <1>4, <1>5, <1>8, <1>11, <1>12 DEF SetupFollows

\* The device carries out the write and is where the driver is.
LEMMA SetupEnd ==
  ASSUME TypeOK, LocksHeld, SetupFollows, NEW v \in Vcpu, MmioEnd(v)
  PROVE  SetupFollows'
<1>t. pc \in [Vcpu -> Pc] /\ op \in [Vcpu -> Access \cup {NoAccess}]
      /\ drv \in 0..8 /\ Len(Setup) = 8
  BY SetupWrites DEF TypeOK
<1>1. pc[v] = "mmio" /\ Perform(op[v]) /\ UNCHANGED drv /\ Goto(v, "top")
  BY DEF MmioEnd
<1>2. \A w \in Vcpu : pc'[w] # "mmio" /\ (w # v => pc[w] # "mmio")
  BY <1>1, <1>t DEF LocksHeld, Goto
<1>3. ~Configuring'
  BY <1>2 DEF Configuring, ConfigAtHand
<1>n. \A w \in Vcpu : ~ConfigAtHand(w)'
  BY <1>2 DEF ConfigAtHand
<1>4. CASE ConfigAtHand(v)
  <2>1. Configuring
    BY <1>4 DEF Configuring
  <2>2. CASE drv = 0
    <3>1. op[v] = [reg |-> "status", val |-> 0]
      BY <1>4, <2>2 DEF SetupFollows
    <3>2. StageAt(0)'
      BY <1>1, <3>1, StageReset
    <3> QED BY <1>1, <1>3, <1>n, <2>2, <3>2 DEF SetupFollows
  <2>3. CASE drv # 0
    <3>1. op[v] = Setup[drv] /\ StageAt(drv - 1)
      BY <1>4, <2>1, <2>3 DEF SetupFollows
    <3>2. drv \in 1..8
      BY <1>t, <2>3
    <3>3. \A n \in 1..8 : StageAt(n - 1) /\ Perform(Setup[n]) => StageAt(n)'
      BY StageStep
    <3>4. PICK n \in 1..8 : n = drv
      BY <3>2
    <3>5. StageAt(n)'
      BY <1>1, <3>1, <3>3, <3>4
    <3> QED BY <1>1, <1>3, <1>n, <2>3, <3>4, <3>5 DEF SetupFollows
  <2> QED BY <2>2, <2>3
<1>5. CASE ~ConfigAtHand(v)
  <2>1. op[v].reg \in {"notify", "isr", "ack"}
    BY <1>1, <1>5 DEF Perform, ConfigAtHand
  <2>2. UNCHANGED <<queue_sel, queues>>
    BY <1>1, <2>1 DEF Perform, WriteInterruptAck, regs
  <2>3. ~Configuring
    BY <1>2, <1>5 DEF Configuring, ConfigAtHand
  <2> QED BY <1>1, <1>3, <1>n, <2>2, <2>3, SetupKept DEF Configuring
<1> QED BY <1>4, <1>5

\* SetupFollows is inductive.
LEMMA SetupStep ==
  ASSUME TypeOK, NetInv, [Next]_vars
  PROVE  SetupFollows'
<1>t. pc \in [Vcpu -> Pc] /\ op \in [Vcpu -> Access \cup {NoAccess}]
  BY DEF TypeOK
<1>i. SetupFollows /\ LocksHeld /\ RingsOrdered
  BY DEF NetInv
<1>1. ASSUME NEW v \in Vcpu, NEW to, pc[v] # "mmio", to # "mmio", Goto(v, to), UNCHANGED op
      PROVE  \A w \in Vcpu : (ConfigAtHand(w)' <=> ConfigAtHand(w)) /\ op'[w] = op[w]
  BY <1>1, <1>t DEF Goto, ConfigAtHand
<1>2. ASSUME NEW v \in Vcpu, NEW to, pc[v] # "mmio", to # "mmio", Goto(v, to),
             UNCHANGED <<op, regs, drv>>
      PROVE  SetupFollows'
  BY <1>1, <1>2, <1>i, SetupKept DEF regs
<1>3. ASSUME NEW v \in Vcpu,
             Poll(v) \/ PollSkip(v) \/ RxNothing(v) \/ RxTooBig(v) \/ RxPacket(v)
      PROVE  SetupFollows'
  BY <1>2, <1>3 DEF Poll, PollSkip, RxNothing, RxTooBig, RxPacket, driver
<1>4. ASSUME NEW v \in Vcpu,
             TxNothing(v) \/ TxPacket(v) \/ NetIrq(v) \/ BlkEnd(v) \/ BlkBegin(v) \/ OtherExit(v)
      PROVE  SetupFollows'
  BY <1>2, <1>4 DEF TxNothing, TxPacket, NetIrq, BlkEnd, BlkBegin, OtherExit, driver
<1>5. ASSUME NEW v \in Vcpu, NEW q \in Queue, pc[v] = IdxPc(q), UsedIdx(q), Goto(v, "tx"),
             UNCHANGED <<op, queue_sel, drv>>
      PROVE  SetupFollows'
  <2>1. pc[v] \in PollPc /\ pc[v] # "mmio" /\ Halfway(q)
    BY <1>5 DEF IdxPc, PollPc, Halfway
  <2>2. On
    BY <1>i, <2>1 DEF RingsOrdered
  <2>3. ~Configuring
    BY <1>i, <2>1, PollExcludes
  <2>4. ~Configuring'
    BY <1>1, <1>5, <2>1, <2>3 DEF Configuring
  <2> QED BY <1>5, <1>i, <2>2, <2>3, <2>4, StagePublish
<1>6. ASSUME NEW v \in Vcpu, RxPublish(v) PROVE SetupFollows'
  BY <1>5, <1>6 DEF RxPublish, IdxPc, Queue, driver
<1>7. ASSUME NEW v \in Vcpu, TxPublish(v) PROVE SetupFollows'
  BY <1>5, <1>7, QueueCases DEF TxPublish, IdxPc, Queue, driver
<1>8. ASSUME NEW v \in Vcpu, NEW o, MmioBegin(v, o), o.reg \in {"notify", "isr", "ack"},
             UNCHANGED drv
      PROVE  SetupFollows'
  <2>1. \A w \in Vcpu : w # v => pc'[w] = pc[w] /\ op'[w] = op[w]
    BY <1>8, <1>t DEF MmioBegin, Goto
  <2>2. op'[v] = o /\ pc[v] # "mmio"
    BY <1>8, <1>t DEF MmioBegin
  <2>3. \A w \in Vcpu : /\ ConfigAtHand(w)' <=> ConfigAtHand(w)
                        /\ ConfigAtHand(w) => op'[w] = op[w]
    BY <1>8, <2>1, <2>2 DEF ConfigAtHand
  <2> QED BY <1>8, <1>i, <2>3, SetupKept DEF MmioBegin, regs
<1>9. ASSUME NEW v \in Vcpu, Notify(v) \/ ReadInterruptStatus(v) \/ AckInterrupt(v)
      PROVE  SetupFollows'
  BY <1>8, <1>9 DEF Notify, ReadInterruptStatus, AckInterrupt, driver
<1>10. ASSUME UNCHANGED <<pc, op, regs, drv>> PROVE SetupFollows'
  <2>1. \A w \in Vcpu : (ConfigAtHand(w)' <=> ConfigAtHand(w)) /\ op'[w] = op[w]
    BY <1>10 DEF ConfigAtHand
  <2> QED BY <1>10, <1>i, <2>1, SetupKept DEF regs
<1>11. ASSUME NEW v \in Vcpu, TakeIrq(v) \/ DrainDone(v) \/ (\E q \in Queue : Drain(v, q))
       PROVE  SetupFollows'
  BY <1>10, <1>11 DEF TakeIrq, DrainDone, Drain
<1>12. ASSUME NEW v \in Vcpu, NEW h \in Desc,
              PostRx(v, h) \/ (\E split \in Splits : Send(v, h, split))
       PROVE  SetupFollows'
  BY <1>10, <1>12 DEF PostRx, Send, Post
<1>13. ASSUME NEW big \in BOOLEAN, HostSend(big) PROVE SetupFollows'
  BY <1>10, <1>13 DEF HostSend
<1>14. CASE UNCHANGED vars
  BY <1>10, <1>14 DEF vars, driver
<1>15. ASSUME NEW v \in Vcpu, Configure(v) \/ Reset(v) \/ MmioEnd(v) PROVE SetupFollows'
  BY <1>15, <1>i, SetupBegin, SetupEnd
<1> QED BY <1>3, <1>4, <1>6, <1>7, <1>9, <1>11, <1>12, <1>13, <1>14, <1>15
        DEF Next, HostStep, GuestStep, GuestChoice
-----------------------------------------------------------------------------
(***************************************************************************)
(* The rings.                                                              *)
(***************************************************************************)

\* RingsOrdered and RingsOwned for one queue.
OrderedAt(q) ==
  /\ drv \in 1 .. Len(Setup) - 1 =>
       avail[q].idx = 0 /\ used[q].idx = 0 /\ last_used[q] = 0
  /\ ~On => ~Halfway(q)
  /\ On => /\ used[q].idx = queues[q].last_avail_idx
           /\ Completed(q) <= Submitted(q) /\ Submitted(q) <= QueueSize
           /\ Halfway(q) => Completed(q) < Submitted(q)

\* The heads on the avail ring are buffers on loan, each there once.
OnLoan(q) ==
  \A k \in 0 .. Submitted(q) - 1 :
    /\ chain[q][HeadAt(q, k)] # None
    /\ \A j \in 0 .. Submitted(q) - 1 : HeadAt(q, j) = HeadAt(q, k) => j = k

\* The used ring repeats the heads of the avail ring up to used.idx.
Repeated(q) ==
  \A k \in 0 .. Completed(q) - 1 : used[q].ring[SlotAt(q, k)] = HeadAt(q, k)

\* An element that used.idx does not count yet repeats its head, too.
Transferred(q) ==
  Halfway(q) => used[q].ring[SlotAt(q, Completed(q))] = HeadAt(q, Completed(q))

\* All of it for one queue.
QueueInv(q) == OrderedAt(q) /\ (On => OnLoan(q) /\ Repeated(q) /\ Transferred(q))

\* The invariant of the rings is that of each queue.
LEMMA RingsByQueue ==
  /\ RingsOrdered /\ RingsOwned <=> \A q \in Queue : QueueInv(q)
  /\ RingsOrdered' /\ RingsOwned' <=> \A q \in Queue : QueueInv(q)'
<1>1. RingsOrdered /\ RingsOwned <=> \A q \in Queue : QueueInv(q)
  BY DEF RingsOrdered, RingsOwned, QueueInv, OrderedAt, OnLoan, Repeated, Transferred
<1>2. RingsOrdered' /\ RingsOwned' <=> \A q \in Queue : QueueInv(q)'
  BY DEF RingsOrdered, RingsOwned, QueueInv, OrderedAt, OnLoan, Repeated, Transferred
<1> QED BY <1>1, <1>2

\* A step that leaves a queue and the place of the poll in it alone.
LEMMA QueueKept ==
  ASSUME NEW q \in Queue, QueueInv(q), UNCHANGED <<avail[q], used[q], chain[q], last_used[q], drv>>,
         queues'[q].last_avail_idx = queues[q].last_avail_idx, Halfway(q)' <=> Halfway(q)
  PROVE  QueueInv(q)'
<1>1. /\ Submitted(q)' = Submitted(q) /\ Completed(q)' = Completed(q)
      /\ \A k : SlotAt(q, k)' = SlotAt(q, k) /\ HeadAt(q, k)' = HeadAt(q, k)
  BY DEF Submitted, Completed, SlotAt, HeadAt
<1>2. On' <=> On
  BY DEF On
<1>3. OrderedAt(q)'
  BY <1>1, <1>2 DEF QueueInv, OrderedAt
<1>4. OnLoan(q) => OnLoan(q)'
  BY <1>1 DEF OnLoan
<1>5. Repeated(q) => Repeated(q)'
  BY <1>1 DEF Repeated
<1>6. Transferred(q) => Transferred(q)'
  <2>1. /\ SlotAt(q, Completed(q))' = SlotAt(q, Completed(q))
        /\ HeadAt(q, Completed(q))' = HeadAt(q, Completed(q))
    BY DEF SlotAt, HeadAt, Completed
  <2> QED BY <2>1 DEF Transferred
<1> QED BY <1>2, <1>3, <1>4, <1>5, <1>6 DEF QueueInv

\* A step that leaves the rings and the places of the poll alone.
LEMMA RingsKept ==
  ASSUME NetInv, UNCHANGED <<avail, used, chain, last_used, drv>>,
         \A q \in Queue : queues'[q].last_avail_idx = queues[q].last_avail_idx,
         \A q \in Queue : Halfway(q)' <=> Halfway(q)
  PROVE  RingsOrdered' /\ RingsOwned'
<1>1. \A q \in Queue : QueueInv(q)
  BY RingsByQueue DEF NetInv
<1>2. ASSUME NEW q \in Queue PROVE QueueInv(q)'
  BY <1>1, QueueKept
<1> QED BY <1>2, RingsByQueue

\* While a poll is at one place it is at no other.
LEMMA PollPlace ==
  ASSUME TypeOK, LocksHeld, NEW v \in Vcpu, pc[v] \in PollPc, NEW to, Goto(v, to)
  PROVE  \A q \in Queue : /\ Halfway(q) <=> pc[v] = IdxPc(q)
                          /\ Halfway(q)' <=> to = IdxPc(q)
<1>1. \A w \in Vcpu : w # v => pc[w] \notin PollPc /\ pc'[w] = pc[w]
  BY PollExcludes DEF Goto, TypeOK
<1>2. pc'[v] = to
  BY DEF Goto, TypeOK
<1>3. \A q \in Queue : IdxPc(q) \in PollPc
  BY DEF IdxPc, PollPc
<1>4. \A q \in Queue : IdxPc(q)' = IdxPc(q)
  BY DEF IdxPc
<1> QED BY <1>1, <1>2, <1>3, <1>4 DEF Halfway

\* The two places are different, and are those of the two transfers.
LEMMA IdxPlaces == IdxPc(RX) = "rx_idx" /\ IdxPc(TX) = "tx_idx" /\ RX \in Queue /\ TX \in Queue
                   /\ \A q \in Queue : q = RX \/ q = TX
BY QueueCases DEF IdxPc, Queue

\* The device writes the element of the head it took.
LEMMA RingTransfer ==
  ASSUME TypeOK, NetInv, NEW v \in Vcpu, pc[v] \in PollPc, NEW q \in Queue,
         \A p \in Queue : pc[v] # IdxPc(p), Goto(v, IdxPc(q)),
         queues[q].ready, HasAvail(q), UsedElem(q, AvailDesc(q)),
         DOMAIN chain' = Queue, \A p \in Queue \ {q} : chain'[p] = chain[p],
         \A h \in Desc : chain[q][h] # None => chain'[q][h] # None,
         UNCHANGED <<queues, avail, last_used, drv>>
  PROVE  RingsOrdered' /\ RingsOwned'
<1>1. ~Configuring /\ LocksHeld
  BY PollExcludes DEF NetInv
<1> DEFINE c == Completed(q)
           s == SlotAt(q, c)
           h == AvailDesc(q)
<1>2. /\ On /\ c < Submitted(q) /\ Submitted(q) <= QueueSize /\ s \in Desc /\ h \in Desc
      /\ h = HeadAt(q, c)
      /\ used' = [used EXCEPT ![q].ring[s] = h]
  BY <1>1, HeadAtHand DEF UsedElem
<1>3. c \in Nat /\ Submitted(q) \in Nat /\ QueueSize \in Nat /\ IdxMod \in Nat /\ QueueSize < IdxMod
  BY Positions, RingAssumption
<1>4. \A p \in Queue : QueueInv(p)
  BY RingsByQueue DEF NetInv
<1>5. \A p \in Queue : ~Halfway(p) /\ (Halfway(p)' <=> p = q)
  BY <1>1, PollPlace, IdxPlaces
<1>6. /\ Submitted(q)' = Submitted(q) /\ Completed(q)' = c
      /\ \A k : SlotAt(q, k)' = SlotAt(q, k) /\ HeadAt(q, k)' = HeadAt(q, k)
      /\ SlotAt(q, Completed(q))' = s /\ HeadAt(q, Completed(q))' = h
      /\ On'
  BY <1>2 DEF Submitted, Completed, SlotAt, HeadAt, On
<1>7. /\ used'[q].idx = used[q].idx /\ used'[q].ring[s] = h
      /\ \A t \in Desc \ {s} : used'[q].ring[t] = used[q].ring[t]
      /\ \A p \in Queue \ {q} : used'[p] = used[p]
  BY <1>2 DEF TypeOK
<1>8. \A k \in Nat : k < Submitted(q) => SlotAt(q, k) \in Desc /\ HeadAt(q, k) \in Desc
  <2>1. SUFFICES ASSUME NEW k \in Nat, k < Submitted(q)
                 PROVE  SlotAt(q, k) \in Desc /\ HeadAt(q, k) \in Desc
    OBVIOUS
  <2>2. Submitted(q) <= QueueSize
    BY <1>2
  <2>3. k < IdxMod
    BY <1>3, <2>1, <2>2
  <2> QED BY <2>3, WindowTypes
<1> HIDE DEF c, s, h
<1>9. QueueInv(q)'
  <2>1. OrderedAt(q)'
    <3>1. OrderedAt(q) /\ ~(drv \in 1 .. Len(Setup) - 1)
      BY <1>2, <1>4, SetupWrites DEF QueueInv, On
    <3> QED BY <1>2, <1>3, <1>5, <1>6, <1>7, <3>1 DEF OrderedAt, c
  <2>2. OnLoan(q)'
    <3>1. OnLoan(q)
      BY <1>2, <1>4 DEF QueueInv
    <3> QED BY <1>3, <1>6, <1>8, <3>1 DEF OnLoan
  <2>3. Repeated(q)'
    <3>1. Repeated(q)
      BY <1>2, <1>4 DEF QueueInv
    <3>2. ASSUME NEW k \in 0 .. c - 1 PROVE used'[q].ring[SlotAt(q, k)] = HeadAt(q, k)
      <4>1. k \in Nat /\ k < c /\ k < QueueSize /\ c < QueueSize
        BY <1>2, <1>3
      <4>2. SlotAt(q, k) # s
        BY <1>3, <4>1, WindowSlots DEF s
      <4>3. SlotAt(q, k) \in Desc
        BY <1>2, <1>3, <1>8, <4>1
      <4>4. used[q].ring[SlotAt(q, k)] = HeadAt(q, k)
        BY <3>1 DEF Repeated, c
      <4> QED BY <1>7, <4>2, <4>3, <4>4
    <3> QED BY <1>6, <3>2 DEF Repeated
  <2>4. Transferred(q)'
    BY <1>6, <1>7 DEF Transferred
  <2> QED BY <2>1, <2>2, <2>3, <2>4 DEF QueueInv
<1>10. ASSUME NEW p \in Queue, p # q PROVE QueueInv(p)'
  <2>1. Halfway(p)' <=> Halfway(p)
    BY <1>5, <1>10
  <2>2. UNCHANGED <<avail[p], used[p], chain[p], last_used[p], drv>>
        /\ queues'[p].last_avail_idx = queues[p].last_avail_idx
    BY <1>7, <1>10
  <2> QED BY <1>4, <2>1, <2>2, QueueKept
<1> QED BY <1>9, <1>10, RingsByQueue

\* used.idx and last_avail_idx move on to the element.
LEMMA RingPublish ==
  ASSUME TypeOK, NetInv, NEW v \in Vcpu, NEW q \in Queue, pc[v] = IdxPc(q), Goto(v, "tx"),
         UsedIdx(q), UNCHANGED <<avail, chain, last_used, drv>>
  PROVE  RingsOrdered' /\ RingsOwned'
<1>1. LocksHeld /\ pc[v] \in PollPc
  BY DEF NetInv, IdxPc, PollPc
<1>2. \A p \in Queue : (Halfway(p) <=> p = q) /\ ~Halfway(p)'
  BY <1>1, PollPlace, IdxPlaces
<1>3. \A p \in Queue : QueueInv(p)
  BY RingsByQueue DEF NetInv
<1> DEFINE i == WrappingInc(queues[q].last_avail_idx)
           c == Completed(q)
<1>4. On /\ c < Submitted(q) /\ Submitted(q) <= QueueSize
  BY <1>2, <1>3 DEF QueueInv, OrderedAt
<1>5. c \in Nat /\ Submitted(q) \in Nat /\ QueueSize \in Nat /\ IdxMod \in Nat /\ QueueSize < IdxMod
      /\ queues[q].last_avail_idx \in Idx /\ last_used[q] \in Idx
  BY Positions, RingAssumption
<1>6. /\ queues'[q].last_avail_idx = i /\ used'[q].idx = i /\ used'[q].ring = used[q].ring
      /\ \A p \in Queue \ {q} : used'[p] = used[p] /\ queues'[p] = queues[p]
  BY DEF UsedIdx, TypeOK
<1>7. c + 1 < IdxMod
  BY <1>4, <1>5, RingAssumption
<1>8. Dist(i, last_used[q]) = c + 1
  BY <1>5, <1>7, DistStep DEF Completed
<1>9. /\ Submitted(q)' = Submitted(q) /\ Completed(q)' = c + 1 /\ On'
      /\ \A k : SlotAt(q, k)' = SlotAt(q, k) /\ HeadAt(q, k)' = HeadAt(q, k)
  BY <1>4, <1>6, <1>8 DEF Submitted, Completed, SlotAt, HeadAt, On
<1> HIDE DEF i, c
<1>10. QueueInv(q)'
  <2>1. OrderedAt(q)'
    <3>1. OrderedAt(q) /\ ~(drv \in 1 .. Len(Setup) - 1)
      BY <1>4, <1>3, SetupWrites DEF QueueInv, On
    <3>2. c + 1 <= Submitted(q)
      BY <1>4, <1>5
    <3> QED BY <1>2, <1>4, <1>6, <1>9, <3>1, <3>2 DEF OrderedAt
  <2>2. OnLoan(q)'
    <3>1. OnLoan(q)
      BY <1>4, <1>3 DEF QueueInv
    <3> QED BY <1>9, <3>1 DEF OnLoan
  <2>3. Repeated(q)'
    <3>1. Repeated(q) /\ Transferred(q) /\ Halfway(q)
      BY <1>2, <1>4, <1>3 DEF QueueInv
    <3>2. ASSUME NEW k \in 0 .. c PROVE used[q].ring[SlotAt(q, k)] = HeadAt(q, k)
      <4>1. CASE k = c
        BY <3>1, <4>1 DEF Transferred, c
      <4>2. CASE k # c
        <5>1. k \in 0 .. c - 1
          BY <1>5, <4>2
        <5> QED BY <3>1, <5>1 DEF Repeated, c
      <4> QED BY <4>1, <4>2
    <3>3. Completed(q)' - 1 = c
      BY <1>5, <1>9
    <3> QED BY <1>6, <1>9, <3>2, <3>3 DEF Repeated
  <2>4. Transferred(q)'
    BY <1>2 DEF Transferred
  <2> QED BY <2>1, <2>2, <2>3, <2>4 DEF QueueInv
<1>11. ASSUME NEW p \in Queue, p # q PROVE QueueInv(p)'
  <2>1. Halfway(p)' <=> Halfway(p)
    BY <1>2, <1>11
  <2>2. UNCHANGED <<avail[p], used[p], chain[p], last_used[p], drv>>
        /\ queues'[p].last_avail_idx = queues[p].last_avail_idx
    BY <1>6, <1>11
  <2> QED BY <1>3, <2>1, <2>2, QueueKept
<1> QED BY <1>10, <1>11, RingsByQueue

\* The driver puts a free buffer on the avail ring, behind the ones that are
\* there: there is room, since their heads are different.
LEMMA PostEffect ==
  ASSUME TypeOK, NetInv, NEW v \in Vcpu, NEW q \in Queue, NEW h \in Desc, NEW b,
         Post(v, q, h, b), NEW n \in Nat, n = Submitted(q)
  PROVE  /\ On /\ On' /\ UNCHANGED <<pc, queues, used, last_used, drv>>
         /\ n < QueueSize /\ Submitted(q)' = n + 1 /\ Completed(q)' = Completed(q)
         /\ \A k : SlotAt(q, k)' = SlotAt(q, k)
         /\ \A k \in 0 .. n - 1 : HeadAt(q, k)' = HeadAt(q, k) /\ HeadAt(q, k) # h
         /\ \A k \in 0 .. n - 1 : HeadAt(q, k) \in Desc
         /\ HeadAt(q, n)' = h
         /\ chain'[q][h] = b /\ \A x \in Desc \ {h} : chain'[q][x] = chain[q][x]
         /\ \A p \in Queue \ {q} : avail'[p] = avail[p] /\ chain'[p] = chain[p]
<1>1. On /\ chain[q][h] = None /\ UNCHANGED <<pc, queues, used, last_used, drv>>
  BY DEF Post, regs
<1>3. \A p \in Queue : QueueInv(p)
  BY RingsByQueue DEF NetInv
<1>s. PICK s \in Desc : s = Slot(avail[q].idx)
  BY Positions, IndexFacts
<1>4. OrderedAt(q) /\ OnLoan(q) /\ Repeated(q) /\ Transferred(q)
  BY <1>1, <1>3 DEF QueueInv
<1>5. n \in Nat /\ n <= QueueSize /\ QueueSize \in Nat /\ IdxMod \in Nat /\ QueueSize < IdxMod
      /\ avail[q].idx \in Idx /\ last_used[q] \in Idx /\ Completed(q) \in Nat
      /\ IdxAt(last_used[q], n) = avail[q].idx
  BY <1>1, <1>4, Positions, RingAssumption DEF OrderedAt
<1>6. \A k \in 0 .. n : SlotAt(q, k) \in Desc /\ HeadAt(q, k) \in Desc
  <2>1. SUFFICES ASSUME NEW k \in 0 .. n PROVE SlotAt(q, k) \in Desc /\ HeadAt(q, k) \in Desc
    OBVIOUS
  <2>2. k \in Nat /\ k < IdxMod
    BY <1>5
  <2> QED BY <2>2, WindowTypes
<1>7. \A k \in 0 .. n - 1 : HeadAt(q, k) # h
  BY <1>1, <1>4 DEF OnLoan
<1>8. n < QueueSize
  <2> DEFINE f == [k \in 0 .. n - 1 |-> HeadAt(q, k)]
  <2>1. f \in [0 .. n - 1 -> Desc]
    BY <1>5, <1>6
  <2>2. \A j, k \in 0 .. n - 1 : f[j] = f[k] => j = k
    BY <1>4 DEF OnLoan
  <2>3. \A k \in 0 .. n - 1 : f[k] # h
    BY <1>7
  <2> HIDE DEF f
  <2> QED BY <1>5, <2>1, <2>2, <2>3, RoomLeft
<1>9. s = SlotAt(q, n)
  BY <1>5, <1>s DEF SlotAt
<1>10. /\ avail'[q].idx = WrappingInc(avail[q].idx) /\ avail'[q].ring[s] = h
       /\ \A t \in Desc \ {s} : avail'[q].ring[t] = avail[q].ring[t]
       /\ \A p \in Queue \ {q} : avail'[p] = avail[p]
  BY <1>s DEF Post, TypeOK
<1>11. /\ chain'[q][h] = b /\ \A x \in Desc \ {h} : chain'[q][x] = chain[q][x]
       /\ \A p \in Queue \ {q} : chain'[p] = chain[p]
  <2>1. DOMAIN chain = Queue /\ DOMAIN chain[q] = Desc
    BY IdxPlaces DEF TypeOK
  <2> QED BY <2>1 DEF Post
<1>12. Submitted(q)' = n + 1
  <2>1. n + 1 < IdxMod
    BY <1>5, <1>8
  <2>2. Dist(WrappingInc(avail[q].idx), last_used[q]) = n + 1
    BY <1>5, <2>1, DistStep DEF Submitted
  <2> QED BY <1>1, <1>10, <2>2 DEF Submitted
<1>13. /\ Completed(q)' = Completed(q) /\ On'
       /\ \A k : SlotAt(q, k)' = SlotAt(q, k)
       /\ SlotAt(q, Completed(q))' = SlotAt(q, Completed(q))
  BY <1>1 DEF Completed, SlotAt, On
<1>14. \A k \in 0 .. n - 1 : HeadAt(q, k)' = HeadAt(q, k)
  <2>1. SUFFICES ASSUME NEW k \in 0 .. n - 1 PROVE HeadAt(q, k)' = HeadAt(q, k)
    OBVIOUS
  <2>2. k \in Nat /\ k < QueueSize /\ k # n /\ k \in 0 .. n
    BY <1>5, <1>8
  <2>3. SlotAt(q, k) # s
    BY <1>5, <1>8, <1>9, <2>2, WindowSlots
  <2> QED BY <1>6, <1>10, <1>13, <2>2, <2>3 DEF HeadAt
<1>15. HeadAt(q, n)' = h
  BY <1>9, <1>10, <1>13 DEF HeadAt
<1>16. \A k \in 0 .. n - 1 : HeadAt(q, k) \in Desc
  BY <1>6
<1> QED BY <1>1, <1>7, <1>8, <1>10, <1>11, <1>12, <1>13, <1>14, <1>15, <1>16

\* The buffer on the avail ring is on loan from now on.
LEMMA RingPost ==
  ASSUME TypeOK, NetInv, NEW v \in Vcpu, NEW q \in Queue, NEW h \in Desc, NEW b, b # None,
         Post(v, q, h, b)
  PROVE  RingsOrdered' /\ RingsOwned'
<1>n. PICK n \in Nat : n = Submitted(q)
  BY Positions
<1>1. On /\ On' /\ UNCHANGED <<pc, queues, used, last_used, drv>>
  BY <1>n, PostEffect
<1>2. \A p \in Queue : Halfway(p)' <=> Halfway(p)
  BY <1>1 DEF Halfway, IdxPc
<1>3. \A p \in Queue : QueueInv(p)
  BY RingsByQueue DEF NetInv
<1>4. OrderedAt(q) /\ OnLoan(q) /\ Repeated(q) /\ Transferred(q)
  BY <1>1, <1>3 DEF QueueInv
<1>5. n \in Nat /\ QueueSize \in Nat /\ n < QueueSize /\ Completed(q) \in Nat
      /\ Submitted(q)' = n + 1
  BY <1>n, Positions, PostEffect, RingAssumption
<1>6. \A k \in 0 .. n - 1 : HeadAt(q, k)' = HeadAt(q, k) /\ HeadAt(q, k) # h /\ HeadAt(q, k) \in Desc
  BY <1>n, PostEffect
<1>7. /\ HeadAt(q, n)' = h /\ chain'[q][h] = b
      /\ \A x \in Desc \ {h} : chain'[q][x] = chain[q][x]
  BY <1>n, PostEffect
<1>8. \A p \in Queue \ {q} : avail'[p] = avail[p] /\ chain'[p] = chain[p]
  BY <1>n, PostEffect
<1>9. /\ Completed(q)' = Completed(q) /\ \A k : SlotAt(q, k)' = SlotAt(q, k)
      /\ SlotAt(q, Completed(q))' = SlotAt(q, Completed(q))
  BY <1>1 DEF Completed, SlotAt
<1>10. QueueInv(q)'
  <2>1. OrderedAt(q)'
    <3>1. ~(drv \in 1 .. Len(Setup) - 1)
      BY <1>1, SetupWrites DEF On
    <3>2. n + 1 <= QueueSize /\ Completed(q) <= n + 1 /\ (Halfway(q) => Completed(q) < n + 1)
      BY <1>n, <1>1, <1>4, <1>5 DEF OrderedAt
    <3> QED BY <1>1, <1>2, <1>4, <1>5, <1>9, <3>1, <3>2 DEF OrderedAt
  <2>2. OnLoan(q)'
    <3>1. SUFFICES ASSUME NEW k \in 0 .. n
                   PROVE  /\ chain'[q][HeadAt(q, k)'] # None
                          /\ \A j \in 0 .. n : HeadAt(q, j)' = HeadAt(q, k)' => j = k
      BY <1>5 DEF OnLoan
    <3>2. CASE k = n
      BY <1>5, <1>6, <1>7, <3>2
    <3>3. CASE k # n
      <4>1. k \in 0 .. n - 1
        BY <1>5, <3>3
      <4>2. HeadAt(q, k)' = HeadAt(q, k) /\ HeadAt(q, k) # h /\ HeadAt(q, k) \in Desc
        BY <1>6, <4>1
      <4>3. chain[q][HeadAt(q, k)] # None
        BY <1>n, <1>4, <4>1 DEF OnLoan
      <4>4. ASSUME NEW j \in 0 .. n, HeadAt(q, j)' = HeadAt(q, k)' PROVE j = k
        <5>1. j # n
          BY <1>7, <4>2, <4>4
        <5>2. j \in 0 .. n - 1
          BY <1>5, <5>1
        <5> QED BY <1>n, <1>4, <1>6, <4>1, <4>4, <5>2 DEF OnLoan
      <4> QED BY <1>7, <4>2, <4>3, <4>4
    <3> QED BY <3>2, <3>3
  <2>3. Repeated(q)'
    <3>1. \A k \in 0 .. Completed(q) - 1 : k \in 0 .. n - 1
      BY <1>n, <1>1, <1>4, <1>5 DEF OrderedAt
    <3> QED BY <1>1, <1>4, <1>6, <1>9, <3>1 DEF Repeated
  <2>4. Transferred(q)'
    <3>1. SUFFICES ASSUME Halfway(q)
                   PROVE  used[q].ring[SlotAt(q, Completed(q))] = HeadAt(q, Completed(q))'
      BY <1>1, <1>2, <1>9 DEF Transferred
    <3>2. PICK m \in 0 .. n - 1 : m = Completed(q)
      BY <1>n, <1>1, <1>4, <1>5, <3>1 DEF OrderedAt
    <3>3. HeadAt(q, Completed(q))' = HeadAt(q, m)'
      BY <1>9, <3>2 DEF HeadAt, SlotAt
    <3> QED BY <1>4, <1>6, <3>1, <3>2, <3>3 DEF Transferred
  <2> QED BY <2>1, <2>2, <2>3, <2>4 DEF QueueInv
<1>11. ASSUME NEW p \in Queue, p # q PROVE QueueInv(p)'
  <2>1. UNCHANGED <<avail[p], used[p], chain[p], last_used[p], drv>>
        /\ queues'[p].last_avail_idx = queues[p].last_avail_idx
    BY <1>1, <1>8, <1>11
  <2> QED BY <1>2, <1>3, <2>1, QueueKept
<1> QED BY <1>10, <1>11, RingsByQueue

\* The handler takes the oldest completion off the used ring: the window of
\* the ring moves on by one.
LEMMA DrainEffect ==
  ASSUME TypeOK, NetInv, NEW v \in Vcpu, NEW q \in Queue, Drain(v, q), On,
         NEW n \in Nat, n = Submitted(q), NEW c \in Nat, c = Completed(q)
  PROVE  /\ On' /\ UNCHANGED <<pc, queues, used, avail, drv>>
         /\ c # 0 /\ c <= n /\ n <= QueueSize
         /\ Submitted(q)' = n - 1 /\ Completed(q)' = c - 1
         /\ \A k \in 0 .. n - 1 : /\ SlotAt(q, k)' = SlotAt(q, k + 1)
                                  /\ HeadAt(q, k)' = HeadAt(q, k + 1)
         /\ HeadAt(q, 0) \in Desc
         /\ \A x \in Desc \ {HeadAt(q, 0)} : chain'[q][x] = chain[q][x]
         /\ \A p \in Queue \ {q} : last_used'[p] = last_used[p] /\ chain'[p] = chain[p]
<1>1. /\ last_used[q] # used[q].idx /\ UNCHANGED <<pc, queues, used, avail, drv>>
  BY DEF Drain, regs
<1>3. \A p \in Queue : QueueInv(p)
  BY RingsByQueue DEF NetInv
<1>4. OrderedAt(q) /\ OnLoan(q) /\ Repeated(q) /\ Transferred(q)
  BY <1>3 DEF QueueInv
<1>5. /\ n <= QueueSize /\ QueueSize \in Nat /\ IdxMod \in Nat /\ QueueSize < IdxMod
      /\ c <= n /\ (Halfway(q) => c < n)
  BY <1>4, RingAssumption DEF OrderedAt
<1>6. /\ avail[q].idx \in Idx /\ last_used[q] \in Idx /\ queues[q].last_avail_idx \in Idx
      /\ used[q].idx = queues[q].last_avail_idx
  BY <1>4, Positions DEF OrderedAt
<1>7. c # 0 /\ n # 0 /\ c \in Nat \ {0}
  <2>1. c # 0
    BY <1>1, <1>6, DistIsDistance DEF Completed
  <2> QED BY <1>5, <2>1
<1>8. SlotAt(q, 0) = Slot(last_used[q])
  BY <1>6, RingAssumption DEF SlotAt, IdxAt, Idx
<1>h. PICK h \in Desc : h = HeadAt(q, 0) /\ h = used[q].ring[Slot(last_used[q])]
  <2>1. 0 \in 0 .. Completed(q) - 1
    BY <1>7
  <2>2. used[q].ring[SlotAt(q, 0)] = HeadAt(q, 0)
    BY <1>4, <2>1 DEF Repeated
  <2>3. HeadAt(q, 0) \in Desc
    BY WindowTypes, RingAssumption
  <2> QED BY <1>8, <2>2, <2>3
<1>9. /\ last_used'[q] = WrappingInc(last_used[q])
      /\ \A p \in Queue \ {q} : last_used'[p] = last_used[p]
  BY DEF Drain, TypeOK
<1>10. /\ \A x \in Desc \ {h} : chain'[q][x] = chain[q][x]
       /\ \A p \in Queue \ {q} : chain'[p] = chain[p]
  <2>1. DOMAIN chain = Queue /\ DOMAIN chain[q] = Desc
    BY IdxPlaces DEF TypeOK
  <2>2. chain' = [chain EXCEPT ![q][h] = None]
    BY <1>h DEF Drain
  <2> QED BY <2>1, <2>2
<1>11. Submitted(q)' = n - 1
  <2>1. avail[q].idx # last_used[q]
    BY <1>6, <1>7, DistIsDistance DEF Submitted
  <2>2. Dist(avail[q].idx, WrappingInc(last_used[q])) = n - 1
    BY <1>6, <2>1, DistStep DEF Submitted
  <2> QED BY <1>1, <1>9, <2>2 DEF Submitted
<1>12. Completed(q)' = c - 1
  <2>1. Dist(queues[q].last_avail_idx, WrappingInc(last_used[q])) = c - 1
    BY <1>1, <1>6, DistStep DEF Completed
  <2> QED BY <1>1, <1>9, <2>1 DEF Completed
<1>13. \A k \in 0 .. n - 1 : SlotAt(q, k)' = SlotAt(q, k + 1) /\ HeadAt(q, k)' = HeadAt(q, k + 1)
  <2>1. SUFFICES ASSUME NEW k \in 0 .. n - 1
                 PROVE  SlotAt(q, k)' = SlotAt(q, k + 1) /\ HeadAt(q, k)' = HeadAt(q, k + 1)
    OBVIOUS
  <2>2. k \in Nat /\ k + 1 < IdxMod
    BY <1>5
  <2>3. IdxAt(WrappingInc(last_used[q]), k) = IdxAt(last_used[q], k + 1)
    BY <1>6, <2>2, IdxAtStep
  <2>4. SlotAt(q, k)' = SlotAt(q, k + 1)
    BY <1>9, <2>3 DEF SlotAt
  <2> QED BY <1>1, <2>4 DEF HeadAt
<1>14. On'
  BY <1>1 DEF On
<1> QED BY <1>1, <1>5, <1>7, <1>9, <1>10, <1>11, <1>12, <1>13, <1>14, <1>h

\* The window loses its first entry and keeps what holds of the others.
LEMMA RingDrain ==
  ASSUME TypeOK, NetInv, NEW v \in Vcpu, NEW q \in Queue, Drain(v, q), On
  PROVE  RingsOrdered' /\ RingsOwned'
<1>n. PICK n \in Nat : n = Submitted(q)
  BY Positions
<1>c. PICK c \in Nat : c = Completed(q)
  BY Positions
<1>1. On' /\ UNCHANGED <<pc, queues, used, avail, drv>>
  BY <1>n, <1>c, DrainEffect
<1>2. \A p \in Queue : Halfway(p)' <=> Halfway(p)
  BY <1>1 DEF Halfway, IdxPc
<1>3. \A p \in Queue : QueueInv(p)
  BY RingsByQueue DEF NetInv
<1>4. OrderedAt(q) /\ OnLoan(q) /\ Repeated(q) /\ Transferred(q)
  BY <1>3 DEF QueueInv
<1>5. /\ n <= QueueSize /\ QueueSize \in Nat /\ IdxMod \in Nat /\ QueueSize < IdxMod
      /\ c <= n /\ (Halfway(q) => c < n) /\ c # 0 /\ n # 0
  <2>1. n <= QueueSize /\ c <= n /\ (Halfway(q) => c < n)
    BY <1>4, <1>n, <1>c DEF OrderedAt
  <2>2. c # 0
    BY <1>n, <1>c, DrainEffect
  <2> QED BY <2>1, <2>2, RingAssumption
<1>6. Submitted(q)' = n - 1 /\ Completed(q)' = c - 1
  BY <1>n, <1>c, DrainEffect
<1>7. \A k \in 0 .. n - 1 : SlotAt(q, k)' = SlotAt(q, k + 1) /\ HeadAt(q, k)' = HeadAt(q, k + 1)
  BY <1>n, <1>c, DrainEffect
<1>8. /\ \A x \in Desc \ {HeadAt(q, 0)} : chain'[q][x] = chain[q][x]
      /\ \A p \in Queue \ {q} : last_used'[p] = last_used[p] /\ chain'[p] = chain[p]
  BY <1>n, <1>c, DrainEffect
<1>9. used[q].idx = queues[q].last_avail_idx
  BY <1>4 DEF OrderedAt
<1>10. QueueInv(q)'
  <2>1. OrderedAt(q)'
    <3>1. ~(drv \in 1 .. Len(Setup) - 1)
      BY SetupWrites DEF On
    <3>2. c - 1 <= n - 1 /\ n - 1 <= QueueSize /\ (Halfway(q) => c - 1 < n - 1)
      BY <1>5
    <3> QED BY <1>1, <1>2, <1>6, <1>9, <3>1, <3>2 DEF OrderedAt
  <2>2. OnLoan(q)'
    <3>1. SUFFICES ASSUME NEW k \in 0 .. n - 2
                   PROVE  /\ chain'[q][HeadAt(q, k)'] # None
                          /\ \A j \in 0 .. n - 2 : HeadAt(q, j)' = HeadAt(q, k)' => j = k
      <4>1. Submitted(q)' - 1 = n - 2
        BY <1>6
      <4> QED BY <4>1 DEF OnLoan
    <3>2. \A j \in 0 .. n - 2 : j \in 0 .. n - 1 /\ j + 1 \in 0 .. n - 1 /\ j + 1 # 0
      OBVIOUS
    <3>3. \A j \in 0 .. n - 1 : chain[q][HeadAt(q, j)] # None
                                /\ \A i \in 0 .. n - 1 : HeadAt(q, i) = HeadAt(q, j) => i = j
      BY <1>4, <1>n DEF OnLoan
    <3>4. HeadAt(q, k + 1) # HeadAt(q, 0) /\ chain[q][HeadAt(q, k + 1)] # None
      <4>1. 0 \in 0 .. n - 1
        BY <1>5
      <4> QED BY <3>2, <3>3, <4>1
    <3>5. HeadAt(q, k + 1) \in Desc
      <4>1. k + 1 \in Nat /\ k + 1 < IdxMod
        BY <1>5
      <4> QED BY <4>1, WindowTypes
    <3>6. ASSUME NEW j \in 0 .. n - 2, HeadAt(q, j)' = HeadAt(q, k)' PROVE j = k
      <4>1. HeadAt(q, j + 1) = HeadAt(q, k + 1)
        BY <1>7, <3>2, <3>6
      <4>2. j + 1 = k + 1
        BY <3>2, <3>3, <4>1
      <4> QED BY <4>2
    <3> QED BY <1>7, <1>8, <3>2, <3>4, <3>5, <3>6
  <2>3. Repeated(q)'
    <3>1. SUFFICES ASSUME NEW k \in 0 .. c - 2
                   PROVE  used'[q].ring[SlotAt(q, k)'] = HeadAt(q, k)'
      <4>1. Completed(q)' - 1 = c - 2
        BY <1>6
      <4> QED BY <4>1 DEF Repeated
    <3>2. k \in 0 .. n - 1 /\ k + 1 \in 0 .. c - 1
      BY <1>5
    <3>3. used[q].ring[SlotAt(q, k + 1)] = HeadAt(q, k + 1)
      BY <1>4, <1>c, <3>2 DEF Repeated
    <3> QED BY <1>1, <1>7, <3>2, <3>3
  <2>4. Transferred(q)'
    <3>1. SUFFICES ASSUME Halfway(q)
                   PROVE  used[q].ring[SlotAt(q, Completed(q))'] = HeadAt(q, Completed(q))'
      BY <1>1, <1>2 DEF Transferred
    <3>2. PICK m \in 0 .. n - 1 : m = c - 1
      BY <1>5
    <3>3. SlotAt(q, Completed(q))' = SlotAt(q, m)' /\ HeadAt(q, Completed(q))' = HeadAt(q, m)'
      BY <1>6, <3>2 DEF HeadAt, SlotAt
    <3>4. m + 1 = c
      BY <3>2
    <3>5. used[q].ring[SlotAt(q, c)] = HeadAt(q, c)
      BY <1>4, <1>c, <3>1 DEF Transferred
    <3> QED BY <1>7, <3>2, <3>3, <3>4, <3>5
  <2> QED BY <2>1, <2>2, <2>3, <2>4 DEF QueueInv
<1>11. ASSUME NEW p \in Queue, p # q PROVE QueueInv(p)'
  <2>1. UNCHANGED <<avail[p], used[p], chain[p], last_used[p], drv>>
        /\ queues'[p].last_avail_idx = queues[p].last_avail_idx
    BY <1>1, <1>8, <1>11
  <2> QED BY <1>2, <1>3, <2>1, QueueKept
<1> QED BY <1>10, <1>11, RingsByQueue

\* Before the configuration is over nothing is asked of the rings but that
\* they are empty once it has begun.
LEMMA RingsOff ==
  ASSUME ~On', \A q \in Queue : ~Halfway(q)',
         drv' = 0 \/ \A q \in Queue : avail'[q].idx = 0 /\ used'[q].idx = 0 /\ last_used'[q] = 0
  PROVE  RingsOrdered' /\ RingsOwned'
BY RingsByQueue DEF QueueInv, OrderedAt

\* A thread that is not in the poll does not move the poll.
LEMMA PlaceKept ==
  ASSUME TypeOK, NEW v \in Vcpu, \A q \in Queue : pc[v] # IdxPc(q),
         NEW to, \A q \in Queue : to # IdxPc(q), Goto(v, to)
  PROVE  \A q \in Queue : Halfway(q)' <=> Halfway(q)
<1>1. \A w \in Vcpu : w # v => pc'[w] = pc[w]
  BY DEF Goto, TypeOK
<1>2. pc'[v] = to
  BY DEF Goto, TypeOK
<1>3. \A q \in Queue : IdxPc(q)' = IdxPc(q)
  BY DEF IdxPc
<1> QED BY <1>1, <1>2, <1>3 DEF Halfway

\* The driver begins an access.
LEMMA RingBegin ==
  ASSUME TypeOK, NetInv, NEW v \in Vcpu, Configure(v) \/ Reset(v)
  PROVE  RingsOrdered' /\ RingsOwned'
<1>t. drv \in 0..8 /\ Len(Setup) = 8 /\ (On <=> drv = 8) /\ (On' <=> drv' = 8)
  BY SetupWrites DEF TypeOK, On
<1>1. PICK o : MmioBegin(v, o)
  BY DEF Configure, Reset
<1>2. pc[v] = "guest" /\ Goto(v, "mmio") /\ virtio_net = None /\ UNCHANGED queues
  BY <1>1 DEF MmioBegin, regs
<1>3. \A w \in Vcpu : pc[w] \notin PollPc /\ pc[w] # "mmio"
  BY <1>2, NetAssumption DEF NetInv, LocksHeld
<1>4. \A q \in Queue : ~Halfway(q)
  BY <1>3 DEF Halfway, IdxPc, PollPc
<1>5. \A q \in Queue : ~Halfway(q)'
  <2>1. \A q \in Queue : pc[v] # IdxPc(q) /\ "mmio" # IdxPc(q)
    BY <1>2 DEF IdxPc
  <2> QED BY <1>2, <1>4, <2>1, PlaceKept
<1>6. CASE Reset(v)
  BY <1>5, <1>6, <1>t, RingsOff DEF Reset
<1>7. CASE Configure(v) /\ drv = 0
  <2>1. drv' = 1
    BY <1>7 DEF Configure
  <2>2. \A q \in Queue : avail'[q].idx = 0 /\ used'[q].idx = 0 /\ last_used'[q] = 0
    BY <1>7 DEF Configure, NewRing
  <2> QED BY <1>5, <1>t, <2>1, <2>2, RingsOff
<1>8. CASE Configure(v) /\ drv # 0
  <2>1. drv \in 1..7 /\ drv' = drv + 1 /\ UNCHANGED <<avail, used, chain, last_used>>
    BY <1>8, <1>t DEF Configure, gmem
  <2>2. \A q \in Queue : avail[q].idx = 0 /\ used[q].idx = 0 /\ last_used[q] = 0
    BY <1>t, <2>1 DEF NetInv, RingsOrdered
  <2>3. CASE drv # 7
    <3>1. ~On'
      BY <1>t, <2>1, <2>3
    <3> QED BY <1>5, <2>1, <2>2, <3>1, RingsOff
  <2>4. CASE drv = 7
    <3>1. ~Configuring
      BY <1>3 DEF Configuring, ConfigAtHand
    <3>2. StageAt(7)
      BY <2>4, <3>1 DEF NetInv, SetupFollows
    <3>3. \A q \in Queue : queues'[q].last_avail_idx = 0
      BY <1>2, <1>t, <3>2 DEF StageAt
    <3>4. \A q \in Queue : Submitted(q)' = 0 /\ Completed(q)' = 0
      BY <2>1, <2>2, <3>3 DEF Submitted, Completed, Dist
    <3>5. drv' = 8
      BY <2>1, <2>4
    <3>6. ASSUME NEW q \in Queue PROVE QueueInv(q)'
      <4>1. OrderedAt(q)'
        BY <1>5, <1>t, <2>1, <2>2, <3>3, <3>4, <3>5, RingAssumption DEF OrderedAt
      <4>2. OnLoan(q)' /\ Repeated(q)' /\ Transferred(q)'
        BY <1>5, <3>4 DEF OnLoan, Repeated, Transferred
      <4> QED BY <4>1, <4>2 DEF QueueInv
    <3> QED BY <3>6, RingsByQueue
  <2> QED BY <2>3, <2>4
<1> QED BY <1>6, <1>7, <1>8

\* The device ends it: it only gives up its place in the rings in a reset.
LEMMA RingEnd ==
  ASSUME TypeOK, NetInv, NEW v \in Vcpu, MmioEnd(v)
  PROVE  RingsOrdered' /\ RingsOwned'
<1>t. drv \in 0..8 /\ Len(Setup) = 8 /\ (On <=> drv = 8)
  BY SetupWrites DEF TypeOK, On
<1>1. /\ pc[v] = "mmio" /\ Perform(op[v]) /\ Goto(v, "top")
      /\ UNCHANGED <<avail, used, chain, last_used, drv>>
  BY DEF MmioEnd, gmem
<1>2. \A q \in Queue : Halfway(q)' <=> Halfway(q)
  <2>1. \A q \in Queue : pc[v] # IdxPc(q) /\ "top" # IdxPc(q)
    BY <1>1 DEF IdxPc
  <2> QED BY <1>1, <2>1, PlaceKept
<1>3. CASE On
  <2>1. UNCHANGED queues
    <3>1. CASE ConfigAtHand(v)
      <4>1. op[v] = Setup[8]
        BY <1>3, <1>t, <3>1 DEF NetInv, SetupFollows
      <4>2. op[v].reg = "status" /\ op[v].val = 4
        BY <4>1, SetupWrites
      <4> QED BY <1>1, <4>2 DEF Perform, WriteStatus
    <3>2. CASE ~ConfigAtHand(v)
      BY <1>1, <3>2 DEF Perform, WriteInterruptAck, ConfigAtHand, regs
    <3> QED BY <3>1, <3>2
  <2> QED BY <1>1, <1>2, <2>1, RingsKept
<1>4. CASE ~On
  <2>1. ~On' /\ \A q \in Queue : ~Halfway(q)'
    BY <1>1, <1>2, <1>4 DEF On, NetInv, RingsOrdered
  <2>2. drv' = 0 \/ \A q \in Queue : avail'[q].idx = 0 /\ used'[q].idx = 0 /\ last_used'[q] = 0
    <3>1. drv = 0 \/ drv \in 1 .. Len(Setup) - 1
      BY <1>4, <1>t
    <3> QED BY <1>1, <3>1 DEF NetInv, RingsOrdered
  <2> QED BY <2>1, <2>2, RingsOff
<1> QED BY <1>3, <1>4

\* RingsOrdered and RingsOwned are inductive.
LEMMA RingsStep ==
  ASSUME TypeOK, NetInv, [Next]_vars
  PROVE  RingsOrdered' /\ RingsOwned'
<1>i. LocksHeld
  BY DEF NetInv
<1>1. ASSUME NEW v \in Vcpu, \A q \in Queue : pc[v] # IdxPc(q),
             NEW to, \A q \in Queue : to # IdxPc(q), Goto(v, to),
             UNCHANGED <<regs, gmem, last_used, drv>>
      PROVE  RingsOrdered' /\ RingsOwned'
  BY <1>1, PlaceKept, RingsKept DEF regs, gmem
<1>2. ASSUME NEW v \in Vcpu, Poll(v) \/ PollSkip(v) \/ RxNothing(v) \/ RxTooBig(v)
      PROVE  RingsOrdered' /\ RingsOwned'
  BY <1>1, <1>2 DEF Poll, PollSkip, RxNothing, RxTooBig, IdxPc, driver
<1>3. ASSUME NEW v \in Vcpu, TxNothing(v) \/ NetIrq(v) \/ BlkEnd(v) \/ BlkBegin(v) \/ OtherExit(v)
      PROVE  RingsOrdered' /\ RingsOwned'
  BY <1>1, <1>3 DEF TxNothing, NetIrq, BlkEnd, BlkBegin, OtherExit, IdxPc, driver
<1>4. ASSUME NEW v \in Vcpu, Notify(v) \/ ReadInterruptStatus(v) \/ AckInterrupt(v)
      PROVE  RingsOrdered' /\ RingsOwned'
  BY <1>1, <1>4 DEF Notify, ReadInterruptStatus, AckInterrupt, MmioBegin, IdxPc, driver
<1>5. ASSUME NEW v \in Vcpu, RxPacket(v) PROVE RingsOrdered' /\ RingsOwned'
  <2>1. /\ pc[v] = "rx" /\ queues[RX].ready /\ HasAvail(RX) /\ tap_in # <<>>
        /\ chain' = [chain EXCEPT ![RX][AvailDesc(RX)] = Head(tap_in)]
        /\ UsedElem(RX, AvailDesc(RX)) /\ Goto(v, IdxPc(RX))
        /\ UNCHANGED <<queues, avail, last_used, drv>>
    BY <1>5, IdxPlaces DEF RxPacket, RxEnabled, regs, driver
  <2>2. pc[v] \in PollPc /\ \A p \in Queue : pc[v] # IdxPc(p)
    BY <2>1 DEF PollPc, IdxPc
  <2>3. Head(tap_in) # None
    BY <2>1, PacketAssumption DEF TypeOK
  <2>4. DOMAIN chain = Queue /\ DOMAIN chain[RX] = Desc /\ RX \in Queue
    BY IdxPlaces DEF TypeOK
  <2>5. /\ DOMAIN chain' = Queue /\ \A p \in Queue \ {RX} : chain'[p] = chain[p]
        /\ \A h \in Desc : chain[RX][h] # None => chain'[RX][h] # None
    BY <2>1, <2>3, <2>4
  <2> QED BY <2>1, <2>2, <2>4, <2>5, RingTransfer
<1>6. ASSUME NEW v \in Vcpu, TxPacket(v) PROVE RingsOrdered' /\ RingsOwned'
  <2>1. /\ pc[v] = "tx" /\ queues[TX].ready /\ HasAvail(TX)
        /\ UsedElem(TX, AvailDesc(TX)) /\ Goto(v, IdxPc(TX))
        /\ UNCHANGED <<chain, queues, avail, last_used, drv>>
    BY <1>6, IdxPlaces DEF TxPacket, TxEnabled, regs, driver
  <2>2. pc[v] \in PollPc /\ \A p \in Queue : pc[v] # IdxPc(p)
    BY <2>1 DEF PollPc, IdxPc
  <2>3. DOMAIN chain = Queue /\ TX \in Queue
    BY IdxPlaces DEF TypeOK
  <2> QED BY <2>1, <2>2, <2>3, RingTransfer
<1>7. ASSUME NEW v \in Vcpu, RxPublish(v) PROVE RingsOrdered' /\ RingsOwned'
  BY <1>7, RingPublish, IdxPlaces DEF RxPublish, driver
<1>8. ASSUME NEW v \in Vcpu, TxPublish(v) PROVE RingsOrdered' /\ RingsOwned'
  BY <1>8, RingPublish, IdxPlaces DEF TxPublish, driver
<1>9. ASSUME NEW v \in Vcpu, Configure(v) \/ Reset(v) \/ MmioEnd(v)
      PROVE  RingsOrdered' /\ RingsOwned'
  BY <1>9, RingBegin, RingEnd
<1>10. ASSUME UNCHANGED <<pc, queues, gmem, last_used, drv>> PROVE RingsOrdered' /\ RingsOwned'
  <2>1. \A q \in Queue : Halfway(q)' <=> Halfway(q)
    BY <1>10 DEF Halfway, IdxPc
  <2> QED BY <1>10, <2>1, RingsKept DEF gmem
<1>11. ASSUME NEW v \in Vcpu, TakeIrq(v) \/ DrainDone(v) PROVE RingsOrdered' /\ RingsOwned'
  BY <1>10, <1>11 DEF TakeIrq, DrainDone, regs
<1>12. ASSUME NEW v \in Vcpu, NEW q \in Queue, Drain(v, q) PROVE RingsOrdered' /\ RingsOwned'
  <2>1. CASE On
    BY <1>12, <2>1, RingDrain
  <2>2. CASE ~On
    <3>1. drv \in 0..7 /\ Len(Setup) = 8
      BY <2>2, SetupWrites DEF On, TypeOK
    <3>2. drv = 0
      <4>1. drv \in 1 .. Len(Setup) - 1 => used[q].idx = 0 /\ last_used[q] = 0
        BY DEF NetInv, RingsOrdered
      <4> QED BY <1>12, <3>1, <4>1 DEF Drain
    <3>3. \A p \in Queue : ~Halfway(p)'
      BY <1>12, <2>2 DEF Drain, Halfway, IdxPc, NetInv, RingsOrdered
    <3>4. drv' = 0 /\ ~On'
      BY <1>12, <3>1, <3>2 DEF Drain, On
    <3> QED BY <3>3, <3>4, RingsOff
  <2> QED BY <2>1, <2>2
<1>13. ASSUME NEW v \in Vcpu, NEW h \in Desc, PostRx(v, h) PROVE RingsOrdered' /\ RingsOwned'
  BY <1>13, RingPost, NetAssumption, IdxPlaces DEF PostRx
<1>14. ASSUME NEW v \in Vcpu, NEW h \in Desc, NEW split \in Splits, Send(v, h, split)
       PROVE  RingsOrdered' /\ RingsOwned'
  <2> DEFINE b == [id |-> ntx + 1, split |-> split]
  <2>1. Post(v, TX, h, b) /\ ntx < MaxTx /\ TX \in Queue
    BY <1>14, IdxPlaces DEF Send
  <2>2. b \in Frame
    BY <2>1, NetAssumption DEF Frame, TypeOK
  <2>3. b # None
    BY <2>2, PacketAssumption
  <2> HIDE DEF b
  <2> QED BY <2>1, <2>3, RingPost
<1>15. ASSUME NEW big \in BOOLEAN, HostSend(big) PROVE RingsOrdered' /\ RingsOwned'
  BY <1>10, <1>15 DEF HostSend, regs
<1>16. CASE UNCHANGED vars
  BY <1>10, <1>16 DEF vars, driver, regs
<1> QED BY <1>2, <1>3, <1>4, <1>5, <1>6, <1>7, <1>8, <1>9, <1>11, <1>12, <1>13, <1>14, <1>15, <1>16
        DEF Next, HostStep, GuestStep, GuestChoice
-----------------------------------------------------------------------------
(***************************************************************************)
(* The theorems.                                                           *)
(***************************************************************************)

\* Everything is empty and free at the start.
LEMMA NetInit == Init => NetInv
<1> SUFFICES ASSUME Init PROVE NetInv
  OBVIOUS
<1>1. \A v \in Vcpu : pc[v] = "top"
  BY DEF Init
<1>2. LocksHeld /\ AccessFollows
  BY <1>1 DEF LocksHeld, AccessFollows, PollPc
<1>3. ~Configuring /\ \A v \in Vcpu : ~ConfigAtHand(v)
  BY <1>1 DEF Configuring, ConfigAtHand
<1>4. StageAt(0)
  <2>1. \A q \in Queue : queues[q].queue_size = 0 /\ queues[q].ready = FALSE
                         /\ queues[q].last_avail_idx = 0
    BY DEF Init, NewQueue
  <2>2. ~(0 >= 3) /\ ~(0 >= 4) /\ ~(0 >= 5) /\ ~(0 >= 6) /\ ~(0 >= 7)
    OBVIOUS
  <2>3. (0 >= 4) = FALSE /\ (0 >= 7) = FALSE
    BY <2>2
  <2>4. queue_sel = 0
    BY DEF Init
  <2> QED BY <2>1, <2>2, <2>3, <2>4 DEF StageAt, Queue, RX
<1>5. SetupFollows
  <2>1. drv = 0
    BY DEF Init
  <2> QED BY <1>3, <1>4, <2>1 DEF SetupFollows
<1>6. drv = 0 /\ ~On
  BY SetupWrites DEF Init, On
<1>7. \A q \in Queue : ~Halfway(q)
  BY <1>1 DEF Halfway, IdxPc
<1>8. RingsOrdered /\ RingsOwned
  BY <1>6, <1>7, SetupWrites DEF RingsOrdered, RingsOwned
<1> QED BY <1>2, <1>5, <1>8 DEF NetInv

\* The inductive invariant of the network device: the poll and the register
\* accesses exclude each other, the registers are as far as the driver, the
\* indices of both rings keep their order and the rings hold each buffer once.
THEOREM NetInvariant == Spec => [](TypeOK /\ NetInv)
<1>1. Init => TypeOK /\ NetInv
  BY TypeInit, NetInit
<1>2. TypeOK /\ NetInv /\ [Next]_vars => (TypeOK /\ NetInv)'
  <2>1. SUFFICES ASSUME TypeOK, NetInv, [Next]_vars PROVE TypeOK' /\ NetInv'
    OBVIOUS
  <2>2. LocksHeld' /\ AccessFollows'
    BY <2>1, LocksStep, AccessStep DEF NetInv
  <2>3. SetupFollows'
    BY <2>1, SetupStep
  <2>4. RingsOrdered' /\ RingsOwned'
    BY <2>1, RingsStep
  <2> QED BY <2>1, <2>2, <2>3, <2>4, TypeStep DEF NetInv
<1> QED BY <1>1, <1>2, PTL DEF Spec

\* Every variable keeps its type: what VirtQueue takes off the rings and
\* writes to them is a descriptor index, and every packet written to the TAP
\* interface is one that the guest posted.
THEOREM TypeCorrect == Spec => []TypeOK
BY NetInvariant, PTL

\* A queue that process_rx or process_tx uses has a size: the modulo in
\* get_avail_desc_idx and in add_used has no divisor zero.
THEOREM ReadyQueuesSized == Spec => []ReadyQueueHasSize
<1>1. TypeOK /\ NetInv => ReadyQueueHasSize
  BY ReadySize, RingAssumption DEF NetInv, ReadyQueueHasSize
<1> QED BY <1>1, NetInvariant, PTL
-----------------------------------------------------------------------------
\* What is left on the used rings depends on their indices alone.
LEMMA UnreadKept ==
  ASSUME \A q \in Queue : last_used'[q] = last_used[q] /\ used'[q].idx = used[q].idx
  PROVE  Unread' <=> Unread
BY DEF Unread

\* The element that add_used writes does not show before used.idx moves.
LEMMA ElemUnread ==
  ASSUME TypeOK, NEW q \in Queue, NEW h, UsedElem(q, h)
  PROVE  \A p \in Queue : used'[p].idx = used[p].idx
BY DEF TypeOK, UsedElem

\* Nothing that the host threads do but acknowledging clears the bit, and
\* nothing but a completion makes one unread.
LEMMA RecordedStep ==
  ASSUME TypeOK, NetInv, InterruptRecorded, [Next]_vars
  PROVE  InterruptRecorded'
<1>t. /\ g \in [Vcpu -> {"run", "isr", "ack", "drain"}]
      /\ pc \in [Vcpu -> Pc] /\ op \in [Vcpu -> Access \cup {NoAccess}]
  BY DEF TypeOK
<1>1. ASSUME \A q \in Queue : last_used'[q] = last_used[q] /\ used'[q].idx = used[q].idx,
             UNCHANGED <<g, interrupt_status>>
      PROVE  InterruptRecorded'
  BY <1>1, UnreadKept DEF InterruptRecorded, Consuming
<1>2. ASSUME UNCHANGED <<last_used, used, g, interrupt_status>> PROVE InterruptRecorded'
  BY <1>1, <1>2
<1>3. ASSUME NEW v \in Vcpu,
             Poll(v) \/ PollSkip(v) \/ RxNothing(v) \/ RxTooBig(v) \/ TxNothing(v)
      PROVE  InterruptRecorded'
  BY <1>2, <1>3 DEF Poll, PollSkip, RxNothing, RxTooBig, TxNothing, regs, gmem, driver
<1>4. ASSUME NEW v \in Vcpu, NetIrq(v) \/ BlkEnd(v) \/ BlkBegin(v) \/ OtherExit(v)
      PROVE  InterruptRecorded'
  BY <1>2, <1>4 DEF NetIrq, BlkEnd, BlkBegin, OtherExit, regs, gmem, driver
<1>5. ASSUME NEW v \in Vcpu, Notify(v) \/ ReadInterruptStatus(v) \/ AckInterrupt(v) \/ Reset(v)
      PROVE  InterruptRecorded'
  BY <1>2, <1>5 DEF Notify, ReadInterruptStatus, AckInterrupt, Reset, MmioBegin, regs, gmem, driver
<1>6. ASSUME NEW v \in Vcpu, RxPacket(v) PROVE InterruptRecorded'
  <2>1. UsedElem(RX, AvailDesc(RX)) /\ RX \in Queue /\ UNCHANGED <<last_used, g, interrupt_status>>
    BY <1>6, IdxPlaces DEF RxPacket, regs, driver
  <2> QED BY <1>1, <2>1, ElemUnread
<1>7. ASSUME NEW v \in Vcpu, TxPacket(v) PROVE InterruptRecorded'
  <2>1. UsedElem(TX, AvailDesc(TX)) /\ TX \in Queue /\ UNCHANGED <<last_used, g, interrupt_status>>
    BY <1>7, IdxPlaces DEF TxPacket, regs, driver
  <2> QED BY <1>1, <2>1, ElemUnread
<1>8. ASSUME NEW v \in Vcpu, RxPublish(v) \/ TxPublish(v) PROVE InterruptRecorded'
  BY <1>8 DEF RxPublish, TxPublish, InterruptRecorded
<1>9. ASSUME NEW v \in Vcpu, MmioEnd(v) PROVE InterruptRecorded'
  <2>1. UNCHANGED <<last_used, used>> /\ pc[v] = "mmio" /\ Perform(op[v])
    BY <1>9 DEF MmioEnd, gmem
  <2>2. Unread' <=> Unread
    BY <2>1 DEF Unread
  <2>3. CASE op[v].reg = "ack"
    <3>1. g'[v] = "drain"
      BY <1>9, <1>t, <2>3 DEF MmioEnd
    <3> QED BY <3>1 DEF InterruptRecorded, Consuming
  <2>4. CASE op[v].reg # "ack"
    <3>1. interrupt_status' = interrupt_status
      BY <2>1, <2>4 DEF Perform, WriteStatus, WriteQueueSel, WriteQueueNum, WriteQueueReady, regs
    <3>2. CASE op[v].reg = "isr"
      <4>1. g[v] = "isr"
        BY <2>1, <3>2 DEF NetInv, AccessFollows
      <4>2. \A w \in Vcpu : w # v => g'[w] = g[w]
        BY <1>9, <1>t, <3>2 DEF MmioEnd
      <4>3. Consuming => Consuming'
        BY <4>1, <4>2 DEF Consuming
      <4> QED BY <2>2, <3>1, <4>3 DEF InterruptRecorded
    <3>3. CASE op[v].reg # "isr"
      <4>1. g' = g
        BY <1>9, <2>4, <3>3 DEF MmioEnd
      <4> QED BY <1>2, <2>1, <3>1, <4>1
    <3> QED BY <3>2, <3>3
  <2> QED BY <2>3, <2>4
<1>10. ASSUME NEW v \in Vcpu, TakeIrq(v) PROVE InterruptRecorded'
  <2>1. ~Consuming /\ UNCHANGED <<last_used, used, interrupt_status>>
    BY <1>10 DEF TakeIrq, Consuming, regs, gmem
  <2> QED BY <2>1, UnreadKept DEF InterruptRecorded
<1>11. ASSUME NEW v \in Vcpu, NEW q \in Queue, Drain(v, q) PROVE InterruptRecorded'
  BY <1>11 DEF Drain, InterruptRecorded, Consuming
<1>12. ASSUME NEW v \in Vcpu, DrainDone(v) PROVE InterruptRecorded'
  BY <1>12 DEF DrainDone, InterruptRecorded, Unread, gmem
<1>13. ASSUME NEW v \in Vcpu, Configure(v) PROVE InterruptRecorded'
  <2>1. CASE drv = 0
    <3>1. \A q \in Queue : used'[q].idx = 0 /\ last_used'[q] = 0
      BY <1>13, <2>1 DEF Configure, NewRing
    <3> QED BY <3>1 DEF InterruptRecorded, Unread
  <2>2. CASE drv # 0
    BY <1>2, <1>13, <2>2 DEF Configure, MmioBegin, regs, gmem
  <2> QED BY <2>1, <2>2
<1>14. ASSUME NEW v \in Vcpu, NEW h \in Desc,
              PostRx(v, h) \/ (\E split \in Splits : Send(v, h, split))
       PROVE  InterruptRecorded'
  BY <1>2, <1>14 DEF PostRx, Send, Post, regs
<1>15. ASSUME NEW big \in BOOLEAN, HostSend(big) PROVE InterruptRecorded'
  BY <1>2, <1>15 DEF HostSend, regs, gmem
<1>16. CASE UNCHANGED vars
  BY <1>2, <1>16 DEF vars, regs, gmem, driver
<1> QED BY <1>3, <1>4, <1>5, <1>6, <1>7, <1>8, <1>9, <1>10, <1>11, <1>12, <1>13, <1>14, <1>15, <1>16
        DEF Next, HostStep, GuestStep, GuestChoice

\* Nothing is unread at the start.
LEMMA NothingUnread == Init => ~Unread
BY DEF Init, NewRing, Unread

\* A completion that the driver has not seen has INTERRUPT_STATUS set or a
\* handler on its way to the rings, also when writes to the TAP interface fail.
THEOREM InterruptsRecorded == Spec => []InterruptRecorded
<1>1. Init => InterruptRecorded
  BY NothingUnread DEF InterruptRecorded
<1>2. TypeOK /\ NetInv /\ InterruptRecorded /\ [Next]_vars => InterruptRecorded'
  BY RecordedStep
<1> QED BY <1>1, <1>2, NetInvariant, PTL DEF Spec
-----------------------------------------------------------------------------
\* What vCPU 0 relies on for its interrupt: writes to the TAP interface do
\* not fail, and no packet is posted with its header apart.
EveryWriteCounts == ~TapMayFail /\ TRUE \notin Splits

\* Then every transmission counts as work until the poll has pulsed.
LEMMA SentStep ==
  ASSUME EveryWriteCounts, TypeOK, NetInv, SentIsWork, [Next]_vars
  PROVE  SentIsWork'
<1>t. pc \in [Vcpu -> Pc] /\ LocksHeld
  BY DEF TypeOK, NetInv
<1>s. \A v \in Vcpu : pc[v] = "tx_idx" => tx_work
  BY DEF SentIsWork, EveryWriteCounts
<1>1. ASSUME NEW v \in Vcpu, TxPacket(v) PROVE SentIsWork'
  <2>1. pc[v] = "tx" /\ pc[v] \in PollPc /\ queues[TX].ready /\ HasAvail(TX) /\ TX \in Queue
    BY <1>1, IdxPlaces DEF TxPacket, TxEnabled, PollPc
  <2>2. chain[TX][AvailDesc(TX)] # None /\ AvailDesc(TX) \in Desc
    BY <1>t, <2>1, PollExcludes, HeadAtHand
  <2>3. chain[TX][AvailDesc(TX)] \in Frame
    BY <2>2 DEF TypeOK
  <2>4. ~chain[TX][AvailDesc(TX)].split
    BY <2>3, NetAssumption DEF Frame, EveryWriteCounts
  <2>5. tx_work' = TRUE
    BY <1>1, <2>4 DEF TxPacket, EveryWriteCounts
  <2> QED BY <2>5 DEF SentIsWork
<1>2. ASSUME NEW v \in Vcpu, NEW to, to # "tx_idx", Goto(v, to), UNCHANGED tx_work
      PROVE  SentIsWork'
  <2>1. \A w \in Vcpu : pc'[w] = "tx_idx" => pc[w] = "tx_idx"
    BY <1>2, <1>t DEF Goto
  <2> QED BY <1>2, <1>s, <2>1 DEF SentIsWork
<1>3. ASSUME NEW v \in Vcpu,
             Poll(v) \/ PollSkip(v) \/ RxNothing(v) \/ RxTooBig(v) \/ RxPacket(v) \/ RxPublish(v)
      PROVE  SentIsWork'
  BY <1>2, <1>3 DEF Poll, PollSkip, RxNothing, RxTooBig, RxPacket, RxPublish, work
<1>4. ASSUME NEW v \in Vcpu,
             TxNothing(v) \/ TxPublish(v) \/ MmioEnd(v) \/ BlkEnd(v) \/ BlkBegin(v) \/ OtherExit(v)
      PROVE  SentIsWork'
  BY <1>2, <1>4 DEF TxNothing, TxPublish, MmioEnd, BlkEnd, BlkBegin, OtherExit, work
<1>5. ASSUME NEW v \in Vcpu, NetIrq(v) PROVE SentIsWork'
  <2>1. pc[v] = "irq" /\ pc'[v] = "guest" /\ \A w \in Vcpu : w # v => pc'[w] = pc[w]
    BY <1>5, <1>t DEF NetIrq, Goto
  <2>2. \A w \in Vcpu : pc'[w] # "tx_idx"
    BY <1>t, <2>1, PollExcludes DEF PollPc
  <2> QED BY <2>2 DEF SentIsWork
<1>6. ASSUME NEW v \in Vcpu,
             Notify(v) \/ ReadInterruptStatus(v) \/ AckInterrupt(v) \/ Configure(v) \/ Reset(v)
      PROVE  SentIsWork'
  BY <1>2, <1>6 DEF Notify, ReadInterruptStatus, AckInterrupt, Configure, Reset, MmioBegin, work
<1>7. ASSUME UNCHANGED <<pc, tx_work>> PROVE SentIsWork'
  BY <1>7 DEF SentIsWork
<1>8. ASSUME NEW v \in Vcpu, TakeIrq(v) \/ DrainDone(v) \/ (\E q \in Queue : Drain(v, q))
      PROVE  SentIsWork'
  BY <1>7, <1>8 DEF TakeIrq, DrainDone, Drain, work
<1>9. ASSUME NEW v \in Vcpu, NEW h \in Desc,
             PostRx(v, h) \/ (\E split \in Splits : Send(v, h, split))
      PROVE  SentIsWork'
  BY <1>7, <1>9 DEF PostRx, Send, Post, work
<1>10. ASSUME NEW big \in BOOLEAN, HostSend(big) PROVE SentIsWork'
  BY <1>7, <1>10 DEF HostSend, work
<1>11. CASE UNCHANGED vars
  BY <1>7, <1>11 DEF vars, work
<1> QED BY <1>1, <1>3, <1>4, <1>5, <1>6, <1>8, <1>9, <1>10, <1>11
        DEF Next, HostStep, GuestStep, GuestChoice

\* The steps that keep what is unread and who is on the way to it.
LEMMA DeliveredKept ==
  ASSUME InterruptDelivered,
         \A q \in Queue : last_used'[q] = last_used[q] /\ used'[q].idx = used[q].idx,
         UNCHANGED <<g, interrupt_status, irq>>,
         Polling => Polling', rx_work => rx_work', tx_work => tx_work'
  PROVE  InterruptDelivered'
BY UnreadKept DEF InterruptDelivered, Consuming

\* A step of the poll that does not end it.
LEMMA PollGoesOn ==
  ASSUME TypeOK, NEW v \in Vcpu, NEW to \in PollPc, Goto(v, to)
  PROVE  Polling'
BY DEF TypeOK, Goto, Polling, PollPc

\* A thread outside the poll does not end it.
LEMMA PollKept ==
  ASSUME TypeOK, NEW v \in Vcpu, pc[v] \notin PollPc, NEW to, Goto(v, to)
  PROVE  Polling => Polling'
<1>1. \A w \in Vcpu : w # v => pc'[w] = pc[w]
  BY DEF TypeOK, Goto
<1>2. PollPc' = PollPc
  BY DEF PollPc
<1> QED BY <1>1, <1>2 DEF Polling

\* The interrupt that belongs to a completion is not lost on the way.
LEMMA DeliveredStep ==
  ASSUME EveryWriteCounts, TypeOK, NetInv, SentIsWork, InterruptRecorded, InterruptDelivered,
         [Next]_vars
  PROVE  InterruptDelivered'
<1>t. /\ g \in [Vcpu -> {"run", "isr", "ack", "drain"}]
      /\ pc \in [Vcpu -> Pc] /\ LocksHeld
  BY DEF TypeOK, NetInv
<1>1. ASSUME NEW v \in Vcpu, NEW to, pc[v] \notin PollPc \/ to \in PollPc, Goto(v, to),
             UNCHANGED <<last_used, used, g, interrupt_status, irq, work>>
      PROVE  InterruptDelivered'
  BY <1>1, PollGoesOn, PollKept, DeliveredKept DEF work
<1>2. ASSUME NEW v \in Vcpu,
             Poll(v) \/ PollSkip(v) \/ RxNothing(v) \/ RxTooBig(v) \/ TxNothing(v)
      PROVE  InterruptDelivered'
  BY <1>1, <1>2 DEF Poll, PollSkip, RxNothing, RxTooBig, TxNothing, regs, gmem, driver, PollPc
<1>3. ASSUME NEW v \in Vcpu, BlkEnd(v) \/ BlkBegin(v) \/ OtherExit(v)
      PROVE  InterruptDelivered'
  BY <1>1, <1>3 DEF BlkEnd, BlkBegin, OtherExit, regs, gmem, driver, PollPc
<1>4. ASSUME NEW v \in Vcpu, Notify(v) \/ ReadInterruptStatus(v) \/ AckInterrupt(v) \/ Reset(v)
      PROVE  InterruptDelivered'
  BY <1>1, <1>4 DEF Notify, ReadInterruptStatus, AckInterrupt, Reset, MmioBegin, regs, gmem,
                    driver, PollPc
<1>5. ASSUME NEW v \in Vcpu, RxPacket(v) PROVE InterruptDelivered'
  <2>1. /\ UsedElem(RX, AvailDesc(RX)) /\ RX \in Queue /\ Goto(v, "rx_idx") /\ "rx_idx" \in PollPc
        /\ UNCHANGED <<last_used, g, interrupt_status, irq, work>>
    BY <1>5, IdxPlaces DEF RxPacket, regs, driver, PollPc
  <2> QED BY <2>1, ElemUnread, PollGoesOn, DeliveredKept DEF work
<1>6. ASSUME NEW v \in Vcpu, TxPacket(v) PROVE InterruptDelivered'
  <2>1. /\ UsedElem(TX, AvailDesc(TX)) /\ TX \in Queue /\ Goto(v, "tx_idx") /\ "tx_idx" \in PollPc
        /\ UNCHANGED <<last_used, g, interrupt_status, irq, rx_work>> /\ (tx_work => tx_work')
    BY <1>6, IdxPlaces DEF TxPacket, regs, driver, PollPc
  <2> QED BY <2>1, ElemUnread, PollGoesOn, DeliveredKept
<1>7. ASSUME NEW v \in Vcpu, RxPublish(v) PROVE InterruptDelivered'
  <2>1. Goto(v, "tx") /\ "tx" \in PollPc /\ rx_work'
    BY <1>7 DEF RxPublish, PollPc
  <2> QED BY <2>1, PollGoesOn DEF InterruptDelivered
<1>8. ASSUME NEW v \in Vcpu, TxPublish(v) PROVE InterruptDelivered'
  <2>1. Goto(v, "tx") /\ "tx" \in PollPc /\ pc[v] = "tx_idx" /\ UNCHANGED tx_work
    BY <1>8 DEF TxPublish, PollPc, work
  <2>2. tx_work'
    BY <2>1 DEF SentIsWork, EveryWriteCounts
  <2> QED BY <2>1, <2>2, PollGoesOn DEF InterruptDelivered
<1>9. ASSUME NEW v \in Vcpu, NetIrq(v) PROVE InterruptDelivered'
  <2>1. UNCHANGED <<last_used, used, g, interrupt_status>> /\ irq' = (irq \/ PulseDue)
    BY <1>9 DEF NetIrq, regs, gmem
  <2>2. (Unread' <=> Unread) /\ (Consuming' <=> Consuming)
    BY <2>1, UnreadKept DEF Consuming
  <2>3. SUFFICES ASSUME Unread, ~Consuming PROVE InterruptDelivered'
    BY <2>2 DEF InterruptDelivered
  <2>4. interrupt_status = 1
    BY <2>3 DEF InterruptRecorded
  <2>5. irq' \/ \E w \in Vcpu : g'[w] = "isr"
    <3>1. CASE rx_work \/ tx_work
      <4>1. PulseDue
        BY <2>4, <3>1 DEF PulseDue
      <4> QED BY <2>1, <4>1
    <3>2. CASE ~(rx_work \/ tx_work)
      BY <2>1, <2>3, <3>2 DEF InterruptDelivered
    <3> QED BY <3>1, <3>2
  <2> QED BY <2>1, <2>4, <2>5 DEF InterruptDelivered
<1>10. ASSUME NEW v \in Vcpu, MmioEnd(v) PROVE InterruptDelivered'
  <2>1. UNCHANGED <<last_used, used, irq, work>> /\ pc[v] = "mmio" /\ Perform(op[v]) /\ Goto(v, "top")
    BY <1>10 DEF MmioEnd, gmem
  <2>2. CASE op[v].reg = "ack"
    <3>1. g'[v] = "drain"
      BY <1>10, <1>t, <2>2 DEF MmioEnd
    <3> QED BY <3>1 DEF InterruptDelivered, Consuming
  <2>3. CASE op[v].reg # "ack"
    <3>1. interrupt_status' = interrupt_status
      BY <2>1, <2>3 DEF Perform, WriteStatus, WriteQueueSel, WriteQueueNum, WriteQueueReady, regs
    <3>2. CASE op[v].reg = "isr"
      <4>1. g[v] = "isr"
        BY <2>1, <3>2 DEF NetInv, AccessFollows
      <4>2. \A w \in Vcpu : w # v => g'[w] = g[w]
        BY <1>10, <1>t, <3>2 DEF MmioEnd
      <4>3. Consuming => Consuming'
        BY <4>1, <4>2 DEF Consuming
      <4>4. ~Polling
        BY <1>t, <2>1 DEF Polling, LocksHeld, PollPc
      <4>5. interrupt_status = 1 => Consuming'
        <5>1. interrupt_status = 1 => g'[v] = "ack"
          BY <1>10, <1>t, <3>2 DEF MmioEnd
        <5> QED BY <5>1 DEF Consuming
      <4>6. Unread' <=> Unread
        BY <2>1 DEF Unread
      <4> QED BY <4>3, <4>4, <4>5, <4>6 DEF InterruptDelivered
    <3>3. CASE op[v].reg # "isr"
      <4>1. g' = g
        BY <1>10, <2>3, <3>3 DEF MmioEnd
      <4>2. pc[v] \notin PollPc
        BY <2>1 DEF PollPc
      <4> QED BY <1>1, <2>1, <3>1, <4>1, <4>2
    <3> QED BY <3>2, <3>3
  <2> QED BY <2>2, <2>3
<1>11. ASSUME NEW v \in Vcpu, TakeIrq(v) PROVE InterruptDelivered'
  <2>1. /\ ~Consuming /\ UNCHANGED <<last_used, used, interrupt_status, pc, work>>
        /\ g'[v] = "isr"
    BY <1>11, <1>t DEF TakeIrq, Consuming, regs, gmem
  <2>2. (Unread' <=> Unread) /\ (Polling' <=> Polling)
    BY <2>1, UnreadKept DEF Polling, PollPc
  <2> QED BY <2>1, <2>2 DEF InterruptDelivered, work
<1>12. ASSUME NEW v \in Vcpu, NEW q \in Queue, Drain(v, q) PROVE InterruptDelivered'
  BY <1>12 DEF Drain, InterruptDelivered, Consuming
<1>13. ASSUME NEW v \in Vcpu, DrainDone(v) PROVE InterruptDelivered'
  BY <1>13 DEF DrainDone, InterruptDelivered, Unread, gmem
<1>14. ASSUME NEW v \in Vcpu, Configure(v) PROVE InterruptDelivered'
  <2>1. CASE drv = 0
    <3>1. \A q \in Queue : used'[q].idx = 0 /\ last_used'[q] = 0
      BY <1>14, <2>1 DEF Configure, NewRing
    <3> QED BY <3>1 DEF InterruptDelivered, Unread
  <2>2. CASE drv # 0
    BY <1>1, <1>14, <2>2 DEF Configure, MmioBegin, regs, gmem, PollPc
  <2> QED BY <2>1, <2>2
<1>15. ASSUME UNCHANGED <<last_used, used, g, interrupt_status, irq, work, pc>>
       PROVE  InterruptDelivered'
  <2>1. Polling => Polling'
    BY <1>15 DEF Polling, PollPc
  <2> QED BY <1>15, <2>1, DeliveredKept DEF work
<1>16. ASSUME NEW v \in Vcpu, NEW h \in Desc,
              PostRx(v, h) \/ (\E split \in Splits : Send(v, h, split))
       PROVE  InterruptDelivered'
  BY <1>15, <1>16 DEF PostRx, Send, Post, regs
<1>17. ASSUME NEW big \in BOOLEAN, HostSend(big) PROVE InterruptDelivered'
  BY <1>15, <1>17 DEF HostSend, regs, gmem
<1>18. CASE UNCHANGED vars
  BY <1>15, <1>18 DEF vars, regs, gmem, driver
<1> QED BY <1>2, <1>3, <1>4, <1>5, <1>6, <1>7, <1>8, <1>9, <1>10, <1>11, <1>12, <1>13, <1>14,
           <1>16, <1>17, <1>18
        DEF Next, HostStep, GuestStep, GuestChoice

\* If every write to the TAP interface counts, a completion on a used ring
\* has its edge on irq 6: the pulse at the end of the poll is not skipped and
\* not raced by the handler on another vCPU.
THEOREM InterruptsDelivered == EveryWriteCounts => (Spec => []InterruptDelivered)
<1>0. SUFFICES ASSUME EveryWriteCounts PROVE Spec => []InterruptDelivered
  OBVIOUS
<1>1. Init => SentIsWork /\ InterruptDelivered
  BY NothingUnread DEF Init, SentIsWork, InterruptDelivered
<1>2. /\ TypeOK /\ NetInv /\ InterruptRecorded
      /\ SentIsWork /\ InterruptDelivered /\ [Next]_vars
      => (SentIsWork /\ InterruptDelivered)'
  BY <1>0, SentStep, DeliveredStep
<1> QED BY <1>1, <1>2, NetInvariant, InterruptsRecorded, PTL DEF Spec
-----------------------------------------------------------------------------
(***************************************************************************)
(* The device implements NetService.                                       *)
(***************************************************************************)

\* How many of the entries of a ring the device has dealt with, used.idx
\* updated or not.
Handled(q) == Completed(q) + InFlight(IdxPc(q))

\* A packet between its transfer and the update of used.idx counts.
LEMMA HandledBounds ==
  ASSUME TypeOK, NetInv, On, NEW q \in Queue
  PROVE  /\ Handled(q) \in Nat /\ Submitted(q) \in Nat /\ Completed(q) \in Nat
         /\ Handled(q) = Completed(q) + (IF Halfway(q) THEN 1 ELSE 0)
         /\ Completed(q) <= Handled(q)
         /\ Handled(q) <= Submitted(q) /\ Submitted(q) <= QueueSize /\ Submitted(q) < IdxMod
         /\ \A k \in 0 .. Handled(q) - 1 : used[q].ring[SlotAt(q, k)] = HeadAt(q, k)
<1>1. Completed(q) \in Nat /\ Submitted(q) \in Nat
  BY Positions
<1>2. InFlight(IdxPc(q)) = IF Halfway(q) THEN 1 ELSE 0
  BY DEF InFlight, Halfway
<1>3. /\ Completed(q) <= Submitted(q) /\ Submitted(q) <= QueueSize
      /\ Halfway(q) => Completed(q) < Submitted(q)
  BY DEF NetInv, RingsOrdered
<1>4. Handled(q) = Completed(q) + (IF Halfway(q) THEN 1 ELSE 0)
  BY <1>2 DEF Handled
<1>5. ASSUME NEW k \in 0 .. Handled(q) - 1 PROVE used[q].ring[SlotAt(q, k)] = HeadAt(q, k)
  <2>1. k \in 0 .. Completed(q) - 1 \/ (Halfway(q) /\ k = Completed(q))
    BY <1>1, <1>4
  <2> QED BY <2>1 DEF NetInv, RingsOwned
<1> QED BY <1>1, <1>3, <1>4, <1>5, RingAssumption

\* What the guest can consume, read off the avail ring.
DeliveredRing ==
  [k \in 1 .. Handled(RX) |-> chain[RX][HeadAt(RX, k - 1)]]

\* What the device has still to send, read off the same way.
PendingRing ==
  [k \in 1 .. Submitted(TX) - Handled(TX) |-> chain[TX][HeadAt(TX, Handled(TX) + k - 1)]]

\* It is the same as on the used ring.
LEMMA DeliveredSame == TypeOK /\ NetInv /\ On => Delivered = DeliveredRing
<1> SUFFICES ASSUME TypeOK, NetInv, On PROVE Delivered = DeliveredRing
  OBVIOUS
<1>1. RX \in Queue /\ IdxPc(RX) = "rx_idx"
  BY IdxPlaces
<1>2. used[RX].idx = queues[RX].last_avail_idx
  BY <1>1 DEF NetInv, RingsOrdered
<1>3. Dist(used[RX].idx, last_used[RX]) + InFlight("rx_idx") = Handled(RX)
  BY <1>1, <1>2 DEF Handled, Completed
<1>4. Delivered = [k \in 1 .. Handled(RX) |->
                    chain[RX][used[RX].ring[Slot(IdxAt(last_used[RX], k - 1))]]]
  BY <1>3 DEF Delivered
<1>5. Handled(RX) \in Nat
  BY <1>1, HandledBounds
<1>6. \A k \in 1 .. Handled(RX) :
        used[RX].ring[Slot(IdxAt(last_used[RX], k - 1))] = HeadAt(RX, k - 1)
  <2>1. SUFFICES ASSUME NEW k \in 1 .. Handled(RX)
                 PROVE  used[RX].ring[SlotAt(RX, k - 1)] = HeadAt(RX, k - 1)
    BY DEF SlotAt
  <2>2. k - 1 \in 0 .. Handled(RX) - 1
    BY <1>5
  <2> QED BY <1>1, <2>2, HandledBounds
<1> QED BY <1>4, <1>6 DEF DeliveredRing

\* What the device can still send, from last_used on instead of from
\* last_avail_idx on.
LEMMA PendingSame == TypeOK /\ NetInv /\ On => Pending = PendingRing
<1> SUFFICES ASSUME TypeOK, NetInv, On PROVE Pending = PendingRing
  OBVIOUS
<1>1. TX \in Queue /\ IdxPc(TX) = "tx_idx"
  BY IdxPlaces
<1> DEFINE i == queues[TX].last_avail_idx
           f == InFlight("tx_idx")
           c == Completed(TX)
           n == Submitted(TX)
<1>2. /\ c \in Nat /\ n \in Nat /\ c + f \in Nat /\ Handled(TX) = c + f /\ c + f <= n /\ n < IdxMod
      /\ c <= n
  BY <1>1, HandledBounds DEF Handled
<1>f. f \in Nat
  BY DEF InFlight
<1>3. avail[TX].idx \in Idx /\ i \in Idx /\ last_used[TX] \in Idx /\ IdxAt(last_used[TX], c) = i
  BY <1>1, Positions
<1>4. Dist(avail[TX].idx, i) = n - c
  BY <1>2, <1>3, DistSplit DEF Submitted, Completed
<1>5. Pending = [k \in 1 .. n - c - f |-> chain[TX][avail[TX].ring[Slot(IdxAt(i, k - 1 + f))]]]
  BY <1>4 DEF Pending
<1>6. n - c - f = n - (c + f)
  <2> HIDE DEF n, c, f
  <2> QED BY <1>2, <1>f
<1>7. \A k \in 1 .. n - (c + f) :
        avail[TX].ring[Slot(IdxAt(i, k - 1 + f))] = HeadAt(TX, (c + f) + k - 1)
  <2>1. SUFFICES ASSUME NEW k \in 1 .. n - (c + f)
                 PROVE  IdxAt(i, k - 1 + f) = IdxAt(last_used[TX], (c + f) + k - 1)
    BY DEF HeadAt, SlotAt
  <2> HIDE DEF n, c, f, i
  <2>2. k - 1 + f \in Nat /\ c + (k - 1 + f) < IdxMod /\ c + (k - 1 + f) = (c + f) + k - 1
    BY <1>2, <1>f, <2>1, RingAssumption
  <2> QED BY <1>2, <1>3, <2>2, IdxAtAdd
<1> HIDE DEF n, c, f, i
<1>8. Pending = [k \in 1 .. n - (c + f) |-> chain[TX][HeadAt(TX, (c + f) + k - 1)]]
  BY <1>5, <1>6, <1>7
<1> QED BY <1>2, <1>8 DEF PendingRing, n

\* The same after a step.
LEMMA RingsReadOff ==
  TypeOK' /\ NetInv' /\ On' => Delivered' = DeliveredRing' /\ Pending' = PendingRing'
<1>1. (TypeOK /\ NetInv /\ On => Delivered = DeliveredRing)'
  BY DeliveredSame, PTL
<1>2. (TypeOK /\ NetInv /\ On => Pending = PendingRing)'
  BY PendingSame, PTL
<1> QED BY <1>1, <1>2

\* What is on the rings is a sequence of packets and of frames.
LEMMA RingsTyped ==
  TypeOK /\ NetInv /\ On =>
    /\ DeliveredRing \in [1 .. Handled(RX) -> {None, Empty} \cup Packet]
    /\ PendingRing \in [1 .. Submitted(TX) - Handled(TX) -> {None} \cup Frame]
    /\ Handled(RX) \in Nat /\ Submitted(TX) - Handled(TX) \in Nat
<1> SUFFICES ASSUME TypeOK, NetInv, On
             PROVE  /\ DeliveredRing \in [1 .. Handled(RX) -> {None, Empty} \cup Packet]
                    /\ PendingRing \in [1 .. Submitted(TX) - Handled(TX) -> {None} \cup Frame]
                    /\ Handled(RX) \in Nat /\ Submitted(TX) - Handled(TX) \in Nat
  OBVIOUS
<1>1. RX \in Queue /\ TX \in Queue /\ IdxMod \in Nat
  BY IdxPlaces, RingAssumption
<1>2. /\ Handled(RX) \in Nat /\ Submitted(RX) \in Nat /\ Handled(RX) <= Submitted(RX)
      /\ Submitted(RX) < IdxMod
  BY <1>1, HandledBounds
<1>3. /\ Handled(TX) \in Nat /\ Submitted(TX) \in Nat /\ Handled(TX) <= Submitted(TX)
      /\ Submitted(TX) < IdxMod
  BY <1>1, HandledBounds
<1>4. \A k \in 1 .. Handled(RX) : HeadAt(RX, k - 1) \in Desc
  <2>1. SUFFICES ASSUME NEW k \in 1 .. Handled(RX) PROVE HeadAt(RX, k - 1) \in Desc
    OBVIOUS
  <2>2. k - 1 \in Nat /\ k - 1 < IdxMod
    BY <1>1, <1>2
  <2> QED BY <1>1, <2>2, WindowTypes
<1>5. \A k \in 1 .. Submitted(TX) - Handled(TX) : HeadAt(TX, Handled(TX) + k - 1) \in Desc
  <2>1. SUFFICES ASSUME NEW k \in 1 .. Submitted(TX) - Handled(TX)
                 PROVE  HeadAt(TX, Handled(TX) + k - 1) \in Desc
    OBVIOUS
  <2>2. Handled(TX) + k - 1 \in Nat /\ Handled(TX) + k - 1 < IdxMod
    BY <1>1, <1>3
  <2> QED BY <1>1, <2>2, WindowTypes
<1>6. DeliveredRing \in [1 .. Handled(RX) -> {None, Empty} \cup Packet]
  BY <1>4 DEF DeliveredRing, TypeOK
<1>7. PendingRing \in [1 .. Submitted(TX) - Handled(TX) -> {None} \cup Frame]
  BY <1>5 DEF PendingRing, TypeOK
<1>8. Submitted(TX) - Handled(TX) \in Nat
  BY <1>3
<1> QED BY <1>2, <1>6, <1>7, <1>8

\* Both views before and after a step of a driver that is on.
LEMMA Views ==
  ASSUME TypeOK, NetInv, On, TypeOK', NetInv', On'
  PROVE  /\ Delivered = DeliveredRing /\ Pending = PendingRing
         /\ Delivered' = DeliveredRing' /\ Pending' = PendingRing'
         /\ DeliveredRing \in [1 .. Handled(RX) -> {None, Empty} \cup Packet]
         /\ PendingRing \in [1 .. Submitted(TX) - Handled(TX) -> {None} \cup Frame]
         /\ DeliveredRing' \in [1 .. Handled(RX)' -> {None, Empty} \cup Packet]
         /\ PendingRing' \in [1 .. Submitted(TX)' - Handled(TX)' -> {None} \cup Frame]
         /\ Handled(RX) \in Nat /\ Submitted(TX) - Handled(TX) \in Nat
         /\ Handled(RX)' \in Nat /\ Submitted(TX)' - Handled(TX)' \in Nat
<1>1. (TypeOK /\ NetInv /\ On =>
         /\ DeliveredRing \in [1 .. Handled(RX) -> {None, Empty} \cup Packet]
         /\ PendingRing \in [1 .. Submitted(TX) - Handled(TX) -> {None} \cup Frame]
         /\ Handled(RX) \in Nat /\ Submitted(TX) - Handled(TX) \in Nat)'
  BY RingsTyped, PTL
<1>2. /\ DeliveredRing' \in [1 .. Handled(RX)' -> {None, Empty} \cup Packet]
      /\ PendingRing' \in [1 .. Submitted(TX)' - Handled(TX)' -> {None} \cup Frame]
      /\ Handled(RX)' \in Nat /\ Submitted(TX)' - Handled(TX)' \in Nat
  BY <1>1 DEF Packet, Frame
<1> QED BY <1>2, DeliveredSame, PendingSame, RingsReadOff, RingsTyped

\* The receive queue is as it was.
LEMMA DeliveredFrame ==
  ASSUME UNCHANGED <<drv, chain[RX], last_used[RX]>>, used'[RX] = used[RX],
         Halfway(RX)' <=> Halfway(RX)
  PROVE  Delivered' = Delivered
<1>1. InFlight("rx_idx")' = InFlight("rx_idx")
  BY DEF InFlight, Halfway, IdxPc
<1>2. On' <=> On
  BY DEF On
<1> QED BY <1>1, <1>2 DEF Delivered

\* The transmit queue is as it was.
LEMMA PendingFrame ==
  ASSUME UNCHANGED <<drv, chain[TX], avail[TX]>>,
         queues'[TX].last_avail_idx = queues[TX].last_avail_idx,
         Halfway(TX)' <=> Halfway(TX)
  PROVE  Pending' = Pending
<1>1. InFlight("tx_idx")' = InFlight("tx_idx")
  BY QueueCases DEF InFlight, Halfway, IdxPc
<1>2. On' <=> On
  BY DEF On
<1> QED BY <1>1, <1>2 DEF Pending

\* How far the device is after a step.
LEMMA HandledAfter ==
  ASSUME NEW q \in Queue
  PROVE  Handled(q)' = Completed(q)' + (IF Halfway(q)' THEN 1 ELSE 0)
<1>1. InFlight(IdxPc(q))' = IF Halfway(q)' THEN 1 ELSE 0
  BY DEF InFlight, Halfway
<1> QED BY <1>1 DEF Handled

\* process_rx puts the packet behind the ones that the guest has not consumed.
LEMMA ReceiveView ==
  ASSUME TypeOK, NetInv, TypeOK', NetInv', NEW v \in Vcpu, RxPacket(v)
  PROVE  Delivered' = Append(Delivered, Head(tap_in)) /\ Pending' = Pending
<1>1. /\ pc[v] = "rx" /\ queues[RX].ready /\ HasAvail(RX) /\ tap_in # <<>>
      /\ chain' = [chain EXCEPT ![RX][AvailDesc(RX)] = Head(tap_in)]
      /\ UsedElem(RX, AvailDesc(RX)) /\ Goto(v, "rx_idx")
      /\ UNCHANGED <<queues, avail, last_used, drv>>
  BY DEF RxPacket, RxEnabled, regs, driver
<1>2. RX \in Queue /\ TX \in Queue /\ RX # TX /\ IdxPc(RX) = "rx_idx" /\ IdxPc(TX) = "tx_idx"
  BY IdxPlaces, QueueCases
<1>3. pc[v] \in PollPc /\ LocksHeld
  BY <1>1 DEF PollPc, NetInv
<1>4. ~Halfway(RX) /\ Halfway(RX)' /\ ~Halfway(TX) /\ ~Halfway(TX)'
  BY <1>1, <1>2, <1>3, PollPlace
<1>5. /\ On /\ AvailDesc(RX) = HeadAt(RX, Completed(RX)) /\ AvailDesc(RX) \in Desc
      /\ Completed(RX) < Submitted(RX)
  BY <1>1, <1>2, <1>3, PollExcludes, HeadAtHand
<1>6. On' /\ Completed(RX)' = Completed(RX) /\ \A k : HeadAt(RX, k)' = HeadAt(RX, k)
  BY <1>1, <1>5 DEF On, Completed, HeadAt, SlotAt
<1>n. PICK n \in Nat : n = Completed(RX)
  BY <1>2, Positions
<1>7. Handled(RX) = n /\ Handled(RX)' = n + 1 /\ Submitted(RX) \in Nat /\ n < Submitted(RX)
  BY <1>2, <1>4, <1>5, <1>6, <1>n, HandledBounds, HandledAfter
<1>8. /\ chain'[TX] = chain[TX] /\ chain'[RX][HeadAt(RX, n)] = Head(tap_in)
      /\ \A x \in Desc : x # HeadAt(RX, n) => chain'[RX][x] = chain[RX][x]
  <2>1. DOMAIN chain = Queue /\ DOMAIN chain[RX] = Desc
    BY DEF TypeOK
  <2> QED BY <1>1, <1>2, <1>5, <1>n, <2>1
<1>9. \A k \in 0 .. n - 1 : chain'[RX][HeadAt(RX, k)] = chain[RX][HeadAt(RX, k)]
  <2>1. SUFFICES ASSUME NEW k \in 0 .. n - 1
                 PROVE  chain'[RX][HeadAt(RX, k)] = chain[RX][HeadAt(RX, k)]
    OBVIOUS
  <2>2. k \in 0 .. Submitted(RX) - 1 /\ n \in 0 .. Submitted(RX) - 1 /\ k # n /\ k \in Nat
    BY <1>7
  <2>3. HeadAt(RX, k) # HeadAt(RX, n)
    BY <1>2, <1>5, <2>2 DEF NetInv, RingsOwned
  <2>4. k < IdxMod
    BY <1>2, <1>5, <1>7, HandledBounds, RingAssumption
  <2> QED BY <1>2, <1>8, <2>2, <2>3, <2>4, WindowTypes
<1>10. DeliveredRing = [k \in 1 .. n |-> chain[RX][HeadAt(RX, k - 1)]]
  BY <1>7 DEF DeliveredRing
<1>11. DeliveredRing' = [k \in 1 .. n + 1 |-> chain'[RX][HeadAt(RX, k - 1)]]
  BY <1>6, <1>7 DEF DeliveredRing
<1>12. \A k \in 1 .. n : DeliveredRing'[k] = DeliveredRing[k]
  <2>1. SUFFICES ASSUME NEW k \in 1 .. n PROVE DeliveredRing'[k] = DeliveredRing[k]
    OBVIOUS
  <2>2. k - 1 \in 0 .. n - 1 /\ k \in 1 .. n + 1
    OBVIOUS
  <2> QED BY <1>9, <1>10, <1>11, <2>2
<1>13. DeliveredRing'[n + 1] = Head(tap_in)
  <2>1. n + 1 \in 1 .. n + 1 /\ (n + 1) - 1 = n
    OBVIOUS
  <2> QED BY <1>8, <1>11, <2>1
<1>14. DeliveredRing' = Append(DeliveredRing, DeliveredRing'[n + 1])
  <2> DEFINE S == {None, Empty} \cup Packet
  <2>1. DeliveredRing \in [1 .. n -> S] /\ DeliveredRing' \in [1 .. n + 1 -> S]
    BY <1>5, <1>6, <1>7, Views
  <2> HIDE DEF S
  <2> QED BY <1>12, <2>1, WindowAppend
<1>15. Delivered' = Append(Delivered, Head(tap_in))
  BY <1>5, <1>6, <1>13, <1>14, Views
<1>16. Pending' = Pending
  BY <1>1, <1>4, <1>8, PendingFrame
<1> QED BY <1>15, <1>16

\* process_tx takes the first packet that it has not dealt with.
LEMMA TransmitView ==
  ASSUME TypeOK, NetInv, TypeOK', NetInv', NEW v \in Vcpu, TxPacket(v)
  PROVE  /\ Pending # <<>> /\ Pending' = Tail(Pending) /\ Delivered' = Delivered
         /\ Head(Pending) = chain[TX][AvailDesc(TX)]
<1>1. /\ pc[v] = "tx" /\ queues[TX].ready /\ HasAvail(TX)
      /\ UsedElem(TX, AvailDesc(TX)) /\ Goto(v, "tx_idx")
      /\ UNCHANGED <<queues, avail, chain, last_used, drv>>
  BY DEF TxPacket, TxEnabled, regs, driver
<1>2. RX \in Queue /\ TX \in Queue /\ RX # TX /\ IdxPc(RX) = "rx_idx" /\ IdxPc(TX) = "tx_idx"
  BY IdxPlaces, QueueCases
<1>3. pc[v] \in PollPc /\ LocksHeld
  BY <1>1 DEF PollPc, NetInv
<1>4. ~Halfway(RX) /\ ~Halfway(RX)' /\ ~Halfway(TX) /\ Halfway(TX)'
  BY <1>1, <1>2, <1>3, PollPlace
<1>5. /\ On /\ AvailDesc(TX) = HeadAt(TX, Completed(TX)) /\ AvailDesc(TX) \in Desc
      /\ Completed(TX) < Submitted(TX)
  BY <1>1, <1>2, <1>3, PollExcludes, HeadAtHand
<1>6. /\ On' /\ Completed(TX)' = Completed(TX) /\ Submitted(TX)' = Submitted(TX)
      /\ \A k : HeadAt(TX, k)' = HeadAt(TX, k)
  BY <1>1, <1>5 DEF On, Completed, Submitted, HeadAt, SlotAt
<1>c. PICK c \in Nat : c = Completed(TX)
  BY <1>2, Positions
<1>n. PICK n \in Nat : n = Submitted(TX) - c
  BY <1>2, <1>5, <1>c, Positions
<1>7. /\ Handled(TX) = c /\ Handled(TX)' = c + 1 /\ Submitted(TX) \in Nat /\ n # 0
      /\ Submitted(TX)' - Handled(TX)' = n - 1
  <2>1. Handled(TX) = c /\ Handled(TX)' = c + 1 /\ Submitted(TX) \in Nat
    BY <1>2, <1>4, <1>5, <1>6, <1>c, HandledBounds, HandledAfter
  <2> QED BY <1>5, <1>6, <1>c, <1>n, <2>1
<1>8. PendingRing = [k \in 1 .. n |-> chain[TX][HeadAt(TX, c + k - 1)]]
  BY <1>7, <1>n DEF PendingRing
<1>9. PendingRing' = [k \in 1 .. n - 1 |-> chain[TX][HeadAt(TX, (c + 1) + k - 1)]]
  BY <1>1, <1>6, <1>7 DEF PendingRing
<1>10. \A k \in 1 .. n - 1 : PendingRing'[k] = PendingRing[k + 1]
  <2>1. SUFFICES ASSUME NEW k \in 1 .. n - 1 PROVE PendingRing'[k] = PendingRing[k + 1]
    OBVIOUS
  <2>2. k + 1 \in 1 .. n /\ (c + 1) + k - 1 = c + (k + 1) - 1
    OBVIOUS
  <2> QED BY <1>8, <1>9, <2>2
<1>11. PendingRing[1] = chain[TX][AvailDesc(TX)]
  <2>1. 1 \in 1 .. n /\ c + 1 - 1 = c
    BY <1>7
  <2> QED BY <1>5, <1>8, <1>c, <2>1
<1>12. PendingRing # <<>> /\ Head(PendingRing) = PendingRing[1] /\ PendingRing' = Tail(PendingRing)
  <2> DEFINE S == {None} \cup Frame
  <2>1. PendingRing \in [1 .. n -> S] /\ PendingRing' \in [1 .. n - 1 -> S]
    BY <1>5, <1>6, <1>7, <1>n, Views
  <2> HIDE DEF S
  <2> QED BY <1>7, <1>10, <2>1, WindowTail
<1>13. Delivered' = Delivered
  <2>1. used'[RX] = used[RX]
    BY <1>1, <1>2 DEF UsedElem, TypeOK
  <2> QED BY <1>1, <1>4, <2>1, DeliveredFrame
<1> QED BY <1>5, <1>6, <1>11, <1>12, <1>13, Views

\* The update of used.idx shows nothing new: the packet counted before.
LEMMA PublishView ==
  ASSUME TypeOK, NetInv, TypeOK', NetInv', NEW v \in Vcpu, NEW q \in Queue, pc[v] = IdxPc(q),
         Goto(v, "tx"), UsedIdx(q), UNCHANGED <<avail, chain, last_used, drv>>
  PROVE  Delivered' = Delivered /\ Pending' = Pending
<1>1. pc[v] \in PollPc /\ LocksHeld
  BY DEF PollPc, IdxPc, NetInv
<1>2. \A p \in Queue : (Halfway(p) <=> p = q) /\ ~Halfway(p)'
  BY <1>1, PollPlace, IdxPlaces
<1>3. On /\ Completed(q) < Submitted(q) /\ Submitted(q) <= QueueSize
  BY <1>2 DEF NetInv, RingsOrdered
<1>4. On' /\ Submitted(q)' = Submitted(q) /\ \A k : HeadAt(q, k)' = HeadAt(q, k)
  BY <1>3 DEF On, Submitted, HeadAt, SlotAt
<1>5. /\ queues'[q].last_avail_idx = WrappingInc(queues[q].last_avail_idx)
      /\ \A p \in Queue \ {q} : used'[p] = used[p] /\ queues'[p] = queues[p]
  BY DEF UsedIdx, TypeOK
<1>6. Completed(q)' = Completed(q) + 1
  <2>1. /\ Completed(q) \in Nat /\ Submitted(q) \in Nat
        /\ queues[q].last_avail_idx \in Idx /\ last_used[q] \in Idx
    BY Positions
  <2>2. Completed(q) + 1 < IdxMod
    BY <1>3, <2>1, RingAssumption
  <2>3. Dist(WrappingInc(queues[q].last_avail_idx), last_used[q]) = Completed(q) + 1
    BY <2>1, <2>2, DistStep DEF Completed
  <2> QED BY <1>5, <2>3 DEF Completed
<1>7. Handled(q)' = Handled(q)
  <2>1. Handled(q) = Completed(q) + 1 /\ Completed(q) \in Nat
    BY <1>2, <1>3, HandledBounds
  <2> QED BY <1>2, <1>6, <2>1, HandledAfter
<1>8. CASE q = RX
  <2>1. DeliveredRing' = DeliveredRing
    BY <1>4, <1>7, <1>8 DEF DeliveredRing
  <2>2. TX \in Queue \ {q}
    BY <1>8, IdxPlaces, QueueCases
  <2>3. Pending' = Pending
    BY <1>2, <1>5, <2>2, PendingFrame
  <2> QED BY <1>3, <1>4, <2>1, <2>3, Views
<1>9. CASE q = TX
  <2>1. PendingRing' = PendingRing
    BY <1>4, <1>7, <1>9 DEF PendingRing
  <2>2. RX \in Queue \ {q}
    BY <1>9, IdxPlaces, QueueCases
  <2>3. Delivered' = Delivered
    BY <1>2, <1>5, <2>2, DeliveredFrame
  <2> QED BY <1>3, <1>4, <2>1, <2>3, Views
<1> QED BY <1>8, <1>9, IdxPlaces

\* The guest consumes the packets in the order of their delivery.
LEMMA ConsumeView ==
  ASSUME TypeOK, NetInv, TypeOK', NetInv', NEW v \in Vcpu, Drain(v, RX), On
  PROVE  Delivered # <<>> /\ Delivered' = Tail(Delivered) /\ Pending' = Pending
<1>1. RX \in Queue /\ TX \in Queue /\ RX # TX
  BY IdxPlaces, QueueCases
<1>n. PICK n \in Nat : n = Submitted(RX)
  BY <1>1, Positions
<1>c. PICK c \in Nat : c = Completed(RX)
  BY <1>1, Positions
<1>2. /\ On' /\ UNCHANGED <<pc, queues, used, avail, drv>> /\ c # 0 /\ c <= n
      /\ Completed(RX)' = c - 1
      /\ \A k \in 0 .. n - 1 : HeadAt(RX, k)' = HeadAt(RX, k + 1)
      /\ HeadAt(RX, 0) \in Desc
      /\ \A x \in Desc \ {HeadAt(RX, 0)} : chain'[RX][x] = chain[RX][x]
      /\ chain'[TX] = chain[TX]
  BY <1>1, <1>n, <1>c, DrainEffect
<1>3. (Halfway(RX)' <=> Halfway(RX)) /\ (Halfway(TX)' <=> Halfway(TX))
  BY <1>2 DEF Halfway, IdxPc
<1>m. PICK m \in Nat : m = Handled(RX)
  BY <1>1, HandledBounds
<1>4. m # 0 /\ m <= n /\ n < IdxMod /\ Handled(RX)' = m - 1 /\ IdxMod \in Nat
  <2>1. Handled(RX) = c + (IF Halfway(RX) THEN 1 ELSE 0) /\ Handled(RX) <= n /\ n < IdxMod
    BY <1>1, <1>n, <1>c, HandledBounds
  <2>2. Handled(RX)' = (c - 1) + (IF Halfway(RX) THEN 1 ELSE 0)
    BY <1>1, <1>2, <1>3, HandledAfter
  <2> QED BY <1>2, <1>m, <2>1, <2>2, RingAssumption
<1>5. \A k \in 0 .. m - 2 : chain'[RX][HeadAt(RX, k)'] = chain[RX][HeadAt(RX, k + 1)]
  <2>1. SUFFICES ASSUME NEW k \in 0 .. m - 2
                 PROVE  chain'[RX][HeadAt(RX, k)'] = chain[RX][HeadAt(RX, k + 1)]
    OBVIOUS
  <2>2. k \in 0 .. n - 1 /\ k + 1 \in 0 .. n - 1 /\ 0 \in 0 .. n - 1 /\ k + 1 # 0
        /\ k + 1 \in Nat /\ k + 1 < IdxMod
    BY <1>4
  <2>3. HeadAt(RX, k + 1) # HeadAt(RX, 0)
    BY <1>1, <1>n, <2>2 DEF NetInv, RingsOwned
  <2>4. HeadAt(RX, k + 1) \in Desc
    BY <1>1, <2>2, WindowTypes
  <2> QED BY <1>2, <2>2, <2>3, <2>4
<1>6. DeliveredRing = [k \in 1 .. m |-> chain[RX][HeadAt(RX, k - 1)]]
  BY <1>m DEF DeliveredRing
<1>7. DeliveredRing' = [k \in 1 .. m - 1 |-> chain'[RX][HeadAt(RX, k - 1)']]
  BY <1>4 DEF DeliveredRing
<1>8. \A k \in 1 .. m - 1 : DeliveredRing'[k] = DeliveredRing[k + 1]
  <2>1. SUFFICES ASSUME NEW k \in 1 .. m - 1 PROVE DeliveredRing'[k] = DeliveredRing[k + 1]
    OBVIOUS
  <2>2. k - 1 \in 0 .. m - 2 /\ k + 1 \in 1 .. m /\ (k + 1) - 1 = (k - 1) + 1
    OBVIOUS
  <2> QED BY <1>5, <1>6, <1>7, <2>2
<1>9. DeliveredRing # <<>> /\ DeliveredRing' = Tail(DeliveredRing)
  <2> DEFINE S == {None, Empty} \cup Packet
  <2>1. DeliveredRing \in [1 .. m -> S] /\ DeliveredRing' \in [1 .. m - 1 -> S]
    BY <1>2, <1>4, <1>m, Views
  <2> HIDE DEF S
  <2> QED BY <1>4, <1>8, <2>1, WindowTail
<1>10. Pending' = Pending
  BY <1>2, <1>3, PendingFrame
<1> QED BY <1>2, <1>9, <1>10, Views

\* A transmit buffer that comes back is none of those still to be sent.
LEMMA FreeView ==
  ASSUME TypeOK, NetInv, TypeOK', NetInv', NEW v \in Vcpu, Drain(v, TX), On
  PROVE  Delivered' = Delivered /\ Pending' = Pending
<1>1. RX \in Queue /\ TX \in Queue /\ RX # TX
  BY IdxPlaces, QueueCases
<1>n. PICK n \in Nat : n = Submitted(TX)
  BY <1>1, Positions
<1>c. PICK c \in Nat : c = Completed(TX)
  BY <1>1, Positions
<1>2. /\ On' /\ UNCHANGED <<pc, queues, used, avail, drv>> /\ c # 0 /\ c <= n
      /\ Completed(TX)' = c - 1 /\ Submitted(TX)' = n - 1
      /\ \A k \in 0 .. n - 1 : HeadAt(TX, k)' = HeadAt(TX, k + 1)
      /\ HeadAt(TX, 0) \in Desc
      /\ \A x \in Desc \ {HeadAt(TX, 0)} : chain'[TX][x] = chain[TX][x]
      /\ chain'[RX] = chain[RX] /\ last_used'[RX] = last_used[RX]
  BY <1>1, <1>n, <1>c, DrainEffect
<1>3. (Halfway(RX)' <=> Halfway(RX)) /\ (Halfway(TX)' <=> Halfway(TX))
  BY <1>2 DEF Halfway, IdxPc
<1>m. PICK m \in Nat : m = Handled(TX)
  BY <1>1, HandledBounds
<1>4. m # 0 /\ m <= n /\ n < IdxMod /\ Handled(TX)' = m - 1 /\ IdxMod \in Nat
  <2>1. Handled(TX) = c + (IF Halfway(TX) THEN 1 ELSE 0) /\ Handled(TX) <= n /\ n < IdxMod
    BY <1>1, <1>n, <1>c, HandledBounds
  <2>2. Handled(TX)' = (c - 1) + (IF Halfway(TX) THEN 1 ELSE 0)
    BY <1>1, <1>2, <1>3, HandledAfter
  <2> QED BY <1>2, <1>m, <2>1, <2>2, RingAssumption
<1>5. \A k \in 1 .. n - m :
        chain'[TX][HeadAt(TX, (m - 1) + k - 1)'] = chain[TX][HeadAt(TX, m + k - 1)]
  <2>1. SUFFICES ASSUME NEW k \in 1 .. n - m
                 PROVE  chain'[TX][HeadAt(TX, (m - 1) + k - 1)'] = chain[TX][HeadAt(TX, m + k - 1)]
    OBVIOUS
  <2>2. PICK j \in 0 .. n - 1 : j = (m - 1) + k - 1
    BY <1>4
  <2>3. j + 1 \in 0 .. n - 1 /\ j + 1 = m + k - 1 /\ 0 \in 0 .. n - 1 /\ j + 1 # 0
        /\ j + 1 \in Nat /\ j + 1 < IdxMod
    BY <1>4, <2>2
  <2>4. HeadAt(TX, j + 1) # HeadAt(TX, 0)
    BY <1>1, <1>n, <2>3 DEF NetInv, RingsOwned
  <2>5. HeadAt(TX, j + 1) \in Desc
    BY <1>1, <2>3, WindowTypes
  <2>6. chain'[TX][HeadAt(TX, j)'] = chain[TX][HeadAt(TX, j + 1)]
    BY <1>2, <2>4, <2>5
  <2> QED BY <2>2, <2>3, <2>6
<1>6. PendingRing = [k \in 1 .. n - m |-> chain[TX][HeadAt(TX, m + k - 1)]]
  BY <1>m, <1>n DEF PendingRing
<1>7. PendingRing' = [k \in 1 .. n - m |-> chain'[TX][HeadAt(TX, (m - 1) + k - 1)']]
  <2>1. Submitted(TX)' - Handled(TX)' = n - m
    BY <1>2, <1>4
  <2> QED BY <1>4, <2>1 DEF PendingRing
<1>8. PendingRing' = PendingRing
  BY <1>5, <1>6, <1>7
<1>9. Delivered' = Delivered
  BY <1>2, <1>3, DeliveredFrame
<1> QED BY <1>2, <1>8, <1>9, Views

\* An empty receive buffer is none of those that hold a packet.
LEMMA BufferView ==
  ASSUME TypeOK, NetInv, TypeOK', NetInv', NEW v \in Vcpu, NEW h \in Desc, NEW b,
         Post(v, RX, h, b)
  PROVE  Delivered' = Delivered /\ Pending' = Pending
<1>1. RX \in Queue /\ TX \in Queue /\ RX # TX
  BY IdxPlaces, QueueCases
<1>n. PICK n \in Nat : n = Submitted(RX)
  BY <1>1, Positions
<1>2. /\ On /\ On' /\ UNCHANGED <<pc, queues, used, last_used, drv>> /\ Completed(RX)' = Completed(RX)
      /\ \A k \in 0 .. n - 1 : HeadAt(RX, k)' = HeadAt(RX, k) /\ HeadAt(RX, k) # h
                               /\ HeadAt(RX, k) \in Desc
      /\ \A x \in Desc \ {h} : chain'[RX][x] = chain[RX][x]
      /\ avail'[TX] = avail[TX] /\ chain'[TX] = chain[TX]
  BY <1>1, <1>n, PostEffect
<1>3. (Halfway(RX)' <=> Halfway(RX)) /\ (Halfway(TX)' <=> Halfway(TX))
  BY <1>2 DEF Halfway, IdxPc
<1>m. PICK m \in Nat : m = Handled(RX)
  BY <1>1, <1>2, HandledBounds
<1>4. m <= n /\ Handled(RX)' = m
  BY <1>1, <1>2, <1>3, <1>m, <1>n, HandledBounds, HandledAfter
<1>5. \A k \in 1 .. m : chain'[RX][HeadAt(RX, k - 1)'] = chain[RX][HeadAt(RX, k - 1)]
  <2>1. SUFFICES ASSUME NEW k \in 1 .. m
                 PROVE  chain'[RX][HeadAt(RX, k - 1)'] = chain[RX][HeadAt(RX, k - 1)]
    OBVIOUS
  <2>2. k - 1 \in 0 .. n - 1
    BY <1>4
  <2> QED BY <1>2, <2>2
<1>6. DeliveredRing = [k \in 1 .. m |-> chain[RX][HeadAt(RX, k - 1)]]
  BY <1>m DEF DeliveredRing
<1>7. DeliveredRing' = [k \in 1 .. m |-> chain'[RX][HeadAt(RX, k - 1)']]
  BY <1>4 DEF DeliveredRing
<1>8. DeliveredRing' = DeliveredRing
  BY <1>5, <1>6, <1>7
<1>9. Pending' = Pending
  BY <1>2, <1>3, PendingFrame
<1> QED BY <1>2, <1>8, <1>9, Views

\* A packet to send goes behind the ones that are waiting.
LEMMA SendView ==
  ASSUME TypeOK, NetInv, TypeOK', NetInv', NEW v \in Vcpu, NEW h \in Desc, NEW b,
         Post(v, TX, h, b)
  PROVE  Delivered' = Delivered /\ Pending' = Append(Pending, b)
<1>1. RX \in Queue /\ TX \in Queue /\ RX # TX
  BY IdxPlaces, QueueCases
<1>n. PICK n \in Nat : n = Submitted(TX)
  BY <1>1, Positions
<1>2. /\ On /\ On' /\ UNCHANGED <<pc, queues, used, last_used, drv>> /\ Completed(TX)' = Completed(TX)
      /\ Submitted(TX)' = n + 1
      /\ \A k \in 0 .. n - 1 : HeadAt(TX, k)' = HeadAt(TX, k) /\ HeadAt(TX, k) # h
                               /\ HeadAt(TX, k) \in Desc
      /\ HeadAt(TX, n)' = h /\ chain'[TX][h] = b
      /\ \A x \in Desc \ {h} : chain'[TX][x] = chain[TX][x]
      /\ chain'[RX] = chain[RX]
  BY <1>1, <1>n, PostEffect
<1>3. (Halfway(RX)' <=> Halfway(RX)) /\ (Halfway(TX)' <=> Halfway(TX))
  BY <1>2 DEF Halfway, IdxPc
<1>m. PICK m \in Nat : m = Handled(TX)
  BY <1>1, <1>2, HandledBounds
<1>4. m <= n /\ Handled(TX)' = m
  BY <1>1, <1>2, <1>3, <1>m, <1>n, HandledBounds, HandledAfter
<1>w. PICK w \in Nat : w = n - m
  BY <1>4
<1>5. \A k \in 1 .. w : chain'[TX][HeadAt(TX, m + k - 1)'] = chain[TX][HeadAt(TX, m + k - 1)]
  <2>1. SUFFICES ASSUME NEW k \in 1 .. w
                 PROVE  chain'[TX][HeadAt(TX, m + k - 1)'] = chain[TX][HeadAt(TX, m + k - 1)]
    OBVIOUS
  <2>2. m + k - 1 \in 0 .. n - 1
    BY <1>w
  <2> QED BY <1>2, <2>2
<1>6. PendingRing = [k \in 1 .. w |-> chain[TX][HeadAt(TX, m + k - 1)]]
  BY <1>m, <1>n, <1>w DEF PendingRing
<1>7. PendingRing' = [k \in 1 .. w + 1 |-> chain'[TX][HeadAt(TX, m + k - 1)']]
  <2>1. Submitted(TX)' - Handled(TX)' = w + 1
    BY <1>2, <1>4, <1>w
  <2> QED BY <1>4, <2>1 DEF PendingRing
<1>8. \A k \in 1 .. w : PendingRing'[k] = PendingRing[k]
  BY <1>5, <1>6, <1>7
<1>9. PendingRing'[w + 1] = b
  <2>1. w + 1 \in 1 .. w + 1 /\ m + (w + 1) - 1 = n
    BY <1>w
  <2> QED BY <1>2, <1>7, <2>1
<1>10. PendingRing' = Append(PendingRing, PendingRing'[w + 1])
  <2> DEFINE S == {None} \cup Frame
  <2>1. Submitted(TX)' - Handled(TX)' = w + 1 /\ Submitted(TX) - Handled(TX) = w
    BY <1>2, <1>4, <1>m, <1>n, <1>w
  <2>2. PendingRing \in [1 .. w -> S] /\ PendingRing' \in [1 .. w + 1 -> S]
    BY <1>2, <2>1, Views
  <2> HIDE DEF S
  <2> QED BY <1>8, <2>2, WindowAppend
<1>11. Delivered' = Delivered
  BY <1>2, <1>3, DeliveredFrame
<1> QED BY <1>2, <1>9, <1>10, <1>11, Views

\* Without a driver nothing is on the way.
LEMMA OffView ==
  /\ ~On => Delivered = <<>> /\ Pending = <<>>
  /\ ~On' => Delivered' = <<>> /\ Pending' = <<>>
BY DEF Delivered, Pending

\* A step that leaves the rings, the driver and the poll alone.
LEMMA ViewKept ==
  ASSUME UNCHANGED <<gmem, last_used, drv>>,
         \A q \in Queue : queues'[q].last_avail_idx = queues[q].last_avail_idx,
         \A q \in Queue : Halfway(q)' <=> Halfway(q)
  PROVE  Delivered' = Delivered /\ Pending' = Pending
BY DeliveredFrame, PendingFrame, IdxPlaces DEF gmem

\* Configuring the device shows nothing: the rings it ends up with are empty.
LEMMA ConfigureView ==
  ASSUME TypeOK, NetInv, TypeOK', NetInv', NEW v \in Vcpu, Configure(v)
  PROVE  Delivered' = Delivered /\ Pending' = Pending
<1>1. ~On /\ drv' = drv + 1 /\ drv \in 0..7 /\ Len(Setup) = 8
  BY SetupWrites DEF Configure, On, TypeOK
<1>2. Delivered = <<>> /\ Pending = <<>>
  BY <1>1, OffView
<1>3. CASE ~On'
  BY <1>2, <1>3, OffView
<1>4. CASE On'
  <2>1. drv = 7 /\ drv \in 1 .. Len(Setup) - 1 /\ UNCHANGED <<avail, used, last_used>>
        /\ UNCHANGED queues
    BY <1>1, <1>4 DEF On, Configure, MmioBegin, gmem, regs
  <2>2. \A q \in Queue : avail[q].idx = 0 /\ used[q].idx = 0 /\ last_used[q] = 0
    BY <2>1 DEF NetInv, RingsOrdered
  <2>3. \A q \in Queue : used'[q].idx = queues'[q].last_avail_idx /\ (Halfway(q)' => Completed(q)' < Submitted(q)')
    BY <1>4 DEF NetInv, RingsOrdered
  <2>4. \A q \in Queue : Submitted(q)' = 0 /\ Completed(q)' = 0
    BY <2>1, <2>2, <2>3 DEF Submitted, Completed, Dist
  <2>5. \A q \in Queue : Handled(q)' = 0
    BY <2>3, <2>4, HandledAfter
  <2>6. Delivered' = DeliveredRing' /\ Pending' = PendingRing'
    BY <1>4, RingsReadOff
  <2>7. DeliveredRing' = <<>> /\ PendingRing' = <<>>
    BY <2>4, <2>5, IdxPlaces DEF DeliveredRing, PendingRing
  <2> QED BY <1>2, <2>6, <2>7
<1> QED BY <1>3, <1>4

\* Every step of the device is one of NetService or none.
LEMMA RefinesStep ==
  ASSUME TypeOK, NetInv, TypeOK', NetInv', [Next]_vars
  PROVE  [Network!Next]_(Network!nvars)
<1>k. ASSUME Delivered' = Delivered, Pending' = Pending, UNCHANGED tap
      PROVE  [Network!Next]_(Network!nvars)
  BY <1>k DEF Network!nvars, tap
<1>1. ASSUME NEW v \in Vcpu, \A q \in Queue : pc[v] # IdxPc(q),
             NEW to, \A q \in Queue : to # IdxPc(q), Goto(v, to),
             UNCHANGED <<regs, gmem, last_used, drv>>
      PROVE  Delivered' = Delivered /\ Pending' = Pending
  BY <1>1, PlaceKept, ViewKept DEF regs
<1>2. ASSUME NEW v \in Vcpu, Poll(v) \/ PollSkip(v) \/ RxNothing(v) \/ TxNothing(v)
      PROVE  [Network!Next]_(Network!nvars)
  BY <1>1, <1>2, <1>k DEF Poll, PollSkip, RxNothing, TxNothing, IdxPc, driver
<1>3. ASSUME NEW v \in Vcpu, NetIrq(v) \/ BlkEnd(v) \/ BlkBegin(v) \/ OtherExit(v)
      PROVE  [Network!Next]_(Network!nvars)
  BY <1>1, <1>3, <1>k DEF NetIrq, BlkEnd, BlkBegin, OtherExit, IdxPc, driver
<1>4. ASSUME NEW v \in Vcpu, Notify(v) \/ ReadInterruptStatus(v) \/ AckInterrupt(v)
      PROVE  [Network!Next]_(Network!nvars)
  BY <1>1, <1>4, <1>k DEF Notify, ReadInterruptStatus, AckInterrupt, MmioBegin, IdxPc, driver
<1>5. ASSUME NEW v \in Vcpu, RxTooBig(v) PROVE [Network!Next]_(Network!nvars)
  <2>1. Delivered' = Delivered /\ Pending' = Pending
    BY <1>1, <1>5 DEF RxTooBig, IdxPc, driver
  <2>2. Network!Discard
    BY <1>5, <2>1 DEF RxTooBig, RxEnabled, Network!Discard
  <2> QED BY <2>2 DEF Network!Next
<1>6. ASSUME NEW v \in Vcpu, RxPacket(v) PROVE [Network!Next]_(Network!nvars)
  <2>1. Delivered' = Append(Delivered, Head(tap_in)) /\ Pending' = Pending
    BY <1>6, ReceiveView
  <2>2. Network!Deliver
    BY <1>6, <2>1 DEF RxPacket, RxEnabled, Network!Deliver
  <2> QED BY <2>2 DEF Network!Next
<1>7. ASSUME NEW v \in Vcpu, TxPacket(v) PROVE [Network!Next]_(Network!nvars)
  <2>1. /\ Pending # <<>> /\ Pending' = Tail(Pending) /\ Delivered' = Delivered
        /\ Head(Pending) = chain[TX][AvailDesc(TX)]
    BY <1>7, TransmitView
  <2>2. Network!Transmit
    BY <1>7, <2>1 DEF TxPacket, Network!Transmit
  <2> QED BY <2>2 DEF Network!Next
<1>8. ASSUME NEW v \in Vcpu, RxPublish(v) \/ TxPublish(v) PROVE [Network!Next]_(Network!nvars)
  <2>1. \E q \in Queue : /\ pc[v] = IdxPc(q) /\ UsedIdx(q)
    BY <1>8, IdxPlaces DEF RxPublish, TxPublish
  <2>2. Goto(v, "tx") /\ UNCHANGED <<avail, chain, last_used, drv, tap>>
    BY <1>8 DEF RxPublish, TxPublish, driver
  <2> QED BY <1>k, <2>1, <2>2, PublishView
<1>9. ASSUME NEW v \in Vcpu, MmioEnd(v) PROVE [Network!Next]_(Network!nvars)
  <2>1. /\ pc[v] = "mmio" /\ Perform(op[v]) /\ Goto(v, "top")
        /\ UNCHANGED <<gmem, last_used, drv, tap>>
    BY <1>9 DEF MmioEnd
  <2>2. CASE On
    <3>1. used' = used /\ (On' <=> On)
      BY <2>1 DEF gmem, On
    <3>2. \A q \in Queue : queues'[q].last_avail_idx = queues[q].last_avail_idx
      BY <2>2, <3>1 DEF NetInv, RingsOrdered
    <3>3. \A q \in Queue : pc[v] # IdxPc(q) /\ "top" # IdxPc(q)
      BY <2>1 DEF IdxPc
    <3> QED BY <1>k, <2>1, <3>2, <3>3, PlaceKept, ViewKept
  <2>3. CASE ~On
    <3>1. ~On'
      BY <2>1, <2>3 DEF On
    <3> QED BY <1>k, <2>1, <2>3, <3>1, OffView
  <2> QED BY <2>2, <2>3
<1>10. ASSUME UNCHANGED <<pc, regs, gmem, last_used, drv>>
       PROVE  Delivered' = Delivered /\ Pending' = Pending
  <2>1. \A q \in Queue : Halfway(q)' <=> Halfway(q)
    BY <1>10 DEF Halfway, IdxPc
  <2> QED BY <1>10, <2>1, ViewKept DEF regs
<1>11. ASSUME NEW v \in Vcpu, TakeIrq(v) \/ DrainDone(v) PROVE [Network!Next]_(Network!nvars)
  BY <1>10, <1>11, <1>k DEF TakeIrq, DrainDone
<1>12. ASSUME NEW v \in Vcpu, NEW q \in Queue, Drain(v, q) PROVE [Network!Next]_(Network!nvars)
  <2>1. UNCHANGED <<tap, drv>>
    BY <1>12 DEF Drain
  <2>2. CASE ~On
    BY <1>k, <2>1, <2>2, OffView DEF On
  <2>3. CASE On /\ q = TX
    BY <1>12, <1>k, <2>1, <2>3, FreeView
  <2>4. CASE On /\ q = RX
    <3>1. Delivered # <<>> /\ Delivered' = Tail(Delivered) /\ Pending' = Pending
      BY <1>12, <2>4, ConsumeView
    <3>2. Network!Consume
      BY <2>1, <3>1 DEF tap, Network!Consume
    <3> QED BY <3>2 DEF Network!Next
  <2> QED BY <2>2, <2>3, <2>4, IdxPlaces
<1>13. ASSUME NEW v \in Vcpu, NEW h \in Desc, PostRx(v, h) PROVE [Network!Next]_(Network!nvars)
  BY <1>13, <1>k, BufferView DEF PostRx, Post
<1>14. ASSUME NEW v \in Vcpu, NEW h \in Desc, NEW split \in Splits, Send(v, h, split)
       PROVE  [Network!Next]_(Network!nvars)
  <2> DEFINE b == [id |-> ntx + 1, split |-> split]
  <2>1. Post(v, TX, h, b) /\ ntx < MaxTx
    BY <1>14 DEF Send
  <2>2. b \in Frame
    BY <2>1, NetAssumption DEF Frame, TypeOK
  <2> HIDE DEF b
  <2>3. Delivered' = Delivered /\ Pending' = Append(Pending, b) /\ UNCHANGED tap
    BY <2>1, SendView DEF Post
  <2>4. Network!GuestSend(b)
    BY <2>3 DEF tap, Network!GuestSend
  <2> QED BY <2>2, <2>4 DEF Network!Next
<1>15. ASSUME NEW v \in Vcpu, Configure(v) PROVE [Network!Next]_(Network!nvars)
  BY <1>15, <1>k, ConfigureView DEF Configure, MmioBegin
<1>16. ASSUME NEW v \in Vcpu, Reset(v) PROVE [Network!Next]_(Network!nvars)
  <2>1. ~On' /\ UNCHANGED tap
    BY <1>16, SetupWrites DEF Reset, MmioBegin, On
  <2>2. Network!Reset
    BY <2>1, OffView DEF tap, Network!Reset
  <2> QED BY <2>2 DEF Network!Next
<1>17. ASSUME NEW big \in BOOLEAN, HostSend(big) PROVE [Network!Next]_(Network!nvars)
  <2> DEFINE p == [id |-> nrx + 1, big |-> big]
  <2>1. p \in Packet
    BY <1>17, NetAssumption DEF HostSend, Packet, TypeOK
  <2>2. Delivered' = Delivered /\ Pending' = Pending
    BY <1>10, <1>17 DEF HostSend
  <2>3. Network!HostSend(p)
    BY <1>17, <2>2 DEF HostSend, Network!HostSend
  <2> HIDE DEF p
  <2> QED BY <2>1, <2>3 DEF Network!Next
<1>18. CASE UNCHANGED vars
  BY <1>10, <1>18, <1>k DEF vars, driver
<1> QED BY <1>2, <1>3, <1>4, <1>5, <1>6, <1>7, <1>8, <1>9, <1>11, <1>12, <1>13, <1>14, <1>15,
           <1>16, <1>17, <1>18
        DEF Next, HostStep, GuestStep, GuestChoice

\* The device with its rings, mutexes, threads and interrupts implements
\* NetService: packets reach the guest and the TAP interface at most once and
\* in order, and none is lost but those NetService allows for.
THEOREM NetworkImplemented == Spec => ImplementsNetwork
<1>1. Init => Network!Init
  <2>1. Init => ~On /\ tap_in = <<>> /\ tap_out = <<>>
    BY SetupWrites DEF Init, On
  <2> QED BY <2>1, OffView DEF Network!Init
<1>2. TypeOK /\ NetInv /\ (TypeOK /\ NetInv)' /\ [Next]_vars => [Network!Next]_(Network!nvars)
  BY RefinesStep
<1> QED BY <1>1, <1>2, NetInvariant, PTL DEF Spec, ImplementsNetwork, Network!Spec
=============================================================================
