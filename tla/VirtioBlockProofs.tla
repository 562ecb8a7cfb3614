------------------------- MODULE VirtioBlockProofs -------------------------
(***************************************************************************)
(* Safety of the block device's data plane, for any number of vCPUs,       *)
(* sectors and requests, any index width and any queue size dividing it.   *)
(***************************************************************************)
EXTENDS VirtioBlock, RingIndexProofs

USE DEF QueuePc, IsrPc, WriteDisk

\* Positions on the ring are distances from last_used, and name their indices.
LEMMA Positions ==
  ASSUME TypeOK
  PROVE  /\ Completed \in Nat /\ Snapshot \in Nat /\ Submitted \in Nat
         /\ IdxAt(last_used, Completed) = last_avail_idx
         /\ IdxAt(last_used, Snapshot) = avail_idx
         /\ IdxAt(last_used, Submitted) = avail.idx
         /\ Completed = 0 <=> last_avail_idx = last_used
<1>1. /\ last_avail_idx \in Idx /\ avail_idx \in Idx /\ avail.idx \in Idx
      /\ last_used \in Idx
  BY DEF TypeOK
<1>2. \A a, b \in Idx : Dist(a, b) \in Nat
  BY RingAssumption DEF Idx, Dist
<1> QED BY <1>1, <1>2, DistIsDistance DEF Completed, Snapshot, Submitted

\* The state that ProcessChain starts from: only a configured device is
\* processed, and the head at last_avail_idx is an outstanding request.
LEMMA ChainAtHand ==
  ASSUME TypeOK, RingInv, NEW v \in Vcpu, pc[v] = "loop",
         last_avail_idx # avail_idx
  PROVE  /\ drv = "on" /\ guest_mem = v
         /\ Slot(last_avail_idx) \in Desc
         /\ Slot(last_avail_idx) = SlotAt(Completed)
         /\ Completed \in 0 .. Submitted - 1
         /\ Completed < Snapshot
         /\ avail.ring[Slot(last_avail_idx)] \in Desc
         /\ chain[avail.ring[Slot(last_avail_idx)]] \in Request
<1>1. guest_mem = v
  BY DEF RingInv, HolderProcesses
<1>2. drv = "on"
  BY <1>1, BlockAssumption DEF RingInv, RegistersFollow, TypeOK
<1>3. /\ last_avail_idx \in Idx /\ avail_idx \in Idx /\ last_used \in Idx
      /\ avail.idx \in Idx /\ avail.ring \in [Desc -> Desc]
      /\ chain \in [Desc -> Request \cup {None}]
  BY DEF TypeOK
<1>4. Slot(last_avail_idx) \in Desc
  BY <1>3, SlotType, RingAssumption DEF Idx
<1>5. IdxAt(last_used, Completed) = last_avail_idx
  BY Positions
<1>6. Completed # Snapshot
  BY Positions
<1>7. Completed \in Nat /\ Snapshot \in Nat /\ Submitted \in Nat
  BY Positions
<1>8. Completed < Snapshot /\ Snapshot <= Submitted
  BY <1>2, <1>6, <1>7 DEF RingInv, IndicesOrdered
<1>9. Completed \in 0 .. Submitted - 1
  BY <1>7, <1>8
<1>10. chain[HeadAt(Completed)] # None
  BY <1>2, <1>9 DEF RingInv, HeadsOwned
<1>11. HeadAt(Completed) = avail.ring[Slot(last_avail_idx)]
  BY <1>5 DEF HeadAt, SlotAt
<1> QED BY <1>1, <1>2, <1>3, <1>4, <1>5, <1>8, <1>9, <1>10, <1>11 DEF SlotAt

\* Every step keeps the types.  The transfer needs more than types: the head
\* it takes off the ring must be an outstanding request.
LEMMA TypeStep ==
  ASSUME TypeOK, RingInv, [Next]_vars
  PROVE  TypeOK'
<1> USE RingAssumption, BlockAssumption, RequestAssumption
<1>0. 0 \in Idx /\ 0 \in Desc
  BY DEF Idx, Desc
<1>s. \A i \in Idx : Slot(i) \in Desc /\ WrappingInc(i) \in Idx
  BY SlotType, IndexTypes DEF Idx
<1>1. CASE UNCHANGED vars
  BY <1>1 DEF TypeOK, vars, regs, locals, gmem, driver
<1>2. ASSUME NEW v \in Vcpu, NotifyNotReady(v) PROVE TypeOK'
  BY <1>2 DEF NotifyNotReady, TypeOK, Pc, regs, locals, gmem
<1>3. ASSUME NEW v \in Vcpu, NotifyReady(v) PROVE TypeOK'
  BY <1>3 DEF NotifyReady, Goto, TypeOK, Pc, regs, gmem
<1>4. ASSUME NEW v \in Vcpu, ProcessChain(v) PROVE TypeOK'
  <2> DEFINE h == avail.ring[Slot(last_avail_idx)]
             r == chain[h]
  <2>1. h \in Desc /\ r \in Request
    BY <1>4, ChainAtHand DEF ProcessChain
  <2>2. r.op = "out" => buf[h] \in Data
    <3>1. r # None
      BY <2>1, RequestAssumption
    <3>2. h \in Outstanding
      BY <2>1, <3>1 DEF Outstanding
    <3>3. r.op = "out" => buf[h] = r.data
      BY <3>2 DEF RingInv, OutDataKept
    <3>4. r.op = "out" => r.data \in Data
      BY <2>1 DEF Request
    <3> QED BY <3>3, <3>4
  <2>3. disk' \in [Sector -> Data]
    BY <1>4, <2>1, <2>2 DEF ProcessChain, TypeOK, Request
  <2>4. buf' \in [Desc -> Data \cup {None}]
    BY <1>4, <2>1 DEF ProcessChain, TypeOK, Request
  <2>5. head_idx' \in Desc /\ stat' \in [Desc -> {"OK", None}]
    BY <1>4, <2>1 DEF ProcessChain, TypeOK
  <2>6. written' \in {0, 1, SectorLen + 1}
    BY <1>4 DEF ProcessChain
  <2>7. pc' \in [Vcpu -> Pc]
    BY <1>4 DEF ProcessChain, Goto, Pc, TypeOK
  <2> QED BY <1>4, <2>3, <2>4, <2>5, <2>6, <2>7 DEF ProcessChain, TypeOK, regs, driver
<1>5. ASSUME NEW v \in Vcpu, WriteUsedElem(v) PROVE TypeOK'
  <2>1. used' \in [idx : Idx, ring : [Desc -> [id : Desc, len : {0, 1, SectorLen + 1}]]]
    BY <1>5, <1>s DEF WriteUsedElem, TypeOK
  <2> QED BY <1>5, <2>1 DEF WriteUsedElem, Goto, TypeOK, Pc, regs, locals, driver
<1>6. ASSUME NEW v \in Vcpu, PublishUsed(v) PROVE TypeOK'
  <2>1. used' \in [idx : Idx, ring : [Desc -> [id : Desc, len : {0, 1, SectorLen + 1}]]]
    BY <1>6, <1>s DEF PublishUsed, TypeOK
  <2> QED BY <1>0, <1>6, <1>s, <2>1 DEF PublishUsed, Goto, TypeOK, Pc, driver
<1>7. ASSUME NEW v \in Vcpu, FinishQueue(v) PROVE TypeOK'
  BY <1>0, <1>7 DEF FinishQueue, Goto, TypeOK, Pc, gmem, driver
<1>8. ASSUME NEW v \in Vcpu, InjectIrq(v) PROVE TypeOK'
  BY <1>8 DEF InjectIrq, Goto, TypeOK, Pc, regs, locals, gmem
<1>9. ASSUME NEW v \in Vcpu, TakeIrq(v) PROVE TypeOK'
  BY <1>9 DEF TakeIrq, Goto, TypeOK, Pc, regs, locals, gmem
<1>10. ASSUME NEW v \in Vcpu, ReadInterruptStatus(v) PROVE TypeOK'
  BY <1>10 DEF ReadInterruptStatus, Goto, TypeOK, Pc, regs, locals, gmem, driver
<1>11. ASSUME NEW v \in Vcpu, AckInterrupt(v) PROVE TypeOK'
  BY <1>11 DEF AckInterrupt, WriteInterruptAck, Goto, TypeOK, Pc, locals, gmem, driver
<1>12. ASSUME NEW v \in Vcpu, Drain(v) PROVE TypeOK'
  BY <1>12, <1>s DEF Drain, TypeOK, Pc, regs, locals
<1>13. ASSUME NEW v \in Vcpu, DrainDone(v) PROVE TypeOK'
  BY <1>13 DEF DrainDone, Goto, TypeOK, Pc, regs, locals, gmem, driver
<1>14. ASSUME NEW v \in Vcpu, DrvReset(v) PROVE TypeOK'
  BY <1>14, <1>0 DEF DrvReset, WriteStatus, TypeOK, Pc, locals, gmem
<1>15. ASSUME NEW v \in Vcpu, DrvAcknowledge(v) PROVE TypeOK'
  <2>1. avail' \in [idx : Idx, ring : [Desc -> Desc]]
    BY <1>15, <1>0 DEF DrvAcknowledge, NewAvail, NewUsed
  <2>2. used' \in [idx : Idx, ring : [Desc -> [id : Desc, len : {0, 1, SectorLen + 1}]]]
    BY <1>15, <1>0 DEF DrvAcknowledge, NewAvail, NewUsed
  <2>3. /\ chain' \in [Desc -> Request \cup {None}]
        /\ buf' \in [Desc -> Data \cup {None}] /\ stat' \in [Desc -> {"OK", None}]
    BY <1>15 DEF DrvAcknowledge
  <2> QED BY <1>15, <1>0, <2>1, <2>2, <2>3 DEF DrvAcknowledge, WriteStatus, TypeOK, Pc, locals
<1>16. ASSUME NEW v \in Vcpu, DrvQueueNum(v) PROVE TypeOK'
  BY <1>16 DEF DrvQueueNum, WriteQueueNum, TypeOK, Pc, locals, gmem
<1>17. ASSUME NEW v \in Vcpu, DrvQueueReady(v) PROVE TypeOK'
  BY <1>17 DEF DrvQueueReady, WriteQueueReady, TypeOK, Pc, locals, gmem
<1>18. ASSUME NEW v \in Vcpu, NEW h \in Desc, NEW r \in Request, Submit(v, h, r)
       PROVE TypeOK'
  <2>1. r.data \in Data \cup {None}
    BY DEF Request
  <2>2. avail' \in [idx : Idx, ring : [Desc -> Desc]]
    BY <1>18, <1>s DEF Submit, TypeOK
  <2> QED BY <1>18, <2>1, <2>2 DEF Submit, TypeOK, Pc, regs, locals
<1> QED
  BY <1>1, <1>2, <1>3, <1>4, <1>5, <1>6, <1>7, <1>8, <1>9, <1>10, <1>11,
     <1>12, <1>13, <1>14, <1>15, <1>16, <1>17, <1>18
  DEF Next, Handle, Configure
-----------------------------------------------------------------------------
\* Facts about a device that has a request in process_queue.
LEMMA RequestPosition ==
  ASSUME TypeOK, RingInv, NEW v \in Vcpu, pc[v] \in {"used", "publish"}
  PROVE  /\ drv = "on" /\ guest_mem = v /\ used.idx = last_avail_idx
         /\ Completed < Submitted /\ Submitted <= QueueSize
         /\ Completed < Snapshot /\ Snapshot <= Submitted
         /\ Slot(last_avail_idx) = SlotAt(Completed)
         /\ HeadAt(Completed) = head_idx /\ stat[head_idx] = "OK"
         /\ SlotAt(Completed) \in Desc
<1>1. guest_mem = v
  BY DEF RingInv, HolderProcesses
<1>2. drv = "on"
  BY <1>1, BlockAssumption DEF RingInv, RegistersFollow, TypeOK
<1>3. used.idx = last_avail_idx /\ Submitted <= QueueSize
  BY <1>2 DEF RingInv, IndicesOrdered
<1>4. Completed < Snapshot /\ Snapshot <= Submitted
  BY <1>2 DEF RingInv, IndicesOrdered
<1>5. Completed < Submitted
  BY <1>4, Positions
<1>6. Slot(last_avail_idx) = SlotAt(Completed)
  BY Positions DEF SlotAt
<1>7. head_idx = avail.ring[Slot(last_avail_idx)] /\ stat[head_idx] = "OK"
  BY <1>2 DEF RingInv, RequestAtHand
<1>8. Slot(last_avail_idx) \in Desc
  BY SlotType, RingAssumption DEF TypeOK, Idx
<1> QED BY <1>1, <1>2, <1>3, <1>4, <1>5, <1>6, <1>7, <1>8 DEF HeadAt

\* The slots of a window of at most QueueSize entries are different.
LEMMA WindowSlots ==
  ASSUME TypeOK, NEW j \in Nat, NEW k \in Nat, j < QueueSize, k < QueueSize,
         SlotAt(j) = SlotAt(k)
  PROVE  j = k
BY SlotInjective, RingAssumption DEF TypeOK, SlotAt

\* Slots and heads of a window have their types.
LEMMA WindowTypes ==
  ASSUME TypeOK, NEW k \in Nat, k < IdxMod
  PROVE  SlotAt(k) \in Desc /\ HeadAt(k) \in Desc
<1>1. last_used \in Idx /\ k \in 0 .. IdxMod - 1
  BY RingAssumption DEF TypeOK
<1>2. IdxAt(last_used, k) \in Idx
  BY <1>1, IndexTypes
<1>3. SlotAt(k) \in Desc
  BY <1>2, SlotType DEF SlotAt, Idx
<1> QED BY <1>3 DEF HeadAt, TypeOK

\* Steps that leave rings, requests and configuration alone only have to keep
\* the owner of guest_mem and the snapshot of avail.idx.
LEMMA QuietStep ==
  ASSUME RingInv,
         UNCHANGED <<drv, status, queue_num, queue_ready, last_avail_idx,
                     avail, used, last_used, chain, buf, stat>>
  PROVE  HeadsOwned' /\ UsedFollowsAvail' /\ OutDataKept'
BY DEF RingInv, HeadsOwned, UsedFollowsAvail, OutDataKept, Outstanding,
       Submitted, Completed, HeadAt, SlotAt

\* QUEUE_NOTIFY: the snapshot of avail.idx lies within the submitted entries.
LEMMA RingNotify ==
  ASSUME TypeOK, RingInv, NEW v \in Vcpu,
         NotifyNotReady(v) \/ NotifyReady(v)
  PROVE  RingInv'
<1> USE BlockAssumption
<1>1. CASE NotifyNotReady(v)
  <2>1. HeadsOwned' /\ UsedFollowsAvail' /\ OutDataKept'
    BY <1>1, QuietStep DEF NotifyNotReady, regs, gmem
  <2>2. HolderProcesses' /\ RegistersFollow' /\ IndicesOrdered' /\ RequestAtHand'
    BY <1>1 DEF NotifyNotReady, regs, gmem, locals, RingInv, HolderProcesses,
       RegistersFollow, IndicesOrdered, RequestAtHand, Completed, Submitted, Snapshot
  <2> QED BY <2>1, <2>2 DEF RingInv
<1>2. CASE NotifyReady(v)
  <2>1. HeadsOwned' /\ UsedFollowsAvail' /\ OutDataKept'
    BY <1>2, QuietStep DEF NotifyReady, regs, gmem
  <2>2. \A w \in Vcpu : pc[w] \notin QueuePc
    BY <1>2 DEF NotifyReady, RingInv, HolderProcesses
  <2>3. HolderProcesses'
    BY <1>2, <2>2 DEF NotifyReady, Goto, HolderProcesses, TypeOK
  <2>4. drv = "on"
    BY <1>2 DEF NotifyReady, RingInv, RegistersFollow, TypeOK
  <2>5. RegistersFollow'
    BY <1>2, <2>4 DEF NotifyReady, RingInv, RegistersFollow, regs, gmem
  <2>6. IndicesOrdered'
    <3>1. Snapshot' = Submitted /\ Completed' = Completed /\ Submitted' = Submitted
      BY <1>2 DEF NotifyReady, regs, gmem, Completed, Submitted, Snapshot
    <3>2. \A w \in Vcpu : pc'[w] \notin {"used", "publish"}
      BY <1>2, <2>2 DEF NotifyReady, Goto, TypeOK
    <3> QED BY <1>2, <2>4, <3>1, <3>2, Positions
            DEF NotifyReady, RingInv, IndicesOrdered, regs, gmem
  <2>7. RequestAtHand'
    BY <1>2, <2>2 DEF NotifyReady, Goto, RequestAtHand, TypeOK
  <2> QED BY <2>1, <2>3, <2>5, <2>6, <2>7 DEF RingInv
<1> QED BY <1>1, <1>2

\* The transfer: the request at hand is the one at last_avail_idx.
LEMMA RingProcessChain ==
  ASSUME TypeOK, RingInv, NEW v \in Vcpu, ProcessChain(v)
  PROVE  RingInv'
<1> DEFINE h == avail.ring[Slot(last_avail_idx)]
           r == chain[h]
<1>1. /\ drv = "on" /\ guest_mem = v /\ h \in Desc /\ r \in Request
      /\ Completed < Snapshot
  BY ChainAtHand DEF ProcessChain
<1>2. \A w \in Vcpu : pc[w] \in QueuePc => w = v
  BY <1>1 DEF RingInv, HolderProcesses
<1>3. /\ Submitted' = Submitted /\ Completed' = Completed /\ Snapshot' = Snapshot
      /\ \A k : SlotAt(k)' = SlotAt(k) /\ HeadAt(k)' = HeadAt(k)
  BY DEF ProcessChain, regs, driver, Submitted, Completed, Snapshot, SlotAt, HeadAt
<1>4. HolderProcesses'
  BY <1>1, <1>2 DEF ProcessChain, Goto, RingInv, HolderProcesses, TypeOK
<1>5. RegistersFollow'
  BY DEF ProcessChain, regs, driver, RingInv, RegistersFollow
<1>6. IndicesOrdered'
  BY <1>1, <1>2, <1>3 DEF ProcessChain, Goto, RingInv, IndicesOrdered, TypeOK, regs, driver
<1>7. HeadsOwned'
  BY <1>3 DEF ProcessChain, RingInv, HeadsOwned, driver
<1>8. stat' = [stat EXCEPT ![h] = "OK"] /\ head_idx' = h
  BY DEF ProcessChain
<1>9. UsedFollowsAvail'
  <2>1. \A k \in 0 .. Completed - 1 : HeadAt(k) \in Desc
    <3>1. Completed < IdxMod
      BY RingAssumption, Positions, <1>1 DEF RingInv, IndicesOrdered
    <3> QED BY <3>1, WindowTypes, Positions, RingAssumption
  <2> QED BY <1>1, <1>3, <1>8, <2>1 DEF ProcessChain, driver, RingInv, UsedFollowsAvail, TypeOK
<1>10. RequestAtHand'
  BY <1>1, <1>2, <1>8 DEF ProcessChain, Goto, regs, driver, RequestAtHand, TypeOK
<1>11. OutDataKept'
  <2>1. chain' = chain
    BY DEF ProcessChain
  <2>2. \A x \in Desc : chain[x].op = "out" => buf'[x] = buf[x]
    <3>1. r.op = "in" \/ buf' = buf
      BY DEF ProcessChain
    <3>2. \A x \in Desc : x # h => buf'[x] = buf[x]
      BY <1>1 DEF ProcessChain, TypeOK
    <3> QED BY <3>1, <3>2
  <2> QED BY <2>1, <2>2 DEF RingInv, OutDataKept, Outstanding
<1> QED BY <1>4, <1>5, <1>6, <1>7, <1>9, <1>10, <1>11 DEF RingInv

\* The used element goes behind the completions that are not yet read.
LEMMA RingWriteUsedElem ==
  ASSUME TypeOK, RingInv, NEW v \in Vcpu, WriteUsedElem(v)
  PROVE  RingInv'
<1>1. /\ drv = "on" /\ guest_mem = v /\ used.idx = last_avail_idx
      /\ Completed < QueueSize /\ Completed < Snapshot
      /\ Slot(last_avail_idx) = SlotAt(Completed)
      /\ head_idx = HeadAt(Completed) /\ stat[head_idx] = "OK"
      /\ SlotAt(Completed) \in Desc
  BY RequestPosition, Positions, RingAssumption DEF WriteUsedElem
<1>2. \A w \in Vcpu : pc[w] \in QueuePc => w = v
  BY <1>1 DEF RingInv, HolderProcesses
<1>3. /\ Submitted' = Submitted /\ Completed' = Completed /\ Snapshot' = Snapshot
      /\ \A k : SlotAt(k)' = SlotAt(k) /\ HeadAt(k)' = HeadAt(k)
  BY DEF WriteUsedElem, regs, driver, locals, Submitted, Completed, Snapshot, SlotAt, HeadAt
<1>4. HolderProcesses'
  BY <1>1, <1>2 DEF WriteUsedElem, Goto, RingInv, HolderProcesses, TypeOK
<1>5. used'.idx = used.idx
  BY DEF WriteUsedElem, TypeOK
<1>6. RegistersFollow'
  BY <1>5 DEF WriteUsedElem, regs, driver, RingInv, RegistersFollow
<1>7. IndicesOrdered'
  BY <1>1, <1>2, <1>3, <1>5 DEF WriteUsedElem, Goto, RingInv, IndicesOrdered, TypeOK, regs, driver
<1>8. HeadsOwned'
  BY <1>3 DEF WriteUsedElem, RingInv, HeadsOwned, driver
<1>9. /\ used'.ring[SlotAt(Completed)].id = head_idx
      /\ \A s \in Desc : s # SlotAt(Completed) => used'.ring[s] = used.ring[s]
  BY <1>1 DEF WriteUsedElem, TypeOK
<1>10. UsedFollowsAvail'
  <2>1. \A k \in 0 .. Completed - 1 : SlotAt(k) \in Desc /\ SlotAt(k) # SlotAt(Completed)
    BY <1>1, WindowTypes, WindowSlots, Positions, RingAssumption
  <2> QED BY <1>1, <1>3, <1>9, <2>1 DEF WriteUsedElem, driver, RingInv, UsedFollowsAvail
<1>11. RequestAtHand'
  BY <1>1, <1>2, <1>9 DEF WriteUsedElem, Goto, regs, locals, driver, RingInv, RequestAtHand, HeadAt, TypeOK
<1>12. OutDataKept'
  BY DEF WriteUsedElem, RingInv, OutDataKept, Outstanding
<1> QED BY <1>4, <1>6, <1>7, <1>8, <1>10, <1>11, <1>12 DEF RingInv

\* used.idx and last_avail_idx move on together.
LEMMA RingPublishUsed ==
  ASSUME TypeOK, RingInv, NEW v \in Vcpu, PublishUsed(v)
  PROVE  RingInv'
<1>1. /\ drv = "on" /\ guest_mem = v /\ used.idx = last_avail_idx
      /\ Completed < Submitted /\ Submitted <= QueueSize
      /\ Completed < Snapshot /\ Snapshot <= Submitted
      /\ Slot(last_avail_idx) = SlotAt(Completed)
      /\ HeadAt(Completed) = head_idx /\ stat[head_idx] = "OK"
  BY RequestPosition DEF PublishUsed
<1>2. \A w \in Vcpu : pc[w] \in QueuePc => w = v
  BY <1>1 DEF RingInv, HolderProcesses
<1>3. Completed \in Nat /\ Snapshot \in Nat /\ Submitted \in Nat
  BY Positions
<1>4. /\ Submitted' = Submitted /\ Snapshot' = Snapshot
      /\ \A k : SlotAt(k)' = SlotAt(k) /\ HeadAt(k)' = HeadAt(k)
  BY DEF PublishUsed, driver, Submitted, Snapshot, SlotAt, HeadAt
<1>5. Completed' = Completed + 1
  <2>1. last_avail_idx \in Idx /\ last_used \in Idx /\ Completed + 1 < IdxMod
    BY <1>1, <1>3, RingAssumption DEF TypeOK
  <2>2. Dist(WrappingInc(last_avail_idx), last_used) = Completed + 1
    BY <2>1, DistStep DEF Completed
  <2> QED BY <2>2 DEF PublishUsed, driver, Completed
<1>6. used'.idx = last_avail_idx' /\ used'.ring = used.ring
  BY <1>1 DEF PublishUsed, TypeOK
<1>7. HolderProcesses'
  BY <1>1, <1>2 DEF PublishUsed, Goto, RingInv, HolderProcesses, TypeOK
<1>8. RegistersFollow'
  BY <1>1 DEF PublishUsed, driver, RingInv, RegistersFollow
<1>9. IndicesOrdered'
  <2>1. \A w \in Vcpu :
          pc'[w] \notin {"used", "publish"} /\ (pc'[w] \in QueuePc => w = v)
    BY <1>2 DEF PublishUsed, Goto, TypeOK
  <2>2. /\ Completed' <= Submitted' /\ Submitted' <= QueueSize
        /\ Completed' <= Snapshot' /\ Snapshot' <= Submitted'
    BY <1>1, <1>3, <1>4, <1>5
  <2> QED BY <1>6, <2>1, <2>2 DEF IndicesOrdered
<1>10. HeadsOwned'
  BY <1>1, <1>4 DEF PublishUsed, RingInv, HeadsOwned
<1>11. UsedFollowsAvail'
  <2>1. used.ring[SlotAt(Completed)].id = head_idx
    BY <1>1 DEF PublishUsed, RingInv, RequestAtHand
  <2>2. ASSUME NEW k \in 0 .. Completed
        PROVE  used.ring[SlotAt(k)].id = HeadAt(k) /\ stat[HeadAt(k)] = "OK"
    <3>1. CASE k = Completed
      BY <1>1, <2>1, <3>1
    <3>2. CASE k \in 0 .. Completed - 1
      BY <1>1, <3>2 DEF RingInv, UsedFollowsAvail
    <3> QED BY <1>3, <3>1, <3>2
  <2> QED BY <1>3, <1>4, <1>5, <1>6, <2>2 DEF PublishUsed, UsedFollowsAvail
<1>12. RequestAtHand'
  BY <1>2 DEF PublishUsed, Goto, RequestAtHand, TypeOK
<1>13. OutDataKept'
  BY DEF PublishUsed, RingInv, OutDataKept, Outstanding
<1> QED BY <1>7, <1>8, <1>9, <1>10, <1>11, <1>12, <1>13 DEF RingInv

\* The remaining steps of the device and of the handler leave the rings alone.
LEMMA RingInterrupt ==
  ASSUME TypeOK, RingInv, NEW v \in Vcpu,
         \/ FinishQueue(v) \/ InjectIrq(v) \/ TakeIrq(v)
         \/ ReadInterruptStatus(v) \/ AckInterrupt(v) \/ DrainDone(v)
  PROVE  RingInv'
<1> USE BlockAssumption
<1> USE DEF regs, locals, gmem, driver
<1>1. /\ UNCHANGED <<drv, status, queue_num, queue_ready, last_avail_idx, avail,
                     used, last_used, chain, buf, stat, head_idx>>
      /\ pc[v] # "loop" => UNCHANGED avail_idx
      /\ \A w \in Vcpu \ {v} : pc'[w] = pc[w]
      /\ pc'[v] \notin QueuePc
      /\ guest_mem' = IF pc[v] = "loop" THEN None ELSE guest_mem
      /\ pc[v] = "loop" \/ pc[v] \notin QueuePc
  BY DEF FinishQueue, InjectIrq, TakeIrq, ReadInterruptStatus, AckInterrupt,
         WriteInterruptAck, DrainDone, Goto, TypeOK
<1>2. HeadsOwned' /\ UsedFollowsAvail' /\ OutDataKept'
  BY <1>1, QuietStep
<1>3. HolderProcesses'
  BY <1>1 DEF RingInv, HolderProcesses
<1>4. RegistersFollow'
  BY <1>1 DEF RingInv, RegistersFollow
<1>5. /\ Submitted' = Submitted /\ Completed' = Completed
      /\ pc[v] # "loop" => Snapshot' = Snapshot
  BY <1>1 DEF Submitted, Completed, Snapshot
<1>6. pc[v] = "loop" => \A w \in Vcpu : pc'[w] \notin QueuePc
  BY <1>1 DEF RingInv, HolderProcesses
<1>7. IndicesOrdered' /\ RequestAtHand'
  BY <1>1, <1>5, <1>6 DEF RingInv, IndicesOrdered, RequestAtHand
<1> QED BY <1>2, <1>3, <1>4, <1>7 DEF RingInv

\* What a submission does: one more entry on the avail ring, for a descriptor
\* that is on it nowhere else.
LEMMA SubmitEffect ==
  ASSUME TypeOK, RingInv, NEW v \in Vcpu, NEW h \in Desc, NEW r \in Request,
         Submit(v, h, r)
  PROVE  /\ Completed \in Nat /\ Snapshot \in Nat /\ Submitted \in Nat
         /\ Submitted < QueueSize /\ QueueSize \in Nat /\ Submitted + 1 < IdxMod
         /\ Slot(avail.idx) = SlotAt(Submitted)
         /\ Completed' = Completed /\ Snapshot' = Snapshot /\ \A k : SlotAt(k)' = SlotAt(k)
         /\ Submitted' = Submitted + 1
         /\ \A k \in 0 .. Submitted : SlotAt(k) \in Desc /\ HeadAt(k) \in Desc
         /\ \A k \in 0 .. Submitted :
              HeadAt(k)' = IF k = Submitted THEN h ELSE HeadAt(k)
         /\ \A k \in 0 .. Submitted - 1 : HeadAt(k) # h /\ chain[HeadAt(k)] # None
<1>1. /\ drv = "on" /\ drv' = drv /\ last_used' = last_used /\ chain[h] = None
      /\ UNCHANGED <<regs, guest_mem, pc, locals, used>>
  BY DEF Submit
<1>2. /\ chain' = [chain EXCEPT ![h] = r] /\ buf' = [buf EXCEPT ![h] = r.data]
      /\ stat' = [stat EXCEPT ![h] = None]
  BY DEF Submit
<1>3. /\ avail'.idx = WrappingInc(avail.idx)
      /\ avail'.ring = [avail.ring EXCEPT ![Slot(avail.idx)] = h]
  BY DEF Submit
<1>4. /\ Completed \in Nat /\ Snapshot \in Nat /\ Submitted \in Nat
      /\ Submitted < QueueSize /\ QueueSize \in Nat /\ Submitted + 1 < IdxMod
      /\ Slot(avail.idx) = SlotAt(Submitted)
  <2>1. Submitted < QueueSize
    BY DEF Submit, Submitted
  <2> QED BY <2>1, Positions, RingAssumption DEF SlotAt
<1>5. Completed' = Completed /\ Snapshot' = Snapshot /\ \A k : SlotAt(k)' = SlotAt(k)
  BY <1>1 DEF regs, locals, Completed, Snapshot, SlotAt
<1>6. Submitted' = Submitted + 1
  <2>1. avail.idx \in Idx /\ last_used \in Idx
    BY DEF TypeOK
  <2>2. Dist(WrappingInc(avail.idx), last_used) = Submitted + 1
    BY <1>4, <2>1, DistStep DEF Submitted
  <2> QED BY <1>1, <1>3, <2>2 DEF Submitted
<1>7. \A k \in 0 .. Submitted : SlotAt(k) \in Desc /\ HeadAt(k) \in Desc
  <2>1. \A k \in 0 .. Submitted : k \in Nat /\ k < IdxMod
    BY <1>4, RingAssumption
  <2> QED BY <2>1, WindowTypes
<1>8. \A k \in 0 .. Submitted :
        HeadAt(k)' = IF k = Submitted THEN h ELSE HeadAt(k)
  <2>1. \A k : HeadAt(k)' = avail'.ring[SlotAt(k)]
    BY <1>5 DEF HeadAt
  <2>2. \A k \in 0 .. Submitted : SlotAt(k) = SlotAt(Submitted) => k = Submitted
    <3>1. \A k \in 0 .. Submitted : k \in Nat /\ k < QueueSize
      BY <1>4
    <3> QED BY <1>4, <3>1, WindowSlots
  <2>3. avail.ring \in [Desc -> Desc]
    BY DEF TypeOK
  <2> QED BY <1>3, <1>4, <1>7, <2>1, <2>2, <2>3 DEF HeadAt
<1>9. \A k \in 0 .. Submitted - 1 : HeadAt(k) # h /\ chain[HeadAt(k)] # None
  BY <1>1 DEF RingInv, HeadsOwned
<1> QED BY <1>4, <1>5, <1>6, <1>7, <1>8, <1>9

\* A submission keeps the invariant.
LEMMA RingSubmit ==
  ASSUME TypeOK, RingInv, NEW v \in Vcpu, NEW h \in Desc, NEW r \in Request,
         Submit(v, h, r)
  PROVE  RingInv'
<1> USE RequestAssumption
<1>1. /\ drv = "on" /\ drv' = drv /\ last_used' = last_used /\ chain[h] = None
      /\ UNCHANGED <<regs, guest_mem, pc, locals, used>>
  BY DEF Submit
<1>2. /\ chain' = [chain EXCEPT ![h] = r] /\ buf' = [buf EXCEPT ![h] = r.data]
      /\ stat' = [stat EXCEPT ![h] = None]
  BY DEF Submit
<1>3. /\ avail'.idx = WrappingInc(avail.idx)
      /\ avail'.ring = [avail.ring EXCEPT ![Slot(avail.idx)] = h]
  BY DEF Submit
<1>4. /\ Completed \in Nat /\ Snapshot \in Nat /\ Submitted \in Nat
      /\ Submitted < QueueSize /\ QueueSize \in Nat /\ Submitted + 1 < IdxMod
      /\ Slot(avail.idx) = SlotAt(Submitted)
  BY SubmitEffect
<1>5. Completed' = Completed /\ Snapshot' = Snapshot /\ \A k : SlotAt(k)' = SlotAt(k)
  BY SubmitEffect
<1>6. Submitted' = Submitted + 1
  BY SubmitEffect
<1>7. \A k \in 0 .. Submitted : SlotAt(k) \in Desc /\ HeadAt(k) \in Desc
  BY SubmitEffect
<1>8. \A k \in 0 .. Submitted :
        HeadAt(k)' = IF k = Submitted THEN h ELSE HeadAt(k)
  BY SubmitEffect
<1>9. \A k \in 0 .. Submitted - 1 : HeadAt(k) # h /\ chain[HeadAt(k)] # None
  BY SubmitEffect
<1>10. HolderProcesses'
  BY <1>1 DEF RingInv, HolderProcesses
<1>11. RegistersFollow'
  BY <1>1 DEF RingInv, RegistersFollow, regs
<1>12. IndicesOrdered'
  <2>1. /\ used.idx = last_avail_idx /\ Completed <= Submitted
        /\ \A w \in Vcpu :
             /\ pc[w] \in QueuePc => Completed <= Snapshot /\ Snapshot <= Submitted
             /\ pc[w] \in {"used", "publish"} => Completed < Snapshot
    BY <1>1 DEF RingInv, IndicesOrdered
  <2>2. Completed' <= Submitted' /\ Submitted' <= QueueSize
    BY <1>4, <1>5, <1>6, <2>1
  <2>3. Snapshot <= Submitted => Snapshot' <= Submitted'
    BY <1>4, <1>5, <1>6
  <2> QED BY <1>1, <1>5, <2>1, <2>2, <2>3 DEF IndicesOrdered, regs
<1>13. HeadsOwned'
  <2>1. \A k \in 0 .. Submitted : chain'[HeadAt(k)'] # None
    <3>1. chain \in [Desc -> Request \cup {None}]
      BY DEF TypeOK
    <3> QED BY <1>2, <1>4, <1>7, <1>8, <1>9, <3>1
  <2>2. \A j, k \in 0 .. Submitted : HeadAt(j)' = HeadAt(k)' => j = k
    <3>1. \A j, k \in 0 .. Submitted - 1 : HeadAt(j) = HeadAt(k) => j = k
      BY <1>1 DEF RingInv, HeadsOwned
    <3> QED BY <1>4, <1>8, <1>9, <3>1
  <2>3. 0 .. Submitted' - 1 = 0 .. Submitted
    BY <1>4, <1>6
  <2> QED BY <2>1, <2>2, <2>3 DEF HeadsOwned
<1>14. UsedFollowsAvail'
  <2>1. \A k \in 0 .. Completed - 1 : k \in 0 .. Submitted - 1
    BY <1>1, <1>4 DEF RingInv, IndicesOrdered
  <2>2. \A k \in 0 .. Completed - 1 :
          used.ring[SlotAt(k)].id = HeadAt(k) /\ stat[HeadAt(k)] = "OK"
    BY <1>1 DEF RingInv, UsedFollowsAvail
  <2>3. \A k \in 0 .. Completed - 1 : HeadAt(k)' = HeadAt(k) /\ stat'[HeadAt(k)] = "OK"
    <3>1. stat \in [Desc -> {"OK", None}]
      BY DEF TypeOK
    <3> QED BY <1>2, <1>4, <1>7, <1>8, <1>9, <2>1, <2>2, <3>1
  <2> QED BY <1>1, <1>5, <2>2, <2>3 DEF UsedFollowsAvail
<1>15. RequestAtHand'
  <2>1. ASSUME NEW w \in Vcpu, pc[w] \in {"used", "publish"}
        PROVE  /\ head_idx = avail'.ring[Slot(last_avail_idx)]
               /\ stat'[head_idx] = "OK"
    <3>1. /\ HeadAt(Completed) = head_idx /\ stat[head_idx] = "OK"
          /\ Slot(last_avail_idx) = SlotAt(Completed) /\ Completed \in 0 .. Submitted - 1
      BY <1>4, <2>1, RequestPosition
    <3>2. HeadAt(Completed) # h /\ HeadAt(Completed) \in Desc
      BY <1>4, <1>7, <1>9, <3>1
    <3>3. avail'.ring[SlotAt(Completed)] = HeadAt(Completed)
      <4>1. SlotAt(Completed) # SlotAt(Submitted)
        BY <1>4, <3>1, WindowSlots
      <4> QED BY <1>3, <1>4, <1>7, <3>1, <4>1 DEF HeadAt, TypeOK
    <3> QED BY <1>2, <3>1, <3>2, <3>3 DEF TypeOK
  <2> QED BY <1>1, <2>1 DEF RingInv, RequestAtHand, regs, locals
<1>16. OutDataKept'
  <2>1. r.op = "out" => buf'[h] = chain'[h].data
    BY <1>2 DEF TypeOK
  <2>2. chain'[h] = r
    BY <1>2 DEF TypeOK
  <2>3. \A x \in Desc \ {h} : chain'[x] = chain[x] /\ buf'[x] = buf[x]
    BY <1>2 DEF TypeOK
  <2> QED BY <2>1, <2>2, <2>3 DEF RingInv, OutDataKept, Outstanding
<1> QED BY <1>10, <1>11, <1>12, <1>13, <1>14, <1>15, <1>16 DEF RingInv

\* What consuming a completion does: the window moves by the entry of the
\* request that is handed back.
LEMMA DrainEffect ==
  ASSUME TypeOK, RingInv, NEW v \in Vcpu, Drain(v), drv = "on"
  PROVE  /\ Completed \in Nat \ {0} /\ Submitted \in Nat \ {0} /\ Snapshot \in Nat
         /\ Submitted < IdxMod /\ last_used # last_avail_idx /\ last_used # avail.idx
         /\ Completed' = Completed - 1 /\ Submitted' = Submitted - 1
         /\ Snapshot # 0 => Snapshot' = Snapshot - 1
         /\ \A k \in 0 .. Submitted - 2 : SlotAt(k)' = SlotAt(k + 1) /\ HeadAt(k)' = HeadAt(k + 1)
         /\ used.ring[Slot(last_used)].id = HeadAt(0)
<1> DEFINE h == used.ring[Slot(last_used)].id
<1>0. /\ UNCHANGED <<regs, guest_mem, pc, locals, avail, used, drv>>
      /\ last_used # used.idx /\ last_used' = WrappingInc(last_used)
      /\ chain' = [chain EXCEPT ![h] = None]
  BY DEF Drain
<1>1. /\ used.idx = last_avail_idx /\ Completed <= Submitted /\ Submitted <= QueueSize
      /\ \A w \in Vcpu :
           /\ pc[w] \in QueuePc => Completed <= Snapshot /\ Snapshot <= Submitted
           /\ pc[w] \in {"used", "publish"} => Completed < Snapshot
  BY DEF RingInv, IndicesOrdered
<1>2. /\ Completed \in Nat \ {0} /\ Submitted \in Nat \ {0} /\ Snapshot \in Nat
      /\ Submitted < IdxMod /\ last_used # last_avail_idx /\ last_used # avail.idx
  <2>1. last_used # last_avail_idx /\ Completed # 0
    BY <1>0, <1>1, Positions
  <2>2. Submitted # 0 /\ Submitted < IdxMod
    BY <1>1, <2>1, Positions, RingAssumption
  <2>3. last_used # avail.idx
    BY <2>2, DistIsDistance DEF Submitted, TypeOK
  <2> QED BY <2>1, <2>2, <2>3, Positions
<1>3. Completed' = Completed - 1 /\ Submitted' = Submitted - 1
  <2>1. last_used \in Idx /\ last_avail_idx \in Idx /\ avail.idx \in Idx
    BY DEF TypeOK
  <2> QED BY <1>0, <1>2, <2>1, DistStep DEF Completed, Submitted, regs
<1>4. Snapshot # 0 => Snapshot' = Snapshot - 1
  <2>1. last_used \in Idx /\ avail_idx \in Idx
    BY DEF TypeOK
  <2> QED BY <1>0, <2>1, DistStep, DistIsDistance DEF Snapshot, locals
<1>5. \A k \in 0 .. Submitted - 2 : SlotAt(k)' = SlotAt(k + 1) /\ HeadAt(k)' = HeadAt(k + 1)
  <2>1. \A k \in 0 .. Submitted - 2 : k \in Nat /\ k + 1 < IdxMod
    BY <1>2, RingAssumption
  <2>2. last_used \in Idx
    BY DEF TypeOK
  <2>3. \A k \in 0 .. Submitted - 2 : IdxAt(last_used', k) = IdxAt(last_used, k + 1)
    BY <1>0, <2>1, <2>2, IdxAtStep
  <2> QED BY <1>0, <2>3 DEF SlotAt, HeadAt
<1>6. h = HeadAt(0)
  <2>1. IdxAt(last_used, 0) = last_used
    BY RingAssumption DEF IdxAt, TypeOK, Idx
  <2>2. 0 \in 0 .. Completed - 1
    BY <1>2
  <2> QED BY <2>1, <2>2 DEF RingInv, UsedFollowsAvail, SlotAt
<1> QED BY <1>2, <1>3, <1>4, <1>5, <1>6

\* Consuming a completion moves the driver's end of the window by one entry.
LEMMA RingDrain ==
  ASSUME TypeOK, RingInv, NEW v \in Vcpu, Drain(v)
  PROVE  RingInv'
<1> DEFINE h == used.ring[Slot(last_used)].id
<1>1. /\ UNCHANGED <<regs, guest_mem, pc, locals, avail, used, drv>>
      /\ last_used # used.idx /\ last_used' = WrappingInc(last_used)
      /\ chain' = [chain EXCEPT ![h] = None]
      /\ buf' = [buf EXCEPT ![h] = None] /\ stat' = [stat EXCEPT ![h] = None]
  BY DEF Drain
<1>2. /\ \A x \in Desc \ {h} : chain'[x] = chain[x] /\ buf'[x] = buf[x] /\ stat'[x] = stat[x]
      /\ h \in Desc => chain'[h] = None
  BY <1>1 DEF TypeOK
<1>3. HolderProcesses'
  BY <1>1 DEF RingInv, HolderProcesses
<1>4. RegistersFollow'
  BY <1>1 DEF RingInv, RegistersFollow, regs
<1>5. OutDataKept'
  BY <1>2 DEF RingInv, OutDataKept, Outstanding
<1>7. CASE drv # "on"
  BY <1>1, <1>3, <1>4, <1>5, <1>7
  DEF RingInv, IndicesOrdered, HeadsOwned, UsedFollowsAvail, RequestAtHand
<1>8. CASE drv = "on"
  <2>1. /\ used.idx = last_avail_idx /\ Completed <= Submitted /\ Submitted <= QueueSize
        /\ \A w \in Vcpu :
             /\ pc[w] \in QueuePc => Completed <= Snapshot /\ Snapshot <= Submitted
             /\ pc[w] \in {"used", "publish"} => Completed < Snapshot
    BY <1>8 DEF RingInv, IndicesOrdered
  <2>2. /\ Completed \in Nat \ {0} /\ Submitted \in Nat \ {0} /\ Snapshot \in Nat
        /\ Submitted < IdxMod /\ last_used # last_avail_idx /\ last_used # avail.idx
    BY <1>8, DrainEffect
  <2>3. Completed' = Completed - 1 /\ Submitted' = Submitted - 1
    BY <1>8, DrainEffect
  <2>4. Snapshot # 0 => Snapshot' = Snapshot - 1
    BY <1>8, DrainEffect
  <2>5. \A k \in 0 .. Submitted - 2 : SlotAt(k)' = SlotAt(k + 1) /\ HeadAt(k)' = HeadAt(k + 1)
    BY <1>8, DrainEffect
  <2>6. h = HeadAt(0)
    BY <1>8, DrainEffect
  <2>7. IndicesOrdered'
    <3>1. Completed' <= Submitted' /\ Submitted' <= QueueSize
      BY <2>1, <2>2, <2>3, RingAssumption
    <3>2. /\ Completed <= Snapshot /\ Snapshot <= Submitted =>
               Completed' <= Snapshot' /\ Snapshot' <= Submitted'
          /\ Completed < Snapshot => Completed' < Snapshot'
      BY <2>2, <2>3, <2>4
    <3> QED BY <1>1, <2>1, <3>1, <3>2 DEF IndicesOrdered, regs
  <2>h. \A k \in 0 .. Submitted - 1 :
          /\ chain[HeadAt(k)] # None /\ HeadAt(k) \in Desc
          /\ \A j \in 0 .. Submitted - 1 : HeadAt(j) = HeadAt(k) => j = k
    <3>1. \A k \in 0 .. Submitted - 1 : k \in Nat /\ k < IdxMod
      BY <2>2, RingAssumption
    <3>2. \A k \in 0 .. Submitted - 1 : HeadAt(k) \in Desc
      BY <3>1, WindowTypes
    <3> QED BY <1>8, <3>2 DEF RingInv, HeadsOwned
  <2>k. \A k \in 1 .. Submitted - 1 : HeadAt(k) \in Desc \ {h}
    <3>1. 0 \in 0 .. Submitted - 1 /\ \A k \in 1 .. Submitted - 1 : k \in 0 .. Submitted - 1 /\ k # 0
      BY <2>2
    <3> QED BY <2>6, <2>h, <3>1
  <2>8. HeadsOwned'
    <3>2. \A k \in 0 .. Submitted - 2 : k + 1 \in 0 .. Submitted - 1 /\ k + 1 \in 1 .. Submitted - 1
      BY <2>2
    <3>3. \A k \in 0 .. Submitted - 2 : chain'[HeadAt(k + 1)] # None
      BY <1>2, <2>h, <2>k, <3>2
    <3>4. \A j, k \in 0 .. Submitted - 2 : HeadAt(j + 1) = HeadAt(k + 1) => j = k
      <4>1. \A j, k \in 0 .. Submitted - 2 : HeadAt(j + 1) = HeadAt(k + 1) => j + 1 = k + 1
        BY <2>h, <3>2
      <4> QED BY <2>2, <4>1
    <3>5. 0 .. Submitted' - 1 = 0 .. Submitted - 2
      BY <2>2, <2>3
    <3> QED BY <2>5, <3>3, <3>4, <3>5 DEF HeadsOwned
  <2>9. UsedFollowsAvail'
    <3>1. \A k \in 0 .. Completed - 2 :
            /\ k \in 0 .. Submitted - 2 /\ k + 1 \in 0 .. Completed - 1
            /\ k + 1 \in 1 .. Submitted - 1
      BY <2>1, <2>2
    <3>2. \A k \in 0 .. Completed - 1 :
            used.ring[SlotAt(k)].id = HeadAt(k) /\ stat[HeadAt(k)] = "OK"
      BY <1>8 DEF RingInv, UsedFollowsAvail
    <3>3. 0 .. Completed' - 1 = 0 .. Completed - 2
      BY <2>2, <2>3
    <3>4. \A k \in 0 .. Completed - 2 :
            used.ring[SlotAt(k + 1)].id = HeadAt(k + 1) /\ stat'[HeadAt(k + 1)] = "OK"
      BY <1>2, <2>k, <3>1, <3>2
    <3> QED BY <1>1, <2>5, <3>1, <3>3, <3>4 DEF UsedFollowsAvail
  <2>10. RequestAtHand'
    <3>1. \A w \in Vcpu : pc[w] \in {"used", "publish"} => stat'[head_idx] = stat[head_idx]
      <4>1. SUFFICES ASSUME NEW w \in Vcpu, pc[w] \in {"used", "publish"}
                     PROVE  stat'[head_idx] = stat[head_idx]
        OBVIOUS
      <4>2. HeadAt(Completed) = head_idx /\ Completed < Submitted
        BY <4>1, RequestPosition
      <4>3. Completed \in 1 .. Submitted - 1
        BY <2>2, <4>2
      <4> QED BY <1>2, <2>k, <4>2, <4>3
    <3> QED BY <1>1, <3>1 DEF RingInv, RequestAtHand, regs, locals
  <2> QED BY <1>3, <1>4, <1>5, <2>7, <2>8, <2>9, <2>10 DEF RingInv
<1> QED BY <1>7, <1>8

\* Configuration starts from, and ends with, empty rings.
LEMMA RingConfigure ==
  ASSUME TypeOK, RingInv, NEW v \in Vcpu, Configure(v)
  PROVE  RingInv'
<1> USE BlockAssumption, RingAssumption
<1>1. guest_mem = None /\ UNCHANGED <<guest_mem, pc, locals>>
  BY DEF Configure, DrvReset, DrvAcknowledge, DrvQueueNum, DrvQueueReady, gmem
<1>2. \A w \in Vcpu : pc[w] \notin QueuePc
  BY <1>1 DEF RingInv, HolderProcesses
<1>3. HolderProcesses' /\ RequestAtHand'
  BY <1>1, <1>2 DEF HolderProcesses, RequestAtHand, RingInv
<1>4. OutDataKept'
  BY <1>1 DEF Configure, DrvReset, DrvAcknowledge, DrvQueueNum, DrvQueueReady,
              gmem, RingInv, OutDataKept, Outstanding
<1>5. RegistersFollow'
  <2>1. CASE DrvReset(v)
    BY <1>1, <2>1 DEF DrvReset, WriteStatus, RingInv, RegistersFollow, TypeOK, gmem
  <2>2. CASE DrvAcknowledge(v)
    BY <1>1, <2>2 DEF DrvAcknowledge, NewAvail, NewUsed, WriteStatus, RingInv,
                      RegistersFollow, TypeOK
  <2>3. CASE DrvQueueNum(v)
    BY <1>1, <2>3 DEF DrvQueueNum, WriteQueueNum, RingInv, RegistersFollow, TypeOK, gmem
  <2>4. CASE DrvQueueReady(v)
    BY <1>1, <2>4 DEF DrvQueueReady, WriteQueueReady, RingInv, RegistersFollow, TypeOK, gmem
  <2> QED BY <2>1, <2>2, <2>3, <2>4 DEF Configure
<1>6. drv' = "on" => /\ used'.idx = 0 /\ last_avail_idx' = 0
                     /\ avail'.idx = 0 /\ last_used' = 0
  BY DEF Configure, DrvReset, DrvAcknowledge, DrvQueueNum, DrvQueueReady,
         WriteQueueReady, RingInv, RegistersFollow, gmem
<1>7. drv' = "on" => Completed' = 0 /\ Submitted' = 0
  BY <1>6 DEF Completed, Submitted, Dist
<1>8. IndicesOrdered'
  BY <1>1, <1>2, <1>6, <1>7 DEF IndicesOrdered
<1>9. HeadsOwned' /\ UsedFollowsAvail'
  BY <1>7 DEF HeadsOwned, UsedFollowsAvail
<1> QED BY <1>3, <1>4, <1>5, <1>8, <1>9 DEF RingInv

\* The invariant holds before the driver has touched the device.
LEMMA RingInit ==
  ASSUME Init
  PROVE  TypeOK /\ RingInv
<1> USE BlockAssumption, RingAssumption
<1>1. TypeOK
  <2>1. 0 \in Idx /\ 0 \in Desc
    BY DEF Idx, Desc
  <2>2. avail \in [idx : Idx, ring : [Desc -> Desc]]
    BY <2>1 DEF Init, NewAvail
  <2>3. used \in [idx : Idx, ring : [Desc -> [id : Desc, len : {0, 1, SectorLen + 1}]]]
    BY <2>1 DEF Init, NewUsed
  <2>4. pc \in [Vcpu -> Pc] /\ kick \in [Vcpu -> BOOLEAN]
    BY DEF Init, Pc
  <2>5. /\ chain \in [Desc -> Request \cup {None}]
        /\ buf \in [Desc -> Data \cup {None}]
        /\ stat \in [Desc -> {"OK", None}]
    BY DEF Init
  <2>6. nsub \in 0..MaxSubmit /\ nreset \in 0..MaxReset
    BY DEF Init
  <2> QED BY <2>1, <2>2, <2>3, <2>4, <2>5, <2>6 DEF Init, TypeOK
<1>2. HolderProcesses /\ RegistersFollow /\ IndicesOrdered /\ HeadsOwned
      /\ UsedFollowsAvail /\ RequestAtHand
  BY DEF Init, HolderProcesses, RegistersFollow, IndicesOrdered, HeadsOwned,
         UsedFollowsAvail, RequestAtHand
<1>3. OutDataKept
  BY DEF Init, OutDataKept, Outstanding
<1> QED BY <1>1, <1>2, <1>3 DEF RingInv

\* Every step keeps the invariant.
LEMMA RingStep ==
  ASSUME TypeOK, RingInv, [Next]_vars
  PROVE  RingInv'
<1>1. CASE UNCHANGED vars
  <2>1. UNCHANGED <<regs, guest_mem, pc, locals, gmem, drv, last_used>>
    BY <1>1 DEF vars, driver
  <2>2. HeadsOwned' /\ UsedFollowsAvail' /\ OutDataKept'
    BY <2>1, QuietStep DEF regs, gmem
  <2>3. HolderProcesses' /\ RegistersFollow' /\ IndicesOrdered' /\ RequestAtHand'
    BY <2>1 DEF regs, gmem, locals, RingInv, HolderProcesses, RegistersFollow,
                IndicesOrdered, RequestAtHand, Completed, Submitted, Snapshot
  <2> QED BY <2>2, <2>3 DEF RingInv
<1>2. ASSUME NEW v \in Vcpu, Handle(v) PROVE RingInv'
  BY <1>2, RingNotify, RingProcessChain, RingWriteUsedElem, RingPublishUsed,
     RingInterrupt, RingDrain DEF Handle
<1>3. ASSUME NEW v \in Vcpu, Configure(v) PROVE RingInv'
  BY <1>3, RingConfigure
<1>4. ASSUME NEW v \in Vcpu, NEW h \in Desc, NEW r \in Request, Submit(v, h, r)
      PROVE  RingInv'
  BY <1>4, RingSubmit
<1> QED BY <1>1, <1>2, <1>3, <1>4 DEF Next
-----------------------------------------------------------------------------
\* Every variable keeps its type: the indices stay u16 values through their
\* wrap, every head on a ring is a descriptor of the queue, and each transfer
\* between disk and buffer moves sector contents.
THEOREM TypeCorrect == Spec => []TypeOK
<1>1. Init => TypeOK /\ RingInv
  BY RingInit
<1>2. TypeOK /\ RingInv /\ [Next]_vars => TypeOK' /\ RingInv'
  BY TypeStep, RingStep
<1> QED BY <1>1, <1>2, PTL DEF Spec

\* The inductive invariant: indices in order, heads owned and distinct, the
\* used ring a copy of the consumed part of the avail ring.
THEOREM RingInvariant == Spec => []RingInv
<1>1. Init => TypeOK /\ RingInv
  BY RingInit
<1>2. TypeOK /\ RingInv /\ [Next]_vars => TypeOK' /\ RingInv'
  BY TypeStep, RingStep
<1> QED BY <1>1, <1>2, PTL DEF Spec

\* What add_used and the loop of process_queue leave on the used ring are
\* outstanding requests, each once, in order of submission and with their
\* status byte written, whatever the queue size and however often u16
\* indices have wrapped.
THEOREM CompletionsAreOwned == Spec => []CompletionsOwned
<1>1. TypeOK /\ RingInv => CompletionsOwned
  <2>1. SUFFICES ASSUME TypeOK, RingInv, drv = "on", NEW k \in 0 .. Dist(used.idx, last_used) - 1
                 PROVE  /\ used.ring[SlotAt(k)].id = avail.ring[SlotAt(k)]
                        /\ chain[used.ring[SlotAt(k)].id] # None
                        /\ stat[used.ring[SlotAt(k)].id] = "OK"
                        /\ \A j \in 0 .. k - 1 :
                             used.ring[SlotAt(j)].id # used.ring[SlotAt(k)].id
    BY DEF CompletionsOwned, SlotAt
  <2>2. used.idx = last_avail_idx /\ Completed <= Submitted
    BY <2>1 DEF RingInv, IndicesOrdered
  <2>3. k \in 0 .. Completed - 1 /\ k \in 0 .. Submitted - 1
    BY <2>1, <2>2, Positions DEF Completed
  <2>4. \A j \in 0 .. Completed - 1 :
          used.ring[SlotAt(j)].id = HeadAt(j) /\ stat[HeadAt(j)] = "OK"
    BY <2>1 DEF RingInv, UsedFollowsAvail
  <2>5. /\ chain[HeadAt(k)] # None
        /\ \A j \in 0 .. Submitted - 1 : HeadAt(j) = HeadAt(k) => j = k
    BY <2>1, <2>3 DEF RingInv, HeadsOwned
  <2>6. \A j \in 0 .. k - 1 : j \in 0 .. Completed - 1 /\ j \in 0 .. Submitted - 1 /\ j # k
    BY <2>1, <2>2, <2>3, Positions
  <2> QED BY <2>3, <2>4, <2>5, <2>6 DEF HeadAt
<1> QED BY <1>1, TypeCorrect, RingInvariant, PTL
-----------------------------------------------------------------------------
\* One step keeps NoLostInterrupt.
LEMMA InterruptStep ==
  ASSUME TypeOK, RingInv, NoLostInterrupt, [Next]_vars
  PROVE  NoLostInterrupt'
<1> USE DEF NoLostInterrupt
<1>1. CASE UNCHANGED vars
  BY <1>1 DEF vars, regs, locals, gmem, driver
<1>2. ASSUME NEW v \in Vcpu, Handle(v) PROVE NoLostInterrupt'
  <2> USE DEF regs, locals, gmem, driver
  <2>1. CASE NotifyNotReady(v)
    BY <2>1 DEF NotifyNotReady
  <2>2. CASE NotifyReady(v)
    <3>1. \A w \in Vcpu : pc[w] \notin QueuePc
      BY <2>2, BlockAssumption DEF NotifyReady, RingInv, HolderProcesses
    <3> QED BY <2>2, <3>1 DEF NotifyReady, Goto, TypeOK
  <2>3. CASE ProcessChain(v)
    BY <2>3 DEF ProcessChain, Goto, TypeOK
  <2>4. CASE WriteUsedElem(v)
    <3>1. used'.idx = used.idx
      BY <2>4 DEF WriteUsedElem, TypeOK
    <3> QED BY <2>4, <3>1 DEF WriteUsedElem, Goto, TypeOK
  <2>5. CASE PublishUsed(v)
    <3>1. pc'[v] \in QueuePc /\ work_done'
      BY <2>5 DEF PublishUsed, Goto, TypeOK
    <3> QED BY <3>1
  <2>6. CASE FinishQueue(v)
    <3>1. \A w \in Vcpu : pc[w] \in QueuePc => w = v
      BY <2>6 DEF FinishQueue, RingInv, HolderProcesses
    <3>2. CASE work_done
      BY <2>6, <3>2 DEF FinishQueue, Goto, TypeOK
    <3>3. CASE ~work_done
      BY <2>6, <3>1, <3>3 DEF FinishQueue, Goto, TypeOK
    <3> QED BY <3>2, <3>3
  <2>7. CASE InjectIrq(v)
    BY <2>7 DEF InjectIrq, Goto, TypeOK
  <2>8. CASE TakeIrq(v)
    BY <2>8 DEF TakeIrq, Goto, TypeOK
  <2>9. CASE ReadInterruptStatus(v)
    BY <2>9 DEF ReadInterruptStatus, Goto, TypeOK
  <2>10. CASE AckInterrupt(v)
    <3>1. pc'[v] = "drain"
      BY <2>10 DEF AckInterrupt, Goto, TypeOK
    <3> QED BY <3>1
  <2>11. CASE Drain(v)
    <3>1. pc'[v] = "drain"
      BY <2>11 DEF Drain
    <3> QED BY <3>1
  <2>12. CASE DrainDone(v)
    BY <2>12 DEF DrainDone
  <2> QED BY <1>2, <2>1, <2>2, <2>3, <2>4, <2>5, <2>6, <2>7, <2>8, <2>9,
             <2>10, <2>11, <2>12 DEF Handle
<1>3. ASSUME NEW v \in Vcpu, Configure(v) PROVE NoLostInterrupt'
  <2>1. CASE DrvAcknowledge(v)
    <3>1. used'.idx = 0 /\ last_used' = 0
      BY <2>1 DEF DrvAcknowledge, NewUsed
    <3> QED BY <3>1
  <2>2. CASE DrvReset(v) \/ DrvQueueNum(v) \/ DrvQueueReady(v)
    BY <2>2 DEF DrvReset, DrvQueueNum, DrvQueueReady, WriteStatus, WriteQueueNum,
                WriteQueueReady, gmem, locals
  <2> QED BY <1>3, <2>1, <2>2 DEF Configure
<1>4. ASSUME NEW v \in Vcpu, NEW h \in Desc, NEW r \in Request, Submit(v, h, r)
      PROVE  NoLostInterrupt'
  BY <1>4 DEF Submit, regs, locals
<1> QED BY <1>1, <1>2, <1>3, <1>4 DEF Next

\* No completion is stranded: although interrupt_status is set under guest_mem,
\* irq 5 raised after it is released, and INTERRUPT_ACK may come in between
\* from another vCPU.
THEOREM InterruptsNotLost == Spec => []NoLostInterrupt
<1>1. Init => NoLostInterrupt
  BY DEF Init, NewUsed, NoLostInterrupt
<1>2. TypeOK /\ RingInv /\ NoLostInterrupt /\ [Next]_vars => NoLostInterrupt'
  BY InterruptStep
<1> QED BY <1>1, <1>2, TypeCorrect, RingInvariant, PTL DEF Spec

\* One step keeps NoLostKick.
LEMMA KickStep ==
  ASSUME TypeOK, RingInv, NoLostKick, [Next]_vars
  PROVE  NoLostKick'
<1> USE DEF NoLostKick, Processing
<1>1. CASE UNCHANGED vars
  BY <1>1 DEF vars, regs, locals, gmem, driver
<1>2. ASSUME NEW v \in Vcpu, Handle(v) PROVE NoLostKick'
  <2> USE DEF regs, locals, gmem, driver
  <2>1. CASE NotifyNotReady(v)
    <3>1. drv # "on"
      BY <2>1, RingAssumption DEF NotifyNotReady, RingInv, RegistersFollow
    <3> QED BY <2>1, <3>1 DEF NotifyNotReady
  <2>2. CASE NotifyReady(v)
    <3>1. pc'[v] \in QueuePc /\ avail_idx' = avail'.idx
      BY <2>2 DEF NotifyReady, Goto, TypeOK
    <3> QED BY <3>1
  <2>3. CASE ProcessChain(v)
    BY <2>3 DEF ProcessChain, Goto, TypeOK
  <2>4. CASE WriteUsedElem(v)
    BY <2>4 DEF WriteUsedElem, Goto, TypeOK
  <2>5. CASE PublishUsed(v)
    <3>1. pc[v] \in QueuePc /\ pc'[v] \in QueuePc
      BY <2>5 DEF PublishUsed, Goto, TypeOK
    <3> QED BY <2>5, <3>1 DEF PublishUsed
  <2>6. CASE FinishQueue(v)
    <3>1. \A w \in Vcpu : pc[w] \in QueuePc => w = v
      BY <2>6 DEF FinishQueue, RingInv, HolderProcesses
    <3> QED BY <2>6, <3>1 DEF FinishQueue, Goto, TypeOK
  <2>7. CASE InjectIrq(v) \/ TakeIrq(v) \/ ReadInterruptStatus(v) \/ AckInterrupt(v)
             \/ Drain(v) \/ DrainDone(v)
    <3>1. \A w \in Vcpu : pc'[w] \in QueuePc <=> pc[w] \in QueuePc
      BY <2>7 DEF InjectIrq, TakeIrq, ReadInterruptStatus, AckInterrupt, Drain,
                  DrainDone, Goto, TypeOK
    <3>2. UNCHANGED <<drv, kick, avail_idx, avail, last_avail_idx>>
      BY <2>7 DEF InjectIrq, TakeIrq, ReadInterruptStatus, AckInterrupt,
                  WriteInterruptAck, Drain, DrainDone
    <3> QED BY <3>1, <3>2
  <2> QED BY <1>2, <2>1, <2>2, <2>3, <2>4, <2>5, <2>6, <2>7 DEF Handle
<1>3. ASSUME NEW v \in Vcpu, Configure(v) PROVE NoLostKick'
  <2>1. CASE DrvQueueReady(v)
    <3>1. \A w \in Vcpu : pc'[w] \notin QueuePc
      BY <2>1, BlockAssumption DEF DrvQueueReady, RingInv, HolderProcesses
    <3>2. last_avail_idx' = avail'.idx
      BY <2>1 DEF DrvQueueReady, WriteQueueReady, gmem, RingInv, RegistersFollow
    <3> QED BY <3>1, <3>2
  <2>2. CASE DrvReset(v) \/ DrvAcknowledge(v) \/ DrvQueueNum(v)
    BY <2>2 DEF DrvReset, DrvAcknowledge, DrvQueueNum
  <2> QED BY <1>3, <2>1, <2>2 DEF Configure
<1>4. ASSUME NEW v \in Vcpu, NEW h \in Desc, NEW r \in Request, Submit(v, h, r)
      PROVE  NoLostKick'
  <2>1. kick'[v]
    BY <1>4 DEF Submit, TypeOK
  <2> QED BY <2>1
<1> QED BY <1>1, <1>2, <1>3, <1>4 DEF Next

\* No notification is lost: process_queue reads avail.idx once while other
\* vCPUs keep submitting, and still every request on the ring lies in the
\* range it is working through or has its QUEUE_NOTIFY ahead.
THEOREM KicksNotLost == Spec => []NoLostKick
<1>1. Init => NoLostKick
  BY DEF Init, NoLostKick
<1>2. TypeOK /\ RingInv /\ NoLostKick /\ [Next]_vars => NoLostKick'
  BY KickStep
<1> QED BY <1>1, <1>2, TypeCorrect, RingInvariant, PTL DEF Spec
-----------------------------------------------------------------------------
(***************************************************************************)
(* The device implements BlockService.                                     *)
(***************************************************************************)

\* A request is between its transfer and the update of used.idx.
Midway == \E v \in Vcpu : pc[v] \in {"used", "publish"}

\* How many requests from last_used on have been executed.
Handled == Completed + Executed

\* What the driver sees of the k-th entry from last_used on: the request, and
\* the request with its result.
RequestOf(k) == [tag |-> HeadAt(k), req |-> chain[HeadAt(k)]]
ResultOf(k)  == [tag |-> HeadAt(k), req |-> chain[HeadAt(k)], data |-> buf[HeadAt(k)]]

\* Both sequences of BlockService, read off the avail ring alone.
PendingRing == [k \in 1 .. Submitted - Handled |-> RequestOf(Handled + k - 1)]
DoneRing    == [k \in 1 .. Handled |-> ResultOf(k - 1)]

\* The request in process_queue counts as executed.
LEMMA HandledIs == Handled = Completed + (IF Midway THEN 1 ELSE 0)
BY DEF Handled, Executed, Midway

\* The same after a step.
LEMMA HandledAfter == Handled' = Completed' + (IF Midway' THEN 1 ELSE 0)
BY DEF Handled, Executed, Midway

\* The executed requests are a part of the submitted ones.
LEMMA HandledBounds ==
  ASSUME TypeOK, RingInv, drv = "on"
  PROVE  /\ Handled \in Nat /\ Submitted \in Nat /\ Completed \in Nat
         /\ Completed <= Handled /\ Handled <= Submitted /\ Submitted <= QueueSize
         /\ Submitted < IdxMod /\ Submitted - Handled \in Nat
         /\ Midway => Handled = Completed + 1 /\ HeadAt(Completed) = head_idx
         /\ ~Midway => Handled = Completed
<1>1. Completed \in Nat /\ Submitted \in Nat
  BY Positions
<1>2. Completed <= Submitted /\ Submitted <= QueueSize
  BY DEF RingInv, IndicesOrdered
<1>3. Midway => Completed < Submitted /\ HeadAt(Completed) = head_idx
  BY RequestPosition DEF Midway
<1> QED BY <1>1, <1>2, <1>3, HandledIs, RingAssumption

\* The entries of the window are different descriptors.
LEMMA HeadsDiffer ==
  ASSUME TypeOK, RingInv, drv = "on"
  PROVE  /\ \A k \in 0 .. Submitted - 1 : HeadAt(k) \in Desc
         /\ \A j, k \in 0 .. Submitted - 1 : HeadAt(j) = HeadAt(k) => j = k
<1>1. \A k \in 0 .. Submitted - 1 : k \in Nat /\ k < IdxMod
  BY HandledBounds, RingAssumption
<1> QED BY <1>1, WindowTypes DEF RingInv, HeadsOwned

\* The results are the same on the used ring and in process_queue.
LEMMA DoneSame == TypeOK /\ RingInv /\ drv = "on" => Done = DoneRing
<1> SUFFICES ASSUME TypeOK, RingInv, drv = "on" PROVE Done = DoneRing
  OBVIOUS
<1>1. used.idx = last_avail_idx
  BY DEF RingInv, IndicesOrdered
<1>2. Dist(used.idx, last_used) = Completed /\ Dist(last_avail_idx, last_used) = Completed
  BY <1>1 DEF Completed
<1> DEFINE H(k) == IF k <= Completed THEN used.ring[Slot(IdxAt(last_used, k - 1))].id ELSE head_idx
<1>3. Done = [k \in 1 .. Handled |->
                [tag |-> H(k), req |-> chain[H(k)], data |-> buf[H(k)]]]
  BY <1>2 DEF Done, Handled
<1>4. ASSUME NEW k \in 1 .. Handled PROVE H(k) = HeadAt(k - 1)
  <2>1. CASE k <= Completed
    <3>1. k - 1 \in 0 .. Completed - 1
      BY <2>1, HandledBounds
    <3>2. used.ring[SlotAt(k - 1)].id = HeadAt(k - 1)
      BY <3>1 DEF RingInv, UsedFollowsAvail
    <3> QED BY <2>1, <3>2 DEF SlotAt
  <2>2. CASE ~(k <= Completed)
    <3>1. Midway /\ k - 1 = Completed
      BY <2>2, HandledBounds
    <3> QED BY <2>2, <3>1, HandledBounds
  <2> QED BY <2>1, <2>2
<1> HIDE DEF H
<1> QED BY <1>3, <1>4 DEF DoneRing, ResultOf

\* The requests are the same from last_avail_idx on and from last_used on.
LEMMA PendingSame == TypeOK /\ RingInv /\ drv = "on" => Pending = PendingRing
<1> SUFFICES ASSUME TypeOK, RingInv, drv = "on" PROVE Pending = PendingRing
  OBVIOUS
<1> DEFINE f == Executed
           c == Completed
           n == Submitted
<1>1. f \in Nat
  BY DEF Executed
<1>2. c \in Nat /\ n \in Nat /\ c <= n /\ Handled = c + f /\ c + f <= n /\ n < IdxMod /\ IdxMod \in Nat
  BY HandledBounds, RingAssumption DEF Handled
<1>3. /\ avail.idx \in Idx /\ last_avail_idx \in Idx /\ last_used \in Idx
      /\ IdxAt(last_used, c) = last_avail_idx
  BY Positions DEF TypeOK
<1>4. Dist(avail.idx, last_avail_idx) = n - c
  BY <1>2, <1>3, DistSplit DEF Submitted, Completed
<1> DEFINE H(k) == avail.ring[Slot(IdxAt(last_avail_idx, k - 1 + f))]
<1>5. Pending = [k \in 1 .. n - c - f |-> [tag |-> H(k), req |-> chain[H(k)]]]
  BY <1>4 DEF Pending
<1> HIDE DEF c, n, f
<1>6. n - c - f = n - (c + f)
  BY <1>1, <1>2
<1>7. ASSUME NEW k \in 1 .. n - (c + f) PROVE H(k) = HeadAt((c + f) + k - 1)
  <2>1. k - 1 + f \in Nat /\ c + (k - 1 + f) < IdxMod /\ c + (k - 1 + f) = (c + f) + k - 1
    BY <1>1, <1>2
  <2>2. IdxAt(last_avail_idx, k - 1 + f) = IdxAt(last_used, (c + f) + k - 1)
    BY <1>2, <1>3, <2>1, IdxAtAdd
  <2> QED BY <2>2 DEF HeadAt, SlotAt
<1> HIDE DEF H
<1>8. Pending = [k \in 1 .. n - (c + f) |-> RequestOf((c + f) + k - 1)]
  BY <1>5, <1>6, <1>7 DEF RequestOf
<1> QED BY <1>2, <1>8 DEF PendingRing, n

\* The types of the entries.
Requests == [tag : Desc, req : Request \cup {None}]
Results  == [tag : Desc, req : Request \cup {None}, data : Data \cup {None}]

\* What is read off the ring are sequences of requests and of results.
LEMMA RingsTyped ==
  TypeOK /\ RingInv /\ drv = "on" =>
    /\ PendingRing \in [1 .. Submitted - Handled -> Requests]
    /\ DoneRing \in [1 .. Handled -> Results]
<1> SUFFICES ASSUME TypeOK, RingInv, drv = "on"
             PROVE  /\ PendingRing \in [1 .. Submitted - Handled -> Requests]
                    /\ DoneRing \in [1 .. Handled -> Results]
  OBVIOUS
<1>1. \A k \in 0 .. Submitted - 1 : RequestOf(k) \in Requests /\ ResultOf(k) \in Results
  BY HeadsDiffer DEF RequestOf, ResultOf, Requests, Results, TypeOK
<1>2. \A k \in 1 .. Submitted - Handled : Handled + k - 1 \in 0 .. Submitted - 1
  BY HandledBounds
<1>3. \A k \in 1 .. Handled : k - 1 \in 0 .. Submitted - 1
  BY HandledBounds
<1> QED BY <1>1, <1>2, <1>3 DEF PendingRing, DoneRing

\* Both views before and after a step of a driver that is on.
LEMMA Views ==
  ASSUME TypeOK, RingInv, drv = "on", TypeOK', RingInv', drv' = "on"
  PROVE  /\ Done = DoneRing /\ Pending = PendingRing
         /\ Done' = DoneRing' /\ Pending' = PendingRing'
         /\ PendingRing \in [1 .. Submitted - Handled -> Requests]
         /\ DoneRing \in [1 .. Handled -> Results]
         /\ PendingRing' \in [1 .. Submitted' - Handled' -> Requests]
         /\ DoneRing' \in [1 .. Handled' -> Results]
<1>1. (TypeOK /\ RingInv /\ drv = "on" => Done = DoneRing)'
  BY DoneSame, PTL
<1>2. (TypeOK /\ RingInv /\ drv = "on" => Pending = PendingRing)'
  BY PendingSame, PTL
<1>3. (TypeOK /\ RingInv /\ drv = "on" =>
         /\ PendingRing \in [1 .. Submitted - Handled -> Requests]
         /\ DoneRing \in [1 .. Handled -> Results])'
  BY RingsTyped, PTL
<1>4. /\ PendingRing' \in [1 .. Submitted' - Handled' -> Requests]
      /\ DoneRing' \in [1 .. Handled' -> Results]
  BY <1>3 DEF Requests, Results, Request
<1> QED BY <1>1, <1>2, <1>4, DoneSame, PendingSame, RingsTyped

\* Without a driver nothing is on the way.
LEMMA OffView ==
  /\ drv # "on" => Done = <<>> /\ Pending = <<>>
  /\ drv' # "on" => Done' = <<>> /\ Pending' = <<>>
BY DEF Done, Pending

\* A step that leaves the rings, the driver and the request at hand alone.
LEMMA ViewKept ==
  ASSUME UNCHANGED <<avail, used, chain, buf, last_used, last_avail_idx, head_idx, drv>>,
         Midway' <=> Midway
  PROVE  Done' = Done /\ Pending' = Pending
<1>1. Executed' = Executed
  BY DEF Executed, Midway
<1> QED BY <1>1 DEF Done, Pending

\* A thread that is not in the middle of a request leaves it where it is.
LEMMA MidwayKept ==
  ASSUME TypeOK, NEW v \in Vcpu, NEW to, Goto(v, to), pc[v] \notin {"used", "publish"},
         to \notin {"used", "publish"}
  PROVE  Midway' <=> Midway
BY DEF Goto, Midway, TypeOK

\* The thread in process_queue is the only one there.
LEMMA MidwayOwned ==
  ASSUME TypeOK, RingInv, NEW v \in Vcpu, pc[v] \in QueuePc, NEW to \in QueuePc, Goto(v, to)
  PROVE  /\ Midway <=> pc[v] # "loop"
         /\ Midway' <=> to # "loop"
<1>1. \A w \in Vcpu : pc[w] \in QueuePc => w = v
  BY DEF RingInv, HolderProcesses
<1>2. pc' = [pc EXCEPT ![v] = to] /\ pc \in [Vcpu -> Pc]
  BY DEF Goto, TypeOK
<1>3. \A w \in Vcpu \ {v} : pc'[w] \notin QueuePc
  BY <1>1, <1>2
<1>4. pc'[v] = to
  BY <1>2
<1> QED BY <1>1, <1>3, <1>4 DEF Midway

\* The transfer executes the request at the front: it moves the data that the
\* driver wrote when it submitted the request, and no other result changes.
LEMMA ExecuteView ==
  ASSUME TypeOK, RingInv, TypeOK', RingInv', ~IoMayFail, NEW v \in Vcpu, ProcessChain(v)
  PROVE  Service!Execute
<1> DEFINE h == avail.ring[Slot(last_avail_idx)]
           r == chain[h]
<1>1. /\ pc[v] = "loop" /\ Goto(v, "used") /\ last_avail_idx # avail_idx
      /\ disk' = IF r.op = "out" THEN [disk EXCEPT ![r.sector] = buf[h]] ELSE disk
      /\ buf' = IF r.op = "in" THEN [buf EXCEPT ![h] = disk[r.sector]] ELSE buf
      /\ UNCHANGED <<last_avail_idx, avail, used, chain, last_used, drv>>
  BY DEF ProcessChain, regs, driver
<1>2. /\ drv = "on" /\ Slot(last_avail_idx) = SlotAt(Completed) /\ Completed < Submitted
      /\ h \in Desc /\ r \in Request
  <2>1. Completed \in 0 .. Submitted - 1
    BY <1>1, ChainAtHand
  <2> QED BY <1>1, <2>1, ChainAtHand, Positions
<1>3. ~Midway /\ Midway'
  BY <1>1, MidwayOwned
<1>4. /\ drv' = "on" /\ Completed' = Completed /\ Submitted' = Submitted
      /\ \A k : HeadAt(k)' = HeadAt(k)
  BY <1>1, <1>2 DEF Completed, Submitted, HeadAt, SlotAt
<1>c. PICK c \in Nat : c = Completed
  BY Positions
<1>n. PICK n \in Nat : n = Submitted - c
  BY <1>2, <1>c, Positions
<1>5. /\ Handled = c /\ Handled' = c + 1 /\ Submitted \in Nat /\ n # 0 /\ Submitted = c + n
      /\ Submitted' - Handled' = n - 1
  BY <1>2, <1>3, <1>4, <1>c, <1>n, Positions, HandledIs, HandledAfter
<1>6. h = HeadAt(c)
  BY <1>2, <1>c DEF HeadAt
<1>7. r.op \in {"in", "out"} /\ (r.op = "out" => buf[h] = r.data)
  <2>1. h \in Outstanding
    BY <1>2, RequestAssumption DEF Outstanding
  <2> QED BY <1>2, <2>1 DEF RingInv, OutDataKept, Request
<1>8. /\ buf'[h] = IF r.op = "out" THEN r.data ELSE disk[r.sector]
      /\ \A x \in Desc \ {h} : buf'[x] = buf[x]
  BY <1>1, <1>2, <1>7 DEF TypeOK
<1>9. disk' = IF r.op = "out" THEN [disk EXCEPT ![r.sector] = r.data] ELSE disk
  BY <1>1, <1>7
<1> HIDE DEF h, r
<1>10. r = chain[HeadAt(c)] /\ chain' = chain
  BY <1>1, <1>6 DEF r
<1>11. PendingRing = [k \in 1 .. n |-> RequestOf(c + k - 1)]
  BY <1>5, <1>n DEF PendingRing
<1>12. PendingRing' = [k \in 1 .. n - 1 |-> RequestOf((c + 1) + k - 1)]
  BY <1>4, <1>5, <1>10 DEF PendingRing, RequestOf
<1>13. \A k \in 1 .. n - 1 : PendingRing'[k] = PendingRing[k + 1]
  <2>1. SUFFICES ASSUME NEW k \in 1 .. n - 1 PROVE PendingRing'[k] = PendingRing[k + 1]
    OBVIOUS
  <2>2. k + 1 \in 1 .. n /\ (c + 1) + k - 1 = c + (k + 1) - 1
    OBVIOUS
  <2> QED BY <1>11, <1>12, <2>2
<1>14. PendingRing[1] = [tag |-> h, req |-> r]
  <2>1. 1 \in 1 .. n /\ c + 1 - 1 = c
    BY <1>5
  <2> QED BY <1>6, <1>10, <1>11, <2>1 DEF RequestOf
<1>15. PendingRing # <<>> /\ Head(PendingRing) = PendingRing[1] /\ PendingRing' = Tail(PendingRing)
  <2> DEFINE S == Requests
  <2>1. PendingRing \in [1 .. n -> S] /\ PendingRing' \in [1 .. n - 1 -> S]
    BY <1>2, <1>4, <1>5, <1>n, Views
  <2> HIDE DEF S
  <2> QED BY <1>5, <1>13, <2>1, WindowTail
<1>16. DoneRing = [k \in 1 .. c |-> ResultOf(k - 1)]
  BY <1>5 DEF DoneRing
<1>17. DoneRing' = [k \in 1 .. c + 1 |->
                      [tag |-> HeadAt(k - 1), req |-> chain[HeadAt(k - 1)], data |-> buf'[HeadAt(k - 1)]]]
  BY <1>4, <1>5, <1>10 DEF DoneRing, ResultOf
<1>18. \A k \in 1 .. c : DoneRing'[k] = DoneRing[k]
  <2>1. SUFFICES ASSUME NEW k \in 1 .. c PROVE DoneRing'[k] = DoneRing[k]
    OBVIOUS
  <2>2. k - 1 \in 0 .. Submitted - 1 /\ c \in 0 .. Submitted - 1 /\ k - 1 # c /\ k \in 1 .. c + 1
    BY <1>5
  <2>3. HeadAt(k - 1) \in Desc \ {h}
    BY <1>2, <1>6, <2>2, HeadsDiffer
  <2> QED BY <1>8, <1>16, <1>17, <2>2, <2>3 DEF ResultOf
<1>19. DoneRing'[c + 1] = [tag |-> h, req |-> r,
                           data |-> IF r.op = "out" THEN r.data ELSE disk[r.sector]]
  <2>1. c + 1 \in 1 .. c + 1 /\ (c + 1) - 1 = c
    OBVIOUS
  <2> QED BY <1>6, <1>8, <1>10, <1>17, <2>1
<1>20. DoneRing' = Append(DoneRing, DoneRing'[c + 1])
  <2> DEFINE S == Results
  <2>1. DoneRing \in [1 .. c -> S] /\ DoneRing' \in [1 .. c + 1 -> S]
    BY <1>2, <1>4, <1>5, Views
  <2> HIDE DEF S
  <2> QED BY <1>18, <2>1, WindowAppend
<1>21. Done = DoneRing /\ Pending = PendingRing /\ Done' = DoneRing' /\ Pending' = PendingRing'
  BY <1>2, <1>4, Views
<1>22. Head(Pending) = [tag |-> h, req |-> r] /\ Pending # <<>> /\ Pending' = Tail(Pending)
  BY <1>14, <1>15, <1>21
<1>23. Done' = Append(Done, [tag |-> h, req |-> r,
                             data |-> IF r.op = "out" THEN r.data ELSE disk[r.sector]])
  BY <1>19, <1>20, <1>21
<1>24. Head(Pending).tag = h /\ Head(Pending).req = r
  BY <1>22
<1> QED BY <1>9, <1>22, <1>23, <1>24 DEF Service!Execute

\* The update of used.idx shows nothing new: the request counted before.
LEMMA PublishView ==
  ASSUME TypeOK, RingInv, TypeOK', RingInv', NEW v \in Vcpu, PublishUsed(v)
  PROVE  Done' = Done /\ Pending' = Pending
<1>1. /\ pc[v] = "publish" /\ Goto(v, "loop") /\ last_avail_idx' = WrappingInc(last_avail_idx)
      /\ UNCHANGED <<avail, chain, buf, last_used, drv>>
  BY DEF PublishUsed, driver
<1>2. drv = "on" /\ Completed < Submitted /\ Submitted <= QueueSize
  BY <1>1, RequestPosition
<1>3. Midway /\ ~Midway'
  BY <1>1, MidwayOwned
<1>4. Completed' = Completed + 1
  <2>1. last_avail_idx \in Idx /\ last_used \in Idx
    BY DEF TypeOK
  <2>2. Completed + 1 < IdxMod
    BY <1>2, Positions, RingAssumption
  <2>3. Dist(WrappingInc(last_avail_idx), last_used) = Completed + 1
    BY <2>1, <2>2, DistStep DEF Completed
  <2> QED BY <1>1, <2>3 DEF Completed
<1>5. Handled' = Handled
  BY <1>3, <1>4, Positions, HandledIs, HandledAfter
<1>6. Submitted' = Submitted /\ \A k : RequestOf(k)' = RequestOf(k) /\ ResultOf(k)' = ResultOf(k)
  BY <1>1 DEF Submitted, RequestOf, ResultOf, HeadAt, SlotAt
<1>7. PendingRing' = PendingRing /\ DoneRing' = DoneRing
  BY <1>5, <1>6 DEF PendingRing, DoneRing
<1> QED BY <1>1, <1>2, <1>7, Views

\* The used element is written behind the ones that the driver can see.
LEMMA ElementView ==
  ASSUME TypeOK, RingInv, TypeOK', RingInv', NEW v \in Vcpu, WriteUsedElem(v)
  PROVE  Done' = Done /\ Pending' = Pending
<1>1. /\ pc[v] = "used" /\ Goto(v, "publish")
      /\ UNCHANGED <<last_avail_idx, avail, chain, buf, last_used, drv>>
  BY DEF WriteUsedElem, driver, regs
<1>2. drv = "on"
  BY <1>1, RequestPosition
<1>3. Midway /\ Midway'
  BY <1>1, MidwayOwned
<1>4. Completed' = Completed /\ Handled' = Handled
  <2>1. Completed' = Completed
    BY <1>1 DEF Completed
  <2> QED BY <1>3, <2>1, HandledIs, HandledAfter
<1>5. Submitted' = Submitted /\ \A k : RequestOf(k)' = RequestOf(k) /\ ResultOf(k)' = ResultOf(k)
  BY <1>1 DEF Submitted, RequestOf, ResultOf, HeadAt, SlotAt
<1>6. PendingRing' = PendingRing /\ DoneRing' = DoneRing
  BY <1>4, <1>5 DEF PendingRing, DoneRing
<1> QED BY <1>1, <1>2, <1>6, Views

\* A submission goes behind the requests that are waiting, and its buffer is
\* none of those that hold a result.
LEMMA SubmitView ==
  ASSUME TypeOK, RingInv, TypeOK', RingInv', NEW v \in Vcpu, NEW h \in Desc, NEW r \in Request,
         Submit(v, h, r)
  PROVE  Service!Submit(h, r)
<1>1. /\ drv = "on" /\ drv' = "on" /\ UNCHANGED <<disk, pc>>
      /\ chain' = [chain EXCEPT ![h] = r] /\ buf' = [buf EXCEPT ![h] = r.data]
  BY DEF Submit
<1>n. PICK n \in Nat : n = Submitted
  BY Positions
<1>2. /\ Completed' = Completed /\ Submitted' = n + 1
      /\ \A k \in 0 .. n : HeadAt(k) \in Desc
      /\ \A k \in 0 .. n : HeadAt(k)' = IF k = n THEN h ELSE HeadAt(k)
      /\ \A k \in 0 .. n - 1 : HeadAt(k) # h
  BY <1>n, SubmitEffect
<1>3. Midway' <=> Midway
  BY <1>1 DEF Midway
<1>m. PICK m \in Nat : m = Handled
  BY <1>1, HandledBounds
<1>4. m <= n /\ Handled' = m
  BY <1>1, <1>2, <1>3, <1>m, <1>n, HandledBounds, HandledIs, HandledAfter
<1>w. PICK w \in Nat : w = n - m
  BY <1>4
<1>5. /\ chain'[h] = r
      /\ \A x \in Desc \ {h} : chain'[x] = chain[x] /\ buf'[x] = buf[x]
  BY <1>1 DEF TypeOK
<1>6. \A k \in 0 .. n - 1 : RequestOf(k)' = RequestOf(k) /\ ResultOf(k)' = ResultOf(k)
  <2>1. \A k \in 0 .. n - 1 : HeadAt(k)' = HeadAt(k) /\ HeadAt(k) \in Desc \ {h}
    BY <1>2
  <2> QED BY <1>5, <2>1 DEF RequestOf, ResultOf
<1>7. RequestOf(n)' = [tag |-> h, req |-> r]
  <2>1. HeadAt(n)' = h
    BY <1>2
  <2> QED BY <1>5, <2>1 DEF RequestOf
<1>8. PendingRing = [k \in 1 .. w |-> RequestOf(m + k - 1)]
  BY <1>m, <1>n, <1>w DEF PendingRing
<1>9. PendingRing' = [k \in 1 .. w + 1 |-> RequestOf(m + k - 1)']
  <2>1. Submitted' - Handled' = w + 1
    BY <1>2, <1>4, <1>w
  <2> QED BY <1>4, <2>1 DEF PendingRing
<1>10. \A k \in 1 .. w : PendingRing'[k] = PendingRing[k]
  <2>1. SUFFICES ASSUME NEW k \in 1 .. w PROVE PendingRing'[k] = PendingRing[k]
    OBVIOUS
  <2>2. m + k - 1 \in 0 .. n - 1 /\ k \in 1 .. w + 1
    BY <1>w
  <2> QED BY <1>6, <1>8, <1>9, <2>2
<1>11. PendingRing'[w + 1] = [tag |-> h, req |-> r]
  <2>1. w + 1 \in 1 .. w + 1 /\ m + (w + 1) - 1 = n
    BY <1>w
  <2> QED BY <1>7, <1>9, <2>1
<1>12. PendingRing' = Append(PendingRing, PendingRing'[w + 1])
  <2> DEFINE S == Requests
  <2>1. Submitted' - Handled' = w + 1 /\ Submitted - Handled = w
    BY <1>2, <1>4, <1>m, <1>n, <1>w
  <2>2. PendingRing \in [1 .. w -> S] /\ PendingRing' \in [1 .. w + 1 -> S]
    BY <1>1, <2>1, Views
  <2> HIDE DEF S
  <2> QED BY <1>10, <2>2, WindowAppend
<1>13. DoneRing' = DoneRing
  <2>1. DoneRing = [k \in 1 .. m |-> ResultOf(k - 1)]
    BY <1>m DEF DoneRing
  <2>2. DoneRing' = [k \in 1 .. m |-> ResultOf(k - 1)']
    BY <1>4 DEF DoneRing
  <2>3. \A k \in 1 .. m : k - 1 \in 0 .. n - 1
    BY <1>4
  <2> QED BY <1>6, <2>1, <2>2, <2>3
<1> QED BY <1>1, <1>11, <1>12, <1>13, Views DEF Service!Submit

\* The driver takes the oldest result; the request that it frees is neither
\* waiting nor one of the other results.
LEMMA HandBackView ==
  ASSUME TypeOK, RingInv, TypeOK', RingInv', NEW v \in Vcpu, Drain(v), drv = "on"
  PROVE  Service!HandBack
<1>n. PICK n \in Nat : n = Submitted
  BY Positions
<1>c. PICK c \in Nat : c = Completed
  BY Positions
<1>1. /\ drv' = "on" /\ UNCHANGED <<disk, pc>>
      /\ chain' = [chain EXCEPT ![HeadAt(0)] = None]
      /\ buf' = [buf EXCEPT ![HeadAt(0)] = None]
  BY DrainEffect DEF Drain
<1>2. /\ c # 0 /\ n # 0 /\ Completed' = c - 1 /\ Submitted' = n - 1
      /\ \A k \in 0 .. n - 2 : HeadAt(k)' = HeadAt(k + 1)
  BY <1>n, <1>c, DrainEffect
<1>3. Midway' <=> Midway
  BY <1>1 DEF Midway
<1>m. PICK m \in Nat : m = Handled
  BY HandledBounds
<1>4. m # 0 /\ m <= n /\ Handled' = m - 1
  <2>1. Handled = c + (IF Midway THEN 1 ELSE 0) /\ Handled <= n
    BY <1>n, <1>c, HandledBounds, HandledIs
  <2>2. Handled' = (c - 1) + (IF Midway THEN 1 ELSE 0)
    BY <1>2, <1>3, HandledAfter
  <2> QED BY <1>2, <1>m, <2>1, <2>2
<1>5. \A k \in 0 .. n - 2 : RequestOf(k)' = RequestOf(k + 1) /\ ResultOf(k)' = ResultOf(k + 1)
  <2>1. SUFFICES ASSUME NEW k \in 0 .. n - 2
                 PROVE  RequestOf(k)' = RequestOf(k + 1) /\ ResultOf(k)' = ResultOf(k + 1)
    OBVIOUS
  <2>2. k + 1 \in 0 .. n - 1 /\ 0 \in 0 .. n - 1 /\ k + 1 # 0
    BY <1>2
  <2>3. HeadAt(k + 1) # HeadAt(0) /\ HeadAt(k + 1) \in Desc
    BY <1>n, <2>2, HeadsDiffer
  <2>4. chain'[HeadAt(k + 1)] = chain[HeadAt(k + 1)] /\ buf'[HeadAt(k + 1)] = buf[HeadAt(k + 1)]
    BY <1>1, <2>3 DEF TypeOK
  <2>5. HeadAt(k)' = HeadAt(k + 1)
    BY <1>2
  <2> QED BY <2>4, <2>5 DEF RequestOf, ResultOf
<1>6. PendingRing' = PendingRing
  <2>1. PendingRing = [k \in 1 .. n - m |-> RequestOf(m + k - 1)]
    BY <1>m, <1>n DEF PendingRing
  <2>2. Submitted' - Handled' = n - m
    BY <1>2, <1>4
  <2>3. PendingRing' = [k \in 1 .. n - m |-> RequestOf((m - 1) + k - 1)']
    BY <1>4, <2>2 DEF PendingRing
  <2>4. ASSUME NEW k \in 1 .. n - m PROVE RequestOf((m - 1) + k - 1)' = RequestOf(m + k - 1)
    <3>1. PICK j \in 0 .. n - 2 : j = (m - 1) + k - 1
      BY <1>4
    <3>2. j + 1 = m + k - 1
      BY <3>1
    <3> QED BY <1>5, <3>1, <3>2
  <2> QED BY <2>1, <2>3, <2>4
<1>7. DoneRing = [k \in 1 .. m |-> ResultOf(k - 1)]
  BY <1>m DEF DoneRing
<1>8. DoneRing' = [k \in 1 .. m - 1 |-> ResultOf(k - 1)']
  BY <1>4 DEF DoneRing
<1>9. \A k \in 1 .. m - 1 : DoneRing'[k] = DoneRing[k + 1]
  <2>1. SUFFICES ASSUME NEW k \in 1 .. m - 1 PROVE DoneRing'[k] = DoneRing[k + 1]
    OBVIOUS
  <2>2. k - 1 \in 0 .. n - 2 /\ k + 1 \in 1 .. m /\ (k + 1) - 1 = (k - 1) + 1
    BY <1>4
  <2> QED BY <1>5, <1>7, <1>8, <2>2
<1>10. DoneRing # <<>> /\ DoneRing' = Tail(DoneRing)
  <2> DEFINE S == Results
  <2>1. DoneRing \in [1 .. m -> S] /\ DoneRing' \in [1 .. m - 1 -> S]
    BY <1>1, <1>4, <1>m, Views
  <2> HIDE DEF S
  <2> QED BY <1>4, <1>9, <2>1, WindowTail
<1> QED BY <1>1, <1>6, <1>10, Views DEF Service!HandBack

\* Configuring the device shows nothing: the rings it ends up with are empty.
LEMMA ConfigureView ==
  ASSUME TypeOK, RingInv, TypeOK', RingInv', NEW v \in Vcpu,
         DrvAcknowledge(v) \/ DrvQueueNum(v) \/ DrvQueueReady(v)
  PROVE  Done' = Done /\ Pending' = Pending
<1>1. Done = <<>> /\ Pending = <<>>
  BY OffView DEF DrvAcknowledge, DrvQueueNum, DrvQueueReady
<1>2. CASE drv' # "on"
  BY <1>1, <1>2, OffView
<1>3. CASE drv' = "on"
  <2>1. /\ drv = "sized" /\ guest_mem' = None
        /\ UNCHANGED <<avail, used, last_used, last_avail_idx>>
    BY <1>3 DEF DrvAcknowledge, DrvQueueNum, DrvQueueReady, WriteQueueReady, gmem
  <2>2. avail'.idx = 0 /\ used'.idx = 0 /\ last_used' = 0 /\ last_avail_idx' = 0
    BY <2>1 DEF RingInv, RegistersFollow
  <2>3. ~Midway'
    BY <2>1, BlockAssumption DEF RingInv, HolderProcesses, Midway
  <2>4. Dist(0, 0) = 0 /\ Executed' = 0
    BY <2>3 DEF Dist, Executed, Midway
  <2>5. Done' = <<>> /\ Pending' = <<>>
    BY <2>2, <2>4 DEF Done, Pending
  <2> QED BY <1>1, <2>5
<1> QED BY <1>2, <1>3

\* Every step of the device is one of BlockService or none.
LEMMA RefinesStep ==
  ASSUME TypeOK, RingInv, TypeOK', RingInv', ~IoMayFail, [Next]_vars
  PROVE  [Service!Next]_(Service!svars)
<1> USE DEF regs, locals, gmem, driver
<1>k. ASSUME Done' = Done, Pending' = Pending, disk' = disk
      PROVE  [Service!Next]_(Service!svars)
  BY <1>k DEF Service!svars
<1>1. ASSUME NEW v \in Vcpu, NEW to, Goto(v, to), pc[v] \notin {"used", "publish"},
             to \notin {"used", "publish"}, UNCHANGED disk,
             UNCHANGED <<avail, used, chain, buf, last_used, last_avail_idx, head_idx, drv>>
      PROVE  [Service!Next]_(Service!svars)
  BY <1>1, <1>k, MidwayKept, ViewKept
<1>2. ASSUME UNCHANGED <<pc, disk, avail, used, chain, buf, last_used, last_avail_idx, head_idx, drv>>
      PROVE  [Service!Next]_(Service!svars)
  <2>1. Midway' <=> Midway
    BY <1>2 DEF Midway
  <2> QED BY <1>2, <1>k, <2>1, ViewKept
<1>3. ASSUME NEW v \in Vcpu, NotifyNotReady(v) PROVE [Service!Next]_(Service!svars)
  BY <1>2, <1>3 DEF NotifyNotReady
<1>4. ASSUME NEW v \in Vcpu, NotifyReady(v) PROVE [Service!Next]_(Service!svars)
  BY <1>1, <1>4 DEF NotifyReady
<1>5. ASSUME NEW v \in Vcpu, ProcessChain(v) PROVE [Service!Next]_(Service!svars)
  BY <1>5, ExecuteView DEF Service!Next
<1>6. ASSUME NEW v \in Vcpu, WriteUsedElem(v) PROVE [Service!Next]_(Service!svars)
  BY <1>6, <1>k, ElementView DEF WriteUsedElem
<1>7. ASSUME NEW v \in Vcpu, PublishUsed(v) PROVE [Service!Next]_(Service!svars)
  BY <1>7, <1>k, PublishView DEF PublishUsed
<1>8. ASSUME NEW v \in Vcpu, FinishQueue(v) PROVE [Service!Next]_(Service!svars)
  BY <1>1, <1>8 DEF FinishQueue
<1>9. ASSUME NEW v \in Vcpu, InjectIrq(v) \/ TakeIrq(v) \/ DrainDone(v)
      PROVE  [Service!Next]_(Service!svars)
  BY <1>1, <1>9 DEF InjectIrq, TakeIrq, DrainDone
<1>10. ASSUME NEW v \in Vcpu, ReadInterruptStatus(v) \/ AckInterrupt(v)
       PROVE  [Service!Next]_(Service!svars)
  BY <1>1, <1>10 DEF ReadInterruptStatus, AckInterrupt, WriteInterruptAck
<1>11. ASSUME NEW v \in Vcpu, Drain(v) PROVE [Service!Next]_(Service!svars)
  <2>1. CASE drv = "on"
    BY <1>11, <2>1, HandBackView DEF Service!Next
  <2>2. CASE drv # "on"
    BY <1>11, <1>k, <2>2, OffView DEF Drain
  <2> QED BY <2>1, <2>2
<1>12. ASSUME NEW v \in Vcpu, DrvReset(v) PROVE [Service!Next]_(Service!svars)
  <2>1. Service!Reset
    BY <1>12, OffView DEF DrvReset, Service!Reset
  <2> QED BY <2>1 DEF Service!Next
<1>13. ASSUME NEW v \in Vcpu, DrvAcknowledge(v) \/ DrvQueueNum(v) \/ DrvQueueReady(v)
       PROVE  [Service!Next]_(Service!svars)
  BY <1>13, <1>k, ConfigureView DEF DrvAcknowledge, DrvQueueNum, DrvQueueReady
<1>14. ASSUME NEW v \in Vcpu, NEW h \in Desc, NEW r \in Request, Submit(v, h, r)
       PROVE  [Service!Next]_(Service!svars)
  BY <1>14, SubmitView DEF Service!Next
<1>15. CASE UNCHANGED vars
  BY <1>2, <1>15 DEF vars
<1> QED BY <1>3, <1>4, <1>5, <1>6, <1>7, <1>8, <1>9, <1>10, <1>11, <1>12, <1>13, <1>14, <1>15
        DEF Next, Handle, Configure

\* As long as the disk file can be read and written, the device with its
\* rings, wrapping indices, mutex, threads and interrupts implements
\* BlockService: every request is executed exactly once, in order, with the
\* data its driver gave it, and its result is handed back once.
THEOREM ServiceImplemented == ~IoMayFail => (Spec => ImplementsService)
<1> SUFFICES ASSUME ~IoMayFail PROVE Spec => ImplementsService
  OBVIOUS
<1>0. ~IoMayFail
  OBVIOUS
<1>1. Init => Service!Init
  BY OffView DEF Init, Service!Init
<1>2. TypeOK /\ RingInv /\ (TypeOK /\ RingInv)' /\ [Next]_vars => [Service!Next]_(Service!svars)
  BY <1>0, RefinesStep
<1> QED BY <1>1, <1>2, TypeCorrect, RingInvariant, PTL DEF Spec, ImplementsService, Service!Spec
-----------------------------------------------------------------------------
\* One step keeps OkReadHasData.
LEMMA OkReadStep ==
  ASSUME TypeOK, RingInv, OkReadHasData, ~IoMayFail, [Next]_vars
  PROVE  OkReadHasData'
<1> USE DEF OkReadHasData, Outstanding
<1>1. ASSUME NEW v \in Vcpu, ProcessChain(v) PROVE OkReadHasData'
  <2> DEFINE h == avail.ring[Slot(last_avail_idx)]
  <2>1. h \in Desc /\ chain[h] \in Request
    BY <1>1, ChainAtHand DEF ProcessChain
  <2>2. /\ buf' = IF chain[h].op = "in" THEN [buf EXCEPT ![h] = disk[chain[h].sector]] ELSE buf
        /\ stat' = [stat EXCEPT ![h] = "OK"] /\ chain' = chain
    BY <1>1 DEF ProcessChain
  <2>3. \A x \in Desc \ {h} : buf'[x] = buf[x] /\ stat'[x] = stat[x]
    BY <2>1, <2>2 DEF TypeOK
  <2>4. chain[h].op = "in" => buf'[h] # None
    <3>1. chain[h].sector \in Sector
      BY <2>1 DEF Request
    <3>2. disk[chain[h].sector] \in Data
      BY <3>1 DEF TypeOK
    <3> QED BY <2>1, <2>2, <3>2, BlockAssumption DEF TypeOK
  <2> QED BY <2>2, <2>3, <2>4
<1>2. ASSUME NEW v \in Vcpu, NEW h \in Desc, NEW r \in Request, Submit(v, h, r)
      PROVE  OkReadHasData'
  <2>1. /\ stat'[h] = None
        /\ \A x \in Desc \ {h} : buf'[x] = buf[x] /\ stat'[x] = stat[x] /\ chain'[x] = chain[x]
    BY <1>2 DEF Submit, TypeOK
  <2> QED BY <2>1, BlockAssumption
<1>3. ASSUME NEW v \in Vcpu, Drain(v) PROVE OkReadHasData'
  <2>1. \A x \in Desc : \/ chain'[x] = None
                        \/ chain'[x] = chain[x] /\ buf'[x] = buf[x] /\ stat'[x] = stat[x]
    BY <1>3 DEF Drain, TypeOK
  <2> QED BY <2>1
<1>4. ASSUME NEW v \in Vcpu, DrvAcknowledge(v) PROVE OkReadHasData'
  BY <1>4 DEF DrvAcknowledge
<1>5. ASSUME UNCHANGED <<chain, buf, stat>> PROVE OkReadHasData'
  BY <1>5
<1>6. ASSUME NEW v \in Vcpu, DrvReset(v) \/ DrvQueueNum(v) \/ DrvQueueReady(v)
      PROVE  OkReadHasData'
  BY <1>5, <1>6 DEF DrvReset, DrvQueueNum, DrvQueueReady, gmem
<1>7. ASSUME NEW v \in Vcpu, \/ NotifyNotReady(v) \/ NotifyReady(v) \/ WriteUsedElem(v)
                             \/ PublishUsed(v) \/ FinishQueue(v) \/ InjectIrq(v)
      PROVE  OkReadHasData'
  BY <1>5, <1>7 DEF NotifyNotReady, NotifyReady, WriteUsedElem, PublishUsed, FinishQueue,
                    InjectIrq, gmem
<1>8. ASSUME NEW v \in Vcpu, \/ TakeIrq(v) \/ ReadInterruptStatus(v) \/ AckInterrupt(v)
                             \/ DrainDone(v)
      PROVE  OkReadHasData'
  BY <1>5, <1>8 DEF TakeIrq, ReadInterruptStatus, AckInterrupt, DrainDone, gmem
<1>9. CASE UNCHANGED vars
  BY <1>5, <1>9 DEF vars, gmem
<1> QED BY <1>1, <1>2, <1>3, <1>4, <1>6, <1>7, <1>8, <1>9 DEF Next, Handle, Configure

\* A failed transfer is the only way to report a read that has not happened:
\* process_chain sets the status byte to OK only after it has filled the
\* buffer, and the driver clears it with each request.
THEOREM OkReadsHaveData == ~IoMayFail => (Spec => []OkReadHasData)
<1> SUFFICES ASSUME ~IoMayFail PROVE Spec => []OkReadHasData
  OBVIOUS
<1>0. ~IoMayFail
  OBVIOUS
<1>1. Init => OkReadHasData
  BY DEF Init, OkReadHasData, Outstanding
<1>2. TypeOK /\ RingInv /\ OkReadHasData /\ [Next]_vars => OkReadHasData'
  BY <1>0, OkReadStep
<1> QED BY <1>1, <1>2, TypeCorrect, RingInvariant, PTL DEF Spec
=============================================================================
