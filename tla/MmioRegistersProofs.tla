------------------------ MODULE MmioRegistersProofs ------------------------
(***************************************************************************)
(* Proofs about MmioRegisters, for every word size, capacity and choice of *)
(* queues and any number of resets: the registers keep their widths, a     *)
(* queue is not ready before it is configured, and a running device works  *)
(* with what the driver has given it.                                      *)
(***************************************************************************)
EXTENDS MmioRegisters, TLAPS

-----------------------------------------------------------------------------
(***************************************************************************)
(* The halves of a 64-bit field.                                           *)
(***************************************************************************)

\* A field is made of its halves, and each half is a word.
LEMMA Halves ==
  ASSUME NEW x \in Quad
  PROVE  /\ x = (x \div WordSize) * WordSize + (x % WordSize)
         /\ x % WordSize \in Word
         /\ x \div WordSize \in Word
<1> USE RegisterAssumption
<1>1. x \in Nat /\ x < WordSize * WordSize /\ WordSize > 0
  BY SMT DEF Quad
<1>2. x = (x \div WordSize) * WordSize + (x % WordSize)
  BY <1>1, SMT
<1>3. x % WordSize \in Word
  BY <1>1, SMT DEF Word
<1>4. x \div WordSize \in Nat /\ x \div WordSize < WordSize
  BY <1>1, SMT
<1> QED BY <1>2, <1>3, <1>4, SMT DEF Word

\* Two words make a field, and its halves are those words.
LEMMA Pair ==
  ASSUME NEW a \in Word, NEW b \in Word
  PROVE  /\ a * WordSize + b \in Quad
         /\ (a * WordSize + b) % WordSize = b
         /\ (a * WordSize + b) \div WordSize = a
<1> USE RegisterAssumption
<1>1. a \in Nat /\ a < WordSize /\ b \in Nat /\ b < WordSize /\ WordSize > 0
  BY SMT DEF Word
<1> DEFINE x == a * WordSize + b
<1>2. x \in Nat /\ x < WordSize * WordSize
  BY <1>1, SMT
<1>3. x \div WordSize \in Nat /\ x % WordSize \in 0 .. WordSize - 1
      /\ x = (x \div WordSize) * WordSize + (x % WordSize)
  BY <1>1, <1>2, SMT
<1>4. ASSUME NEW c \in Nat, NEW d \in 0 .. WordSize - 1, a * WordSize + b = c * WordSize + d
      PROVE  a = c /\ b = d
  BY <1>1, <1>4, SMT
<1>5. a = x \div WordSize /\ b = x % WordSize
  BY <1>3, <1>4
<1> QED BY <1>2, <1>5, SMT DEF Quad

\* set_low writes the low half and keeps the other one.
LEMMA SetLow ==
  ASSUME NEW x \in Quad, NEW val \in Word
  PROVE  /\ set_low(x, val) \in Quad
         /\ set_low(x, val) % WordSize = val
         /\ set_low(x, val) \div WordSize = x \div WordSize
BY Halves, Pair DEF set_low

\* set_high writes the high half and keeps the other one.
LEMMA SetHigh ==
  ASSUME NEW x \in Quad, NEW val \in Word
  PROVE  /\ set_high(x, val) \in Quad
         /\ set_high(x, val) % WordSize = x % WordSize
         /\ set_high(x, val) \div WordSize = val
<1>1. x % WordSize \in Word
  BY Halves
<1>2. set_high(x, val) = val * WordSize + (x % WordSize)
  BY <1>1, RegisterAssumption, SMT DEF set_high, Word
<1> QED BY <1>1, <1>2, Pair

\* set_half writes the half that is selected.
LEMMA SetHalf ==
  ASSUME NEW x \in Quad, NEW val \in Word, NEW h \in Word
  PROVE  /\ set_half(h, x, val) \in Quad
         /\ h = LOW => /\ set_half(h, x, val) % WordSize = val
                       /\ set_half(h, x, val) \div WordSize = x \div WordSize
         /\ h # LOW => /\ set_half(h, x, val) % WordSize = x % WordSize
                       /\ set_half(h, x, val) \div WordSize = val
<1>1. CASE h = 0
  BY <1>1, SetLow DEF set_half, LOW
<1>2. CASE h # 0
  BY <1>2, SetHigh DEF set_half, LOW
<1> QED BY <1>1, <1>2
-----------------------------------------------------------------------------
(***************************************************************************)
(* What is written is a word.                                              *)
(***************************************************************************)

\* The values that the driver writes as they are.
LEMMA SmallWords == 0 \in Word /\ 1 \in Word /\ 2 \in Word /\ 11 \in Word /\ 15 \in Word
                    /\ 32 \in Word /\ 86 \in Word
BY RegisterAssumption, SMT DEF Word

\* What DEVICE_FEATURES reads as is a word, whatever is selected.
LEMMA FeatureWords == \A h : BlkFeatures(h) \in Word /\ NetFeatures(h) \in Word
<1> SUFFICES ASSUME NEW h PROVE BlkFeatures(h) \in Word /\ NetFeatures(h) \in Word
  OBVIOUS
<1>1. BlkFeatures(h) \in {86, 1}
  BY SMT DEF BlkFeatures
<1>2. NetFeatures(h) \in {32, 1, 0}
  BY SMT DEF NetFeatures
<1> QED BY <1>1, <1>2, SmallWords

\* A driver's choice of queue size and ring addresses.
LEMMA PlanTyped ==
  ASSUME NEW p \in Plan
  PROVE  /\ p \in [num : 1..256, desc : Quad, avail : Quad, used : Quad]
         /\ p.num \in Word /\ p.num \in 1..256
         /\ p.desc \in Quad /\ p.avail \in Quad /\ p.used \in Quad
<1>1. p \in [num : 1..256, desc : Quad, avail : Quad, used : Quad]
  BY RegisterAssumption DEF Quad
<1>2. p.num \in 1..256
  BY <1>1
<1>3. p.num \in Word
  BY <1>2, RegisterAssumption, SMT DEF Word
<1> QED BY <1>1, <1>2, <1>3

\* Each register of the queue gets one half of a 64-bit address, or the size.
LEMMA ValueWord ==
  ASSUME NEW p \in Plan, NEW reg \in Setting
  PROVE  Value(p, reg) \in Word
<1>1. p.num \in Word /\ p.desc \in Quad /\ p.avail \in Quad /\ p.used \in Quad
  BY PlanTyped
<1>2. /\ p.desc % WordSize \in Word /\ p.desc \div WordSize \in Word
      /\ p.avail % WordSize \in Word /\ p.avail \div WordSize \in Word
      /\ p.used % WordSize \in Word /\ p.used \div WordSize \in Word
  BY <1>1, Halves
<1> QED BY <1>1, <1>2 DEF Value, Setting
-----------------------------------------------------------------------------
(***************************************************************************)
(* What a write to a register of a queue changes.                          *)
(***************************************************************************)

\* The settings of the block device's queue and of a network queue, in the
\* terms of the driver's choice.
BlkHeld(r) ==
  [num |-> r.queue_num, desc |-> r.queue_desc,
   avail |-> r.queue_avail, used |-> r.queue_used]

\* The same for a network queue.
NetHeld(k) ==
  [num |-> k.queue_size, desc |-> k.desc_addr,
   avail |-> k.avail_addr, used |-> k.used_addr]

\* Two choices with the same values are the same.
LEMMA SameSettings ==
  ASSUME NEW h \in [num : Word, desc : Quad, avail : Quad, used : Quad], NEW p \in Plan,
         \A reg \in Setting : Value(h, reg) = Value(p, reg)
  PROVE  h = p
<1>1. /\ h.num = p.num
      /\ h.desc % WordSize = p.desc % WordSize
      /\ h.desc \div WordSize = p.desc \div WordSize
      /\ h.avail % WordSize = p.avail % WordSize
      /\ h.avail \div WordSize = p.avail \div WordSize
      /\ h.used % WordSize = p.used % WordSize
      /\ h.used \div WordSize = p.used \div WordSize
  <2>1. Value(h, "QUEUE_NUM") = Value(p, "QUEUE_NUM")
    BY DEF Setting
  <2>2. Value(h, "QUEUE_DESC_LOW") = Value(p, "QUEUE_DESC_LOW")
        /\ Value(h, "QUEUE_DESC_HIGH") = Value(p, "QUEUE_DESC_HIGH")
    BY DEF Setting
  <2>3. Value(h, "QUEUE_AVAIL_LOW") = Value(p, "QUEUE_AVAIL_LOW")
        /\ Value(h, "QUEUE_AVAIL_HIGH") = Value(p, "QUEUE_AVAIL_HIGH")
    BY DEF Setting
  <2>4. Value(h, "QUEUE_USED_LOW") = Value(p, "QUEUE_USED_LOW")
        /\ Value(h, "QUEUE_USED_HIGH") = Value(p, "QUEUE_USED_HIGH")
    BY DEF Setting
  <2> QED BY <2>1, <2>2, <2>3, <2>4 DEF Value
<1>2. /\ p \in [num : 1..256, desc : Quad, avail : Quad, used : Quad]
      /\ p.desc \in Quad /\ p.avail \in Quad /\ p.used \in Quad
  BY PlanTyped
<1>3. h.desc \in Quad /\ h.avail \in Quad /\ h.used \in Quad
  OBVIOUS
<1>4. ASSUME NEW x \in Quad, NEW y \in Quad, x % WordSize = y % WordSize,
             x \div WordSize = y \div WordSize
      PROVE  x = y
  BY <1>4, Halves
<1>5. h.desc = p.desc /\ h.avail = p.avail /\ h.used = p.used
  BY <1>1, <1>2, <1>3, <1>4
<1> QED BY <1>1, <1>2, <1>5

\* A setting of the block device: one value of its queue changes.
LEMMA BlkSetting ==
  ASSUME NEW r \in BlkRegs, NEW reg \in Setting, NEW val \in Word
  PROVE  LET w == BlkWrite(r, reg, val)
         IN  /\ w \in BlkRegs
             /\ w.status = r.status /\ w.features_sel = r.features_sel
             /\ w.driver_features = r.driver_features
             /\ w.queue_sel = r.queue_sel /\ w.queue_ready = r.queue_ready
             /\ Value(BlkHeld(w), reg) = val
             /\ \A o \in Setting \ {reg} : Value(BlkHeld(w), o) = Value(BlkHeld(r), o)
<1> DEFINE w == BlkWrite(r, reg, val)
<1>t. r.queue_desc \in Quad /\ r.queue_avail \in Quad /\ r.queue_used \in Quad
  BY DEF BlkRegs
<1>1. CASE reg = "QUEUE_NUM"
  <2>1. w = [r EXCEPT !.queue_num = val]
    BY <1>1 DEF BlkWrite
  <2> QED BY <1>1, <2>1 DEF BlkRegs, BlkHeld, Value, Setting
<1>2. CASE reg = "QUEUE_DESC_LOW"
  <2>1. w = [r EXCEPT !.queue_desc = set_low(r.queue_desc, val)]
    BY <1>2 DEF BlkWrite
  <2> QED BY <1>2, <2>1, <1>t, SetLow DEF BlkRegs, BlkHeld, Value, Setting
<1>3. CASE reg = "QUEUE_DESC_HIGH"
  <2>1. w = [r EXCEPT !.queue_desc = set_high(r.queue_desc, val)]
    BY <1>3 DEF BlkWrite
  <2> QED BY <1>3, <2>1, <1>t, SetHigh DEF BlkRegs, BlkHeld, Value, Setting
<1>4. CASE reg = "QUEUE_AVAIL_LOW"
  <2>1. w = [r EXCEPT !.queue_avail = set_low(r.queue_avail, val)]
    BY <1>4 DEF BlkWrite
  <2> QED BY <1>4, <2>1, <1>t, SetLow DEF BlkRegs, BlkHeld, Value, Setting
<1>5. CASE reg = "QUEUE_AVAIL_HIGH"
  <2>1. w = [r EXCEPT !.queue_avail = set_high(r.queue_avail, val)]
    BY <1>5 DEF BlkWrite
  <2> QED BY <1>5, <2>1, <1>t, SetHigh DEF BlkRegs, BlkHeld, Value, Setting
<1>6. CASE reg = "QUEUE_USED_LOW"
  <2>1. w = [r EXCEPT !.queue_used = set_low(r.queue_used, val)]
    BY <1>6 DEF BlkWrite
  <2> QED BY <1>6, <2>1, <1>t, SetLow DEF BlkRegs, BlkHeld, Value, Setting
<1>7. CASE reg = "QUEUE_USED_HIGH"
  <2>1. w = [r EXCEPT !.queue_used = set_high(r.queue_used, val)]
    BY <1>7 DEF BlkWrite
  <2> QED BY <1>7, <2>1, <1>t, SetHigh DEF BlkRegs, BlkHeld, Value, Setting
<1> QED BY <1>1, <1>2, <1>3, <1>4, <1>5, <1>6, <1>7 DEF Setting

\* A setting of a network queue: the same, provided its size fits 16 bits.
LEMMA NetSetting ==
  ASSUME NEW k \in NetQueueRegs, NEW reg \in Setting, NEW val \in Word,
         reg = "QUEUE_NUM" => val <= 256
  PROVE  LET w == NetQueue(k, reg, val)
         IN  /\ w \in NetQueueRegs /\ w.ready = k.ready
             /\ Value(NetHeld(w), reg) = val
             /\ \A o \in Setting \ {reg} : Value(NetHeld(w), o) = Value(NetHeld(k), o)
<1> DEFINE w == NetQueue(k, reg, val)
<1>t. k.desc_addr \in Quad /\ k.avail_addr \in Quad /\ k.used_addr \in Quad
  BY DEF NetQueueRegs
<1>1. CASE reg = "QUEUE_NUM"
  <2>1. w = [k EXCEPT !.queue_size = val % 65536]
    BY <1>1 DEF NetQueue
  <2>2. val % 65536 = val
    BY <1>1, RegisterAssumption, SMT DEF Word
  <2> QED BY <1>1, <2>1, <2>2 DEF NetQueueRegs, NetHeld, Value, Setting
<1>2. CASE reg = "QUEUE_DESC_LOW"
  <2>1. w = [k EXCEPT !.desc_addr = set_low(k.desc_addr, val)]
    BY <1>2 DEF NetQueue
  <2> QED BY <1>2, <2>1, <1>t, SetLow DEF NetQueueRegs, NetHeld, Value, Setting
<1>3. CASE reg = "QUEUE_DESC_HIGH"
  <2>1. w = [k EXCEPT !.desc_addr = set_high(k.desc_addr, val)]
    BY <1>3 DEF NetQueue
  <2> QED BY <1>3, <2>1, <1>t, SetHigh DEF NetQueueRegs, NetHeld, Value, Setting
<1>4. CASE reg = "QUEUE_AVAIL_LOW"
  <2>1. w = [k EXCEPT !.avail_addr = set_low(k.avail_addr, val)]
    BY <1>4 DEF NetQueue
  <2> QED BY <1>4, <2>1, <1>t, SetLow DEF NetQueueRegs, NetHeld, Value, Setting
<1>5. CASE reg = "QUEUE_AVAIL_HIGH"
  <2>1. w = [k EXCEPT !.avail_addr = set_high(k.avail_addr, val)]
    BY <1>5 DEF NetQueue
  <2> QED BY <1>5, <2>1, <1>t, SetHigh DEF NetQueueRegs, NetHeld, Value, Setting
<1>6. CASE reg = "QUEUE_USED_LOW"
  <2>1. w = [k EXCEPT !.used_addr = set_low(k.used_addr, val)]
    BY <1>6 DEF NetQueue
  <2> QED BY <1>6, <2>1, <1>t, SetLow DEF NetQueueRegs, NetHeld, Value, Setting
<1>7. CASE reg = "QUEUE_USED_HIGH"
  <2>1. w = [k EXCEPT !.used_addr = set_high(k.used_addr, val)]
    BY <1>7 DEF NetQueue
  <2> QED BY <1>7, <2>1, <1>t, SetHigh DEF NetQueueRegs, NetHeld, Value, Setting
<1> QED BY <1>1, <1>2, <1>3, <1>4, <1>5, <1>6, <1>7 DEF Setting
-----------------------------------------------------------------------------
(***************************************************************************)
(* What each write of the driver changes, for both devices.                *)
(***************************************************************************)

\* The registers of the device that is driven have their types.
RegsOK == regs \in IF dev = "blk" THEN BlkRegs ELSE NetRegs

\* STATUS, but for a reset: nothing else.
LEMMA WriteStatus ==
  ASSUME RegsOK, dev' = dev, NEW v \in Word, v # 0, Write("STATUS", v)
  PROVE  /\ RegsOK' /\ regs'.status = v
         /\ regs'.queue_sel = regs.queue_sel
         /\ regs'.driver_features = regs.driver_features
         /\ \A s \in Selector : SelectorField(s)' = SelectorField(s)
         /\ \A q \in Queues : Held(q)' = Held(q) /\ Ready(q)' = Ready(q)
<1>1. CASE dev = "blk"
  <2>1. regs \in BlkRegs
    BY <1>1 DEF RegsOK
  <2>2. regs' = [regs EXCEPT !.status = v, !.queue_ready = regs.queue_ready]
    BY <1>1 DEF Write, BlkWrite, BlkStatus
  <2> QED BY <1>1, <2>1, <2>2 DEF RegsOK, BlkRegs, SelectorField, Held, Ready
<1>2. CASE dev # "blk"
  <2>1. regs \in NetRegs
    BY <1>2 DEF RegsOK
  <2>2. regs' = [regs EXCEPT !.status = v]
    BY <1>2 DEF Write, NetWrite, NetStatus
  <2> QED BY <1>2, <2>1, <2>2 DEF RegsOK, NetRegs, SelectorField, Held, Ready
<1> QED BY <1>1, <1>2

\* A reset of a device in use: no queue is ready any more.
LEMMA WriteReset ==
  ASSUME RegsOK, dev' = dev, regs.status # 0, Write("STATUS", 0)
  PROVE  /\ RegsOK'
         /\ dev # "blk" => regs'.queue_sel = 0
         /\ \A q \in Queues : Ready(q)' = 0
<1>1. CASE dev = "blk"
  <2>1. regs \in BlkRegs
    BY <1>1 DEF RegsOK
  <2>2. regs' = [regs EXCEPT !.status = 0, !.queue_ready = 0]
    BY <1>1 DEF Write, BlkWrite, BlkStatus
  <2> QED BY <1>1, <2>1, <2>2, SmallWords DEF RegsOK, BlkRegs, Ready
<1>2. CASE dev # "blk"
  <2>1. regs \in NetRegs
    BY <1>2 DEF RegsOK
  <2>2. regs' = [regs EXCEPT !.status = 0, !.queue_sel = 0,
                             !.queues = [q \in {0, 1} |-> NewNetQueue]]
    BY <1>2 DEF Write, NetWrite, NetStatus
  <2>3. 0 \in Quad
    BY RegisterAssumption, SMT DEF Quad
  <2>4. NewNetQueue \in NetQueueRegs /\ NewNetQueue.ready = 0
    BY <2>3, SmallWords DEF NewNetQueue, NetQueueRegs
  <2> QED BY <1>2, <2>1, <2>2, <2>4, SmallWords DEF RegsOK, NetRegs, Ready, Queues
<1> QED BY <1>1, <1>2

\* A selector: for the network device not the other one.
LEMMA WriteSelector ==
  ASSUME RegsOK, dev' = dev, NEW s \in Selector, NEW h \in Word, Write(s, h)
  PROVE  /\ RegsOK' /\ regs'.status = regs.status
         /\ regs'.queue_sel = regs.queue_sel
         /\ regs'.driver_features = regs.driver_features
         /\ SelectorField(s)' = h
         /\ \A o \in Selector \ {s} :
              dev # "blk" => SelectorField(o)' = SelectorField(o)
         /\ \A q \in Queues : Held(q)' = Held(q) /\ Ready(q)' = Ready(q)
<1>1. CASE dev = "blk"
  <2>1. regs \in BlkRegs
    BY <1>1 DEF RegsOK
  <2>2. regs' = [regs EXCEPT !.features_sel = h]
    BY <1>1 DEF Write, BlkWrite, Selector
  <2> QED BY <1>1, <2>1, <2>2 DEF RegsOK, BlkRegs, SelectorField, Held, Ready
<1>2. CASE dev # "blk" /\ s = "DRIVER_FEATURES_SEL"
  <2>1. regs \in NetRegs
    BY <1>2 DEF RegsOK
  <2>2. regs' = [regs EXCEPT !.driver_features_sel = h]
    BY <1>2 DEF Write, NetWrite, NetSelectDriver
  <2> QED BY <1>2, <2>1, <2>2 DEF RegsOK, NetRegs, SelectorField, Held, Ready
<1>3. CASE dev # "blk" /\ s = "DEVICE_FEATURES_SEL"
  <2>1. regs \in NetRegs
    BY <1>3 DEF RegsOK
  <2>2. regs' = [regs EXCEPT !.device_features_sel = h]
    BY <1>3 DEF Write, NetWrite
  <2> QED BY <1>3, <2>1, <2>2 DEF RegsOK, NetRegs, SelectorField, Held, Ready, Selector
<1> QED BY <1>1, <1>2, <1>3 DEF Selector

\* The features, in the half that is selected.
LEMMA WriteFeatures ==
  ASSUME RegsOK, dev' = dev, NEW v \in Word, Write("DRIVER_FEATURES", v)
  PROVE  /\ RegsOK' /\ regs'.status = regs.status
         /\ regs'.queue_sel = regs.queue_sel
         /\ regs.driver_features \in Quad
         /\ SelectorField("DRIVER_FEATURES_SEL") \in Word
         /\ regs'.driver_features =
              set_half(SelectorField("DRIVER_FEATURES_SEL"), regs.driver_features, v)
         /\ \A s \in Selector : SelectorField(s)' = SelectorField(s)
         /\ \A q \in Queues : Held(q)' = Held(q) /\ Ready(q)' = Ready(q)
<1>1. CASE dev = "blk"
  <2>1. regs \in BlkRegs
    BY <1>1 DEF RegsOK
  <2> DEFINE x == set_half(regs.features_sel, regs.driver_features, v)
  <2>2. regs' = [regs EXCEPT !.driver_features = x]
    BY <1>1 DEF Write, BlkWrite
  <2>3. regs.features_sel \in Word /\ regs.driver_features \in Quad
    BY <2>1 DEF BlkRegs
  <2>4. x \in Quad
    BY <2>3, SetHalf
  <2> HIDE DEF x
  <2>5. x = set_half(SelectorField("DRIVER_FEATURES_SEL"), regs.driver_features, v)
    BY <1>1 DEF x, SelectorField
  <2> QED BY <1>1, <2>1, <2>2, <2>3, <2>4, <2>5
          DEF RegsOK, BlkRegs, SelectorField, Held, Ready
<1>2. CASE dev # "blk"
  <2>1. regs \in NetRegs
    BY <1>2 DEF RegsOK
  <2> DEFINE x == set_half(regs.driver_features_sel, regs.driver_features, v)
  <2>2. regs' = [regs EXCEPT !.driver_features = x]
    BY <1>2 DEF Write, NetWrite
  <2>3. regs.driver_features_sel \in Word /\ regs.driver_features \in Quad
    BY <2>1 DEF NetRegs
  <2>4. x \in Quad
    BY <2>3, SetHalf
  <2> HIDE DEF x
  <2>5. x = set_half(SelectorField("DRIVER_FEATURES_SEL"), regs.driver_features, v)
    BY <1>2 DEF x, SelectorField
  <2> QED BY <1>2, <2>1, <2>2, <2>3, <2>4, <2>5
          DEF RegsOK, NetRegs, SelectorField, Held, Ready
<1> QED BY <1>1, <1>2

\* QUEUE_SEL.
LEMMA WriteQueueSel ==
  ASSUME RegsOK, dev' = dev, NEW v \in Word, Write("QUEUE_SEL", v)
  PROVE  /\ RegsOK' /\ regs'.status = regs.status
         /\ regs'.queue_sel = v
         /\ regs'.driver_features = regs.driver_features
         /\ \A s \in Selector : SelectorField(s)' = SelectorField(s)
         /\ \A q \in Queues : Held(q)' = Held(q) /\ Ready(q)' = Ready(q)
<1>1. CASE dev = "blk"
  <2>1. regs \in BlkRegs
    BY <1>1 DEF RegsOK
  <2>2. regs' = [regs EXCEPT !.queue_sel = v]
    BY <1>1 DEF Write, BlkWrite
  <2> QED BY <1>1, <2>1, <2>2 DEF RegsOK, BlkRegs, SelectorField, Held, Ready
<1>2. CASE dev # "blk"
  <2>1. regs \in NetRegs
    BY <1>2 DEF RegsOK
  <2>2. regs' = [regs EXCEPT !.queue_sel = v]
    BY <1>2 DEF Write, NetWrite
  <2> QED BY <1>2, <2>1, <2>2 DEF RegsOK, NetRegs, SelectorField, Held, Ready
<1> QED BY <1>1, <1>2

\* QUEUE_READY of the selected queue.
LEMMA WriteQueueReady ==
  ASSUME RegsOK, dev' = dev, regs.queue_sel \in Queues, Write("QUEUE_READY", 1)
  PROVE  /\ RegsOK' /\ regs'.status = regs.status
         /\ regs'.queue_sel = regs.queue_sel
         /\ regs'.driver_features = regs.driver_features
         /\ \A s \in Selector : SelectorField(s)' = SelectorField(s)
         /\ \A q \in Queues : Held(q)' = Held(q)
         /\ \A q \in Queues : q # regs.queue_sel => Ready(q)' = Ready(q)
<1>1. CASE dev = "blk"
  <2>1. regs \in BlkRegs
    BY <1>1 DEF RegsOK
  <2>2. regs' = [regs EXCEPT !.queue_ready = 1]
    BY <1>1 DEF Write, BlkWrite
  <2> QED BY <1>1, <2>1, <2>2, SmallWords
          DEF RegsOK, BlkRegs, SelectorField, Held, Ready, Queues
<1>2. CASE dev # "blk"
  <2>1. regs \in NetRegs
    BY <1>2 DEF RegsOK
  <2>2. regs.queue_sel \in {0, 1}
    BY <1>2 DEF Queues
  <2> DEFINE k == NetQueue(regs.queues[regs.queue_sel], "QUEUE_READY", 1)
  <2>3. regs' = [regs EXCEPT !.queues[regs.queue_sel] = k]
    <3>1. regs.queue_sel < 2
      BY <2>2
    <3> QED BY <1>2, <3>1 DEF Write, NetWrite
  <2>4. regs.queues[regs.queue_sel] \in NetQueueRegs
    BY <2>1, <2>2 DEF NetRegs
  <2>5. k = [regs.queues[regs.queue_sel] EXCEPT !.ready = 1]
    BY SMT DEF NetQueue
  <2>6. k \in NetQueueRegs
    BY <2>4, <2>5 DEF NetQueueRegs
  <2>7. NetHeld(k) = NetHeld(regs.queues[regs.queue_sel])
    BY <2>4, <2>5 DEF NetHeld, NetQueueRegs
  <2> HIDE DEF k
  <2>8. /\ RegsOK' /\ regs'.status = regs.status
        /\ regs'.queue_sel = regs.queue_sel
        /\ regs'.driver_features = regs.driver_features
        /\ regs'.queues = [regs.queues EXCEPT ![regs.queue_sel] = k]
        /\ \A s \in Selector : SelectorField(s)' = SelectorField(s)
    BY <1>2, <2>1, <2>2, <2>3, <2>6 DEF RegsOK, NetRegs, SelectorField
  <2>9. regs.queues \in [{0, 1} -> NetQueueRegs]
    BY <2>1 DEF NetRegs
  <2>10. \A q \in {0, 1} : NetHeld(regs'.queues[q]) = NetHeld(regs.queues[q])
    BY <2>7, <2>8, <2>9
  <2>11. \A q \in {0, 1} : q # regs.queue_sel => regs'.queues[q] = regs.queues[q]
    BY <2>8, <2>9
  <2>12. \A q \in {0, 1} : Held(q)' = Held(q)
    BY <1>2, <2>10 DEF Held, NetHeld
  <2> QED BY <1>2, <2>8, <2>11, <2>12 DEF Ready, Queues
<1> QED BY <1>1, <1>2

\* A size or an address of the selected queue.
LEMMA WriteSettingOf ==
  ASSUME RegsOK, dev' = dev, regs.queue_sel \in Queues, NEW reg \in Setting,
         NEW v \in Word, reg = "QUEUE_NUM" => v <= 256, Write(reg, v)
  PROVE  /\ RegsOK' /\ regs'.status = regs.status
         /\ regs'.queue_sel = regs.queue_sel
         /\ regs'.driver_features = regs.driver_features
         /\ \A s \in Selector : SelectorField(s)' = SelectorField(s)
         /\ \A q \in Queues : Ready(q)' = Ready(q)
         /\ \A q \in Queues : q # regs.queue_sel => Held(q)' = Held(q)
         /\ Value(Held(regs.queue_sel)', reg) = v
         /\ \A o \in Setting \ {reg} :
              Value(Held(regs.queue_sel)', o) = Value(Held(regs.queue_sel), o)
<1>1. CASE dev = "blk"
  <2>1. regs \in BlkRegs
    BY <1>1 DEF RegsOK
  <2>2. regs' = BlkWrite(regs, reg, v)
    BY <1>1 DEF Write
  <2>3. /\ regs' \in BlkRegs
        /\ regs'.status = regs.status /\ regs'.features_sel = regs.features_sel
        /\ regs'.driver_features = regs.driver_features
        /\ regs'.queue_sel = regs.queue_sel /\ regs'.queue_ready = regs.queue_ready
        /\ Value(BlkHeld(regs'), reg) = v
        /\ \A o \in Setting \ {reg} : Value(BlkHeld(regs'), o) = Value(BlkHeld(regs), o)
    BY <2>1, <2>2, BlkSetting
  <2>4. \A q : Held(q) = BlkHeld(regs)
    BY <1>1 DEF Held, BlkHeld
  <2>5. Held(regs.queue_sel)' = BlkHeld(regs')
    BY <1>1 DEF Held, BlkHeld
  <2>6. \A q \in Queues : q = regs.queue_sel
    BY <1>1 DEF Queues
  <2> QED BY <1>1, <2>3, <2>4, <2>5, <2>6 DEF RegsOK, SelectorField, Ready
<1>2. CASE dev # "blk"
  <2>1. regs \in NetRegs
    BY <1>2 DEF RegsOK
  <2>2. regs.queue_sel \in {0, 1}
    BY <1>2 DEF Queues
  <2> DEFINE k == NetQueue(regs.queues[regs.queue_sel], reg, v)
  <2>3. regs' = [regs EXCEPT !.queues[regs.queue_sel] = k]
    <3>1. regs.queue_sel < 2
      BY <2>2
    <3> QED BY <1>2, <3>1 DEF Write, NetWrite, Setting
  <2>4. regs.queues[regs.queue_sel] \in NetQueueRegs
    BY <2>1, <2>2 DEF NetRegs
  <2>5. /\ k \in NetQueueRegs /\ k.ready = regs.queues[regs.queue_sel].ready
        /\ Value(NetHeld(k), reg) = v
        /\ \A o \in Setting \ {reg} :
             Value(NetHeld(k), o) = Value(NetHeld(regs.queues[regs.queue_sel]), o)
    BY <2>4, NetSetting
  <2> HIDE DEF k
  <2>6. /\ RegsOK' /\ regs'.status = regs.status
        /\ regs'.queue_sel = regs.queue_sel
        /\ regs'.driver_features = regs.driver_features
        /\ regs'.queues = [regs.queues EXCEPT ![regs.queue_sel] = k]
        /\ \A s \in Selector : SelectorField(s)' = SelectorField(s)
    BY <1>2, <2>1, <2>2, <2>3, <2>5 DEF RegsOK, NetRegs, SelectorField
  <2>7. regs.queues \in [{0, 1} -> NetQueueRegs]
    BY <2>1 DEF NetRegs
  <2>8. \A q \in {0, 1} : q # regs.queue_sel => regs'.queues[q] = regs.queues[q]
    BY <2>6, <2>7
  <2>9. regs'.queues[regs.queue_sel] = k
    BY <2>2, <2>6, <2>7
  <2>10. \A q \in {0, 1} : Held(q)' = NetHeld(regs'.queues[q]) /\ Held(q) = NetHeld(regs.queues[q])
    BY <1>2 DEF Held, NetHeld
  <2>11. \A q \in {0, 1} : regs'.queues[q].ready = regs.queues[q].ready
    BY <2>5, <2>8, <2>9
  <2>12. \A q \in {0, 1} : Ready(q)' = Ready(q)
    BY <1>2, <2>11 DEF Ready
  <2>13. Held(regs.queue_sel) = NetHeld(regs.queues[regs.queue_sel])
    BY <2>2, <2>10
  <2>14. Held(regs.queue_sel)' = NetHeld(k)
    BY <1>2, <2>6, <2>9 DEF Held, NetHeld
  <2> QED BY <1>2, <2>5, <2>6, <2>8, <2>10, <2>12, <2>13, <2>14 DEF Queues
<1> QED BY <1>1, <1>2

\* What the device holds for a queue has the widths of the registers.
LEMMA HeldTyped ==
  ASSUME RegsOK, NEW q \in Queues
  PROVE  Held(q) \in [num : Word, desc : Quad, avail : Quad, used : Quad]
<1>1. CASE dev = "blk"
  BY <1>1 DEF RegsOK, BlkRegs, Held
<1>2. CASE dev # "blk"
  <2>1. regs.queues[q] \in NetQueueRegs
    BY <1>2 DEF RegsOK, NetRegs, Queues
  <2> QED BY <1>2, <2>1 DEF NetQueueRegs, Held
<1> QED BY <1>1, <1>2
-----------------------------------------------------------------------------
(***************************************************************************)
(* The inductive invariant that needs nothing of the driver.               *)
(***************************************************************************)

\* Types, what the driver believes, how far the setup is, and what the
\* device has taken of it.
SetupInv ==
  TypeOK /\ BeliefOK /\ PhaseFollows /\ ReadyBehind /\ SelectorsHeld /\ PlansTaken

\* A device starts with nothing selected, taken or ready.
LEMMA SetupInit == Init => SetupInv
<1> SUFFICES ASSUME Init PROVE SetupInv
  OBVIOUS
<1> USE DEF Init
<1>q. 0 \in Quad
  BY RegisterAssumption, SMT DEF Quad
<1>1. RegsOK /\ \A q \in Queues : Ready(q) = 0
  <2>1. CASE dev = "blk"
    BY <2>1, <1>q, SmallWords DEF RegsOK, NewBlk, BlkRegs, Ready
  <2>2. CASE dev # "blk"
    <3>1. NewNetQueue \in NetQueueRegs /\ NewNetQueue.ready = 0
      BY <1>q, SmallWords DEF NewNetQueue, NetQueueRegs
    <3> QED BY <2>2, <3>1, <1>q, SmallWords DEF RegsOK, NewNet, NetRegs, Ready, Queues
  <2> QED BY <2>1, <2>2
<1>2. TypeOK
  BY <1>1, RegisterAssumption DEF TypeOK, RegsOK
<1>3. BeliefOK
  BY DEF BeliefOK
<1>4. PhaseFollows
  BY DEF PhaseFollows, NewNet
<1>5. ReadyBehind
  BY <1>1 DEF ReadyBehind
<1>6. SelectorsHeld
  BY DEF SelectorsHeld
<1>7. PlansTaken
  BY DEF PlansTaken, Queues
<1> QED BY <1>2, <1>3, <1>4, <1>5, <1>6, <1>7 DEF SetupInv

\* Each access of the driver keeps the invariant.
LEMMA SetupStep == SetupInv /\ [Next]_vars => SetupInv'
<1> SUFFICES ASSUME SetupInv, [Next]_vars PROVE SetupInv'
  OBVIOUS
<1> USE DEF SetupInv
<1>r. RegsOK
  BY DEF TypeOK, RegsOK
<1>n. queue \in {0, 1, 2}
  BY DEF BeliefOK
<1>1. CASE Acknowledge
  <2>0. dev' = dev /\ Write("STATUS", 1) /\ 1 \in Word /\ 1 # 0
    BY <1>1, SmallWords DEF Acknowledge
  <2>1. /\ RegsOK' /\ regs'.status = 1
        /\ regs'.queue_sel = regs.queue_sel
        /\ \A s \in Selector : SelectorField(s)' = SelectorField(s)
        /\ \A q \in Queues : Held(q)' = Held(q) /\ Ready(q)' = Ready(q)
    BY <1>r, <2>0, WriteStatus
  <2>2. TypeOK'
    BY <1>1, <2>1 DEF Acknowledge, TypeOK, RegsOK
  <2>3. BeliefOK'
    BY <1>1 DEF Acknowledge, BeliefOK, belief
  <2>4. PhaseFollows'
    BY <1>1, <2>1 DEF Acknowledge, PhaseFollows, belief
  <2>5. ReadyBehind'
    BY <1>1, <2>1 DEF Acknowledge, ReadyBehind, Queues
  <2>6. SelectorsHeld'
    BY <1>1, <2>1 DEF Acknowledge, SelectorsHeld, belief
  <2>7. PlansTaken'
    BY <1>1, <2>1 DEF Acknowledge, PlansTaken, Queues
  <2> QED BY <2>2, <2>3, <2>4, <2>5, <2>6, <2>7
<1>2. ASSUME NEW s \in Selector, NEW h \in Half, SelectFeatures(s, h)
      PROVE  SetupInv'
  <2>0. dev' = dev /\ Write(s, h) /\ h \in Word
    BY <1>2, SmallWords DEF SelectFeatures, Half, LOW, HIGH
  <2>1. /\ RegsOK' /\ regs'.status = regs.status
        /\ regs'.queue_sel = regs.queue_sel
        /\ SelectorField(s)' = h
        /\ \A o \in Selector \ {s} :
              dev # "blk" => SelectorField(o)' = SelectorField(o)
        /\ \A q \in Queues : Held(q)' = Held(q) /\ Ready(q)' = Ready(q)
    BY <1>r, <2>0, WriteSelector
  <2>2. TypeOK'
    BY <1>2, <2>1 DEF SelectFeatures, TypeOK, RegsOK
  <2>3. BeliefOK'
    BY <1>2 DEF SelectFeatures, BeliefOK
  <2>4. PhaseFollows'
    BY <1>2, <2>1 DEF SelectFeatures, PhaseFollows
  <2>5. ReadyBehind'
    BY <1>2, <2>1 DEF SelectFeatures, ReadyBehind, Queues
  <2>6. SelectorsHeld'
    <3>1. sel \in [Selector -> Half \cup {Unset}]
      BY DEF BeliefOK
    <3> SUFFICES ASSUME NEW o \in Selector, sel'[o] # Unset, dev = "blk" => last' = o
                 PROVE  SelectorField(o)' = sel'[o]
      BY <1>2 DEF SelectorsHeld, SelectFeatures
    <3>2. CASE o = s
      BY <1>2, <2>1, <3>1, <3>2 DEF SelectFeatures
    <3>3. CASE o # s
      <4>1. dev # "blk" /\ sel'[o] = sel[o]
        BY <1>2, <3>1, <3>3 DEF SelectFeatures
      <4> QED BY <2>1, <3>3, <4>1 DEF SelectorsHeld
    <3> QED BY <3>2, <3>3
  <2>7. PlansTaken'
    BY <1>2, <2>1 DEF SelectFeatures, PlansTaken, Queues
  <2> QED BY <2>2, <2>3, <2>4, <2>5, <2>6, <2>7
<1>3. CASE ReadFeatures
  <2>1. /\ UNCHANGED <<dev, regs, phase, last, sel, config, accepted, queue, plans, todo, nreset>>
        /\ Read("DEVICE_FEATURES") \in Word
    BY <1>3, FeatureWords DEF ReadFeatures, Read, BlkRead, NetRead
  <2>2. TypeOK' /\ PhaseFollows'
    BY <2>1 DEF TypeOK, PhaseFollows, Queues
  <2>3. BeliefOK'
    BY <1>3, <2>1 DEF ReadFeatures, BeliefOK
  <2>4. ReadyBehind' /\ SelectorsHeld'
    BY <2>1 DEF ReadyBehind, Queues, Ready, SelectorsHeld, SelectorField
  <2>5. PlansTaken'
    BY <2>1 DEF PlansTaken, Queues, Held
  <2> QED BY <2>2, <2>3, <2>4, <2>5
<1>4. ASSUME NEW reg \in ConfigReg, ReadConfig(reg)
      PROVE  SetupInv'
  <2>1. UNCHANGED <<dev, regs, phase, last, sel, seen, accepted, queue, plans, todo, nreset>>
    BY <1>4 DEF ReadConfig
  <2>2. TypeOK' /\ PhaseFollows'
    BY <2>1 DEF TypeOK, PhaseFollows, Queues
  <2>3. BeliefOK'
    BY <1>4, <2>1 DEF ReadConfig, BeliefOK
  <2>4. ReadyBehind' /\ SelectorsHeld'
    BY <2>1 DEF ReadyBehind, Queues, Ready, SelectorsHeld, SelectorField
  <2>5. PlansTaken'
    BY <2>1 DEF PlansTaken, Queues, Held
  <2> QED BY <2>2, <2>3, <2>4, <2>5
<1>5. ASSUME NEW val \in {seen[LOW], seen[HIGH], 0}, AcceptFeatures(val)
      PROVE  SetupInv'
  <2>0. /\ dev' = dev /\ Write("DRIVER_FEATURES", val)
        /\ UNCHANGED <<dev, phase, last, sel, seen, config, queue, plans, todo, nreset>>
    BY <1>5 DEF AcceptFeatures
  <2>v. val \in Word
    BY <1>5, SmallWords DEF AcceptFeatures, BeliefOK, Half
  <2>1. /\ RegsOK' /\ regs'.status = regs.status
        /\ regs'.queue_sel = regs.queue_sel
        /\ \A s \in Selector : SelectorField(s)' = SelectorField(s)
        /\ \A q \in Queues : Held(q)' = Held(q) /\ Ready(q)' = Ready(q)
    BY <1>r, <2>0, <2>v, WriteFeatures
  <2>2. TypeOK'
    BY <2>0, <2>1 DEF TypeOK, RegsOK
  <2>3. BeliefOK'
    <3>1. accepted' \in [Half -> Word \cup {Unset}]
      BY <1>5, <2>v DEF AcceptFeatures, BeliefOK
    <3> QED BY <2>0, <3>1 DEF BeliefOK
  <2>4. PhaseFollows'
    <3>1. phase = "features"
      BY <1>5 DEF AcceptFeatures
    <3> QED BY <2>0, <2>1, <3>1 DEF PhaseFollows
  <2>5. ReadyBehind'
    BY <2>0, <2>1 DEF ReadyBehind, Queues
  <2>6. SelectorsHeld'
    BY <2>0, <2>1 DEF SelectorsHeld
  <2>7. PlansTaken'
    <3>1. phase = "features"
      BY <1>5 DEF AcceptFeatures
    <3> QED BY <2>0, <2>1, <3>1 DEF PlansTaken, Queues
  <2> QED BY <2>2, <2>3, <2>4, <2>5, <2>6, <2>7
<1>6. CASE FeaturesOk
  <2>0. dev' = dev /\ Write("STATUS", 11) /\ 11 \in Word /\ 11 # 0
    BY <1>6, SmallWords DEF FeaturesOk
  <2>1. /\ RegsOK' /\ regs'.status = 11
        /\ regs'.queue_sel = regs.queue_sel
        /\ \A s \in Selector : SelectorField(s)' = SelectorField(s)
        /\ \A q \in Queues : Held(q)' = Held(q) /\ Ready(q)' = Ready(q)
    BY <1>r, <2>0, WriteStatus
  <2>2. TypeOK'
    BY <1>6, <2>1 DEF FeaturesOk, TypeOK, RegsOK
  <2>3. BeliefOK'
    BY <1>6 DEF FeaturesOk, BeliefOK, belief
  <2>4. PhaseFollows'
    BY <1>6, <2>1 DEF FeaturesOk, PhaseFollows, belief, Queues
  <2>5. ReadyBehind'
    BY <1>6, <2>1 DEF FeaturesOk, ReadyBehind, Queues
  <2>6. SelectorsHeld'
    BY <1>6, <2>1 DEF FeaturesOk, SelectorsHeld, belief
  <2>7. PlansTaken'
    BY <1>6, <2>1 DEF FeaturesOk, PlansTaken, Queues
  <2> QED BY <2>2, <2>3, <2>4, <2>5, <2>6, <2>7
<1>7. ASSUME NEW p \in Plan, SelectQueue(p)
      PROVE  SetupInv'
  <2>0. dev' = dev /\ Write("QUEUE_SEL", queue) /\ queue \in Queues
    BY <1>7 DEF SelectQueue
  <2>q. queue \in Word
    BY <1>n, SmallWords
  <2>1. /\ RegsOK' /\ regs'.status = regs.status
        /\ regs'.queue_sel = queue
        /\ \A s \in Selector : SelectorField(s)' = SelectorField(s)
        /\ \A q \in Queues : Held(q)' = Held(q) /\ Ready(q)' = Ready(q)
    BY <1>r, <2>0, <2>q, WriteQueueSel
  <2>2. TypeOK'
    BY <1>7, <2>1 DEF SelectQueue, TypeOK, RegsOK
  <2>3. BeliefOK'
    BY <1>7 DEF SelectQueue, BeliefOK, belief
  <2>p. /\ plans \in [{0, 1} -> Plan \cup {Unset}] /\ plans' = [plans EXCEPT ![queue] = p]
        /\ queue \in {0, 1}
    BY <1>7, <2>0 DEF SelectQueue, BeliefOK, Queues
  <2>4. PhaseFollows'
    <3>1. plans'[queue] \in Plan
      BY <2>p
    <3> QED BY <1>7, <2>0, <2>1, <3>1 DEF SelectQueue, PhaseFollows, belief, Queues
  <2>5. ReadyBehind'
    BY <1>7, <2>1 DEF SelectQueue, ReadyBehind, Queues
  <2>6. SelectorsHeld'
    BY <1>7, <2>1 DEF SelectQueue, SelectorsHeld, belief
  <2>7. PlansTaken'
    <3>1. \A q \in Queues : q < queue => plans'[q] = plans[q]
      BY <2>p DEF Queues
    <3> QED BY <1>7, <2>1, <3>1 DEF SelectQueue, PlansTaken, Queues
  <2> QED BY <2>2, <2>3, <2>4, <2>5, <2>6, <2>7
<1>8. ASSUME NEW reg \in Setting, WriteSetting(reg)
      PROVE  SetupInv'
  <2> DEFINE v == Value(plans[queue], reg)
  <2>0. /\ dev' = dev /\ Write(reg, v) /\ phase = "setup" /\ todo' = todo \ {reg}
        /\ UNCHANGED <<dev, phase, last, sel, seen, config, accepted, queue, plans, nreset>>
    BY <1>8 DEF WriteSetting, belief
  <2>q. queue \in Queues /\ regs.queue_sel = queue /\ plans[queue] \in Plan
    BY <2>0 DEF PhaseFollows
  <2>v. v \in Word /\ (reg = "QUEUE_NUM" => v <= 256)
    <3>1. v \in Word
      BY <2>q, ValueWord
    <3>2. ASSUME reg = "QUEUE_NUM" PROVE v <= 256
      <4>1. v = plans[queue].num
        BY <3>2 DEF Value
      <4>2. plans[queue].num \in 1..256
        BY <2>q, PlanTyped
      <4> QED BY <4>1, <4>2
    <3> QED BY <3>1, <3>2
  <2> HIDE DEF v
  <2>1. /\ RegsOK' /\ regs'.status = regs.status
        /\ regs'.queue_sel = regs.queue_sel
        /\ \A s \in Selector : SelectorField(s)' = SelectorField(s)
        /\ \A q \in Queues : Ready(q)' = Ready(q)
        /\ \A q \in Queues : q # regs.queue_sel => Held(q)' = Held(q)
        /\ Value(Held(regs.queue_sel)', reg) = v
        /\ \A o \in Setting \ {reg} :
              Value(Held(regs.queue_sel)', o) = Value(Held(regs.queue_sel), o)
    BY <1>r, <2>0, <2>q, <2>v, WriteSettingOf
  <2>2. TypeOK'
    BY <2>0, <2>1 DEF TypeOK, RegsOK
  <2>3. BeliefOK'
    BY <2>0 DEF BeliefOK
  <2>4. PhaseFollows'
    BY <2>0, <2>1 DEF PhaseFollows, Queues
  <2>5. ReadyBehind'
    BY <2>0, <2>1 DEF ReadyBehind, Queues
  <2>6. SelectorsHeld'
    BY <2>0, <2>1 DEF SelectorsHeld
  <2>7. PlansTaken'
    <3>1. \A q \in Queues : q < queue => Held(q)' = plans[q]
      BY <1>n, <2>q, <2>1 DEF PlansTaken, Queues
    <3>2. Held(queue)' = Held(regs.queue_sel)' /\ Held(queue) = Held(regs.queue_sel)
      BY <2>0, <2>q, <2>1
    <3>3. \A o \in Setting \ todo' : Value(Held(queue)', o) = Value(plans[queue], o)
      <4> SUFFICES ASSUME NEW o \in Setting, o \notin todo'
                   PROVE  Value(Held(queue)', o) = Value(plans[queue], o)
        OBVIOUS
      <4>1. CASE o = reg
        BY <4>1, <2>1, <3>2 DEF v
      <4>2. CASE o # reg
        <5>1. Value(Held(queue)', o) = Value(Held(queue), o)
          BY <4>2, <2>1, <3>2
        <5>2. o \notin todo
          BY <2>0, <4>2
        <5> QED BY <5>1, <5>2, <2>0 DEF PlansTaken
      <4> QED BY <4>1, <4>2
    <3> QED BY <2>0, <3>1, <3>3 DEF PlansTaken, Queues
  <2> QED BY <2>2, <2>3, <2>4, <2>5, <2>6, <2>7
<1>9. CASE QueueReady
  <2>0. /\ dev' = dev /\ Write("QUEUE_READY", 1) /\ phase = "setup" /\ phase' = "queues"
        /\ todo = {} /\ queue' = queue + 1
        /\ UNCHANGED <<dev, last, sel, seen, config, accepted, plans, todo, nreset>>
    BY <1>9 DEF QueueReady, belief
  <2>q. queue \in Queues /\ regs.queue_sel = queue /\ plans[queue] \in Plan
    BY <2>0 DEF PhaseFollows
  <2>1. /\ RegsOK' /\ regs'.status = regs.status
        /\ \A s \in Selector : SelectorField(s)' = SelectorField(s)
        /\ \A q \in Queues : Held(q)' = Held(q)
        /\ \A q \in Queues : q # regs.queue_sel => Ready(q)' = Ready(q)
    BY <1>r, <2>0, <2>q, WriteQueueReady
  <2>2. TypeOK'
    BY <2>0, <2>1 DEF TypeOK, RegsOK
  <2>3. BeliefOK'
    BY <2>0, <2>q DEF BeliefOK, Queues
  <2>4. PhaseFollows'
    BY <2>0, <2>1, <2>q DEF PhaseFollows, Queues
  <2>5. ReadyBehind'
    BY <1>n, <2>0, <2>1, <2>q DEF ReadyBehind, Queues
  <2>6. SelectorsHeld'
    BY <2>0, <2>1 DEF SelectorsHeld
  <2>7. PlansTaken'
    <3>1. Held(queue) = plans[queue]
      <4>1. Held(queue) \in [num : Word, desc : Quad, avail : Quad, used : Quad]
        BY <1>r, <2>q, HeldTyped
      <4>2. \A reg \in Setting : Value(Held(queue), reg) = Value(plans[queue], reg)
        BY <2>0 DEF PlansTaken
      <4> QED BY <4>1, <4>2, <2>q, SameSettings
    <3>2. \A q \in Queues : q < queue + 1 => q < queue \/ q = queue
      BY <1>n DEF Queues
    <3> QED BY <2>0, <2>1, <3>1, <3>2 DEF PlansTaken, Queues
  <2> QED BY <2>2, <2>3, <2>4, <2>5, <2>6, <2>7
<1>10. CASE DriverOk
  <2>0. dev' = dev /\ Write("STATUS", 15) /\ 15 \in Word /\ 15 # 0
    BY <1>10, SmallWords DEF DriverOk
  <2>1. /\ RegsOK' /\ regs'.status = 15
        /\ regs'.queue_sel = regs.queue_sel
        /\ \A s \in Selector : SelectorField(s)' = SelectorField(s)
        /\ \A q \in Queues : Held(q)' = Held(q) /\ Ready(q)' = Ready(q)
    BY <1>r, <2>0, WriteStatus
  <2>2. TypeOK'
    BY <1>10, <2>1 DEF DriverOk, TypeOK, RegsOK
  <2>3. BeliefOK'
    BY <1>10 DEF DriverOk, BeliefOK, belief
  <2>4. PhaseFollows'
    BY <1>10, <2>1 DEF DriverOk, PhaseFollows, belief, Queues
  <2>5. ReadyBehind'
    BY <1>10, <2>1 DEF DriverOk, ReadyBehind, Queues
  <2>6. SelectorsHeld'
    BY <1>10, <2>1 DEF DriverOk, SelectorsHeld, belief
  <2>7. PlansTaken'
    BY <1>10, <2>1 DEF DriverOk, PlansTaken, Queues
  <2> QED BY <2>2, <2>3, <2>4, <2>5, <2>6, <2>7
<1>11. CASE Reset
  <2>0. dev' = dev /\ Write("STATUS", 0) /\ regs.status # 0
    BY <1>11 DEF Reset, PhaseFollows
  <2>1. /\ RegsOK'
        /\ dev # "blk" => regs'.queue_sel = 0
        /\ \A q \in Queues : Ready(q)' = 0
    BY <1>r, <2>0, WriteReset
  <2>2. TypeOK'
    BY <1>11, <2>1, RegisterAssumption DEF Reset, Forget, TypeOK, RegsOK
  <2>3. BeliefOK'
    BY <1>11 DEF Reset, Forget, BeliefOK
  <2>4. PhaseFollows'
    BY <1>11, <2>1 DEF Reset, Forget, PhaseFollows
  <2>5. ReadyBehind'
    BY <1>11, <2>1 DEF Reset, ReadyBehind, Queues
  <2>6. SelectorsHeld'
    BY <1>11 DEF Reset, Forget, SelectorsHeld
  <2>7. PlansTaken'
    BY <1>11 DEF Reset, Forget, PlansTaken, Queues
  <2> QED BY <2>2, <2>3, <2>4, <2>5, <2>6, <2>7
<1>12. CASE UNCHANGED vars
  <2>1. UNCHANGED <<dev, regs, phase, last, sel, seen, config, accepted, queue, plans, todo, nreset>>
    BY <1>12 DEF vars, belief
  <2>2. TypeOK' /\ PhaseFollows'
    BY <2>1 DEF TypeOK, PhaseFollows, Queues
  <2>3. BeliefOK'
    BY <2>1 DEF BeliefOK
  <2>4. ReadyBehind' /\ SelectorsHeld'
    BY <2>1 DEF ReadyBehind, Queues, Ready, SelectorsHeld, SelectorField
  <2>5. PlansTaken'
    BY <2>1 DEF PlansTaken, Queues, Held
  <2> QED BY <2>2, <2>3, <2>4, <2>5
<1> QED BY <1>1, <1>2, <1>3, <1>4, <1>5, <1>6, <1>7, <1>8, <1>9, <1>10, <1>11, <1>12 DEF Next

\* The registers and what the driver knows of them, in every session.
THEOREM SetupInvariant == Spec => []SetupInv
<1>1. Init => SetupInv
  BY SetupInit
<1>2. SetupInv /\ [Next]_vars => SetupInv'
  BY SetupStep
<1> QED BY <1>1, <1>2, PTL DEF Spec

\* The registers of both devices keep their widths, whatever halves are
\* written and wherever a session is broken off (write() of virtio.rs and of
\* virtio_net.rs).
THEOREM TypeCorrect == Spec => []TypeOK
<1>1. SetupInv => TypeOK
  BY DEF SetupInv
<1> QED BY <1>1, SetupInvariant, PTL

\* QUEUE_READY reads 0 as long as the driver has not written all of a queue,
\* also after a reset (the STATUS cases of write()).
THEOREM QueueIdle == Spec => []IdleUntilReady
<1>1. SetupInv => IdleUntilReady
  <2> SUFFICES ASSUME SetupInv, phase \in {"off", "setup"}
               PROVE  Read("QUEUE_READY") = 0
    BY DEF IdleUntilReady
  <2>1. CASE dev = "blk"
    <3>1. queue = 0 /\ 0 \in Queues
      BY <2>1 DEF SetupInv, PhaseFollows, Queues
    <3>2. Ready(0) = 0
      BY <3>1 DEF SetupInv, ReadyBehind
    <3> QED BY <2>1, <3>2 DEF Ready, Read, BlkRead
  <2>2. CASE dev # "blk"
    <3>1. regs.queue_sel = queue /\ queue \in Queues /\ queue \in {0, 1}
      BY <2>2 DEF SetupInv, PhaseFollows, Queues
    <3>2. Ready(queue) = 0
      BY <3>1 DEF SetupInv, ReadyBehind
    <3>3. queue < 2
      BY <3>1
    <3> QED BY <2>2, <3>1, <3>2, <3>3 DEF Ready, Read, NetRead
  <2> QED BY <2>1, <2>2
<1> QED BY <1>1, SetupInvariant, PTL
-----------------------------------------------------------------------------
(***************************************************************************)
(* What depends on how the driver uses the selectors.  The block device    *)
(* has one selector: its driver must write it right before each access.    *)
(***************************************************************************)

\* The driver of the block device selects right before each access.
SelectsEachTime == "blk" \notin Independent

\* The half the driver counts on is the one selected.
LEMMA SelectedHeld ==
  ASSUME SelectsEachTime, SetupInv, NEW s \in Selector, Selected(s)
  PROVE  SelectorField(s) = sel[s] /\ sel[s] \in Half
BY DEF SelectsEachTime, SetupInv, SelectorsHeld, Selected, BeliefOK

\* What the driver has read stays what the device offers.
LEMMA SeesStep ==
  ASSUME SelectsEachTime, SetupInv, SeesDevice, [Next]_vars
  PROVE  SeesDevice'
<1>1. CASE ReadFeatures
  <2>1. Selected("DEVICE_FEATURES_SEL") /\ "DEVICE_FEATURES_SEL" \in Selector
    BY <1>1 DEF ReadFeatures, Selector
  <2> DEFINE h == sel["DEVICE_FEATURES_SEL"]
  <2>2. SelectorField("DEVICE_FEATURES_SEL") = h /\ h \in Half
    BY <2>1, SelectedHeld
  <2>3. Read("DEVICE_FEATURES") = Features(h)
    <3>1. CASE dev = "blk"
      BY <2>2, <3>1 DEF SelectorField, Read, BlkRead, Features
    <3>2. CASE dev # "blk"
      BY <2>2, <3>2 DEF SelectorField, Read, NetRead, Features
    <3> QED BY <3>1, <3>2
  <2> HIDE DEF h
  <2>4. \A o \in Half : Features(o)' = Features(o)
    BY <1>1 DEF ReadFeatures, Features
  <2>5. seen' = [seen EXCEPT ![h] = Features(h)] /\ seen \in [Half -> Word \cup {Unset}]
    BY <1>1, <2>3 DEF ReadFeatures, SetupInv, BeliefOK, h
  <2>6. \A o \in Half : seen'[o] \in {Unset, Features(o)}
    BY <2>2, <2>5 DEF SeesDevice
  <2>7. config' = config /\ Configuration' = Configuration
    BY <1>1 DEF ReadFeatures, Configuration
  <2> QED BY <2>4, <2>6, <2>7 DEF SeesDevice
<1>2. ASSUME NEW reg \in ConfigReg, ReadConfig(reg)
      PROVE  SeesDevice'
  <2>1. UNCHANGED <<dev, regs, seen>> /\ config' = [config EXCEPT ![reg] = Read(reg)]
    BY <1>2 DEF ReadConfig
  <2>2. Read(reg) = Configuration[reg]
    <3>1. CASE dev = "blk"
      BY <3>1 DEF Read, BlkRead, Configuration, ConfigReg
    <3>2. CASE dev # "blk" /\ reg = "CONFIG_LOW"
      <4>1. Read(reg) = NetConfig(0, 4)
        BY <3>2 DEF Read, NetRead
      <4>2. Configuration[reg] = <<mac[1], mac[2], mac[3], mac[4]>>
        BY <3>2 DEF Configuration
      <4>3. NetConfig(0, 4) = <<82, 84, 0, 18>>
        BY SMT DEF NetConfig, mac
      <4>4. <<mac[1], mac[2], mac[3], mac[4]>> = <<82, 84, 0, 18>>
        BY SMT DEF mac
      <4> QED BY <4>1, <4>2, <4>3, <4>4
    <3>3. CASE dev # "blk" /\ reg = "CONFIG_HIGH"
      <4>1. Read(reg) = NetConfig(4, 4)
        BY <3>3 DEF Read, NetRead
      <4>2. Configuration[reg] = <<mac[5], mac[6], 0, 0>>
        BY <3>3 DEF Configuration
      <4>3. NetConfig(4, 4) = <<52, 86, 0, 0>>
        BY SMT DEF NetConfig, mac
      <4>4. <<mac[5], mac[6], 0, 0>> = <<52, 86, 0, 0>>
        BY SMT DEF mac
      <4> QED BY <4>1, <4>2, <4>3, <4>4
    <3> QED BY <3>1, <3>2, <3>3 DEF ConfigReg
  <2>3. Configuration' = Configuration /\ \A h \in Half : Features(h)' = Features(h)
    BY <2>1 DEF Configuration, Features
  <2>4. \A o \in ConfigReg : config'[o] \in {Unset, Configuration[o]}
    BY <2>1, <2>2 DEF SeesDevice, SetupInv, BeliefOK
  <2> QED BY <2>1, <2>3, <2>4 DEF SeesDevice
<1>3. CASE Reset
  BY <1>3 DEF Reset, Forget, SeesDevice
<1>4. CASE UNCHANGED <<dev, seen, config>>
  <2>1. Configuration' = Configuration /\ \A h \in Half : Features(h)' = Features(h)
    BY <1>4 DEF Configuration, Features
  <2> QED BY <1>4, <2>1 DEF SeesDevice
<1>5. CASE Acknowledge \/ FeaturesOk \/ QueueReady \/ DriverOk
  BY <1>4, <1>5 DEF Acknowledge, FeaturesOk, QueueReady, DriverOk, belief
<1>6. CASE \E s \in Selector, h \in Half : SelectFeatures(s, h)
  BY <1>4, <1>6 DEF SelectFeatures
<1>7. CASE \E val \in {seen[LOW], seen[HIGH], 0} : AcceptFeatures(val)
  BY <1>4, <1>7 DEF AcceptFeatures
<1>8. CASE \E p \in Plan : SelectQueue(p)
  BY <1>4, <1>8 DEF SelectQueue, belief
<1>9. CASE \E reg \in Setting : WriteSetting(reg)
  BY <1>4, <1>9 DEF WriteSetting, belief
<1>10. CASE UNCHANGED vars
  BY <1>4, <1>10 DEF vars, belief
<1> QED BY <1>1, <1>2, <1>3, <1>5, <1>6, <1>7, <1>8, <1>9, <1>10 DEF Next

\* Both halves of the accepted features end up where the device keeps them.
LEMMA HalvesStep ==
  ASSUME SelectsEachTime, SetupInv, HalvesTaken, [Next]_vars
  PROVE  HalvesTaken'
<1>r. RegsOK
  BY DEF SetupInv, TypeOK, RegsOK
<1>k. ASSUME accepted' = accepted, regs'.driver_features = regs.driver_features
      PROVE  HalvesTaken'
  BY <1>k DEF HalvesTaken
<1>1. CASE Acknowledge
  <2>1. dev' = dev /\ Write("STATUS", 1) /\ 1 \in Word /\ 1 # 0 /\ accepted' = accepted
    BY <1>1, SmallWords DEF Acknowledge, belief
  <2> QED BY <1>k, <1>r, <2>1, WriteStatus
<1>2. ASSUME NEW s \in Selector, NEW h \in Half, SelectFeatures(s, h)
      PROVE  HalvesTaken'
  <2>1. dev' = dev /\ Write(s, h) /\ h \in Word /\ accepted' = accepted
    BY <1>2, SmallWords DEF SelectFeatures, Half, LOW, HIGH
  <2> QED BY <1>k, <1>r, <2>1, WriteSelector
<1>3. CASE ReadFeatures \/ (\E reg \in ConfigReg : ReadConfig(reg)) \/ UNCHANGED vars
  BY <1>k, <1>3 DEF ReadFeatures, ReadConfig, vars, belief
<1>4. ASSUME NEW val \in {seen[LOW], seen[HIGH], 0}, AcceptFeatures(val)
      PROVE  HalvesTaken'
  <2> DEFINE h == sel["DRIVER_FEATURES_SEL"]
  <2>1. SelectorField("DRIVER_FEATURES_SEL") = h /\ h \in Half
    BY <1>4, SelectedHeld DEF AcceptFeatures, Selector
  <2>2. /\ dev' = dev /\ Write("DRIVER_FEATURES", val)
        /\ accepted' = [accepted EXCEPT ![h] = val]
        /\ accepted \in [Half -> Word \cup {Unset}]
    BY <1>4 DEF AcceptFeatures, SetupInv, BeliefOK
  <2> HIDE DEF h
  <2>v. val \in Word
    BY <1>4, SmallWords DEF AcceptFeatures, SetupInv, BeliefOK, Half
  <2> DEFINE x == regs.driver_features
  <2>3. x \in Quad /\ h \in Word /\ regs'.driver_features = set_half(h, x, val)
    BY <1>r, <2>1, <2>2, <2>v, WriteFeatures
  <2> HIDE DEF x
  <2>4. CASE h = LOW
    <3>1. /\ regs'.driver_features % WordSize = val
          /\ regs'.driver_features \div WordSize = x \div WordSize
      BY <2>3, <2>4, <2>v, SetHalf
    <3>2. accepted'[LOW] = val /\ accepted'[HIGH] = accepted[HIGH]
      BY <2>2, <2>4 DEF Half, LOW, HIGH
    <3> QED BY <3>1, <3>2 DEF HalvesTaken, x
  <2>5. CASE h = HIGH
    <3>1. /\ regs'.driver_features % WordSize = x % WordSize
          /\ regs'.driver_features \div WordSize = val
      BY <2>3, <2>5, <2>v, SetHalf DEF LOW, HIGH
    <3>2. accepted'[HIGH] = val /\ accepted'[LOW] = accepted[LOW]
      BY <2>2, <2>5 DEF Half, LOW, HIGH
    <3> QED BY <3>1, <3>2 DEF HalvesTaken, x
  <2> QED BY <2>1, <2>4, <2>5 DEF Half
<1>5. CASE FeaturesOk
  <2>1. dev' = dev /\ Write("STATUS", 11) /\ 11 \in Word /\ 11 # 0 /\ accepted' = accepted
    BY <1>5, SmallWords DEF FeaturesOk, belief
  <2> QED BY <1>k, <1>r, <2>1, WriteStatus
<1>6. ASSUME NEW p \in Plan, SelectQueue(p)
      PROVE  HalvesTaken'
  <2>1. dev' = dev /\ Write("QUEUE_SEL", queue) /\ accepted' = accepted
    BY <1>6 DEF SelectQueue, belief
  <2>2. queue \in Word
    BY SmallWords DEF SetupInv, BeliefOK
  <2> QED BY <1>k, <1>r, <2>1, <2>2, WriteQueueSel
<1>7. ASSUME NEW reg \in Setting, WriteSetting(reg)
      PROVE  HalvesTaken'
  <2> DEFINE v == Value(plans[queue], reg)
  <2>1. dev' = dev /\ Write(reg, v) /\ accepted' = accepted
    BY <1>7 DEF WriteSetting, belief
  <2>2. regs.queue_sel \in Queues /\ plans[queue] \in Plan
    BY <1>7 DEF WriteSetting, SetupInv, PhaseFollows
  <2>3. v \in Word
    BY <2>2, ValueWord
  <2>4. ASSUME reg = "QUEUE_NUM" PROVE v <= 256
    <3>1. v = plans[queue].num
      BY <2>4 DEF Value
    <3>2. plans[queue].num \in 1..256
      BY <2>2, PlanTyped
    <3> QED BY <3>1, <3>2
  <2> HIDE DEF v
  <2> QED BY <1>k, <1>r, <2>1, <2>2, <2>3, <2>4, WriteSettingOf
<1>8. CASE QueueReady
  <2>1. dev' = dev /\ Write("QUEUE_READY", 1) /\ accepted' = accepted
    BY <1>8 DEF QueueReady, belief
  <2>2. regs.queue_sel \in Queues
    BY <1>8 DEF QueueReady, SetupInv, PhaseFollows
  <2> QED BY <1>k, <1>r, <2>1, <2>2, WriteQueueReady
<1>9. CASE DriverOk
  <2>1. dev' = dev /\ Write("STATUS", 15) /\ 15 \in Word /\ 15 # 0 /\ accepted' = accepted
    BY <1>9, SmallWords DEF DriverOk, belief
  <2> QED BY <1>k, <1>r, <2>1, WriteStatus
<1>10. CASE Reset
  BY <1>10 DEF Reset, Forget, HalvesTaken, Half
<1> QED BY <1>1, <1>2, <1>3, <1>4, <1>5, <1>6, <1>7, <1>8, <1>9, <1>10 DEF Next

\* What the driver has read of features, capacity and MAC address is what the
\* device has, in whatever order it selects the halves: the network device's
\* driver without a condition, the block device's if it selects right before
\* each access.
THEOREM DriverSeesDevice == SelectsEachTime => (Spec => []SeesDevice)
<1> SUFFICES ASSUME SelectsEachTime PROVE Spec => []SeesDevice
  OBVIOUS
<1>1. Init => SeesDevice
  BY DEF Init, SeesDevice
<1>2. SetupInv /\ SeesDevice /\ [Next]_vars => SeesDevice'
  BY SeesStep
<1> QED BY <1>1, <1>2, SetupInvariant, PTL DEF Spec

\* A running device works with the features, sizes and addresses that the
\* driver has given it in this session, whatever an earlier one has left in
\* the registers that a reset keeps.
THEOREM SettingsReachDevice == SelectsEachTime => (Spec => []SettingsTaken)
<1> SUFFICES ASSUME SelectsEachTime PROVE Spec => []SettingsTaken
  OBVIOUS
<1>1. Init => HalvesTaken
  BY DEF Init, HalvesTaken, Half
<1>2. SetupInv /\ HalvesTaken /\ [Next]_vars => HalvesTaken'
  BY HalvesStep
<1>3. SetupInv /\ HalvesTaken => SettingsTaken
  <2> SUFFICES ASSUME SetupInv, HalvesTaken, phase = "up" PROVE
                 /\ regs.driver_features = accepted[HIGH] * WordSize + accepted[LOW]
                 /\ \A q \in Queues : Held(q) = plans[q]
    BY DEF SettingsTaken
  <2>1. accepted[LOW] # Unset /\ accepted[HIGH] # Unset
    BY DEF SetupInv, PhaseFollows, Half
  <2>2. regs.driver_features \in Quad
    BY DEF SetupInv, TypeOK, BlkRegs, NetRegs
  <2>3. regs.driver_features = accepted[HIGH] * WordSize + accepted[LOW]
    BY <2>1, <2>2, Halves DEF HalvesTaken
  <2>4. \A q \in Queues : q < queue
    BY DEF SetupInv, PhaseFollows, BeliefOK, Queues
  <2> QED BY <2>3, <2>4 DEF SetupInv, PlansTaken
<1> QED BY <1>1, <1>2, <1>3, SetupInvariant, PTL DEF Spec
=============================================================================
