--------------------------- MODULE MmioRegisters ---------------------------
(***************************************************************************)
(* The register files of the two VirtIO-MMIO devices: read() and write()   *)
(* of VirtioBlock (virtio.rs) and of VirtioNet (virtio_net.rs), for the    *)
(* registers by which a driver negotiates features and hands over its      *)
(* queues.  VirtioBlock and VirtioNet model what the queues are used for.  *)
(*                                                                         *)
(* A device is a record of the fields of its struct; read and write are    *)
(* operators on it, one case per offset.  Every access is atomic: it is    *)
(* made with guest_mem or virtio_net locked, or reads a single field.      *)
(* WordSize stands for 2^32, the number of values of a register, so that a *)
(* 64-bit field is a number below WordSize * WordSize.  Accesses are of    *)
(* four bytes, the only size both devices take.                            *)
(*                                                                         *)
(* The driver resets the device, reads its features and configuration,     *)
(* accepts features, writes size and addresses of each queue in any order, *)
(* and starts over at any moment, without having finished perhaps.         *)
(***************************************************************************)
EXTENDS Integers, Sequences

CONSTANTS
  Device,       \* the devices: subset of {"blk", "net"}
  Independent,  \* those whose driver selects once and accesses later
  WordSize,     \* number of values of a register
  Sectors,      \* capacity of the disk
  Plan,         \* sizes and addresses a driver may choose for a queue
  Unset,        \* not read or written in this session
  MaxReset      \* bound: resets

ASSUME RegisterAssumption ==
  /\ Device \subseteq {"blk", "net"} /\ Independent \subseteq Device
  /\ WordSize \in Nat /\ WordSize > 256
  /\ Sectors \in 0 .. WordSize * WordSize - 1
  /\ Plan \subseteq [num : 1..256, desc : 0 .. WordSize * WordSize - 1,
                     avail : 0 .. WordSize * WordSize - 1,
                     used : 0 .. WordSize * WordSize - 1]
  /\ Unset \notin Nat
  /\ MaxReset \in Nat

Word == 0 .. WordSize - 1
Quad == 0 .. WordSize * WordSize - 1

LOW  == 0
HIGH == 1
Half == {LOW, HIGH}

\* Mutant: the other half is lost.
set_low_only(g, val) == val

\* The halves of a 64-bit field: (g & !mask) | val.
set_low(g, val) == (g \div WordSize) * WordSize + val

\* Mutant: shifted by one bit too many.
set_high_33(g, val) == (g % WordSize) + 2 * val * WordSize

set_high(g, val) == (g % WordSize) + val * WordSize

set_half(sel, g, val) == IF sel = 0 THEN set_low(g, val) ELSE set_high(g, val)
-----------------------------------------------------------------------------
(***************************************************************************)
(* VirtioBlock.  queue_sel is stored and ignored: there is one queue.      *)
(***************************************************************************)

NewBlk ==
  [status |-> 0, features_sel |-> 0, driver_features |-> 0, queue_sel |-> 0,
   queue_num |-> 0, queue_ready |-> 0,
   queue_desc |-> 0, queue_avail |-> 0, queue_used |-> 0]

\* SIZE_MAX, SEG_MAX, GEOMETRY and BLK_SIZE; VERSION_1 is bit 32.
BlkFeatures(sel) == IF sel = 0 THEN 2 + 4 + 16 + 64 ELSE 1

BlkRead(r, reg) ==
  CASE reg = "DEVICE_FEATURES" -> BlkFeatures(r.features_sel)
    [] reg = "QUEUE_NUM_MAX"   -> 256
    [] reg = "QUEUE_READY"     -> r.queue_ready
    [] reg = "STATUS"          -> r.status
    [] reg = "CONFIG_LOW"      -> Sectors % WordSize
    [] reg = "CONFIG_HIGH"     -> Sectors \div WordSize

\* Mutant: a reset that leaves the queue ready.
BlkStatusOnly(r, val) == [r EXCEPT !.status = val]

\* STATUS: a reset clears queue_ready and leaves all other fields as they are.
BlkStatus(r, val) ==
  [r EXCEPT !.status = val,
            !.queue_ready = IF val = 0 /\ r.status # 0 THEN 0 ELSE @]

BlkWrite(r, reg, val) ==
  CASE reg = "DEVICE_FEATURES_SEL" -> [r EXCEPT !.features_sel = val]
    [] reg = "DRIVER_FEATURES_SEL" -> [r EXCEPT !.features_sel = val]
    [] reg = "DRIVER_FEATURES"     ->
         [r EXCEPT !.driver_features = set_half(r.features_sel, @, val)]
    [] reg = "QUEUE_SEL"           -> [r EXCEPT !.queue_sel = val]
    [] reg = "QUEUE_NUM"           -> [r EXCEPT !.queue_num = val]
    [] reg = "QUEUE_READY"         -> [r EXCEPT !.queue_ready = val]
    [] reg = "STATUS"              -> BlkStatus(r, val)
    [] reg = "QUEUE_DESC_LOW"      -> [r EXCEPT !.queue_desc = set_low(@, val)]
    [] reg = "QUEUE_DESC_HIGH"     -> [r EXCEPT !.queue_desc = set_high(@, val)]
    [] reg = "QUEUE_AVAIL_LOW"     -> [r EXCEPT !.queue_avail = set_low(@, val)]
    [] reg = "QUEUE_AVAIL_HIGH"    -> [r EXCEPT !.queue_avail = set_high(@, val)]
    [] reg = "QUEUE_USED_LOW"      -> [r EXCEPT !.queue_used = set_low(@, val)]
    [] reg = "QUEUE_USED_HIGH"     -> [r EXCEPT !.queue_used = set_high(@, val)]
-----------------------------------------------------------------------------
(***************************************************************************)
(* VirtioNet.  Writes to a queue that does not exist are ignored.          *)
(***************************************************************************)

NewNetQueue ==
  [queue_size |-> 0, ready |-> 0,
   desc_addr |-> 0, avail_addr |-> 0, used_addr |-> 0]

NewNet ==
  [status |-> 0, driver_features_sel |-> 0, device_features_sel |-> 0,
   driver_features |-> 0, queue_sel |-> 0,
   queues |-> [q \in {0, 1} |-> NewNetQueue]]

mac == <<82, 84, 0, 18, 52, 86>>      \* 52:54:00:12:34:56

\* NET_F_MAC is bit 5, VERSION_1 bit 32.
NetFeatures(sel) == IF sel = 0 THEN 32 ELSE IF sel = 1 THEN 1 ELSE 0

\* The bytes of the MAC address from idx on, then zeroes.
NetConfig(idx, len) == [i \in 1..len |-> IF idx + i <= 6 THEN mac[idx + i] ELSE 0]

NetRead(r, reg) ==
  CASE reg = "DEVICE_FEATURES" -> NetFeatures(r.device_features_sel)
    [] reg = "QUEUE_NUM_MAX"   -> 256
    [] reg = "QUEUE_READY"     ->
         IF r.queue_sel < 2 THEN r.queues[r.queue_sel].ready ELSE 0
    [] reg = "STATUS"          -> r.status
    [] reg = "CONFIG_LOW"      -> NetConfig(0, 4)
    [] reg = "CONFIG_HIGH"     -> NetConfig(4, 4)

\* reset() starts the queues and queue_sel over, not the features.
NetStatus(r, val) ==
  IF val = 0
    THEN [r EXCEPT !.status = 0, !.queue_sel = 0,
                   !.queues = [q \in {0, 1} |-> NewNetQueue]]
    ELSE [r EXCEPT !.status = val]

\* Mutant: one selector for both purposes.
NetSelectShared(r, val) ==
  [r EXCEPT !.driver_features_sel = val, !.device_features_sel = val]

NetSelectDriver(r, val) == [r EXCEPT !.driver_features_sel = val]

\* A write to a register of the selected queue.
NetQueue(queue, reg, val) ==
  CASE reg = "QUEUE_NUM"        -> [queue EXCEPT !.queue_size = val % 65536]
    [] reg = "QUEUE_READY"      -> [queue EXCEPT !.ready = val % 2]
    [] reg = "QUEUE_DESC_LOW"   -> [queue EXCEPT !.desc_addr = set_low(@, val)]
    [] reg = "QUEUE_DESC_HIGH"  -> [queue EXCEPT !.desc_addr = set_high(@, val)]
    [] reg = "QUEUE_AVAIL_LOW"  -> [queue EXCEPT !.avail_addr = set_low(@, val)]
    [] reg = "QUEUE_AVAIL_HIGH" -> [queue EXCEPT !.avail_addr = set_high(@, val)]
    [] reg = "QUEUE_USED_LOW"   -> [queue EXCEPT !.used_addr = set_low(@, val)]
    [] reg = "QUEUE_USED_HIGH"  -> [queue EXCEPT !.used_addr = set_high(@, val)]

NetWrite(r, reg, val) ==
  CASE reg = "DEVICE_FEATURES_SEL" -> [r EXCEPT !.device_features_sel = val]
    [] reg = "DRIVER_FEATURES_SEL" -> NetSelectDriver(r, val)
    [] reg = "DRIVER_FEATURES"     ->
         [r EXCEPT !.driver_features = set_half(r.driver_features_sel, @, val)]
    [] reg = "QUEUE_SEL"           -> [r EXCEPT !.queue_sel = val]
    [] reg = "STATUS"              -> NetStatus(r, val)
    [] OTHER                       ->
         IF r.queue_sel < 2
           THEN [r EXCEPT !.queues[r.queue_sel] = NetQueue(@, reg, val)]
           ELSE r
-----------------------------------------------------------------------------
VARIABLES
  dev,      \* the device at hand
  regs,     \* its registers
  phase,    \* how far the driver is
  last,     \* the selector it has written last
  sel,      \* what it has written to each selector
  seen,     \* halves of the device's features it has read
  config,   \* words of the configuration it has read
  accepted, \* halves of the features it has accepted
  queue,    \* the queue it configures
  plans,    \* what it has chosen for each queue
  todo,     \* registers of this queue it has still to write
  nreset

belief == <<last, sel, seen, config, accepted>>
vars == <<dev, regs, phase, belief, queue, plans, todo, nreset>>

ConfigReg == {"CONFIG_LOW", "CONFIG_HIGH"}
Selector == {"DEVICE_FEATURES_SEL", "DRIVER_FEATURES_SEL"}
Queues   == IF dev = "blk" THEN {0} ELSE {0, 1}
Setting  == {"QUEUE_NUM", "QUEUE_DESC_LOW", "QUEUE_DESC_HIGH",
             "QUEUE_AVAIL_LOW", "QUEUE_AVAIL_HIGH",
             "QUEUE_USED_LOW", "QUEUE_USED_HIGH"}

Value(p, reg) ==
  CASE reg = "QUEUE_NUM"        -> p.num
    [] reg = "QUEUE_DESC_LOW"   -> p.desc % WordSize
    [] reg = "QUEUE_DESC_HIGH"  -> p.desc \div WordSize
    [] reg = "QUEUE_AVAIL_LOW"  -> p.avail % WordSize
    [] reg = "QUEUE_AVAIL_HIGH" -> p.avail \div WordSize
    [] reg = "QUEUE_USED_LOW"   -> p.used % WordSize
    [] reg = "QUEUE_USED_HIGH"  -> p.used \div WordSize

Read(reg) == IF dev = "blk" THEN BlkRead(regs, reg) ELSE NetRead(regs, reg)

Write(reg, val) ==
  regs' = IF dev = "blk" THEN BlkWrite(regs, reg, val) ELSE NetWrite(regs, reg, val)

\* STATUS = ACKNOWLEDGE: a new session.
Acknowledge ==
  /\ phase = "off"
  /\ Write("STATUS", 1)
  /\ phase' = "features"
  /\ UNCHANGED <<dev, belief, queue, plans, todo, nreset>>

SelectFeatures(s, h) ==
  /\ phase = "features"
  /\ Write(s, h)
  /\ last' = s
  /\ sel' = [sel EXCEPT ![s] = h]
  /\ UNCHANGED <<dev, phase, seen, config, accepted, queue, plans, todo, nreset>>

\* The driver counts on the selector s: it has just written it, or it takes
\* the two selectors to be independent.
Selected(s) == sel[s] # Unset /\ (last = s \/ dev \in Independent)

ReadFeatures ==
  /\ phase = "features" /\ Selected("DEVICE_FEATURES_SEL")
  /\ seen' = [seen EXCEPT ![sel["DEVICE_FEATURES_SEL"]] = Read("DEVICE_FEATURES")]
  /\ UNCHANGED <<dev, regs, phase, last, sel, config, accepted, queue, plans, todo, nreset>>

ReadConfig(reg) ==
  /\ phase = "features"
  /\ config' = [config EXCEPT ![reg] = Read(reg)]
  /\ UNCHANGED <<dev, regs, phase, last, sel, seen, accepted, queue, plans, todo, nreset>>

\* What it has seen is accepted as a whole, or nothing of the low half.
AcceptFeatures(val) ==
  /\ phase = "features" /\ Selected("DRIVER_FEATURES_SEL")
  /\ \A h \in Half : seen[h] # Unset
  /\ LET h == sel["DRIVER_FEATURES_SEL"]
     IN  /\ val \in {seen[h]} \cup (IF h = LOW THEN {0} ELSE {})
         /\ Write("DRIVER_FEATURES", val)
         /\ accepted' = [accepted EXCEPT ![h] = val]
  /\ UNCHANGED <<dev, phase, last, sel, seen, config, queue, plans, todo, nreset>>

FeaturesOk ==
  /\ phase = "features" /\ \A h \in Half : accepted[h] # Unset
  /\ Write("STATUS", 11)
  /\ phase' = "queues"
  /\ UNCHANGED <<dev, belief, queue, plans, todo, nreset>>

SelectQueue(p) ==
  /\ phase = "queues" /\ queue \in Queues
  /\ Write("QUEUE_SEL", queue)
  /\ phase' = "setup"
  /\ plans' = [plans EXCEPT ![queue] = p]
  /\ todo' = Setting
  /\ UNCHANGED <<dev, belief, queue, nreset>>

WriteSetting(reg) ==
  /\ phase = "setup" /\ reg \in todo
  /\ Write(reg, Value(plans[queue], reg))
  /\ todo' = todo \ {reg}
  /\ UNCHANGED <<dev, phase, belief, queue, plans, nreset>>

QueueReady ==
  /\ phase = "setup" /\ todo = {}
  /\ Write("QUEUE_READY", 1)
  /\ phase' = "queues"
  /\ queue' = queue + 1
  /\ UNCHANGED <<dev, belief, plans, todo, nreset>>

DriverOk ==
  /\ phase = "queues" /\ queue \notin Queues
  /\ Write("STATUS", 15)
  /\ phase' = "up"
  /\ UNCHANGED <<dev, belief, queue, plans, todo, nreset>>

Forget ==
  /\ last' = Unset /\ sel' = [s \in Selector |-> Unset]
  /\ seen' = [h \in Half |-> Unset] /\ accepted' = [h \in Half |-> Unset]
  /\ config' = [reg \in ConfigReg |-> Unset]
  /\ queue' = 0 /\ plans' = [q \in {0, 1} |-> Unset] /\ todo' = {}

\* STATUS = 0, at any moment.
Reset ==
  /\ phase # "off" /\ nreset < MaxReset
  /\ Write("STATUS", 0)
  /\ phase' = "off"
  /\ nreset' = nreset + 1
  /\ Forget
  /\ UNCHANGED dev

Init ==
  /\ dev \in Device
  /\ regs = IF dev = "blk" THEN NewBlk ELSE NewNet
  /\ phase = "off"
  /\ last = Unset /\ sel = [s \in Selector |-> Unset]
  /\ seen = [h \in Half |-> Unset] /\ accepted = [h \in Half |-> Unset]
  /\ config = [reg \in ConfigReg |-> Unset]
  /\ queue = 0 /\ plans = [q \in {0, 1} |-> Unset] /\ todo = {}
  /\ nreset = 0

Next ==
  \/ Acknowledge
  \/ \E s \in Selector, h \in Half : SelectFeatures(s, h)
  \/ ReadFeatures
  \/ \E reg \in ConfigReg : ReadConfig(reg)
  \/ \E val \in {seen[LOW], seen[HIGH], 0} : AcceptFeatures(val)
  \/ FeaturesOk
  \/ \E p \in Plan : SelectQueue(p)
  \/ \E reg \in Setting : WriteSetting(reg)
  \/ QueueReady \/ DriverOk \/ Reset

Spec == Init /\ [][Next]_vars
-----------------------------------------------------------------------------
(***************************************************************************)
(* Properties.                                                             *)
(***************************************************************************)

\* The fields of each struct, with their widths.
BlkRegs ==
  [status : Word, features_sel : Word, driver_features : Quad, queue_sel : Word,
   queue_num : Word, queue_ready : Word,
   queue_desc : Quad, queue_avail : Quad, queue_used : Quad]

NetQueueRegs ==
  [queue_size : Word, ready : {0, 1},
   desc_addr : Quad, avail_addr : Quad, used_addr : Quad]

NetRegs ==
  [status : Word, driver_features_sel : Word, device_features_sel : Word,
   driver_features : Quad, queue_sel : Word, queues : [{0, 1} -> NetQueueRegs]]

\* The registers of each device keep their widths.
TypeOK ==
  /\ dev \in Device
  /\ phase \in {"off", "features", "queues", "setup", "up"}
  /\ regs \in IF dev = "blk" THEN BlkRegs ELSE NetRegs
  /\ todo \subseteq Setting /\ nreset \in 0..MaxReset

\* What the device has: both halves of its features, capacity or MAC address.
Features(h) == IF dev = "blk" THEN BlkFeatures(h) ELSE NetFeatures(h)
Configuration ==
  IF dev = "blk"
    THEN [CONFIG_LOW |-> Sectors % WordSize, CONFIG_HIGH |-> Sectors \div WordSize]
    ELSE [CONFIG_LOW |-> <<mac[1], mac[2], mac[3], mac[4]>>,
          CONFIG_HIGH |-> <<mac[5], mac[6], 0, 0>>]

\* What the driver has read of features and configuration is what the device
\* has, in whatever order it selects the halves of both features: for the
\* block device provided it selects right before each access, because that
\* device has one selector for the device's and the driver's features.
SeesDevice ==
  /\ \A h \in Half : seen[h] \in {Unset, Features(h)}
  /\ \A reg \in ConfigReg : config[reg] \in {Unset, Configuration[reg]}

\* What the device holds for queue q, in the terms of the driver's choice.
Held(q) ==
  IF dev = "blk"
    THEN [num |-> regs.queue_num, desc |-> regs.queue_desc,
          avail |-> regs.queue_avail, used |-> regs.queue_used]
    ELSE [num |-> regs.queues[q].queue_size, desc |-> regs.queues[q].desc_addr,
          avail |-> regs.queues[q].avail_addr, used |-> regs.queues[q].used_addr]

\* A running device works with the features, sizes and addresses that the
\* driver has given it in this session, whatever an earlier session, broken
\* off anywhere, has left in the registers.
SettingsTaken ==
  phase = "up" =>
    /\ regs.driver_features = accepted[HIGH] * WordSize + accepted[LOW]
    /\ \A q \in Queues : Held(q) = plans[q]

\* A queue that the driver is about to configure is not in use: QUEUE_READY
\* reads 0 until the driver has written all of it, also after a reset.
IdleUntilReady == phase \in {"off", "setup"} => Read("QUEUE_READY") = 0
-----------------------------------------------------------------------------
(***************************************************************************)
(* The inductive invariant of MmioRegistersProofs.                         *)
(***************************************************************************)

\* The types of what the driver remembers.
BeliefOK ==
  /\ last \in Selector \cup {Unset}
  /\ sel \in [Selector -> Half \cup {Unset}]
  /\ seen \in [Half -> Word \cup {Unset}]
  /\ DOMAIN config = ConfigReg
  /\ accepted \in [Half -> Word \cup {Unset}]
  /\ queue \in 0..2
  /\ plans \in [{0, 1} -> Plan \cup {Unset}]

\* Where the driver is, the status and the queue it has selected agree.
PhaseFollows ==
  /\ phase # "off" => regs.status # 0
  /\ phase = "off" => regs.queue_sel = 0 \/ dev = "blk"
  /\ phase \in {"off", "features"} => queue = 0
  /\ phase = "queues" => queue \in Queues \/ queue - 1 \in Queues
  /\ phase = "setup" => queue \in Queues /\ regs.queue_sel = queue
                        /\ plans[queue] \in Plan
  /\ phase = "up" => queue \notin Queues
  /\ phase \notin {"off", "features"} => \A h \in Half : accepted[h] # Unset

Ready(q) == IF dev = "blk" THEN regs.queue_ready ELSE regs.queues[q].ready

\* No queue is ready but those the driver is done with.
ReadyBehind == \A q \in Queues : queue <= q => Ready(q) = 0

\* The field that a write to the selector s sets.
SelectorField(s) ==
  IF dev = "blk" THEN regs.features_sel
  ELSE IF s = "DRIVER_FEATURES_SEL" THEN regs.driver_features_sel
  ELSE regs.device_features_sel

\* The device has the half selected that the driver counts on.
SelectorsHeld ==
  \A s \in Selector :
    sel[s] # Unset /\ (dev = "blk" => last = s) => SelectorField(s) = sel[s]

\* The halves accepted are those of the field.
HalvesTaken ==
  /\ accepted[LOW] # Unset => regs.driver_features % WordSize = accepted[LOW]
  /\ accepted[HIGH] # Unset => regs.driver_features \div WordSize = accepted[HIGH]

\* The queues the driver is done with are as planned, and so is every
\* setting written of the queue at hand.
PlansTaken ==
  /\ \A q \in Queues : q < queue => Held(q) = plans[q]
  /\ phase = "setup" =>
       \A reg \in Setting \ todo : Value(Held(queue), reg) = Value(plans[queue], reg)
=============================================================================
