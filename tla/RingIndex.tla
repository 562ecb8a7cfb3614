----------------------------- MODULE RingIndex -----------------------------
(***************************************************************************)
(* Free-running ring indices of a split virtqueue.  avail.idx, used.idx    *)
(* and the device's last_avail_idx are u16 counters that wrap at 2^16; the *)
(* ring slot of an index is the index modulo the queue size.  IdxMod       *)
(* stands for 2^16 so that a small instance can wrap.                      *)
(***************************************************************************)
EXTENDS Integers

CONSTANTS
  IdxMod,     \* number of values of an index (2^16 in the code)
  QueueSize   \* the value the driver writes to QUEUE_NUM

\* A queue size is a power of two no larger than 256, so it divides 2^16
\* and is smaller than it.
ASSUME RingAssumption ==
  /\ IdxMod \in Nat
  /\ QueueSize \in Nat \ {0}
  /\ QueueSize < IdxMod
  /\ \E k \in 1..IdxMod : IdxMod = QueueSize * k

Idx  == 0 .. IdxMod - 1
Desc == 0 .. QueueSize - 1

\* Mutant: an index that does not wrap.
PlainInc(i) == i + 1

\* u16::wrapping_add(1)
WrappingInc(i) == IF i + 1 = IdxMod THEN 0 ELSE i + 1

\* The k-th index from i on, 0 <= k < IdxMod.
IdxAt(i, k) == IF i + k < IdxMod THEN i + k ELSE i + k - IdxMod

\* How far a is ahead of b: the u16 difference a.wrapping_sub(b).
Dist(a, b) == IF a >= b THEN a - b ELSE a - b + IdxMod

\* The ring slot of an index.
Slot(i) == i % QueueSize
=============================================================================
