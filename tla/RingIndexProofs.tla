-------------------------- MODULE RingIndexProofs --------------------------
(***************************************************************************)
(* Arithmetic of free-running ring indices, for every index width and      *)
(* every queue size that divides it.                                       *)
(***************************************************************************)
EXTENDS RingIndex, Sequences, FiniteSets, FiniteSetTheorems, SequenceTheorems, TLAPS

\* The operators stay within their types.
LEMMA IndexTypes ==
  ASSUME NEW a \in Idx, NEW b \in Idx
  PROVE  /\ WrappingInc(a) \in Idx
         /\ \A k \in 0 .. IdxMod - 1 : IdxAt(a, k) \in Idx
         /\ Dist(a, b) \in 0 .. IdxMod - 1
BY RingAssumption DEF Idx, WrappingInc, IdxAt, Dist

\* A slot is a descriptor index: the ring has QueueSize slots.
LEMMA SlotType ==
  ASSUME NEW i \in Nat
  PROVE  Slot(i) \in Desc
BY RingAssumption DEF Slot, Desc

\* Dist measures from b up to a.
LEMMA DistIsDistance ==
  ASSUME NEW a \in Idx, NEW b \in Idx
  PROVE  /\ IdxAt(b, Dist(a, b)) = a
         /\ Dist(a, b) = 0 <=> a = b
BY RingAssumption DEF Idx, IdxAt, Dist

\* Publishing one more entry, and consuming one.
LEMMA DistStep ==
  ASSUME NEW a \in Idx, NEW b \in Idx
  PROVE  /\ Dist(a, b) + 1 < IdxMod => Dist(WrappingInc(a), b) = Dist(a, b) + 1
         /\ a # b => Dist(a, WrappingInc(b)) = Dist(a, b) - 1
BY RingAssumption DEF Idx, WrappingInc, Dist

\* Consuming one entry shifts the window by one.
LEMMA IdxAtStep ==
  ASSUME NEW i \in Idx, NEW k \in Nat, k + 1 < IdxMod
  PROVE  IdxAt(WrappingInc(i), k) = IdxAt(i, k + 1)
BY RingAssumption DEF Idx, WrappingInc, IdxAt

\* Steps along the ring add up.
LEMMA IdxAtAdd ==
  ASSUME NEW i \in Idx, NEW a \in Nat, NEW b \in Nat, a + b < IdxMod
  PROVE  IdxAt(IdxAt(i, a), b) = IdxAt(i, a + b)
BY RingAssumption DEF Idx, IdxAt

\* Distances from the same index tell how far two others are apart.
LEMMA DistSplit ==
  ASSUME NEW a \in Idx, NEW b \in Idx, NEW i \in Idx, Dist(b, i) <= Dist(a, i)
  PROVE  Dist(a, b) = Dist(a, i) - Dist(b, i)
BY RingAssumption DEF Idx, Dist

\* The slot of an index is its residue, also across the wrap of the index.
LEMMA SlotResidue ==
  ASSUME NEW i \in Idx, NEW k \in 0 .. IdxMod - 1
  PROVE  \E q \in Int : i + k = QueueSize * q + Slot(IdxAt(i, k))
<1>1. PICK m \in 1..IdxMod : IdxMod = QueueSize * m
  BY RingAssumption
<1>2. IdxAt(i, k) \in Nat
  BY RingAssumption DEF Idx, IdxAt
<1>3. PICK q \in Int : IdxAt(i, k) = QueueSize * q + Slot(IdxAt(i, k))
  <2>1. IdxAt(i, k) = QueueSize * (IdxAt(i, k) \div QueueSize)
                      + (IdxAt(i, k) % QueueSize)
    BY <1>2, RingAssumption
  <2>2. IdxAt(i, k) \div QueueSize \in Int
    BY <1>2, RingAssumption
  <2> QED BY <2>1, <2>2 DEF Slot
<1>4. Slot(IdxAt(i, k)) \in Int
  BY <1>2, SlotType DEF Desc
<1>5. CASE i + k < IdxMod
  BY <1>3, <1>5 DEF IdxAt
<1>6. CASE i + k >= IdxMod
  <2>1. i + k = QueueSize * (q + m) + Slot(IdxAt(i, k))
    <3>1. IdxAt(i, k) = i + k - IdxMod
      BY <1>6, RingAssumption DEF Idx, IdxAt
    <3>2. QueueSize * (q + m) = QueueSize * q + QueueSize * m
      BY <1>1, <1>3, RingAssumption
    <3>3. QueueSize * q \in Int
      BY <1>3, RingAssumption
    <3> QED BY <3>1, <3>2, <3>3, <1>1, <1>3, <1>4, RingAssumption DEF Idx
  <2>2. q + m \in Int
    BY <1>1, <1>3
  <2> QED BY <2>1, <2>2
<1> QED BY <1>5, <1>6, RingAssumption DEF Idx

\* Entries less than a queue size apart have different slots.
LEMMA SlotInjective ==
  ASSUME NEW i \in Idx, NEW j \in 0 .. QueueSize - 1, NEW k \in 0 .. QueueSize - 1,
         Slot(IdxAt(i, j)) = Slot(IdxAt(i, k))
  PROVE  j = k
<1>0. j \in 0 .. IdxMod - 1 /\ k \in 0 .. IdxMod - 1
  BY RingAssumption
<1>1. PICK p \in Int : i + j = QueueSize * p + Slot(IdxAt(i, j))
  BY <1>0, SlotResidue
<1>2. PICK q \in Int : i + k = QueueSize * q + Slot(IdxAt(i, k))
  BY <1>0, SlotResidue
<1>3. Slot(IdxAt(i, j)) \in Int
  BY <1>0, IndexTypes, SlotType, RingAssumption DEF Idx, Desc
<1>4. QueueSize * p \in Int /\ QueueSize * q \in Int
  BY RingAssumption
<1>5. j - k = QueueSize * p - QueueSize * q
  BY <1>1, <1>2, <1>3, <1>4, RingAssumption DEF Idx
<1>6. j - k = QueueSize * (p - q)
  BY <1>5, RingAssumption
<1>7. p = q
  <2>1. ASSUME p - q >= 1 PROVE FALSE
    <3>1. QueueSize * (p - q) >= QueueSize
      BY <2>1, RingAssumption
    <3> QED BY <3>1, <1>6, RingAssumption
  <2>2. ASSUME q - p >= 1 PROVE FALSE
    <3>1. QueueSize * (q - p) >= QueueSize
      BY <2>2, RingAssumption
    <3>2. QueueSize * (q - p) = k - j
      BY <1>5, RingAssumption
    <3> QED BY <3>1, <3>2, RingAssumption
  <2> QED BY <2>1, <2>2
<1> QED BY <1>5, <1>7, <1>4

\* More pigeons than holes.
LEMMA Pigeons ==
  ASSUME NEW S, NEW T, IsFiniteSet(S), IsFiniteSet(T),
         Cardinality(T) < Cardinality(S), NEW f \in [S -> T]
  PROVE  \E x, y \in S : x # y /\ f[x] = f[y]
BY FS_PigeonHole

\* Heads that are all different leave room on the ring as long as there is a
\* descriptor that is none of them.
LEMMA RoomLeft ==
  ASSUME NEW n \in Nat, n <= QueueSize, NEW f \in [0 .. n - 1 -> Desc],
         \A j, k \in 0 .. n - 1 : f[j] = f[k] => j = k,
         NEW h \in Desc, \A k \in 0 .. n - 1 : f[k] # h
  PROVE  n < QueueSize
<1> USE RingAssumption
<1>1. SUFFICES ASSUME n = QueueSize PROVE FALSE
  OBVIOUS
<1>2. 0 .. n - 1 = Desc
  BY <1>1 DEF Desc
<1>3. IsFiniteSet(Desc) /\ Cardinality(Desc) = QueueSize
  <2>1. 0 \in Int /\ QueueSize - 1 \in Int
    OBVIOUS
  <2> QED BY <2>1, FS_Interval DEF Desc
<1>4. /\ IsFiniteSet(Desc \ {h})
      /\ Cardinality(Desc \ {h}) = QueueSize - 1
  BY <1>3, FS_RemoveElement
<1>5. f \in [Desc -> Desc \ {h}]
  BY <1>2
<1>6. \E x, y \in Desc : x # y /\ f[x] = f[y]
  <2>1. Cardinality(Desc \ {h}) < Cardinality(Desc)
    BY <1>3, <1>4
  <2> DEFINE T == Desc \ {h}
  <2>2. IsFiniteSet(Desc) /\ IsFiniteSet(T) /\ Cardinality(T) < Cardinality(Desc) /\ f \in [Desc -> T]
    BY <1>3, <1>4, <1>5, <2>1
  <2> HIDE DEF T
  <2> QED BY <2>2, Pigeons
<1> QED BY <1>2, <1>6
-----------------------------------------------------------------------------
(***************************************************************************)
(* The entries of a ring as a sequence.                                    *)
(***************************************************************************)

\* One more entry at the end.
LEMMA WindowAppend ==
  ASSUME NEW S, NEW n \in Nat, NEW f \in [1 .. n -> S], NEW e \in [1 .. n + 1 -> S],
         \A k \in 1 .. n : e[k] = f[k]
  PROVE  e = Append(f, e[n + 1])
<1>1. f \in Seq(S) /\ Len(f) = n
  BY SMT
<1>2. e \in Seq(S) /\ Len(e) = n + 1
  BY SMT
<1>3. n + 1 \in 1 .. n + 1
  OBVIOUS
<1>4. e[n + 1] \in S
  BY <1>3
<1>5. /\ Append(f, e[n + 1]) \in Seq(S) /\ Len(Append(f, e[n + 1])) = n + 1
      /\ \A k \in 1 .. n : Append(f, e[n + 1])[k] = f[k]
      /\ Append(f, e[n + 1])[n + 1] = e[n + 1]
  BY <1>1, <1>4, AppendProperties
<1>6. \A k \in 1 .. n + 1 : e[k] = Append(f, e[n + 1])[k]
  <2> SUFFICES ASSUME NEW k \in 1 .. n + 1 PROVE e[k] = Append(f, e[n + 1])[k]
    OBVIOUS
  <2>1. k \in 1 .. n \/ k = n + 1
    OBVIOUS
  <2> QED BY <1>5, <2>1
<1> QED BY <1>2, <1>5, <1>6, SeqEqual

\* One entry less at the front.
LEMMA WindowTail ==
  ASSUME NEW S, NEW n \in Nat, n # 0, NEW f \in [1 .. n -> S], NEW e \in [1 .. n - 1 -> S],
         \A k \in 1 .. n - 1 : e[k] = f[k + 1]
  PROVE  f # <<>> /\ Head(f) = f[1] /\ e = Tail(f)
<1>1. f \in Seq(S) /\ Len(f) = n
  BY SMT
<1>2. n - 1 \in Nat
  OBVIOUS
<1>3. e \in Seq(S) /\ Len(e) = n - 1
  BY <1>2, SMT
<1>4. f # <<>>
  BY <1>1, EmptySeq
<1>5. /\ Head(f) = f[1] /\ Tail(f) \in Seq(S) /\ Len(Tail(f)) = n - 1
      /\ \A k \in 1 .. n - 1 : Tail(f)[k] = f[k + 1]
  BY <1>1, <1>4, HeadTailProperties
<1> QED BY <1>3, <1>4, <1>5, SeqEqual

\* No entry.
LEMMA WindowEmpty ==
  ASSUME NEW S, NEW n \in Nat, n = 0, NEW f \in [1 .. n -> S]
  PROVE  f = <<>>
<1>1. f \in Seq(S) /\ Len(f) = 0
  BY SMT
<1> QED BY <1>1, EmptySeq
=============================================================================
