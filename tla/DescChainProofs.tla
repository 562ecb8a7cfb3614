-------------------------- MODULE DescChainProofs --------------------------
(***************************************************************************)
(* The descriptor walk, for tables of any size.                            *)
(***************************************************************************)
EXTENDS DescChain, WellFoundedInduction, FiniteSetTheorems, TLAPS

\* A set of numbers has a least element.
LEMMA LeastNumber ==
  ASSUME NEW T, T \subseteq Nat, T # {}
  PROVE  \E m \in T : \A k \in T : m <= k
<1> DEFINE R == OpToRel(<, Nat)
<1>1. IsWellFoundedOn(R, Nat)
  BY NatLessThanWellFounded
<1>2. \A x, y \in Nat : x < y => <<x, y>> \in R
  BY DEF OpToRel
<1> HIDE DEF R
<1>3. PICK m \in T : \A k \in T : <<k, m>> \notin R
  BY <1>1, WFMin
<1>4. \A k \in T : ~(k < m)
  BY <1>2, <1>3
<1> QED BY <1>3, <1>4

\* Induction on a set of numbers.
LEMMA SetInduction ==
  ASSUME NEW S, 0 \in S, \A n \in Nat : n \in S => n + 1 \in S
  PROVE  Nat \subseteq S
<1> DEFINE T == Nat \ S
<1> SUFFICES ASSUME T # {} PROVE FALSE
  OBVIOUS
<1>1. T # {} /\ T \subseteq Nat
  OBVIOUS
<1> HIDE DEF T
<1>2. PICK m \in T : \A k \in T : m <= k
  BY <1>1, LeastNumber
<1> USE DEF T
<1>3. m \in Nat /\ m \notin S /\ m # 0
  BY <1>2
<1>4. m - 1 \in Nat /\ m - 1 \in S /\ (m - 1) + 1 = m
  BY <1>2, <1>3
<1> QED BY <1>3, <1>4
-----------------------------------------------------------------------------
(***************************************************************************)
(* The chain as a list: what Nth, End and Length are.                      *)
(***************************************************************************)

\* The descriptor after x, or x itself behind the end of the chain.
After(x) == IF x \in Desc THEN table[x].next ELSE x

\* The first n + 1 entries of the list.
Prefix(g, n) == g = [k \in 0 .. n |-> IF k = 0 THEN head_idx ELSE After(g[k - 1])]

\* Nth is well defined: it has a value at every position.
LEMMA NthPrefix ==
  ASSUME IsFiniteSet(Desc)
  PROVE  Prefix(Nth, Cardinality(Desc))
<1> DEFINE S == {n \in Nat : \E g : Prefix(g, n)}
<1>1. 0 \in S
  <2> DEFINE g == [k \in 0 .. 0 |-> head_idx]
  <2>1. Prefix(g, 0)
    BY DEF Prefix
  <2> QED BY <2>1
<1>2. ASSUME NEW n \in Nat, n \in S PROVE n + 1 \in S
  <2>1. PICK g : Prefix(g, n)
    BY <1>2
  <2> DEFINE e == [k \in 0 .. n + 1 |-> IF k <= n THEN g[k] ELSE After(g[n])]
  <2>2. \A k \in 0 .. n : e[k] = g[k]
    OBVIOUS
  <2>3. ASSUME NEW k \in 0 .. n + 1
        PROVE  e[k] = IF k = 0 THEN head_idx ELSE After(e[k - 1])
    <3>1. CASE k <= n
      <4>1. g[k] = IF k = 0 THEN head_idx ELSE After(g[k - 1])
        BY <2>1, <3>1 DEF Prefix
      <4>2. k # 0 => e[k - 1] = g[k - 1]
        BY <2>2, <3>1
      <4> QED BY <2>2, <3>1, <4>1, <4>2
    <3>2. CASE ~(k <= n)
      <4>1. k = n + 1 /\ k - 1 = n /\ k # 0
        BY <3>2
      <4>2. e[k] = After(g[n]) /\ e[n] = g[n]
        BY <2>2, <4>1
      <4> QED BY <4>1, <4>2
    <3> QED BY <3>1, <3>2
  <2>4. Prefix(e, n + 1)
    <3>1. e = [k \in 0 .. n + 1 |-> e[k]]
      OBVIOUS
    <3> HIDE DEF e
    <3> QED BY <2>3, <3>1 DEF Prefix
  <2> HIDE DEF e
  <2> QED BY <2>4
<1>3. Nat \subseteq S
  <2> HIDE DEF S
  <2> QED BY <1>1, <1>2, SetInduction
<1>4. Cardinality(Desc) \in Nat
  BY FS_CardinalityType
<1>5. \E g : Prefix(g, Cardinality(Desc))
  BY <1>3, <1>4
<1> QED BY <1>5 DEF Prefix, Nth, After

\* The chain from its head on.
LEMMA NthSteps ==
  ASSUME IsFiniteSet(Desc)
  PROVE  /\ Cardinality(Desc) \in Nat /\ DOMAIN Nth = 0 .. Cardinality(Desc)
         /\ Nth[0] = head_idx
         /\ \A k \in 0 .. Cardinality(Desc) - 1 : Nth[k + 1] = After(Nth[k])
<1> DEFINE N == Cardinality(Desc)
<1>1. N \in Nat
  BY FS_CardinalityType
<1>2. Prefix(Nth, N)
  BY NthPrefix
<1> HIDE DEF N
<1>3. DOMAIN Nth = 0 .. N
  BY <1>2 DEF Prefix
<1>4. \A k \in 0 .. N : Nth[k] = IF k = 0 THEN head_idx ELSE After(Nth[k - 1])
  BY <1>2 DEF Prefix
<1>5. Nth[0] = head_idx
  BY <1>1, <1>4
<1>6. ASSUME NEW k \in 0 .. N - 1 PROVE Nth[k + 1] = After(Nth[k])
  <2>1. k + 1 \in 0 .. N /\ k + 1 # 0 /\ (k + 1) - 1 = k
    BY <1>1
  <2> QED BY <1>4, <2>1
<1> QED BY <1>1, <1>3, <1>5, <1>6 DEF N

\* A chain that ends has Length descriptors: each but the last names the next
\* one, and the last names none.
LEMMA ChainEnds ==
  ASSUME IsFiniteSet(Desc), Absent \notin Desc, head_idx \in Desc, End = Absent
  PROVE  /\ Length \in Nat \ {0} /\ Nth[0] = head_idx
         /\ \A k \in 0 .. Length - 1 : Nth[k] \in Desc
         /\ \A k \in 0 .. Length - 2 : table[Nth[k]].next = Nth[k + 1]
         /\ table[Nth[Length - 1]].next = Absent
<1> DEFINE N == Cardinality(Desc)
           T == {k \in 0 .. N : Nth[k] \notin Desc}
<1>1. /\ N \in Nat /\ DOMAIN Nth = 0 .. N /\ Nth[0] = head_idx
      /\ \A k \in 0 .. N - 1 : Nth[k + 1] = After(Nth[k])
  BY NthSteps
<1>2. Nth[N] = Absent
  BY DEF End
<1> HIDE DEF N
<1>3. T \subseteq Nat /\ N \in T
  BY <1>1, <1>2
<1>4. PICK m \in T : \A k \in T : m <= k
  <2> HIDE DEF T
  <2> QED BY <1>3, LeastNumber
<1>5. m \in 0 .. N /\ m \in Nat \ {0} /\ Nth[m] \notin Desc
  BY <1>1, <1>4
<1>6. \A k \in 0 .. m - 1 : Nth[k] \in Desc
  <2>1. \A k \in 0 .. m - 1 : k \in 0 .. N /\ ~(m <= k)
    BY <1>1, <1>5
  <2> QED BY <1>4, <2>1
<1>7. \A i \in Nat : m + i <= N => Nth[m + i] = Nth[m]
  <2> DEFINE S == {i \in Nat : m + i <= N => Nth[m + i] = Nth[m]}
  <2>1. 0 \in S
    <3>1. m + 0 = m
      BY <1>5
    <3> QED BY <3>1
  <2>2. ASSUME NEW i \in Nat, i \in S PROVE i + 1 \in S
    <3>1. SUFFICES ASSUME m + (i + 1) <= N PROVE Nth[m + (i + 1)] = Nth[m]
      OBVIOUS
    <3>2. m + i <= N /\ m + i \in 0 .. N - 1 /\ (m + i) + 1 = m + (i + 1)
      BY <1>1, <1>5, <3>1
    <3>3. Nth[m + i] = Nth[m]
      BY <2>2, <3>2
    <3>4. Nth[(m + i) + 1] = After(Nth[m + i])
      BY <1>1, <3>2
    <3> QED BY <1>5, <3>2, <3>3, <3>4 DEF After
  <2> HIDE DEF S
  <2>3. Nat \subseteq S
    BY <2>1, <2>2, SetInduction
  <2> QED BY <2>3 DEF S
<1>8. Nth[m] = Absent
  <2>1. PICK i \in Nat : m + i = N
    <3>1. N - m \in Nat /\ m + (N - m) = N
      BY <1>1, <1>5
    <3> QED BY <3>1
  <2> QED BY <1>1, <1>2, <1>7, <2>1
<1>9. Length = m
  <2>1. \A k \in 0 .. N : Nth[k] \in Desc => k \in 0 .. m - 1
    <3>1. SUFFICES ASSUME NEW k \in 0 .. N, ~(k < m) PROVE Nth[k] \notin Desc
      BY <1>5
    <3>2. PICK i \in Nat : m + i = k
      <4>1. k - m \in Nat /\ m + (k - m) = k
        BY <1>5, <3>1
      <4> QED BY <4>1
    <3>3. m + i <= N
      BY <1>1, <3>1, <3>2
    <3>4. Nth[m + i] = Nth[m]
      BY <1>7, <3>3
    <3> QED BY <1>5, <3>2, <3>4
  <2>2. \A k \in 0 .. m - 1 : k \in 0 .. N
    BY <1>1, <1>5
  <2>3. {k \in DOMAIN Nth : Nth[k] \in Desc} = 0 .. m - 1
    BY <1>1, <1>6, <2>1, <2>2
  <2>4. Cardinality(0 .. m - 1) = m
    <3>1. 0 \in Int /\ m - 1 \in Int /\ (m - 1) - 0 + 1 = m /\ ~(0 > m - 1)
      BY <1>5
    <3> QED BY <3>1, FS_Interval
  <2> QED BY <2>3, <2>4 DEF Length
<1>10. \A k \in 0 .. m - 2 : table[Nth[k]].next = Nth[k + 1]
  <2>1. \A k \in 0 .. m - 2 : k \in 0 .. N - 1 /\ k \in 0 .. m - 1
    BY <1>1, <1>5
  <2> QED BY <1>1, <1>6, <2>1 DEF After
<1>11. table[Nth[m - 1]].next = Absent
  <2>1. m - 1 \in 0 .. N - 1 /\ m - 1 \in 0 .. m - 1 /\ (m - 1) + 1 = m
    BY <1>1, <1>5
  <2> QED BY <1>1, <1>6, <1>8, <2>1 DEF After
<1> QED BY <1>1, <1>5, <1>6, <1>9, <1>10, <1>11
-----------------------------------------------------------------------------
\* The initial values have their types.
LEMMA TypeInit == Init => TypeOK
<1> SUFFICES ASSUME Init PROVE TypeOK
  OBVIOUS
<1>1. \A d \in Desc : table[d] \in Descriptor(d)
  BY DEF Init, Descriptor
<1>2. head_idx \in Desc
  BY ChainAssumption DEF Init
<1>3. walking \in BOOLEAN /\ is_write \in BOOLEAN
  BY DEF Init
<1> QED BY <1>1, <1>2, <1>3 DEF Init, TypeOK, Len

\* Where the walk goes on.
LEMMA AdvanceType ==
  ASSUME TypeOK, next_idx # Outside, Advance(next_idx)
  PROVE  /\ next_idx \in Desc /\ table[next_idx] \in Descriptor(next_idx)
         /\ next_idx' \in Desc \cup {Outside} /\ walking' \in BOOLEAN
<1>1. next_idx \in Desc /\ table[next_idx] \in Descriptor(next_idx) /\ walking \in BOOLEAN
  BY DEF TypeOK
<1> QED BY <1>1 DEF Advance, Descriptor

\* Every step of the walk keeps the types.
LEMMA TypeStep ==
  ASSUME TypeOK, [Next]_vars
  PROVE  TypeOK'
<1> USE DEF request, result
<1>1. CASE WalkHeader
  <2>1. /\ next_idx \in Desc /\ table[next_idx] \in Descriptor(next_idx)
        /\ next_idx' \in Desc \cup {Outside} /\ walking' \in BOOLEAN
    BY <1>1, AdvanceType DEF WalkHeader
  <2>2. sector' \in Desc \cup {Absent} /\ phase' \in 0..2
    BY <1>1, <2>1 DEF WalkHeader, HeaderAt
  <2>3. is_write' \in BOOLEAN
    BY <1>1 DEF WalkHeader
  <2> QED BY <1>1, <2>1, <2>2, <2>3 DEF WalkHeader, TypeOK
<1>2. CASE WalkData
  <2>1. /\ next_idx \in Desc /\ table[next_idx] \in Descriptor(next_idx)
        /\ next_idx' \in Desc \cup {Outside} /\ walking' \in BOOLEAN
    BY <1>2, AdvanceType DEF WalkData
  <2>2. data_addr' \in Desc \cup {Absent} /\ data_len' \in Len
    BY <1>2, <2>1 DEF WalkData, Descriptor
  <2> QED BY <1>2, <2>1, <2>2 DEF WalkData, TypeOK
<1>3. CASE WalkStatus
  <2>1. /\ next_idx \in Desc /\ table[next_idx] \in Descriptor(next_idx)
        /\ next_idx' \in Desc \cup {Outside} /\ walking' \in BOOLEAN
    BY <1>3, AdvanceType DEF WalkStatus
  <2>2. status_addr' \in Desc \cup {Absent} /\ phase' \in 0..2
    BY <1>3, <2>1 DEF WalkStatus, Descriptor
  <2> QED BY <1>3, <2>1, <2>2 DEF WalkStatus, TypeOK
<1>4. CASE WalkOutside
  <2>1. walking' \in BOOLEAN
    BY <1>4 DEF WalkOutside
  <2> QED BY <1>4, <2>1 DEF WalkOutside, TypeOK
<1>5. CASE Finish
  <2>1. /\ moved' \in Desc \cup {Absent} /\ op' \in {"none", "read", "write"}
        /\ written' \in SUBSET (Desc \cup {Absent})
    BY <1>5 DEF Finish, TypeOK
  <2> QED BY <1>5, <2>1 DEF Finish, TypeOK
<1>6. CASE UNCHANGED vars
  BY <1>6 DEF vars, TypeOK
<1> QED BY <1>1, <1>2, <1>3, <1>4, <1>5, <1>6 DEF Next

\* Every variable of process_descriptor_chain keeps its type: the walk reads
\* no descriptor but those of the table.
THEOREM TypeCorrect == Spec => []TypeOK
<1>1. TypeOK /\ [Next]_vars => TypeOK'
  BY TypeStep
<1> QED BY <1>1, TypeInit, PTL DEF Spec
-----------------------------------------------------------------------------
\* The chain is the guest's and stays as it is.
LEMMA ChainKept ==
  ASSUME UNCHANGED request
  PROVE  /\ Nth' = Nth /\ End' = End /\ Length' = Length
         /\ \A d : HeaderAt(d)' = HeaderAt(d)
<1>1. Nth' = Nth
  BY DEF Nth, request
<1> QED BY <1>1 DEF End, Length, HeaderAt, request
\* Where the walk is: at a descriptor that names the next one, or at the last.
LEMMA WalkPlace ==
  ASSUME TypeOK, End = Absent, NEW n \in Nat, n = Length, NEW m \in 0 .. n - 1, ReachedAt(m)
  PROVE  /\ n # 0 /\ next_idx = Nth[m] /\ next_idx \in Desc /\ next_idx # Outside
         /\ m = 0 => next_idx = head_idx
         /\ table[next_idx].next = Absent => m = n - 1
         /\ table[next_idx].next # Absent => m + 1 \in 0 .. n - 1 /\ table[next_idx].next = Nth[m + 1]
<1>1. IsFiniteSet(Desc) /\ Absent \notin Desc /\ Outside \notin Desc /\ head_idx \in Desc
  BY ChainAssumption DEF TypeOK
<1>2. /\ n # 0 /\ Nth[0] = head_idx
      /\ \A k \in 0 .. n - 1 : Nth[k] \in Desc
      /\ \A k \in 0 .. n - 2 : table[Nth[k]].next = Nth[k + 1]
      /\ table[Nth[n - 1]].next = Absent
  BY <1>1, ChainEnds
<1>3. next_idx = Nth[m] /\ next_idx \in Desc
  BY <1>2 DEF ReachedAt
<1>4. m = n - 1 \/ (m \in 0 .. n - 2 /\ m + 1 \in 0 .. n - 1)
  OBVIOUS
<1> QED BY <1>1, <1>2, <1>3, <1>4

\* Each step of the walk takes what its descriptor holds.
LEMMA WalkStep ==
  ASSUME TypeOK, WalkFollows, [Next]_vars
  PROVE  WalkFollows'
<1>r. UNCHANGED request
  BY DEF Next, WalkHeader, WalkData, WalkStatus, WalkOutside, Finish, vars
<1>c. /\ Nth' = Nth /\ End' = End /\ Length' = Length /\ table' = table /\ head_idx' = head_idx
      /\ type_' = type_ /\ \A d : HeaderAt(d)' = HeaderAt(d)
  BY <1>r, ChainKept DEF request
<1> SUFFICES ASSUME End = Absent
             PROVE  /\ walking' => \E m \in 0 .. Length' - 1 : ReachedAt(m)'
                    /\ ~walking' => Passed'
  BY <1>c DEF WalkFollows
<1>e. End = Absent
  OBVIOUS
<1>n. PICK n \in Nat : n = Length
  <2>1. IsFiniteSet(Desc) /\ Absent \notin Desc /\ head_idx \in Desc
    BY ChainAssumption DEF TypeOK
  <2> QED BY <1>e, <2>1, ChainEnds
<1>1. ASSUME walking PROVE \E m \in 0 .. n - 1 : ReachedAt(m)
  BY <1>1, <1>e, <1>n DEF WalkFollows
<1>2. CASE WalkHeader
  <2>1. PICK m \in 0 .. n - 1 : ReachedAt(m)
    BY <1>1, <1>2 DEF WalkHeader
  <2>2. m = 0 /\ next_idx = head_idx
    BY <1>2, <1>e, <1>n, <2>1, WalkPlace DEF WalkHeader, ReachedAt
  <2>3. HeaderTaken'
    BY <1>2, <1>c, <2>2 DEF WalkHeader, HeaderTaken
  <2>4. /\ UNCHANGED <<data_addr, data_len, status_addr>> /\ phase' = 1
        /\ data_addr = Absent /\ data_len = "short" /\ status_addr = Absent
    BY <1>2, <2>1, <2>2 DEF WalkHeader, ReachedAt, DataTaken
  <2>5. CASE table[next_idx].next = Absent
    <3>1. ~walking' /\ n = 1
      BY <1>2, <1>e, <1>n, <2>1, <2>2, <2>5, WalkPlace DEF WalkHeader, Advance
    <3>2. Passed'
      BY <1>c, <1>n, <2>3, <2>4, <3>1 DEF Passed, DataTaken
    <3> QED BY <3>1, <3>2
  <2>6. CASE table[next_idx].next # Absent
    <3>1. next_idx' = Nth[1] /\ 1 \in 0 .. n - 1
      BY <1>2, <1>e, <1>n, <2>1, <2>2, <2>6, WalkPlace DEF WalkHeader, Advance
    <3>2. walking' /\ walking
      BY <1>2, <2>6 DEF WalkHeader, Advance
    <3>3. ReachedAt(1)'
      BY <1>c, <2>3, <2>4, <3>1 DEF ReachedAt, DataTaken
    <3> QED BY <1>c, <1>n, <3>1, <3>2, <3>3
  <2> QED BY <2>5, <2>6
<1>3. CASE WalkData
  <2>1. PICK m \in 0 .. n - 1 : ReachedAt(m)
    BY <1>1, <1>3 DEF WalkData
  <2>2. m # 0 /\ HeaderTaken /\ status_addr = Absent
    BY <1>3, <2>1 DEF WalkData, ReachedAt
  <2>3. /\ next_idx = Nth[m] /\ m + 1 \in 0 .. n - 1 /\ table[next_idx].next = Nth[m + 1]
        /\ table[next_idx].next # Absent
    BY <1>3, <1>e, <1>n, <2>1, WalkPlace DEF WalkData
  <2>4. /\ UNCHANGED <<phase, sector, is_write, status_addr>> /\ next_idx' = Nth[m + 1]
        /\ data_addr' = table[Nth[m]].addr /\ data_len' = table[Nth[m]].len
    BY <1>3, <2>3 DEF WalkData, Advance
  <2>5. walking'
    BY <1>3, <2>3 DEF WalkData, Advance
  <2>6. HeaderTaken'
    BY <1>c, <2>2, <2>4 DEF HeaderTaken
  <2>7. DataTaken(m)'
    <3>1. m >= 1
      BY <2>2
    <3> QED BY <1>c, <2>4, <3>1 DEF DataTaken
  <2>8. PICK k \in 0 .. n - 1 : k = m + 1
    BY <2>3
  <2>9. k - 1 = m /\ k # 0
    BY <2>8
  <2>10. phase' = 1 /\ status_addr' = Absent /\ next_idx' = Nth'[k]
    BY <1>3, <1>c, <2>2, <2>4, <2>8 DEF WalkData
  <2>11. ReachedAt(k)'
    BY <2>6, <2>7, <2>9, <2>10 DEF ReachedAt
  <2> QED BY <1>c, <1>n, <2>5, <2>11
<1>4. CASE WalkStatus
  <2>1. PICK m \in 0 .. n - 1 : ReachedAt(m)
    BY <1>1, <1>4 DEF WalkStatus
  <2>2. m # 0 /\ HeaderTaken /\ DataTaken(m - 1)
    BY <1>4, <2>1 DEF WalkStatus, ReachedAt
  <2>3. m = n - 1 /\ next_idx = Nth[n - 1] /\ table[next_idx].next = Absent
    BY <1>4, <1>e, <1>n, <2>1, WalkPlace DEF WalkStatus
  <2>4. UNCHANGED <<sector, is_write, data_addr, data_len>> /\ status_addr' = table[Nth[n - 1]].addr
    BY <1>4, <2>3 DEF WalkStatus
  <2>5. ~walking'
    BY <1>4, <2>3 DEF WalkStatus, Advance
  <2>6. HeaderTaken'
    BY <1>c, <2>2, <2>4 DEF HeaderTaken
  <2>7. PICK j \in Int : j = n - 2
    OBVIOUS
  <2>8. m - 1 = j /\ n >= 2
    BY <2>2, <2>3, <2>7
  <2>9. DataTaken(j)'
    BY <1>c, <2>2, <2>4, <2>8 DEF DataTaken
  <2>10. Passed'
    BY <1>c, <1>n, <2>4, <2>6, <2>7, <2>8, <2>9 DEF Passed
  <2> QED BY <2>5, <2>10
<1>5. CASE WalkOutside
  <2>1. PICK m \in 0 .. n - 1 : ReachedAt(m)
    BY <1>1, <1>5 DEF WalkOutside
  <2> QED BY <1>5, <1>e, <1>n, <2>1, WalkPlace DEF WalkOutside
<1>6. CASE Finish
  <2>1. ~walking /\ ~walking' /\ UNCHANGED <<sector, is_write, data_addr, data_len, status_addr>>
    BY <1>6 DEF Finish
  <2>2. Passed
    BY <1>e, <2>1 DEF WalkFollows
  <2>3. Passed'
    BY <1>c, <2>1, <2>2 DEF Passed, HeaderTaken, DataTaken
  <2> QED BY <2>1, <2>3
<1>7. CASE UNCHANGED vars
  <2>1. UNCHANGED <<next_idx, phase, sector, is_write, data_addr, data_len, status_addr, walking>>
    BY <1>7 DEF vars
  <2>2. Passed => Passed'
    BY <1>c, <2>1 DEF Passed, HeaderTaken, DataTaken
  <2>3. \A m \in 0 .. n - 1 : ReachedAt(m) => ReachedAt(m)'
    BY <1>c, <2>1 DEF ReachedAt, HeaderTaken, DataTaken
  <2> QED BY <1>1, <1>c, <1>e, <1>n, <2>1, <2>2, <2>3 DEF WalkFollows
<1> QED BY <1>2, <1>3, <1>4, <1>5, <1>6, <1>7 DEF Next

\* The walk starts at the header.
LEMMA WalkInit == Init => WalkFollows /\ TransferFollows
<1> SUFFICES ASSUME Init PROVE WalkFollows /\ TransferFollows
  OBVIOUS
<1>1. TransferFollows
  BY DEF Init, TransferFollows
<1>2. ASSUME End = Absent PROVE \E m \in 0 .. Length - 1 : ReachedAt(m)
  <2>1. IsFiniteSet(Desc) /\ Absent \notin Desc /\ head_idx \in Desc
    BY ChainAssumption DEF Init
  <2>2. Length \in Nat \ {0} /\ Nth[0] = head_idx
    BY <1>2, <2>1, ChainEnds
  <2>3. 0 \in 0 .. Length - 1
    BY <2>2
  <2>4. ReachedAt(0)
    BY <2>2 DEF Init, ReachedAt, DataTaken
  <2> QED BY <2>3, <2>4
<1>3. walking
  BY DEF Init
<1> QED BY <1>1, <1>2, <1>3 DEF WalkFollows

\* The disk is touched once, after the walk, with what the walk has found.
LEMMA TransferStep ==
  ASSUME TypeOK, TransferFollows, [Next]_vars
  PROVE  TransferFollows'
<1>1. CASE WalkHeader \/ WalkData \/ WalkStatus \/ WalkOutside
  <2>1. written = {}
    BY <1>1 DEF TransferFollows, WalkHeader, WalkData, WalkStatus, WalkOutside
  <2>2. written' = written
    BY <1>1 DEF WalkHeader, WalkData, WalkStatus, WalkOutside, result
  <2> QED BY <2>1, <2>2 DEF TransferFollows
<1>2. CASE Finish
  <2>1. ~walking' /\ written' = {status_addr'}
    BY <1>2 DEF Finish
  <2>2. moved' = IF data_len' = "short" THEN Absent ELSE data_addr'
    BY <1>2 DEF Finish
  <2>3. op' = IF moved' = Absent THEN "none" ELSE IF is_write' THEN "write" ELSE "read"
    BY <1>2 DEF Finish
  <2> QED BY <2>1, <2>2, <2>3 DEF TransferFollows
<1>3. CASE UNCHANGED vars
  BY <1>3 DEF vars, result, TransferFollows
<1> QED BY <1>1, <1>2, <1>3 DEF Next

\* process_descriptor_chain takes every chain that ends apart right, whatever
\* the size of the table, the length of the chain and the order of its
\* descriptors: header, status byte and the data descriptor it transfers are
\* those of the list that Nth, End and Length define.
THEOREM RequestsExtracted == Spec => []ExtractsRequest
<1>1. TypeOK /\ WalkFollows /\ TransferFollows /\ [Next]_vars => WalkFollows' /\ TransferFollows'
  BY WalkStep, TransferStep
<1>2. TypeOK /\ WalkFollows /\ TransferFollows => ExtractsRequest
  <2> SUFFICES ASSUME TypeOK, WalkFollows, TransferFollows, written # {}, End = Absent
               PROVE  ExtractsRequest
    BY DEF ExtractsRequest
  <2>1. ~walking /\ Passed
    BY DEF WalkFollows, TransferFollows
  <2>2. Length \in Nat /\ \A k \in 0 .. Length - 1 : Nth[k] \in Desc
    <3>1. IsFiniteSet(Desc) /\ Absent \notin Desc /\ head_idx \in Desc
      BY ChainAssumption DEF TypeOK
    <3> QED BY <3>1, ChainEnds
  <2>3. /\ written = {status_addr}
        /\ moved = IF data_len = "short" THEN Absent ELSE data_addr
        /\ op = IF moved = Absent THEN "none" ELSE IF is_write THEN "write" ELSE "read"
    BY DEF TransferFollows
  <2>4. /\ data_addr = IF Length >= 3 THEN table[Nth[Length - 2]].addr ELSE Absent
        /\ data_len = IF Length >= 3 THEN table[Nth[Length - 2]].len ELSE "short"
    <3>1. (Length - 2 >= 1) = (Length >= 3)
      BY <2>2
    <3> QED BY <2>1, <3>1 DEF Passed, DataTaken
  <2>5. moved = IF Length >= 3 /\ table[Nth[Length - 2]].len # "short"
                  THEN table[Nth[Length - 2]].addr ELSE Absent
    BY <2>3, <2>4
  <2>6. moved \in Segments \cup {Absent}
    <3>1. CASE moved = Absent
      BY <3>1
    <3>2. CASE moved # Absent
      <4>1. Length - 2 \in 1 .. Length - 2 /\ table[Nth[Length - 2]].len # "short"
        BY <2>2, <2>5, <3>2
      <4>2. Nth[Length - 2] \in Desc
        BY <2>2, <4>1
      <4>3. table[Nth[Length - 2]].len = "full"
        BY <4>1, <4>2 DEF TypeOK, Descriptor, Len
      <4> QED BY <2>5, <3>2, <4>1, <4>3 DEF Segments
    <3> QED BY <3>1, <3>2
  <2>7. Length <= 3 => Segments \subseteq {moved}
    <3> SUFFICES ASSUME Length <= 3, NEW a \in Segments PROVE a = moved
      OBVIOUS
    <3>1. PICK k \in 1 .. Length - 2 : table[Nth[k]].len = "full" /\ a = table[Nth[k]].addr
      BY DEF Segments
    <3>2. Length = 3 /\ k = Length - 2
      BY <2>2, <3>1
    <3> QED BY <2>5, <3>1, <3>2
  <2>8. is_write <=> HeaderAt(head_idx) # Absent /\ type_ = "OUT"
    BY <2>1 DEF Passed, HeaderTaken
  <2>9. /\ op = "none" <=> moved = Absent
        /\ op = "write" <=>
             moved # Absent /\ type_ = "OUT" /\ HeaderAt(head_idx) # Absent
    BY <2>3, <2>8
  <2> QED BY <2>1, <2>3, <2>6, <2>7, <2>9 DEF Passed, HeaderTaken, ExtractsRequest
<1> QED BY <1>1, <1>2, WalkInit, TypeCorrect, PTL DEF Spec
=============================================================================
