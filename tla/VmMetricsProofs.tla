--------------------------- MODULE VmMetricsProofs ---------------------------
(***************************************************************************)
(* Proofs about VmMetrics: for any number of recording threads, with       *)
(* resets, switches, snapshots and rates between any two of their steps.   *)
(***************************************************************************)
EXTENDS VmMetrics, FiniteSetTheorems, SequenceTheorems, TLAPS

\* The counters that other counters are kinds of.
Total == {"vcpu_exits", "errors"}

\* The counters that one method adds to alone.
Single == {"vcpu_runs", "vcpu_exits", "total_instructions", "errors", "timeout_events",
           "memory_reads", "memory_writes", "memory_faults", "total_cycles", "idle_cycles",
           "total_runtime_us", "vcpu_active_time_us"}

\* The three forms of a record_* method.
LEMMA AddsForms ==
  ASSUME NEW op \in DOMAIN Adds
  PROVE  \/ \E c \in Single : Adds[op] = <<c>> /\ (c \in Total => op \notin Measured)
         \/ \E c \in ExitKind : Adds[op] = <<c, "vcpu_exits">> /\ op \notin Measured
         \/ Adds[op] = <<"hardware_failures", "errors">> /\ op \notin Measured
  BY DEF Adds, Single, ExitKind, Measured, Total

\* The counters by name.
LEMMA CounterNames ==
  /\ Counter = Single \cup ExitKind \cup {"hardware_failures"}
  /\ Single \cap (ExitKind \cup {"hardware_failures"}) = {}
<1>1. Counter \subseteq Single \cup ExitKind \cup {"hardware_failures"}
  BY AddsForms DEF Counter, Single
<1>2. Single \cup ExitKind \cup {"hardware_failures"} \subseteq Counter
  BY DEF Counter, Single, ExitKind, Adds
<1> QED BY <1>1, <1>2 DEF Single, ExitKind

\* reset() stores to every counter, and where.
LEMMA StoresAll ==
  /\ Len(Stores) = 18
  /\ \A i \in 1..18 : Stores[i] \in Counter
  /\ \A c \in Counter : \E i \in 1..18 : Stores[i] = c
<1>1. Len(Stores) = 18
  BY DEF Stores
<1>2. \A i \in 1..18 : Stores[i] \in Counter
  BY CounterNames DEF Stores, Single, ExitKind
<1>3. \A c \in Counter : \E i \in 1..18 : Stores[i] = c
  BY CounterNames DEF Stores, Single, ExitKind
<1> QED BY <1>1, <1>2, <1>3

\* When reset stores 0 to the totals and to their kinds.
LEMMA StoresPlaces ==
  ASSUME NEW i \in 1..18
  PROVE  /\ Stores[i] = "vcpu_exits" <=> i = 2
         /\ Stores[i] = "io_exits" <=> i = 4
         /\ Stores[i] = "mmio_exits" <=> i = 5
         /\ Stores[i] = "hlt_exits" <=> i = 6
         /\ Stores[i] = "interrupt_exits" <=> i = 7
         /\ Stores[i] = "exception_exits" <=> i = 8
         /\ Stores[i] = "errors" <=> i = 9
         /\ Stores[i] = "hardware_failures" <=> i = 10
  BY DEF Stores

\* What is loaded are counters: five of them by snapshot(), two for a rate.
LEMMA LoadsForms ==
  ASSUME NEW w \in DOMAIN Loads
  PROVE  /\ Len(Loads[w]) = IF w = "snapshot" THEN 5 ELSE 2
         /\ \A i \in 1 .. Len(Loads[w]) : Loads[w][i] \in Counter
<1> DEFINE Five == <<"vcpu_runs", "vcpu_exits", "io_exits", "errors", "total_runtime_us">>
<1>1. CASE w = "snapshot"
  <2>1. Loads[w] = Five
    BY <1>1 DEF Loads
  <2>2. Len(Five) = 5 /\ \A i \in 1 .. 5 : Five[i] \in Single \cup ExitKind
    BY DEF Single, ExitKind
  <2> QED BY <1>1, <2>1, <2>2, CounterNames
<1>2. CASE w # "snapshot"
  <2>1. Len(Loads[w]) = 2 /\ Loads[w][1] \in Single /\ Loads[w][2] \in Single
    BY <1>2 DEF Loads, Single
  <2> QED BY <1>2, <2>1, CounterNames
<1> QED BY <1>1, <1>2

\* Addition that wraps around stays in range and adds no more.
LEMMA WrappingAdd ==
  ASSUME NEW x \in 0 .. U64 - 1, NEW n \in Nat
  PROVE  /\ (x + n) % U64 \in 0 .. U64 - 1
         /\ (x + n) % U64 <= x + n
         /\ x + n < U64 => (x + n) % U64 = x + n
  BY VmMetricsAssumption

\* What a method leaves to do, as a sequence.
LEMMA TodoOfAdds ==
  ASSUME NEW op \in DOMAIN Adds, NEW n \in Amount, op \in Measured \/ n = 1
  PROVE  TodoShape([i \in DOMAIN Adds[op] |-> [at |-> Adds[op][i], by |-> n]])
<1> DEFINE q == [i \in DOMAIN Adds[op] |-> [at |-> Adds[op][i], by |-> n]]
<1>1. ASSUME NEW c \in Single, Adds[op] = <<c>>, c \in Total => op \notin Measured
      PROVE  TodoShape(q)
  <2>1. q = <<Step(c, n)>>
    BY <1>1 DEF Step
  <2> QED BY <1>1, <2>1, CounterNames, VmMetricsAssumption DEF TodoShape, Total
<1>2. ASSUME NEW c \in ExitKind, Adds[op] = <<c, "vcpu_exits">>, op \notin Measured
      PROVE  TodoShape(q)
  <2>1. q = <<Step(c, 1), Step("vcpu_exits", 1)>>
    BY <1>2 DEF Step
  <2> QED BY <2>1 DEF TodoShape
<1>3. ASSUME Adds[op] = <<"hardware_failures", "errors">>, op \notin Measured
      PROVE  TodoShape(q)
  <2>1. q = <<Step("hardware_failures", 1), Step("errors", 1)>>
    BY <1>3 DEF Step
  <2> QED BY <2>1 DEF TodoShape
<1> QED BY <1>1, <1>2, <1>3, AddsForms

\* What a recording method has to do is a sequence of fetch_adds.
LEMMA AddsTyped ==
  ASSUME NEW op \in DOMAIN Adds, NEW n \in Amount
  PROVE  [i \in DOMAIN Adds[op] |-> [at |-> Adds[op][i], by |-> n]]
           \in Seq([at : Counter, by : Amount])
<1> DEFINE q == [i \in DOMAIN Adds[op] |-> [at |-> Adds[op][i], by |-> n]]
<1>1. ASSUME NEW c \in Single, Adds[op] = <<c>>
      PROVE  q \in Seq([at : Counter, by : Amount])
  <2>1. q = <<[at |-> c, by |-> n]>>
    BY <1>1
  <2> QED BY <2>1, CounterNames
<1>2. ASSUME NEW c \in ExitKind \cup {"hardware_failures"}, NEW d \in Total,
             Adds[op] = <<c, d>>
      PROVE  q \in Seq([at : Counter, by : Amount])
  <2>1. q = <<[at |-> c, by |-> n], [at |-> d, by |-> n]>>
    BY <1>2
  <2>2. c \in Counter /\ d \in Counter
    BY CounterNames DEF Total, Single
  <2> QED BY <2>1, <2>2
<1> QED BY <1>1, <1>2, AddsForms DEF Total

\* The next add of a recorder, and what it leaves to do.
LEMMA NextAdd ==
  ASSUME NEW q, TodoShape(q), q # <<>>
  PROVE  /\ Head(q).at \in Counter /\ Head(q).by \in Nat
         /\ TodoShape(Tail(q))
         /\ Head(q).at \in Total \cup ExitKind \cup {"hardware_failures"} => Head(q).by = 1
<1>1. ASSUME NEW c \in Counter \ (ExitKind \cup {"hardware_failures"}), NEW n \in Nat,
             q = <<Step(c, n)>>, c \in {"vcpu_exits", "errors"} => n = 1
      PROVE  /\ Head(q).at \in Counter /\ Head(q).by \in Nat
             /\ TodoShape(Tail(q))
             /\ Head(q).at \in Total \cup ExitKind \cup {"hardware_failures"} => Head(q).by = 1
  <2>1. Head(q) = Step(c, n) /\ Tail(q) = <<>>
    BY <1>1
  <2> QED BY <1>1, <2>1, VmMetricsAssumption DEF Step, TodoShape, Total
<1>2. ASSUME NEW c \in ExitKind, q = <<Step(c, 1), Step("vcpu_exits", 1)>>
      PROVE  /\ Head(q).at \in Counter /\ Head(q).by \in Nat
             /\ TodoShape(Tail(q))
             /\ Head(q).at \in Total \cup ExitKind \cup {"hardware_failures"} => Head(q).by = 1
  <2>1. Head(q) = Step(c, 1) /\ Tail(q) = <<Step("vcpu_exits", 1)>>
    BY <1>2
  <2> QED BY <2>1, CounterNames DEF Step, TodoShape, Single
<1>3. ASSUME q = <<Step("hardware_failures", 1), Step("errors", 1)>>
      PROVE  /\ Head(q).at \in Counter /\ Head(q).by \in Nat
             /\ TodoShape(Tail(q))
             /\ Head(q).at \in Total \cup ExitKind \cup {"hardware_failures"} => Head(q).by = 1
  <2>1. Head(q) = Step("hardware_failures", 1) /\ Tail(q) = <<Step("errors", 1)>>
    BY <1>3
  <2> QED BY <2>1, CounterNames DEF Step, TodoShape, Single
<1> QED BY <1>1, <1>2, <1>3 DEF TodoShape
-----------------------------------------------------------------------------
\* Every step keeps the types and the forms of what is left to do.
LEMMA TypeStep ==
  ASSUME TypeOK, HistoryOK, TodosShaped, [Next]_vars
  PROVE  TypeOK' /\ HistoryOK' /\ TodosShaped'
<1>a. /\ MaxRecord \in Nat /\ U64 \in Nat \ {0} /\ Len(Stores) = 18
      /\ Op \subseteq DOMAIN Adds /\ Reads \subseteq DOMAIN Loads /\ None \notin DOMAIN Loads
  BY VmMetricsAssumption, StoresAll
<1>1. CASE UNCHANGED vars
  BY <1>1 DEF vars, reader, counts, TypeOK, HistoryOK, TodosShaped
<1>2. ASSUME NEW r \in Recorder, FetchAdd(r)
      PROVE  TypeOK' /\ HistoryOK' /\ TodosShaped'
  <2> DEFINE a == Head(todo[r])
  <2>1. a.at \in Counter /\ a.by \in Nat /\ TodoShape(Tail(todo[r]))
    BY <1>2, NextAdd DEF FetchAdd, TodosShaped
  <2>2. metrics' \in [Counter -> 0 .. U64 - 1]
    BY <1>2, <2>1, WrappingAdd DEF FetchAdd, TypeOK
  <2>3. added' \in [Counter -> Nat]
    <3>1. added' = [added EXCEPT ![a.at] = @ + a.by] /\ added \in [Counter -> Nat]
      BY <1>2 DEF FetchAdd, HistoryOK
    <3> HIDE DEF a
    <3> QED BY <2>1, <3>1
  <2>4. /\ todo \in [Recorder -> Seq([at : Counter, by : Amount])]
        /\ todo' = [todo EXCEPT ![r] = Tail(@)] /\ todo[r] # <<>>
    BY <1>2 DEF FetchAdd, TypeOK
  <2>5. Tail(todo[r]) \in Seq([at : Counter, by : Amount])
    <3>1. todo[r] \in Seq([at : Counter, by : Amount])
      BY <2>4
    <3> QED BY <2>4, <3>1, HeadTailProperties
  <2>6. todo' \in [Recorder -> Seq([at : Counter, by : Amount])]
    BY <2>4, <2>5
  <2>7. TodosShaped'
    BY <2>1, <2>4 DEF TodosShaped
  <2> QED BY <1>2, <2>2, <2>3, <2>6, <2>7 DEF FetchAdd, TypeOK, HistoryOK, reader, counts
<1>3. ASSUME NEW r \in Recorder, NEW op \in Op, NEW n \in Amount, Record(r, op, n)
      PROVE  TypeOK' /\ HistoryOK' /\ TodosShaped'
  <2> DEFINE q == [i \in DOMAIN Adds[op] |-> [at |-> Adds[op][i], by |-> n]]
  <2>1. TodoShape(q)
    BY <1>3, <1>a, TodoOfAdds DEF Record
  <2>2. q \in Seq([at : Counter, by : Amount])
    BY <1>a, AddsTyped
  <2> HIDE DEF q
  <2>3. todo' = [todo EXCEPT ![r] = q] /\ nrecord' \in 0 .. MaxRecord
    BY <1>3, <1>a DEF Record, HistoryOK, q
  <2>4. todo' \in [Recorder -> Seq([at : Counter, by : Amount])]
    BY <2>2, <2>3 DEF TypeOK
  <2>5. TodosShaped'
    BY <2>1, <2>3 DEF TodosShaped, TypeOK
  <2>6. TypeOK'
    BY <1>3, <2>4 DEF Record, TypeOK, reader
  <2>7. HistoryOK'
    BY <1>3, <2>3 DEF Record, HistoryOK, reader
  <2> QED BY <2>5, <2>6, <2>7
<1>4. CASE Toggle \/ ResetBegin
  <2>1. enabled' \in BOOLEAN
    BY <1>4 DEF Toggle, ResetBegin, TypeOK
  <2>2. TypeOK'
    <3>1. reset_at' \in 0 .. Len(Stores)
      BY <1>4, <1>a DEF Toggle, ResetBegin, TypeOK
    <3> QED BY <1>4, <2>1, <3>1 DEF Toggle, ResetBegin, TypeOK, reader
  <2>3. HistoryOK'
    BY <1>4 DEF Toggle, ResetBegin, HistoryOK, reader
  <2>4. TodosShaped'
    BY <1>4 DEF Toggle, ResetBegin, TodosShaped
  <2> QED BY <2>2, <2>3, <2>4
<1>5. CASE ResetStore
  <2>1. reset_at \in 1..18 /\ Stores[reset_at] \in Counter
    <3>1. reset_at # 0 /\ reset_at \in 0..18
      BY <1>5, <1>a DEF ResetStore, TypeOK
    <3>2. reset_at \in 1..18
      BY <3>1
    <3> QED BY <3>2, StoresAll
  <2>2. metrics' \in [Counter -> 0 .. U64 - 1]
    BY <1>5, <1>a, <2>1 DEF ResetStore, TypeOK
  <2>3. reset_at' \in 0 .. Len(Stores)
    BY <1>5, <1>a, <2>1 DEF ResetStore
  <2> QED BY <1>5, <2>2, <2>3 DEF ResetStore, TypeOK, HistoryOK, TodosShaped, reader, counts
<1>6. ASSUME NEW what \in Reads, ReadBegin(what)
      PROVE  TypeOK' /\ HistoryOK' /\ TodosShaped'
  <2>1. what \in DOMAIN Loads /\ Len(Loads[what]) \in Nat /\ loaded = <<>> /\ what # None
    BY <1>6, <1>a, LoadsForms DEF ReadBegin, HistoryOK
  <2>2. TypeOK' /\ TodosShaped'
    BY <1>6, <2>1 DEF ReadBegin, TypeOK, TodosShaped
  <2>3. HistoryOK'
    BY <1>6, <2>1 DEF ReadBegin, HistoryOK
  <2> QED BY <2>2, <2>3
<1>7. CASE Load
  <2>1. /\ metrics[Loads[reading][Len(loaded) + 1]] \in 0 .. U64 - 1
        /\ Len(loaded) \in Nat /\ Len(Loads[reading]) \in Nat
        /\ Len(loaded) < Len(Loads[reading]) /\ reading # None
    BY <1>7, LoadsForms DEF Load, TypeOK
  <2>2. loaded' \in Seq(0 .. U64 - 1) /\ Len(loaded') = Len(loaded) + 1
    BY <1>7, <2>1 DEF Load, TypeOK
  <2>3. TypeOK' /\ TodosShaped'
    BY <1>7, <2>2 DEF Load, TypeOK, TodosShaped
  <2>4. HistoryOK'
    BY <1>7, <2>1, <2>2 DEF Load, HistoryOK, counts
  <2> QED BY <2>3, <2>4
<1>8. CASE RateZero \/ RateEnd
  <2>1. TypeOK' /\ TodosShaped'
    <3>1. reading' = None /\ loaded' = <<>>
          /\ UNCHANGED <<enabled, metrics, todo, reset_at>>
      BY <1>8 DEF RateZero, RateEnd
    <3>2. loaded' \in Seq(0 .. U64 - 1)
      BY <3>1
    <3> QED BY <3>1, <3>2 DEF TypeOK, TodosShaped
  <2>2. HistoryOK'
    BY <1>8 DEF RateZero, RateEnd, HistoryOK, counts
  <2> QED BY <2>1, <2>2
<1>9. CASE SnapshotEnd
  <2>1. Zero \in [Counter -> Nat]
    BY DEF Zero
  <2>2. Len(Loads.snapshot) = 5
    BY DEF Loads
  <2>3. TypeOK' /\ TodosShaped'
    <3>1. reading' = None /\ loaded' = <<>>
          /\ UNCHANGED <<enabled, metrics, todo, reset_at>>
      BY <1>9 DEF SnapshotEnd
    <3>2. loaded' \in Seq(0 .. U64 - 1)
      BY <3>1
    <3> QED BY <3>1, <3>2 DEF TypeOK, TodosShaped
  <2>4. last' \in Seq(0 .. U64 - 1) /\ Len(last') = 5
    BY <1>9, <2>2 DEF SnapshotEnd, TypeOK
  <2>5. HistoryOK'
    BY <1>9, <2>1, <2>4 DEF SnapshotEnd, HistoryOK, counts
  <2> QED BY <2>3, <2>5
<1> QED BY <1>1, <1>2, <1>3, <1>4, <1>5, <1>6, <1>7, <1>8, <1>9 DEF Next

\* Counters, snapshots and history have their types, and what a record_
\* method has left to do is the rest of its fetch_adds, in their order.
THEOREM ShapeInvariant == Spec => [](TypeOK /\ HistoryOK /\ TodosShaped)
<1>1. Init => TypeOK /\ HistoryOK /\ TodosShaped
  <2> SUFFICES ASSUME Init PROVE TypeOK /\ HistoryOK /\ TodosShaped
    OBVIOUS
  <2>1. Zero \in [Counter -> Nat] /\ (U64 - 1 \in Nat) /\ Zero \in [Counter -> 0 .. U64 - 1]
    BY VmMetricsAssumption DEF Zero
  <2>2. <<>> \in Seq(0 .. U64 - 1) /\ <<>> \in Seq([at : Counter, by : Amount])
    OBVIOUS
  <2>3. TypeOK
    BY <2>1, <2>2, StoresAll DEF Init, TypeOK
  <2>4. HistoryOK
    BY <2>1, VmMetricsAssumption DEF Init, HistoryOK
  <2>5. TodosShaped
    BY DEF Init, TodosShaped, TodoShape
  <2> QED BY <2>3, <2>4, <2>5
<1>2. TypeOK /\ HistoryOK /\ TodosShaped /\ [Next]_vars => (TypeOK /\ HistoryOK /\ TodosShaped)'
  BY TypeStep
<1> QED BY <1>1, <1>2, PTL DEF Spec

-----------------------------------------------------------------------------
\* A counter grows by no more than what is added.
LEMMA AddsGrow ==
  ASSUME TypeOK, HistoryOK, TodosShaped, NEW r \in Recorder, FetchAdd(r), NEW c \in Counter
  PROVE  /\ metrics[c] \in Nat /\ metrics'[c] \in Nat /\ added[c] \in Nat /\ added'[c] \in Nat
         /\ added[c] <= added'[c]
         /\ metrics'[c] <= metrics[c] + (added'[c] - added[c])
<1> DEFINE a == Head(todo[r])
<1>1. a.at \in Counter /\ a.by \in Nat
  BY NextAdd DEF FetchAdd, TodosShaped
<1>2. metrics[c] \in 0 .. U64 - 1 /\ added[c] \in Nat /\ U64 \in Nat
  BY VmMetricsAssumption DEF TypeOK, HistoryOK
<1>3. CASE c = a.at
  <2>1. metrics'[c] = (metrics[c] + a.by) % U64 /\ added'[c] = added[c] + a.by
    BY <1>3 DEF FetchAdd, TypeOK, HistoryOK
  <2>2. (metrics[c] + a.by) % U64 \in 0 .. U64 - 1 /\ (metrics[c] + a.by) % U64 <= metrics[c] + a.by
    BY <1>1, <1>2, WrappingAdd
  <2> HIDE DEF a
  <2> QED BY <1>1, <1>2, <2>1, <2>2
<1>4. CASE c # a.at
  <2>1. metrics'[c] = metrics[c] /\ added'[c] = added[c]
    BY <1>4 DEF FetchAdd, TypeOK, HistoryOK
  <2> QED BY <1>2, <2>1
<1> QED BY <1>3, <1>4

\* A store clears a counter and leaves the others.
LEMMA StoreClears ==
  ASSUME TypeOK, ResetStore
  PROVE  /\ reset_at \in 1..18 /\ Stores[reset_at] \in Counter
         /\ reset_at' = IF reset_at = 18 THEN 0 ELSE reset_at + 1
         /\ metrics'[Stores[reset_at]] = 0
         /\ \A c \in Counter : c # Stores[reset_at] => metrics'[c] = metrics[c]
<1>1. reset_at # 0 /\ reset_at \in 0..18
  BY StoresAll DEF ResetStore, TypeOK
<1>2. reset_at \in 1..18
  BY <1>1
<1>3. Stores[reset_at] \in Counter
  BY <1>2, StoresAll
<1>4. reset_at' = IF reset_at = 18 THEN 0 ELSE reset_at + 1
  BY StoresAll DEF ResetStore
<1> QED BY <1>2, <1>3, <1>4 DEF ResetStore, TypeOK

\* What the counters, the history and the reader can do in one step.
LEMMA Steps ==
  ASSUME [Next]_vars
  PROVE  \/ \E r \in Recorder : FetchAdd(r)
         \/ UNCHANGED <<metrics, added, reader, reset_at, resetMark>>
         \/ ResetBegin
         \/ ResetStore
         \/ /\ UNCHANGED <<metrics, added, reset_at, resetMark>>
            /\ Load \/ RateZero \/ RateEnd \/ SnapshotEnd \/ \E what \in Reads : ReadBegin(what)
<1>1. ASSUME NEW r \in Recorder, NEW op \in Op, NEW n \in Amount, Record(r, op, n)
      PROVE  UNCHANGED <<metrics, added, reader, reset_at, resetMark>>
  BY <1>1 DEF Record
<1>2. CASE Toggle \/ UNCHANGED vars
  BY <1>2 DEF Toggle, vars
<1>3. CASE Load \/ RateZero \/ RateEnd \/ SnapshotEnd \/ \E what \in Reads : ReadBegin(what)
  BY <1>3 DEF Load, RateZero, RateEnd, SnapshotEnd, ReadBegin
<1> QED BY <1>1, <1>2, <1>3 DEF Next

\* Nothing is marked that was not added.
LEMMA MarksStep ==
  ASSUME TypeOK, HistoryOK, TodosShaped, MarksBehind, [Next]_vars
  PROVE  MarksBehind'
<1> USE DEF MarksBehind, HistoryOK
<1>1. ASSUME NEW r \in Recorder, FetchAdd(r)
      PROVE  MarksBehind'
  <2>1. UNCHANGED <<resetMark, readMark, lastMark>>
    BY <1>1 DEF FetchAdd, reader
  <2> QED BY <1>1, <2>1, AddsGrow
<1>2. CASE UNCHANGED <<metrics, added, reader, reset_at, resetMark>>
  BY <1>2 DEF reader
<1>3. CASE ResetBegin
  BY <1>3 DEF ResetBegin, reader
<1>4. CASE ResetStore
  BY <1>4 DEF ResetStore, reader
<1>5. CASE Load \/ RateZero \/ RateEnd
  BY <1>5 DEF Load, RateZero, RateEnd
<1>6. CASE SnapshotEnd
  BY <1>6 DEF SnapshotEnd, Zero
<1>7. ASSUME NEW what \in Reads, ReadBegin(what)
      PROVE  MarksBehind'
  BY <1>7 DEF ReadBegin
<1> QED BY <1>1, <1>2, <1>3, <1>4, <1>5, <1>6, <1>7, Steps

\* A counter that reset has passed holds only what was added since.
LEMMA ClearedStep ==
  ASSUME TypeOK, HistoryOK, TodosShaped, MarksBehind, ClearedForgets, [Next]_vars
  PROVE  ClearedForgets'
<1> SUFFICES ASSUME NEW i \in 1..18, reset_at' = 0 \/ i < reset_at'
             PROVE  metrics'[Stores[i]] <= added'[Stores[i]] - resetMark'[Stores[i]]
  BY StoresAll DEF ClearedForgets
<1> DEFINE c == Stores[i]
<1>0. /\ c \in Counter /\ metrics[c] \in Nat /\ added[c] \in Nat /\ resetMark[c] \in Nat
      /\ resetMark[c] <= added[c]
  <2>1. c \in Counter
    BY StoresAll
  <2> HIDE DEF c
  <2> QED BY <2>1 DEF TypeOK, HistoryOK, MarksBehind
<1>a. reset_at = 0 \/ i < reset_at => metrics[c] <= added[c] - resetMark[c]
  BY StoresAll DEF ClearedForgets
<1> HIDE DEF c
<1>1. ASSUME NEW r \in Recorder, FetchAdd(r)
      PROVE  metrics'[c] <= added'[c] - resetMark'[c]
  <2>1. UNCHANGED <<resetMark, reset_at>>
    BY <1>1 DEF FetchAdd
  <2> QED BY <1>0, <1>1, <1>a, <2>1, AddsGrow
<1>2. CASE UNCHANGED <<metrics, added, reset_at, resetMark>>
  BY <1>a, <1>2 DEF c
<1>3. CASE ResetBegin
  <2>1. reset_at' = 1
    BY <1>3 DEF ResetBegin
  <2> QED BY <2>1
<1>4. CASE ResetStore
  <2>1. UNCHANGED <<added, resetMark>>
    BY <1>4 DEF ResetStore
  <2>2. CASE c = Stores[reset_at]
    BY <1>0, <1>4, <2>1, <2>2, StoreClears DEF c
  <2>3. CASE c # Stores[reset_at]
    <3>1. i # reset_at
      BY <2>3 DEF c
    <3>2. reset_at \in 1..18 /\ (reset_at' = IF reset_at = 18 THEN 0 ELSE reset_at + 1)
          /\ metrics'[c] = metrics[c]
      BY <1>0, <1>4, <2>3, StoreClears
    <3>3. i < reset_at
      BY <3>1, <3>2
    <3> QED BY <1>a, <2>1, <3>2, <3>3 DEF c
  <2> QED BY <2>2, <2>3
<1> QED BY <1>1, <1>2, <1>3, <1>4, Steps DEF c

\* After a reset no counter holds anything from before it, whatever was half
\* recorded when it ran.
THEOREM ResetsForget == Spec => []ResetForgets
<1>1. Init => MarksBehind /\ ClearedForgets
  BY StoresAll DEF Init, MarksBehind, ClearedForgets, Zero
<1>2. /\ TypeOK /\ HistoryOK /\ TodosShaped /\ MarksBehind /\ ClearedForgets
      /\ [Next]_vars
      => (MarksBehind /\ ClearedForgets)'
  BY MarksStep, ClearedStep
<1>3. ClearedForgets => ResetForgets
  BY StoresAll DEF ClearedForgets, ResetForgets
<1> QED BY <1>1, <1>2, <1>3, ShapeInvariant, PTL DEF Spec
-----------------------------------------------------------------------------
\* The values that a reader keeps.
LEMMA Kept ==
  ASSUME NEW s \in Seq(0 .. U64 - 1)
  PROVE  /\ Len(s) \in Nat
         /\ \A i \in 1 .. Len(s) : s[i] \in Nat
         /\ \A x \in 0 .. U64 - 1 : /\ Len(Append(s, x)) = Len(s) + 1
                                   /\ \A i \in 1 .. Len(s) : Append(s, x)[i] = s[i]
<1>1. \A i \in 1 .. Len(s) : s[i] \in 0 .. U64 - 1
  BY ElementOfSeq
<1>2. Len(s) \in Nat
  BY LenProperties
<1>3. \A x \in 0 .. U64 - 1 : /\ Len(Append(s, x)) = Len(s) + 1
                             /\ \A i \in 1 .. Len(s) : Append(s, x)[i] = s[i]
  BY AppendProperties
<1> QED BY <1>1, <1>2, <1>3, VmMetricsAssumption

\* What is loaded is the value of a counter.
LEMMA LoadTyped ==
  ASSUME TypeOK, Load
  PROVE  \E x \in 0 .. U64 - 1 : loaded' = Append(loaded, x)
<1>1. metrics[Loads[reading][Len(loaded) + 1]] \in 0 .. U64 - 1
  BY LoadsForms DEF Load, TypeOK
<1> QED BY <1>1 DEF Load

\* A rate is computed with the denominator that was tested.
LEMMA RateStep ==
  ASSUME TypeOK, HistoryOK, DenominatorTested, RateSound, [Next]_vars
  PROVE  DenominatorTested' /\ RateSound'
<1>a. None \notin Rate
  BY VmMetricsAssumption DEF Rate
<1>1. CASE UNCHANGED <<reading, loaded, rate>>
  BY <1>1 DEF DenominatorTested, RateSound, Rate
<1>2. ASSUME NEW what \in Reads, ReadBegin(what)
      PROVE  DenominatorTested' /\ RateSound'
  <2>1. loaded' = <<>> /\ rate' = None
    BY <1>2 DEF ReadBegin, HistoryOK
  <2>2. Len(loaded') # 2
    BY <2>1
  <2> QED BY <2>1, <2>2 DEF DenominatorTested, RateSound
<1>3. CASE Load
  <2>1. UNCHANGED <<reading, rate>> /\ loaded \in Seq(0 .. U64 - 1)
    BY <1>3 DEF Load, TypeOK
  <2>2. ASSUME reading \in Rate, Len(loaded') = 2
        PROVE  loaded'[1] # 0
    <3>1. PICK x \in 0 .. U64 - 1 : loaded' = Append(loaded, x)
      BY <1>3, LoadTyped
    <3>2. Len(loaded) = 1 /\ loaded'[1] = loaded[1]
      <4>1. Len(loaded) \in Nat /\ Len(loaded') = Len(loaded) + 1
        BY <2>1, <3>1, Kept
      <4>2. \A i \in 1 .. Len(loaded) : loaded'[i] = loaded[i]
        BY <2>1, <3>1, Kept
      <4>3. Len(loaded) + 1 = 2
        BY <2>2, <4>1, Zenon
      <4>4. \A n \in Nat : n + 1 = 2 => n = 1
        OBVIOUS
      <4>5. Len(loaded) = 1
        BY <4>1, <4>3, <4>4, Zenon
      <4> QED BY <4>2, <4>5
    <3>3. loaded # <<0>>
      BY <1>3, <2>2 DEF Load
    <3>4. loaded[1] = 0 => loaded = <<0>>
      BY <2>1, <3>2
    <3> QED BY <3>2, <3>3, <3>4
  <2> QED BY <2>1, <2>2 DEF DenominatorTested, RateSound, Rate
<1>4. CASE RateZero
  BY <1>4, <1>a DEF RateZero, DenominatorTested, RateSound, Rate
<1>5. CASE RateEnd
  <2>1. loaded[1] # 0 /\ loaded[1] \in Nat /\ loaded[2] \in Nat
    <3>1. Len(loaded) = 2 /\ loaded \in Seq(0 .. U64 - 1) /\ U64 \in Nat
      BY <1>5, VmMetricsAssumption DEF RateEnd, TypeOK
    <3>2. loaded[1] \in Nat /\ loaded[2] \in Nat
      <4>1. 1 \in 1 .. Len(loaded) /\ 2 \in 1 .. Len(loaded)
        BY <3>1
      <4> QED BY <3>1, <4>1, Kept
    <3>3. loaded[1] # 0
      BY <1>5, <3>1 DEF RateEnd, DenominatorTested
    <3> QED BY <3>1, <3>2, <3>3
  <2>2. reading' = None
    BY <1>5 DEF RateEnd
  <2>3. rate' = [of |-> reading, num |-> Numerator, den |-> loaded[1]]
    BY <1>5 DEF RateEnd
  <2>4. reading = "cpu_utilization" => Numerator <= loaded[1]
    BY <2>1 DEF Numerator, saturating_sub
  <2>5. DenominatorTested'
    BY <1>a, <2>2 DEF DenominatorTested, Rate
  <2>6. RateSound'
    BY <2>1, <2>3, <2>4 DEF RateSound
  <2> QED BY <2>5, <2>6
<1>6. CASE SnapshotEnd
  BY <1>6, <1>a DEF SnapshotEnd, DenominatorTested, RateSound, Rate
<1>7. CASE (\E r \in Recorder : FetchAdd(r)) \/ ResetBegin \/ ResetStore
           \/ UNCHANGED <<metrics, added, reader, reset_at, resetMark>>
  <2>1. UNCHANGED <<reading, loaded, rate>>
    BY <1>7 DEF FetchAdd, ResetBegin, ResetStore, reader
  <2> QED BY <1>1, <2>1
<1> QED BY <1>2, <1>3, <1>4, <1>5, <1>6, <1>7, Steps

\* No rate divides by zero and the utilisation is at most 100%, whatever is
\* recorded or reset between the two loads.
THEOREM RatesSound == Spec => []RateSound
<1>1. Init => DenominatorTested /\ RateSound
  <2> SUFFICES ASSUME Init PROVE DenominatorTested /\ RateSound
    OBVIOUS
  <2>1. Len(loaded) # 2
    BY DEF Init
  <2> QED BY <2>1 DEF Init, DenominatorTested, RateSound
<1>2. TypeOK /\ HistoryOK /\ DenominatorTested /\ RateSound /\ [Next]_vars
      => (DenominatorTested /\ RateSound)'
  BY RateStep
<1> QED BY <1>1, <1>2, ShapeInvariant, PTL DEF Spec
-----------------------------------------------------------------------------
\* The counters of a snapshot.
LEMMA SnapshotCounters ==
  ASSUME NEW i \in DeltaField
  PROVE  i \in 1..4 /\ Loads.snapshot[i] \in Counter
<1>1. i \in 1..4
  BY DEF DeltaField
<1>2. Loads["snapshot"][i] \in Counter /\ Loads.snapshot = Loads["snapshot"]
  BY <1>1, LoadsForms DEF Loads
<1> QED BY <1>1, <1>2

\* A snapshot lags behind the counters by what was added in between.
LEMMA SnapshotStep ==
  ASSUME TypeOK, HistoryOK, TodosShaped, MarksBehind, SnapshotsFollow, DeltaBounded, [Next]_vars
  PROVE  SnapshotsFollow' /\ DeltaBounded'
<1> DEFINE Follow(c, i) ==
      /\ last # None => metrics[c] <= last[i] + (added[c] - lastMark[c])
      /\ reading = "snapshot" /\ i <= Len(loaded) =>
           /\ metrics[c] <= loaded[i] + (added[c] - readMark[c])
           /\ last # None => loaded[i] <= last[i] + (added[c] - lastMark[c])
<1>a. ASSUME NEW i \in DeltaField, NEW c \in Counter
      PROVE  /\ i \in 1..4
             /\ metrics[c] \in Nat /\ added[c] \in Nat
             /\ readMark[c] \in Nat /\ lastMark[c] \in Nat
             /\ readMark[c] <= added[c] /\ lastMark[c] <= added[c]
             /\ last # None => last[i] \in Nat
             /\ i <= Len(loaded) => loaded[i] \in Nat
             /\ Len(loaded) \in Nat
  <2>1. i \in 1..4
    BY SnapshotCounters
  <2>2. /\ metrics[c] \in Nat /\ added[c] \in Nat
        /\ readMark[c] \in Nat /\ lastMark[c] \in Nat
        /\ readMark[c] <= added[c] /\ lastMark[c] <= added[c]
    BY <2>1 DEF TypeOK, HistoryOK, MarksBehind
  <2>3. last # None => last[i] \in Nat
    <3>1. last # None => last \in Seq(0 .. U64 - 1) /\ Len(last) = 5
      BY DEF HistoryOK
    <3>2. i \in 1 .. 5
      BY <2>1
    <3> QED BY <3>1, <3>2, Kept
  <2>4. /\ i <= Len(loaded) => loaded[i] \in Nat
        /\ Len(loaded) \in Nat
    <3>1. loaded \in Seq(0 .. U64 - 1) /\ Len(loaded) \in Nat
      BY Kept DEF TypeOK
    <3>2. i <= Len(loaded) => i \in 1 .. Len(loaded)
      BY <2>1, <3>1
    <3> QED BY <3>1, <3>2, Kept
  <2> QED BY <2>1, <2>2, <2>3, <2>4
<1>b. \A i \in DeltaField : Follow(Loads.snapshot[i], i)
  BY DEF SnapshotsFollow, Since
<1>c. ASSUME \A i \in DeltaField : \A c \in Counter :
               c = Loads.snapshot[i] => Follow(c, i)'
      PROVE  SnapshotsFollow'
  BY <1>c, SnapshotCounters DEF SnapshotsFollow, Since
<1>1. ASSUME NEW r \in Recorder, FetchAdd(r)
      PROVE  SnapshotsFollow' /\ DeltaBounded'
  <2>1. UNCHANGED reader
    BY <1>1 DEF FetchAdd
  <2>2. ASSUME NEW i \in DeltaField, NEW c \in Counter, c = Loads.snapshot[i]
        PROVE  Follow(c, i)'
    <3>1. /\ metrics'[c] \in Nat /\ added'[c] \in Nat /\ added[c] <= added'[c]
          /\ metrics'[c] <= metrics[c] + (added'[c] - added[c])
      BY <1>1, AddsGrow
    <3>2. Follow(c, i) /\ UNCHANGED <<reading, loaded, last, readMark, lastMark>>
      BY <1>b, <2>1, <2>2 DEF reader
    <3>0. /\ metrics[c] \in Nat /\ added[c] \in Nat
          /\ readMark[c] \in Nat /\ lastMark[c] \in Nat
          /\ last # None => last[i] \in Nat
          /\ i <= Len(loaded) => loaded[i] \in Nat
      BY <1>a
    <3>3. last # None => metrics'[c] <= last[i] + (added'[c] - lastMark[c])
      BY <3>0, <3>1, <3>2
    <3>4. reading = "snapshot" /\ i <= Len(loaded) =>
            /\ metrics'[c] <= loaded[i] + (added'[c] - readMark[c])
            /\ last # None => loaded[i] <= last[i] + (added'[c] - lastMark[c])
      <4> SUFFICES ASSUME reading = "snapshot" /\ i <= Len(loaded)
                   PROVE  /\ metrics'[c] <= loaded[i] + (added'[c] - readMark[c])
                          /\ last # None => loaded[i] <= last[i] + (added'[c] - lastMark[c])
        OBVIOUS
      <4>1. loaded[i] \in Nat /\ metrics[c] <= loaded[i] + (added[c] - readMark[c])
        BY <3>0, <3>2
      <4>2. last # None => /\ last[i] \in Nat
                           /\ loaded[i] <= last[i] + (added[c] - lastMark[c])
        BY <3>0, <3>2
      <4>3. metrics'[c] <= loaded[i] + (added'[c] - readMark[c])
        BY <3>0, <3>1, <4>1
      <4>4. last # None => loaded[i] <= last[i] + (added'[c] - lastMark[c])
        BY <3>0, <3>1, <4>1, <4>2
      <4> QED BY <4>3, <4>4
    <3> QED BY <3>2, <3>3, <3>4
  <2> QED BY <1>c, <2>1, <2>2 DEF DeltaBounded, reader
<1>2. CASE ResetStore
  <2>1. UNCHANGED <<reader, added>>
    BY <1>2 DEF ResetStore
  <2>2. ASSUME NEW i \in DeltaField, NEW c \in Counter, c = Loads.snapshot[i]
        PROVE  Follow(c, i)'
    <3>1. metrics'[c] \in {0, metrics[c]}
      BY <1>2, StoreClears
    <3>2. Follow(c, i)
      BY <1>b, <2>2
    <3> QED BY <1>a, <2>1, <3>1, <3>2 DEF reader
  <2> QED BY <1>c, <2>1, <2>2 DEF DeltaBounded, reader
<1>3. CASE UNCHANGED <<metrics, added, reader>>
  BY <1>3 DEF reader, SnapshotsFollow, DeltaBounded, Since
<1>4. CASE UNCHANGED <<metrics, added>> /\ Load
  <2>1. UNCHANGED <<metrics, added, reading, last, delta, readMark, lastMark>>
    BY <1>4 DEF Load
  <2>2. loaded' = Append(loaded, metrics[Loads[reading][Len(loaded) + 1]])
    BY <1>4 DEF Load
  <2>3. ASSUME NEW i \in DeltaField, NEW c \in Counter, c = Loads.snapshot[i]
        PROVE  Follow(c, i)'
    <3>1. Follow(c, i)
      BY <1>b, <2>3
    <3>2. CASE reading = "snapshot" /\ i = Len(loaded) + 1
      <4>1. loaded'[i] = metrics[c]
        BY <2>2, <2>3, <3>2, <1>a DEF TypeOK
      <4> QED BY <1>a, <2>1, <3>1, <4>1
    <3>3. CASE reading # "snapshot" \/ i # Len(loaded) + 1
      <4>1. reading = "snapshot" /\ i <= Len(loaded') => i <= Len(loaded) /\ loaded'[i] = loaded[i]
        <5>1. PICK x \in 0 .. U64 - 1 : loaded' = Append(loaded, x)
          BY <1>4, LoadTyped
        <5>2. Len(loaded') = Len(loaded) + 1 /\ (i \in 1 .. Len(loaded) => loaded'[i] = loaded[i])
          BY <5>1, AppendProperties DEF TypeOK
        <5> QED BY <3>3, <5>2, <1>a
      <4> QED BY <1>a, <2>1, <3>1, <4>1
    <3> QED BY <3>2, <3>3
  <2> QED BY <1>c, <2>1, <2>3 DEF DeltaBounded
<1>5. CASE UNCHANGED <<metrics, added>> /\ (RateZero \/ RateEnd)
  <2>1. /\ UNCHANGED <<metrics, added, last, delta, readMark, lastMark>>
        /\ reading' # "snapshot"
    BY <1>5, VmMetricsAssumption DEF RateZero, RateEnd, Loads
  <2> QED BY <1>b, <1>c, <2>1 DEF DeltaBounded
<1>6. ASSUME NEW what \in Reads, ReadBegin(what)
      PROVE  SnapshotsFollow' /\ DeltaBounded'
  <2>1. /\ UNCHANGED <<metrics, added, last, delta, lastMark>>
        /\ loaded' = <<>>
    BY <1>6 DEF ReadBegin, HistoryOK
  <2>2. \A i \in DeltaField : ~(i <= Len(loaded'))
    BY <2>1 DEF DeltaField
  <2> QED BY <1>b, <1>c, <2>1, <2>2 DEF DeltaBounded
<1>7. CASE UNCHANGED <<metrics, added>> /\ SnapshotEnd
  <2>1. /\ UNCHANGED <<metrics, added>> /\ reading = "snapshot" /\ reading' # "snapshot"
        /\ last' = loaded /\ lastMark' = readMark /\ Len(loaded) = 5
    BY <1>7, VmMetricsAssumption DEF SnapshotEnd, Loads
  <2>2. ASSUME NEW i \in DeltaField, NEW c \in Counter, c = Loads.snapshot[i]
        PROVE  Follow(c, i)'
    <3>1. Follow(c, i) /\ i <= 5
      BY <1>a, <1>b, <2>2
    <3> QED BY <1>a, <2>1, <3>1
  <2>3. ASSUME NEW i \in DeltaField, last # None
        PROVE  saturating_sub(loaded[i], last[i]) <= Since(Loads.snapshot[i])
    <3>1. PICK c \in Counter : c = Loads.snapshot[i]
      BY SnapshotCounters
    <3>2. Follow(c, i) /\ i <= 5
      BY <1>a, <1>b, <3>1
    <3>3. saturating_sub(loaded[i], last[i]) <= added[c] - lastMark[c]
      BY <1>a, <2>1, <2>3, <3>2 DEF saturating_sub
    <3> QED BY <3>1, <3>3 DEF Since
  <2>4. DeltaBounded'
    <3>1. CASE last = None
      BY <1>7, <3>1 DEF SnapshotEnd, DeltaBounded
    <3>2. CASE last # None
      <4>1. delta' = [value |-> Difference(loaded, last),
                      bound |-> [i \in DeltaField |-> Since(Loads.snapshot[i])]]
        BY <1>7, <3>2 DEF SnapshotEnd
      <4> QED BY <2>3, <3>2, <4>1 DEF DeltaBounded, Difference
    <3> QED BY <3>1, <3>2
  <2> QED BY <1>c, <2>2, <2>4
<1>8. CASE ResetBegin
  BY <1>3, <1>8 DEF ResetBegin
<1> QED BY <1>1, <1>2, <1>3, <1>4, <1>5, <1>6, <1>7, <1>8, Steps

\* A delta never reports more than was recorded since its first snapshot
\* began.
THEOREM DeltasBounded == Spec => []DeltaBounded
<1>1. Init => MarksBehind /\ SnapshotsFollow /\ DeltaBounded
  <2> SUFFICES ASSUME Init PROVE MarksBehind /\ SnapshotsFollow /\ DeltaBounded
    OBVIOUS
  <2>1. reading # "snapshot"
    BY VmMetricsAssumption DEF Init, Loads
  <2> QED BY <2>1 DEF Init, MarksBehind, Zero, SnapshotsFollow, DeltaBounded
<1>2. /\ TypeOK /\ HistoryOK /\ TodosShaped /\ MarksBehind /\ SnapshotsFollow /\ DeltaBounded
      /\ [Next]_vars
      => (MarksBehind /\ SnapshotsFollow /\ DeltaBounded)'
  BY MarksStep, SnapshotStep
<1> QED BY <1>1, <1>2, ShapeInvariant, PTL DEF Spec
-----------------------------------------------------------------------------
\* Sets of recorders are finite.
LEMMA RecorderSets ==
  ASSUME NEW U \in SUBSET Recorder
  PROVE  /\ Cardinality(U) \in Nat
         /\ \A T \in SUBSET U : Cardinality(T) <= Cardinality(U)
         /\ \A r \in U : Cardinality(U \ {r}) = Cardinality(U) - 1
         /\ \A r \in Recorder \ U : Cardinality(U \cup {r}) = Cardinality(U) + 1
<1>1. IsFiniteSet(U)
  BY VmMetricsAssumption, FS_Subset
<1>2. Cardinality(U) \in Nat
  BY <1>1, FS_CardinalityType
<1>3. \A T \in SUBSET U : Cardinality(T) <= Cardinality(U)
  BY <1>1, FS_Subset
<1>4. \A r \in U : Cardinality(U \ {r}) = Cardinality(U) - 1
  BY <1>1, FS_RemoveElement
<1>5. \A r \in Recorder \ U : Cardinality(U \cup {r}) = Cardinality(U) + 1
  BY <1>1, FS_AddElement
<1> QED BY <1>2, <1>3, <1>4, <1>5

\* The total that a counter is a kind of.
TotalOf(c) == IF c \in ExitKind THEN "vcpu_exits" ELSE "errors"
\* The counters that are kinds of another.
Kind == ExitKind \cup {"hardware_failures"}

\* A recorder completes a total that was due, adds a kind and has its total
\* due next, or adds to a counter that is neither.
LEMMA AddForms ==
  ASSUME TypeOK, TodosShaped, NEW r \in Recorder, FetchAdd(r)
  PROVE  \E c \in Counter :
           /\ \A d \in Counter \ {c} : metrics'[d] = metrics[d]
           /\ \/ /\ c \in Total /\ metrics'[c] = (metrics[c] + 1) % U64
                 /\ r \in Due(c) /\ Due(c)' = Due(c) \ {r}
                 /\ r \in Coming(c) /\ Coming(c)' = Coming(c) \ {r}
                 /\ \A t \in Total \ {c} : Due(t)' = Due(t) /\ Coming(t)' = Coming(t)
              \/ /\ c \in Kind /\ metrics'[c] = (metrics[c] + 1) % U64
                 /\ r \notin Due(TotalOf(c)) /\ Due(TotalOf(c))' = Due(TotalOf(c)) \cup {r}
                 /\ \A t \in Total : Coming(t)' = Coming(t)
                 /\ \A t \in Total \ {TotalOf(c)} : Due(t)' = Due(t)
              \/ /\ c \notin Total \cup Kind
                 /\ \A t \in Total : Due(t)' = Due(t) /\ Coming(t)' = Coming(t)
<1> DEFINE q == todo[r]
           p == todo'[r]
<1>1. /\ TodoShape(q) /\ q # <<>> /\ p = Tail(q)
      /\ \A s \in Recorder \ {r} : todo'[s] = todo[s]
      /\ \A d \in Counter \ {Head(q).at} : metrics'[d] = metrics[d]
      /\ Head(q).at \in Counter => metrics'[Head(q).at] = (metrics[Head(q).at] + Head(q).by) % U64
  BY DEF FetchAdd, TypeOK, TodosShaped
<1>2. \A t : /\ Due(t) \ {r} = Due(t)' \ {r}
             /\ r \in Due(t) <=> q = <<Step(t, 1)>>
             /\ r \in Due(t)' <=> p = <<Step(t, 1)>>
  BY <1>1 DEF Due, Step
<1>10. \A t : Coming(t) \ {r} = Coming(t)' \ {r}
  BY <1>1 DEF Coming
<1>3. \A t : /\ r \in Coming(t) <=> q # <<>> /\ q[Len(q)].at = t
             /\ r \in Coming(t)' <=> p # <<>> /\ p[Len(p)].at = t
  BY <1>1 DEF Coming
<1> HIDE DEF q, p
<1>8. \A t : /\ (r \in Due(t) <=> r \in Due(t)') => Due(t)' = Due(t)
             /\ r \in Due(t) /\ r \notin Due(t)' => Due(t)' = Due(t) \ {r}
             /\ r \notin Due(t) /\ r \in Due(t)' => Due(t)' = Due(t) \cup {r}
  BY <1>2
<1>9. \A t : /\ (r \in Coming(t) <=> r \in Coming(t)') => Coming(t)' = Coming(t)
             /\ r \in Coming(t) /\ r \notin Coming(t)' => Coming(t)' = Coming(t) \ {r}
  BY <1>10
<1>4. ASSUME NEW c \in Counter \ (ExitKind \cup {"hardware_failures"}), NEW n \in Nat,
             q = <<Step(c, n)>>, c \in {"vcpu_exits", "errors"} => n = 1
      PROVE  /\ \A d \in Counter \ {c} : metrics'[d] = metrics[d]
             /\ \/ /\ c \in Total /\ metrics'[c] = (metrics[c] + 1) % U64
                   /\ r \in Due(c) /\ Due(c)' = Due(c) \ {r}
                   /\ r \in Coming(c) /\ Coming(c)' = Coming(c) \ {r}
                   /\ \A t \in Total \ {c} : Due(t)' = Due(t) /\ Coming(t)' = Coming(t)
                \/ /\ c \notin Total \cup Kind
                   /\ \A t \in Total : Due(t)' = Due(t) /\ Coming(t)' = Coming(t)
  <2>1. Head(q) = Step(c, n) /\ p = <<>> /\ Len(q) = 1 /\ q[1] = Step(c, n)
    BY <1>1, <1>4
  <2>2. \A t : /\ r \in Due(t) => c = t
               /\ r \notin Due(t)'
               /\ r \in Coming(t) <=> c = t
               /\ r \notin Coming(t)'
    BY <1>2, <1>3, <1>4, <2>1 DEF Step
  <2>3. \A d \in Counter \ {c} : metrics'[d] = metrics[d]
    BY <1>1, <2>1 DEF Step
  <2>4. CASE c \in Total
    <3>1. n = 1 /\ metrics'[c] = (metrics[c] + 1) % U64
      BY <1>1, <1>4, <2>1, <2>4 DEF Step, Total
    <3>2. r \in Due(c) /\ r \notin Due(c)'
      BY <1>2, <1>4, <2>2, <3>1
    <3> QED BY <1>8, <1>9, <2>2, <2>3, <2>4, <3>1, <3>2
  <2>5. CASE c \notin Total
    BY <1>8, <1>9, <2>2, <2>3, <2>5 DEF Kind
  <2> QED BY <2>4, <2>5
<1>5. ASSUME NEW c \in Kind, q = <<Step(c, 1), Step(TotalOf(c), 1)>>
      PROVE  /\ \A d \in Counter \ {c} : metrics'[d] = metrics[d]
             /\ c \in Kind /\ metrics'[c] = (metrics[c] + 1) % U64
             /\ r \notin Due(TotalOf(c)) /\ Due(TotalOf(c))' = Due(TotalOf(c)) \cup {r}
             /\ \A t \in Total : Coming(t)' = Coming(t)
             /\ \A t \in Total \ {TotalOf(c)} : Due(t)' = Due(t)
  <2>1. /\ Head(q) = Step(c, 1) /\ p = <<Step(TotalOf(c), 1)>> /\ Len(q) = 2 /\ Len(p) = 1
        /\ q[2] = Step(TotalOf(c), 1) /\ p[1] = Step(TotalOf(c), 1)
    BY <1>1, <1>5
  <2>2. \A t : /\ r \notin Due(t)
               /\ r \in Due(t)' <=> TotalOf(c) = t
               /\ r \in Coming(t) <=> r \in Coming(t)'
    BY <1>2, <1>3, <1>5, <2>1 DEF Step
  <2>3. /\ \A d \in Counter \ {c} : metrics'[d] = metrics[d]
        /\ metrics'[c] = (metrics[c] + 1) % U64
    BY <1>1, <2>1, CounterNames DEF Step, Kind
  <2> QED BY <1>8, <1>9, <2>2, <2>3
<1>6. ASSUME NEW c \in ExitKind, q = <<Step(c, 1), Step("vcpu_exits", 1)>>
      PROVE  c \in Kind /\ c \in Counter /\ q = <<Step(c, 1), Step(TotalOf(c), 1)>>
  BY <1>6, CounterNames DEF Kind, TotalOf
<1>7. ASSUME q = <<Step("hardware_failures", 1), Step("errors", 1)>>
      PROVE  /\ "hardware_failures" \in Kind /\ "hardware_failures" \in Counter
             /\ q = <<Step("hardware_failures", 1), Step(TotalOf("hardware_failures"), 1)>>
  BY <1>7, CounterNames DEF Kind, TotalOf, ExitKind
<1> HIDE DEF Kind, Total
<1> QED BY <1>1, <1>4, <1>5, <1>6, <1>7 DEF TodoShape

\* What the counters and the recorders can do in one step.
LEMMA RecorderSteps ==
  ASSUME [Next]_vars
  PROVE  \/ \E r \in Recorder : FetchAdd(r)
         \/ \E r \in Recorder, op \in Op, n \in Amount : Record(r, op, n)
         \/ ResetStore
         \/ UNCHANGED <<metrics, todo, nrecord>> /\ (UNCHANGED reset_at \/ ResetBegin)
<1>1. CASE Toggle \/ ResetBegin \/ UNCHANGED vars
  BY <1>1 DEF Toggle, ResetBegin, vars, counts
<1>2. CASE Load \/ RateZero \/ RateEnd \/ SnapshotEnd \/ \E what \in Reads : ReadBegin(what)
  BY <1>2 DEF Load, RateZero, RateEnd, SnapshotEnd, ReadBegin, counts
<1> QED BY <1>1, <1>2 DEF Next

\* The recorders that a record makes wait for a total.
LEMMA RecordForms ==
  ASSUME TypeOK, NEW r \in Recorder, NEW op \in Op, NEW n \in Amount, Record(r, op, n)
  PROVE  \A t : /\ r \notin Coming(t) /\ Coming(t)' \subseteq Coming(t) \cup {r}
                /\ Due(t) \subseteq Due(t)' /\ Due(t) \in SUBSET Recorder /\ Due(t)' \in SUBSET Recorder
<1>1. todo[r] = <<>> /\ \A s \in Recorder \ {r} : todo'[s] = todo[s]
  BY DEF Record, TypeOK
<1>2. \A t : r \notin Due(t)
  BY <1>1 DEF Due
<1>3. \A t : Due(t) \subseteq Due(t)' /\ Due(t) \in SUBSET Recorder /\ Due(t)' \in SUBSET Recorder
  BY <1>1, <1>2 DEF Due
<1>4. \A t : r \notin Coming(t) /\ Coming(t)' \subseteq Coming(t) \cup {r}
  BY <1>1 DEF Coming
<1> QED BY <1>3, <1>4

\* No total wraps around, so an add of 1 adds 1.
LEMMA TotalAdds ==
  ASSUME TypeOK, HistoryOK, TotalsFit, NEW t \in Total, NEW r \in Coming(t)
  PROVE  (metrics[t] + 1) % U64 = metrics[t] + 1
<1>1. metrics[t] \in 0 .. U64 - 1 /\ nrecord \in 0 .. MaxRecord /\ MaxRecord \in Nat
      /\ U64 \in Nat /\ MaxRecord < U64
  BY CounterNames, VmMetricsAssumption DEF TypeOK, HistoryOK, Total, Single
<1>2. Cardinality(Coming(t)) \in Nat /\ Cardinality(Coming(t) \ {r}) = Cardinality(Coming(t)) - 1
      /\ Cardinality(Coming(t) \ {r}) \in Nat
  BY RecorderSets, Coming(t) \in SUBSET Recorder, Coming(t) \ {r} \in SUBSET Recorder DEF Coming
<1>3. metrics[t] + Cardinality(Coming(t)) <= nrecord
  BY DEF TotalsFit, Total
<1>4. metrics[t] + 1 < U64
  BY <1>1, <1>2, <1>3
<1> QED BY <1>1, <1>4, WrappingAdd

\* A total with what is still to come never exceeds the recorded events, so
\* it does not wrap.
LEMMA TotalsStep ==
  ASSUME TypeOK, HistoryOK, TodosShaped, TotalsFit, [Next]_vars
  PROVE  TotalsFit'
<1> SUFFICES ASSUME NEW t \in Total
             PROVE  metrics'[t] + Cardinality(Coming(t)') <= nrecord'
  BY DEF TotalsFit, Total
<1>a. /\ metrics[t] \in Nat /\ nrecord \in Nat /\ t \in Counter
      /\ metrics[t] + Cardinality(Coming(t)) <= nrecord
  BY CounterNames DEF TypeOK, HistoryOK, TotalsFit, Total, Single
<1>b. /\ Coming(t) \in SUBSET Recorder /\ Cardinality(Coming(t)) \in Nat
  BY RecorderSets DEF Coming
<1>1. ASSUME NEW r \in Recorder, FetchAdd(r)
      PROVE  metrics'[t] + Cardinality(Coming(t)') <= nrecord'
  <2>1. nrecord' = nrecord
    BY <1>1 DEF FetchAdd, counts
  <2>2. PICK c \in Counter :
           /\ \A d \in Counter \ {c} : metrics'[d] = metrics[d]
           /\ \/ /\ c \in Total /\ metrics'[c] = (metrics[c] + 1) % U64
                 /\ r \in Coming(c) /\ Coming(c)' = Coming(c) \ {r}
                 /\ \A u \in Total \ {c} : Coming(u)' = Coming(u)
              \/ /\ c \notin Total
                 /\ \A u \in Total : Coming(u)' = Coming(u)
    BY <1>1, AddForms DEF Total, Kind, ExitKind
  <2>3. CASE t = c
    <3>1. r \in Coming(t) /\ Coming(t)' = Coming(t) \ {r} /\ metrics'[t] = metrics[t] + 1
      BY <2>2, <2>3, TotalAdds
    <3>2. Cardinality(Coming(t)') = Cardinality(Coming(t)) - 1
      BY <1>b, <3>1, RecorderSets
    <3> QED BY <1>a, <1>b, <2>1, <3>1, <3>2
  <2>4. CASE t # c
    <3>1. Coming(t)' = Coming(t) /\ metrics'[t] = metrics[t]
      BY <1>a, <2>2, <2>4
    <3> QED BY <1>a, <2>1, <3>1
  <2> QED BY <2>3, <2>4
<1>2. ASSUME NEW r \in Recorder, NEW op \in Op, NEW n \in Amount, Record(r, op, n)
      PROVE  metrics'[t] + Cardinality(Coming(t)') <= nrecord'
  <2>1. metrics' = metrics /\ nrecord' = nrecord + 1
    BY <1>2 DEF Record
  <2>2. r \notin Coming(t) /\ Coming(t)' \in SUBSET (Coming(t) \cup {r})
    BY <1>2, RecordForms
  <2>3. /\ Cardinality(Coming(t) \cup {r}) = Cardinality(Coming(t)) + 1
        /\ Cardinality(Coming(t)') <= Cardinality(Coming(t) \cup {r})
        /\ Cardinality(Coming(t)') \in Nat
    BY <1>b, <2>2, RecorderSets, Coming(t) \cup {r} \in SUBSET Recorder, Coming(t)' \in SUBSET Recorder
  <2> QED BY <1>a, <1>b, <2>1, <2>3
<1>3. CASE ResetStore
  <2>1. nrecord' = nrecord /\ todo' = todo
    BY <1>3 DEF ResetStore, counts
  <2>2. Coming(t)' = Coming(t)
    BY <2>1 DEF Coming
  <2>3. metrics'[t] \in {0, metrics[t]}
    BY <1>3, <1>a, StoreClears
  <2> QED BY <1>a, <1>b, <2>1, <2>2, <2>3
<1>4. CASE UNCHANGED <<metrics, todo, nrecord>>
  <2>1. Coming(t)' = Coming(t)
    BY <1>4 DEF Coming
  <2> QED BY <1>a, <1>4, <2>1
<1> QED BY <1>1, <1>2, <1>3, <1>4, RecorderSteps

\* A store never raises what a counter is taken to hold, except by clearing
\* its total.
LEMMA LiveStore ==
  ASSUME TypeOK, ResetStore, NEW c \in Counter, NEW t \in 1..18, NEW i \in 1..18, t < i,
         Stores[reset_at] = c <=> reset_at = i, reset_at # t
  PROVE  Live(c, t, i)' <= Live(c, t, i)
<1>1. metrics[c] \in Nat
  BY DEF TypeOK
<1>2. CASE reset_at = i
  <2>1. metrics'[c] = 0
    BY <1>2, StoreClears
  <2> QED BY <1>1, <2>1 DEF Live
<1>3. CASE reset_at # i
  <2>1. metrics'[c] = metrics[c]
    BY <1>3, StoreClears
  <2>2. reset_at \in 1..18 /\ reset_at' = IF reset_at = 18 THEN 0 ELSE reset_at + 1
    BY StoreClears
  <2>3. t < reset_at' /\ reset_at' <= i <=> t < reset_at /\ reset_at <= i
    BY <1>3, <2>2
  <2> QED BY <1>1, <2>1, <2>3 DEF Live
<1> QED BY <1>2, <1>3

\* The kinds stay covered by their total and the adds to it that are due,
\* also while a reset has cleared the total and not yet the kinds.
LEMMA KindsStep ==
  ASSUME TypeOK, HistoryOK, TodosShaped, TotalsFit, KindsCovered, [Next]_vars
  PROVE  KindsCovered'
<1>a. /\ \A c \in Counter : metrics[c] \in Nat
      /\ "vcpu_exits" \in Counter /\ "errors" \in Counter /\ "hardware_failures" \in Counter
      /\ "io_exits" \in Counter /\ "mmio_exits" \in Counter /\ "hlt_exits" \in Counter
      /\ "interrupt_exits" \in Counter /\ "exception_exits" \in Counter
  BY CounterNames DEF TypeOK, Single, ExitKind
<1>b. \A t : Due(t) \in SUBSET Recorder /\ Due(t)' \in SUBSET Recorder
  BY DEF Due
<1>c. \A t : Cardinality(Due(t)) \in Nat /\ Cardinality(Due(t)') \in Nat
  BY <1>b, RecorderSets
<1>1. ASSUME NEW r \in Recorder, FetchAdd(r)
      PROVE  KindsCovered'
  <2>1. PICK c \in Counter :
           /\ \A d \in Counter \ {c} : metrics'[d] = metrics[d]
           /\ \/ /\ c \in Total /\ metrics'[c] = (metrics[c] + 1) % U64
                 /\ r \in Due(c) /\ Due(c)' = Due(c) \ {r} /\ r \in Coming(c)
                 /\ \A t \in Total \ {c} : Due(t)' = Due(t)
              \/ /\ c \in Kind /\ metrics'[c] = (metrics[c] + 1) % U64
                 /\ r \notin Due(TotalOf(c)) /\ Due(TotalOf(c))' = Due(TotalOf(c)) \cup {r}
                 /\ \A t \in Total \ {TotalOf(c)} : Due(t)' = Due(t)
              \/ /\ c \notin Total \cup Kind
                 /\ \A t \in Total : Due(t)' = Due(t)
    BY <1>1, AddForms
  <2>2. reset_at' = reset_at
    BY <1>1 DEF FetchAdd
  <2> DEFINE More(k) == IF k = c THEN 1 ELSE 0
  \* The total and what is due to it grow by one for a kind of it.
  <2>3. ASSUME NEW t \in Total
        PROVE  metrics'[t] + Cardinality(Due(t)') =
                 metrics[t] + Cardinality(Due(t)) + (IF c \in Kind /\ TotalOf(c) = t THEN 1 ELSE 0)
    <3>0. t \in Counter /\ metrics[t] \in Nat /\ t \notin Kind
      BY <1>a DEF Total, Kind, ExitKind
    <3>1. CASE c = t
      <4>1. r \in Due(t) /\ Due(t)' = Due(t) \ {r} /\ metrics'[t] = metrics[t] + 1
        BY <2>1, <3>0, <3>1, TotalAdds
      <4>2. Cardinality(Due(t)') = Cardinality(Due(t)) - 1
        BY <1>b, <4>1, RecorderSets
      <4> QED BY <1>c, <3>0, <3>1, <4>1, <4>2
    <3>2. CASE c \in Kind /\ TotalOf(c) = t
      <4>1. r \in Recorder \ Due(t) /\ Due(t)' = Due(t) \cup {r} /\ metrics'[t] = metrics[t]
        BY <2>1, <3>0, <3>2 DEF Total, Kind, ExitKind
      <4>2. Cardinality(Due(t)') = Cardinality(Due(t)) + 1
        BY <1>b, <4>1, RecorderSets
      <4> QED BY <1>c, <3>0, <3>2, <4>1, <4>2
    <3>3. CASE c # t /\ ~(c \in Kind /\ TotalOf(c) = t)
      <4>1. Due(t)' = Due(t) /\ metrics'[t] = metrics[t]
        BY <2>1, <3>0, <3>3
      <4> QED BY <1>c, <3>0, <3>3, <4>1
    <3> QED BY <3>1, <3>2, <3>3
  <2>4. ASSUME NEW k \in Kind, NEW t \in Nat, NEW i \in Nat
        PROVE  /\ Live(k, t, i) \in Nat /\ Live(k, t, i)' \in Nat
               /\ Live(k, t, i)' <= Live(k, t, i) + More(k)
    <3>1. k \in Counter /\ metrics[k] \in 0 .. U64 - 1
      BY CounterNames DEF Kind, TypeOK
    <3>2. metrics'[k] \in Nat /\ metrics'[k] <= metrics[k] + More(k)
      <4>1. CASE k = c
        <5>1. metrics'[k] = (metrics[k] + 1) % U64
          BY <2>1, <4>1 DEF Total, Kind, ExitKind
        <5>2. (metrics[k] + 1) % U64 \in 0 .. U64 - 1 /\ (metrics[k] + 1) % U64 <= metrics[k] + 1
          BY <3>1, WrappingAdd
        <5> QED BY <4>1, <5>1, <5>2, VmMetricsAssumption
      <4>2. CASE k # c
        <5>1. metrics'[k] = metrics[k]
          BY <2>1, <3>1, <4>2
        <5> QED BY <3>1, <4>2, <5>1
      <4> QED BY <4>1, <4>2
    <3> QED BY <2>2, <3>1, <3>2 DEF Live
  <2> HIDE DEF More
  <2>5. /\ More("hardware_failures") = IF c \in Kind /\ TotalOf(c) = "errors" THEN 1 ELSE 0
        /\ More("io_exits") + More("mmio_exits") + More("hlt_exits") + More("interrupt_exits")
             + More("exception_exits") = IF c \in Kind /\ TotalOf(c) = "vcpu_exits" THEN 1 ELSE 0
    BY DEF More, Kind, TotalOf, ExitKind
  <2>6. \A k \in Kind : More(k) \in Nat
    BY DEF More
  <2>7. /\ metrics'["vcpu_exits"] + Cardinality(Due("vcpu_exits")') =
             metrics["vcpu_exits"] + Cardinality(Due("vcpu_exits"))
               + (IF c \in Kind /\ TotalOf(c) = "vcpu_exits" THEN 1 ELSE 0)
        /\ metrics'["errors"] + Cardinality(Due("errors")') =
             metrics["errors"] + Cardinality(Due("errors"))
               + (IF c \in Kind /\ TotalOf(c) = "errors" THEN 1 ELSE 0)
    BY <2>3 DEF Total
  <2>8. /\ Live("io_exits", 2, 4)' <= Live("io_exits", 2, 4) + More("io_exits")
        /\ Live("mmio_exits", 2, 5)' <= Live("mmio_exits", 2, 5) + More("mmio_exits")
        /\ Live("hlt_exits", 2, 6)' <= Live("hlt_exits", 2, 6) + More("hlt_exits")
        /\ Live("interrupt_exits", 2, 7)' <= Live("interrupt_exits", 2, 7) + More("interrupt_exits")
        /\ Live("exception_exits", 2, 8)' <= Live("exception_exits", 2, 8) + More("exception_exits")
        /\ Live("hardware_failures", 9, 10)' <=
             Live("hardware_failures", 9, 10) + More("hardware_failures")
    BY <2>4 DEF Kind, ExitKind
  <2>9. /\ Live("io_exits", 2, 4) \in Nat /\ Live("io_exits", 2, 4)' \in Nat
        /\ Live("mmio_exits", 2, 5) \in Nat /\ Live("mmio_exits", 2, 5)' \in Nat
        /\ Live("hlt_exits", 2, 6) \in Nat /\ Live("hlt_exits", 2, 6)' \in Nat
        /\ Live("interrupt_exits", 2, 7) \in Nat /\ Live("interrupt_exits", 2, 7)' \in Nat
        /\ Live("exception_exits", 2, 8) \in Nat /\ Live("exception_exits", 2, 8)' \in Nat
        /\ Live("hardware_failures", 9, 10) \in Nat /\ Live("hardware_failures", 9, 10)' \in Nat
    BY <2>4 DEF Kind, ExitKind
  <2>10. /\ metrics["vcpu_exits"] \in Nat /\ metrics["errors"] \in Nat
         /\ Cardinality(Due("vcpu_exits")) \in Nat /\ Cardinality(Due("errors")) \in Nat
         /\ More("io_exits") \in Nat /\ More("mmio_exits") \in Nat /\ More("hlt_exits") \in Nat
         /\ More("interrupt_exits") \in Nat /\ More("exception_exits") \in Nat
         /\ More("hardware_failures") \in Nat
    BY <1>a, <1>c, <2>6 DEF Kind, ExitKind
  <2> QED BY <2>5, <2>7, <2>8, <2>9, <2>10 DEF KindsCovered
<1>2. ASSUME NEW r \in Recorder, NEW op \in Op, NEW n \in Amount, Record(r, op, n)
      PROVE  KindsCovered'
  <2>1. UNCHANGED <<metrics, reset_at>>
    BY <1>2 DEF Record
  <2>2. \A t : Cardinality(Due(t)) <= Cardinality(Due(t)')
    BY <1>2, <1>b, RecordForms, RecorderSets
  <2> QED BY <1>a, <1>c, <2>1, <2>2 DEF KindsCovered, Live
<1>3. CASE ResetStore
  <2>1. \A t : Due(t)' = Due(t)
    BY <1>3 DEF ResetStore, Due
  <2>2. /\ reset_at \in 1..18 /\ (reset_at = 2 => reset_at' = 3) /\ (reset_at = 9 => reset_at' = 10)
    BY <1>3, StoreClears
  <2>3. /\ reset_at # 2 => metrics'["vcpu_exits"] = metrics["vcpu_exits"]
        /\ reset_at = 2 => metrics'["vcpu_exits"] = 0
        /\ reset_at # 9 => metrics'["errors"] = metrics["errors"]
        /\ reset_at = 9 => metrics'["errors"] = 0
    BY <1>3, <1>a, <2>2, StoreClears, StoresPlaces
  <2>4. reset_at # 2 =>
          /\ Live("io_exits", 2, 4)' <= Live("io_exits", 2, 4)
          /\ Live("mmio_exits", 2, 5)' <= Live("mmio_exits", 2, 5)
          /\ Live("hlt_exits", 2, 6)' <= Live("hlt_exits", 2, 6)
          /\ Live("interrupt_exits", 2, 7)' <= Live("interrupt_exits", 2, 7)
          /\ Live("exception_exits", 2, 8)' <= Live("exception_exits", 2, 8)
    BY <1>3, <1>a, <2>2, LiveStore, StoresPlaces
  <2>5. reset_at # 9 => Live("hardware_failures", 9, 10)' <= Live("hardware_failures", 9, 10)
    BY <1>3, <1>a, <2>2, LiveStore, StoresPlaces
  <2>6. reset_at = 2 =>
          /\ Live("io_exits", 2, 4)' = 0 /\ Live("mmio_exits", 2, 5)' = 0
          /\ Live("hlt_exits", 2, 6)' = 0 /\ Live("interrupt_exits", 2, 7)' = 0
          /\ Live("exception_exits", 2, 8)' = 0
    BY <2>2 DEF Live
  <2>7. reset_at = 9 => Live("hardware_failures", 9, 10)' = 0
    BY <2>2 DEF Live
  <2>8. /\ Live("io_exits", 2, 4) \in Nat /\ Live("mmio_exits", 2, 5) \in Nat
        /\ Live("hlt_exits", 2, 6) \in Nat /\ Live("interrupt_exits", 2, 7) \in Nat
        /\ Live("exception_exits", 2, 8) \in Nat /\ Live("hardware_failures", 9, 10) \in Nat
    BY <1>a DEF Live
  <2>9. /\ Live("io_exits", 2, 4)' \in Nat /\ Live("mmio_exits", 2, 5)' \in Nat
        /\ Live("hlt_exits", 2, 6)' \in Nat /\ Live("interrupt_exits", 2, 7)' \in Nat
        /\ Live("exception_exits", 2, 8)' \in Nat /\ Live("hardware_failures", 9, 10)' \in Nat
    BY <1>a, <1>3, StoreClears DEF Live
  <2>10. /\ metrics["vcpu_exits"] \in Nat /\ Cardinality(Due("vcpu_exits")) \in Nat
         /\ Cardinality(Due("vcpu_exits")') = Cardinality(Due("vcpu_exits"))
         /\ metrics["errors"] \in Nat /\ Cardinality(Due("errors")) \in Nat
         /\ Cardinality(Due("errors")') = Cardinality(Due("errors"))
    BY <1>a, <1>c, <2>1
  <2>11. Live("io_exits", 2, 4)' + Live("mmio_exits", 2, 5)' + Live("hlt_exits", 2, 6)'
           + Live("interrupt_exits", 2, 7)' + Live("exception_exits", 2, 8)'
           <= metrics'["vcpu_exits"] + Cardinality(Due("vcpu_exits")')
    <3>1. CASE reset_at = 2
      BY <2>3, <2>6, <2>10, <3>1
    <3>2. CASE reset_at # 2
      BY <2>3, <2>4, <2>8, <2>9, <2>10, <3>2 DEF KindsCovered
    <3> QED BY <3>1, <3>2
  <2>12. Live("hardware_failures", 9, 10)' <= metrics'["errors"] + Cardinality(Due("errors")')
    BY <2>3, <2>5, <2>7, <2>8, <2>9, <2>10 DEF KindsCovered
  <2> QED BY <2>11, <2>12 DEF KindsCovered
<1>4. CASE UNCHANGED <<metrics, todo, nrecord>> /\ (UNCHANGED reset_at \/ ResetBegin)
  <2>1. \A t : Due(t)' = Due(t)
    BY <1>4 DEF Due
  <2>2. UNCHANGED metrics /\ (reset_at' = reset_at \/ (reset_at = 0 /\ reset_at' = 1))
    BY <1>4 DEF ResetBegin
  <2> QED BY <1>a, <1>c, <2>1, <2>2 DEF KindsCovered, Live
<1> QED BY <1>1, <1>2, <1>3, <1>4, RecorderSteps

\* Between records and resets there is an exit for every exit of a kind and
\* an error for every hardware failure, whatever a reset has run over.
THEOREM KindsAgreeWithTotals == Spec => []KindsAgree
<1>1. Init => TotalsFit /\ KindsCovered
  <2> SUFFICES ASSUME Init PROVE TotalsFit /\ KindsCovered
    OBVIOUS
  <2>1. \A t : Coming(t) = {} /\ Due(t) = {}
    BY DEF Init, Coming, Due
  <2>2. \A t : Cardinality(Coming(t)) = 0 /\ Cardinality(Due(t)) = 0
    BY <2>1, FS_EmptySet
  <2>3. \A c \in Single \cup ExitKind \cup {"hardware_failures"} : metrics[c] = 0
    BY CounterNames DEF Init, Zero
  <2> QED BY <2>2, <2>3 DEF Init, TotalsFit, KindsCovered, Live, Single, ExitKind
<1>2. TypeOK /\ HistoryOK /\ TodosShaped /\ TotalsFit /\ KindsCovered /\ [Next]_vars
      => (TotalsFit /\ KindsCovered)'
  BY TotalsStep, KindsStep
<1>3. TypeOK /\ KindsCovered => KindsAgree
  <2> SUFFICES ASSUME TypeOK, KindsCovered, Settled PROVE KindsAgree
    BY DEF KindsAgree
  <2>1. \A t : Due(t) = {}
    BY DEF Due, Settled
  <2>2. \A t : Cardinality(Due(t)) = 0
    BY <2>1, FS_EmptySet
  <2>3. \A c \in Single \cup ExitKind \cup {"hardware_failures"} : metrics[c] \in Nat
    BY CounterNames DEF TypeOK
  <2>4. reset_at = 0
    BY DEF Settled
  <2> QED BY <2>2, <2>3, <2>4 DEF KindsAgree, KindsCovered, Live, Single, ExitKind
<1> QED BY <1>1, <1>2, <1>3, ShapeInvariant, PTL DEF Spec
=============================================================================
