----------------------------- MODULE VmMetrics -----------------------------
(***************************************************************************)
(* The whole of VmMetrics (metrics.rs): threads that record events, one    *)
(* that switches the metrics on and off and resets them, and one that      *)
(* takes snapshots and reads rates, all at once and without a lock.        *)
(* Metrics has the part that run_vcpu uses today.                          *)
(*                                                                         *)
(* Each load, store and fetch_add is a step of its own, in the order of    *)
(* the code: all of them are Relaxed, which on x86-64 leaves the order of  *)
(* the loads and of the stores of a thread as it is.  A rate is the pair   *)
(* of the numbers it divides.                                              *)
(***************************************************************************)
EXTENDS Integers, Sequences, FiniteSets

CONSTANTS
  Recorder,    \* threads that record
  Op,          \* what they record: a subset of DOMAIN Adds
  Reads,       \* what the reader asks for: a subset of DOMAIN Loads
  Amount,      \* what an operation with an argument adds
  U64,         \* number of values of a counter
  None,        \* nothing
  MaxRecord,   \* bound: records
  MaxReset,    \* bound: resets
  MaxToggle,   \* bound: calls of enable() and disable()
  MaxRead      \* bound: snapshots and rates

\* What a record_* method adds to, in this order.
Adds ==
  [ record_vcpu_run         |-> <<"vcpu_runs">>,
    record_vcpu_exit        |-> <<"vcpu_exits">>,
    record_instructions     |-> <<"total_instructions">>,
    record_io_exit          |-> <<"io_exits", "vcpu_exits">>,
    record_mmio_exit        |-> <<"mmio_exits", "vcpu_exits">>,
    record_hlt_exit         |-> <<"hlt_exits", "vcpu_exits">>,
    record_interrupt_exit   |-> <<"interrupt_exits", "vcpu_exits">>,
    record_exception_exit   |-> <<"exception_exits", "vcpu_exits">>,
    record_error            |-> <<"errors">>,
    record_hardware_failure |-> <<"hardware_failures", "errors">>,
    record_timeout          |-> <<"timeout_events">>,
    record_memory_read      |-> <<"memory_reads">>,
    record_memory_write     |-> <<"memory_writes">>,
    record_memory_fault     |-> <<"memory_faults">>,
    record_cycles           |-> <<"total_cycles">>,
    record_idle_cycles      |-> <<"idle_cycles">>,
    record_runtime          |-> <<"total_runtime_us">>,
    record_vcpu_active_time |-> <<"vcpu_active_time_us">> ]

\* The operations whose argument says how much.
Measured == {"record_instructions", "record_cycles", "record_idle_cycles",
             "record_runtime", "record_vcpu_active_time"}

ExitKind == {"io_exits", "mmio_exits", "hlt_exits", "interrupt_exits",
             "exception_exits"}

\* Mutant: the kinds are cleared before their totals.
StoresKindsFirst ==
  << "io_exits", "mmio_exits", "hlt_exits", "interrupt_exits",
     "exception_exits", "hardware_failures", "vcpu_runs", "vcpu_exits",
     "total_instructions", "errors", "timeout_events", "memory_reads",
     "memory_writes", "memory_faults", "total_cycles", "idle_cycles",
     "total_runtime_us", "vcpu_active_time_us" >>

\* Mutant: a counter that reset() has been forgotten in.
StoresWithoutIdle ==
  << "vcpu_runs", "vcpu_exits", "total_instructions", "io_exits",
     "mmio_exits", "hlt_exits", "interrupt_exits", "exception_exits",
     "errors", "hardware_failures", "timeout_events", "memory_reads",
     "memory_writes", "memory_faults", "total_cycles", "total_runtime_us",
     "vcpu_active_time_us" >>

\* The counters in the order in which reset() stores to them.
Stores ==
  << "vcpu_runs", "vcpu_exits", "total_instructions", "io_exits",
     "mmio_exits", "hlt_exits", "interrupt_exits", "exception_exits",
     "errors", "hardware_failures", "timeout_events", "memory_reads",
     "memory_writes", "memory_faults", "total_cycles", "idle_cycles",
     "total_runtime_us", "vcpu_active_time_us" >>

Counter == {Adds[o][1] : o \in DOMAIN Adds} \cup {"vcpu_exits", "errors"}

\* What snapshot() loads, and the denominator and numerator of each rate, in
\* the order in which they are loaded.
Loads ==
  [ snapshot               |-> <<"vcpu_runs", "vcpu_exits", "io_exits", "errors",
                                 "total_runtime_us">>,
    avg_exits_per_run      |-> <<"vcpu_runs", "vcpu_exits">>,
    exit_rate              |-> <<"total_runtime_us", "vcpu_exits">>,
    instructions_per_cycle |-> <<"total_cycles", "total_instructions">>,
    cpu_utilization        |-> <<"total_cycles", "idle_cycles">>,
    vcpu_efficiency        |-> <<"total_runtime_us", "vcpu_active_time_us">>,
    error_rate             |-> <<"vcpu_runs", "errors">> ]

Rate == Reads \ {"snapshot"}

\* The fields of a snapshot that delta() subtracts.
DeltaField == 1..4

ASSUME VmMetricsAssumption ==
  /\ Op \subseteq DOMAIN Adds /\ Reads \subseteq DOMAIN Loads /\ Amount \subseteq Nat
  /\ IsFiniteSet(Recorder) /\ None \notin DOMAIN Loads
  /\ U64 \in Nat \ {0} /\ MaxRecord < U64   \* 2^64 events are never recorded
  /\ {MaxRecord, MaxReset, MaxToggle, MaxRead} \subseteq Nat

VARIABLES
  enabled,
  metrics,    \* the counters
  todo,       \* what each recorder has still to add
  reset_at,   \* the place of reset() in Stores, 0 when it does not run
  reading,    \* what the reader is loading
  loaded,     \* what it has loaded so far
  last,       \* the last snapshot
  delta,      \* the last delta
  rate,       \* the last rate
  nrecord, nreset, ntoggle, nread,
  \* History: all that was ever added, and its value when the last reset,
  \* the current and the last snapshot began.
  added, resetMark, readMark, lastMark

counts  == <<nrecord, nreset, ntoggle, nread>>
reader  == <<reading, loaded, last, delta, rate, readMark, lastMark>>
vars    == <<enabled, metrics, todo, reset_at, reader, counts, added, resetMark>>

Zero == [c \in Counter |-> 0]
-----------------------------------------------------------------------------
\* is_enabled() lets a record begin; nothing more is asked afterwards.
Record(r, op, n) ==
  /\ todo[r] = <<>> /\ nrecord < MaxRecord
  /\ enabled
  /\ op \in Measured \/ n = 1
  /\ todo' = [todo EXCEPT ![r] = [i \in DOMAIN Adds[op] |-> [at |-> Adds[op][i], by |-> n]]]
  /\ nrecord' = nrecord + 1
  /\ UNCHANGED <<enabled, metrics, reset_at, reader, nreset, ntoggle, nread, added, resetMark>>

FetchAdd(r) ==
  /\ todo[r] # <<>>
  /\ LET a == Head(todo[r])
     IN  /\ metrics' = [metrics EXCEPT ![a.at] = (@ + a.by) % U64]
         /\ added' = [added EXCEPT ![a.at] = @ + a.by]
  /\ todo' = [todo EXCEPT ![r] = Tail(@)]
  /\ UNCHANGED <<enabled, reset_at, reader, counts, resetMark>>

\* enable() and disable().
Toggle ==
  /\ reset_at = 0 /\ ntoggle < MaxToggle
  /\ enabled' = ~enabled
  /\ ntoggle' = ntoggle + 1
  /\ UNCHANGED <<metrics, todo, reset_at, reader, nrecord, nreset, nread, added, resetMark>>

\* reset() returns at once if the metrics are disabled.
ResetBegin ==
  /\ reset_at = 0 /\ enabled /\ nreset < MaxReset
  /\ reset_at' = 1
  /\ nreset' = nreset + 1
  /\ resetMark' = added
  /\ UNCHANGED <<enabled, metrics, todo, reader, nrecord, ntoggle, nread, added>>

ResetStore ==
  /\ reset_at # 0
  /\ metrics' = [metrics EXCEPT ![Stores[reset_at]] = 0]
  /\ reset_at' = IF reset_at = Len(Stores) THEN 0 ELSE reset_at + 1
  /\ UNCHANGED <<enabled, todo, reader, counts, added, resetMark>>
-----------------------------------------------------------------------------
wrapping_sub(a, b) == (a - b) % U64
saturating_sub(a, b) == IF a > b THEN a - b ELSE 0

ReadBegin(what) ==
  /\ reading = None /\ nread < MaxRead
  /\ reading' = what /\ rate' = None
  /\ readMark' = IF what = "snapshot" THEN added ELSE readMark
  /\ nread' = nread + 1
  /\ UNCHANGED <<enabled, metrics, todo, reset_at, loaded, last, delta, lastMark,
                 nrecord, nreset, ntoggle, added, resetMark>>

\* A rate over nothing is 0.0 without a second load.
RateZero ==
  /\ reading \in Rate /\ loaded = <<0>>
  /\ reading' = None /\ loaded' = <<>>
  /\ rate' = [of |-> reading, num |-> 0, den |-> 1]
  /\ UNCHANGED <<enabled, metrics, todo, reset_at, last, delta, readMark,
                 lastMark, counts, added, resetMark>>

\* The next load; the denominator that was tested is the one divided by.
Load ==
  /\ reading # None /\ Len(loaded) < Len(Loads[reading])
  /\ reading \in Rate => loaded # <<0>>
  /\ loaded' = Append(loaded, metrics[Loads[reading][Len(loaded) + 1]])
  /\ UNCHANGED <<enabled, metrics, todo, reset_at, reading, last, delta, rate,
                 readMark, lastMark, counts, added, resetMark>>

\* Mutant: more idle than total cycles wrap around.
NumeratorWraps == IF reading = "cpu_utilization"
                    THEN wrapping_sub(loaded[1], loaded[2]) ELSE loaded[2]

\* cpu_utilization() divides the cycles that are not idle.
Numerator == IF reading = "cpu_utilization"
               THEN saturating_sub(loaded[1], loaded[2]) ELSE loaded[2]

RateEnd ==
  /\ reading \in Rate /\ Len(loaded) = 2
  /\ reading' = None /\ loaded' = <<>>
  /\ rate' = [of |-> reading, num |-> Numerator, den |-> loaded[1]]
  /\ UNCHANGED <<enabled, metrics, todo, reset_at, last, delta, readMark,
                 lastMark, counts, added, resetMark>>

\* Mutant: the difference wraps around.
Difference_wrapping(s, t) == [i \in DeltaField |-> wrapping_sub(s[i], t[i])]

\* s.delta(t)
Difference(s, t) == [i \in DeltaField |-> saturating_sub(s[i], t[i])]

\* History: what was added to c since the last snapshot began.
Since(c) == added[c] - lastMark[c]

\* The snapshot is complete; its delta to the one before it.
SnapshotEnd ==
  /\ reading = "snapshot" /\ Len(loaded) = Len(Loads.snapshot)
  /\ reading' = None /\ loaded' = <<>>
  /\ delta' = IF last = None THEN None
              ELSE [value |-> Difference(loaded, last),
                    bound |-> [i \in DeltaField |-> Since(Loads.snapshot[i])]]
  /\ last' = loaded
  /\ lastMark' = readMark /\ readMark' = Zero
  /\ UNCHANGED <<enabled, metrics, todo, reset_at, rate, counts, added, resetMark>>
-----------------------------------------------------------------------------
\* new() or disabled().
Init ==
  /\ enabled \in BOOLEAN /\ metrics = Zero
  /\ todo = [r \in Recorder |-> <<>>]
  /\ reset_at = 0
  /\ reading = None /\ loaded = <<>> /\ last = None /\ delta = None /\ rate = None
  /\ nrecord = 0 /\ nreset = 0 /\ ntoggle = 0 /\ nread = 0
  /\ added = Zero /\ resetMark = Zero /\ readMark = Zero /\ lastMark = Zero

Next ==
  \/ \E r \in Recorder :
       FetchAdd(r) \/ \E op \in Op, n \in Amount : Record(r, op, n)
  \/ Toggle \/ ResetBegin \/ ResetStore
  \/ \E what \in Reads : ReadBegin(what)
  \/ Load \/ RateZero \/ RateEnd \/ SnapshotEnd

Spec == Init /\ [][Next]_vars
-----------------------------------------------------------------------------
(***************************************************************************)
(* Properties.                                                             *)
(***************************************************************************)

\* Every variable has its type, and the counters are 64-bit values.
TypeOK ==
  /\ enabled \in BOOLEAN
  /\ metrics \in [Counter -> 0 .. U64 - 1]
  /\ todo \in [Recorder -> Seq([at : Counter, by : Amount])]
  /\ reset_at \in 0 .. Len(Stores)
  /\ reading \in DOMAIN Loads \cup {None}
  /\ loaded \in Seq(0 .. U64 - 1)

Settled == reset_at = 0 /\ \A r \in Recorder : todo[r] = <<>>

\* Between records and resets the counters agree: no more exits of a kind
\* than exits, no more hardware failures than errors.  A reset may have run
\* over records that were half done: it clears the totals first, they add to
\* the totals last.
KindsAgree ==
  Settled =>
    /\ metrics["io_exits"] + metrics["mmio_exits"] + metrics["hlt_exits"]
         + metrics["interrupt_exits"] + metrics["exception_exits"]
         <= metrics["vcpu_exits"]
    /\ metrics["hardware_failures"] <= metrics["errors"]

\* After a reset no counter holds anything from before it.
ResetForgets ==
  reset_at = 0 => \A c \in Counter : metrics[c] <= added[c] - resetMark[c]

\* A delta never reports more than was recorded since its first snapshot
\* began, although the loads of a snapshot are apart and a reset may lie
\* between the two.
DeltaBounded ==
  delta # None => \A i \in DeltaField : delta.value[i] <= delta.bound[i]

\* No rate divides by zero, and the utilisation is at most 100%, although
\* both counters change, by a reset too, between the two loads.
RateSound ==
  rate # None =>
    /\ rate.den # 0
    /\ rate.of = "cpu_utilization" => rate.num <= rate.den
-----------------------------------------------------------------------------
(***************************************************************************)
(* The inductive invariants of the proofs.                                 *)
(***************************************************************************)

\* The types of the history and of what the reader keeps.
HistoryOK ==
  /\ added \in [Counter -> Nat] /\ resetMark \in [Counter -> Nat]
  /\ readMark \in [Counter -> Nat] /\ lastMark \in [Counter -> Nat]
  /\ nrecord \in 0 .. MaxRecord
  /\ last # None => last \in Seq(0 .. U64 - 1) /\ Len(last) = 5
  /\ reading # None => Len(loaded) <= Len(Loads[reading])
  /\ reading = None => loaded = <<>>

\* Nothing is marked that was not added.
MarksBehind ==
  \A c \in Counter : /\ resetMark[c] <= added[c]
                     /\ readMark[c] <= added[c] /\ lastMark[c] <= added[c]

Step(c, n) == [at |-> c, by |-> n]

\* What a recorder has still to do: a pair, its second half, or one counter
\* that is no kind of anything.
TodoShape(q) ==
  \/ q = <<>>
  \/ \E c \in Counter \ (ExitKind \cup {"hardware_failures"}), n \in Nat :
       q = <<Step(c, n)>> /\ (c \in {"vcpu_exits", "errors"} => n = 1)
  \/ \E c \in ExitKind : q = <<Step(c, 1), Step("vcpu_exits", 1)>>
  \/ q = <<Step("hardware_failures", 1), Step("errors", 1)>>

TodosShaped == \A r \in Recorder : TodoShape(todo[r])

\* The recorders that will add to the total t, and those that add it next.
Coming(t) == {r \in Recorder : todo[r] # <<>> /\ todo[r][Len(todo[r])].at = t}
Due(t)    == {r \in Recorder : todo[r] = <<Step(t, 1)>>}

\* A total never wraps around: each record adds to it once.
TotalsFit ==
  \A t \in {"vcpu_exits", "errors"} : metrics[t] + Cardinality(Coming(t)) <= nrecord

\* What counter c holds, unless reset() has cleared its total at place t of
\* Stores and is still to clear c at place i.
Live(c, t, i) == IF t < reset_at /\ reset_at <= i THEN 0 ELSE metrics[c]

\* The kinds are covered by their total and the adds to it that are due.
KindsCovered ==
  /\ Live("io_exits", 2, 4) + Live("mmio_exits", 2, 5) + Live("hlt_exits", 2, 6)
       + Live("interrupt_exits", 2, 7) + Live("exception_exits", 2, 8)
       <= metrics["vcpu_exits"] + Cardinality(Due("vcpu_exits"))
  /\ Live("hardware_failures", 9, 10) <= metrics["errors"] + Cardinality(Due("errors"))

\* What reset() has cleared holds nothing from before it.
ClearedForgets ==
  \A i \in 1 .. Len(Stores) :
    reset_at = 0 \/ i < reset_at =>
      metrics[Stores[i]] <= added[Stores[i]] - resetMark[Stores[i]]

\* Since a snapshot loaded a counter, it has grown by what was added at most;
\* and so has what the next snapshot loads.
SnapshotsFollow ==
  \A i \in DeltaField :
    LET c == Loads.snapshot[i]
    IN  /\ last # None => metrics[c] <= last[i] + Since(c)
        /\ reading = "snapshot" /\ i <= Len(loaded) =>
             /\ metrics[c] <= loaded[i] + (added[c] - readMark[c])
             /\ last # None => loaded[i] <= last[i] + Since(c)

\* A denominator has been tested before the numerator is loaded.
DenominatorTested == reading \in Rate /\ Len(loaded) = 2 => loaded[1] # 0
=============================================================================
