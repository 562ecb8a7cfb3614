------------------------------ MODULE Metrics ------------------------------
(***************************************************************************)
(* The counters of VmMetrics (metrics.rs) that run_vcpu updates.  Each     *)
(* fetch_add is atomic; record_io_exit, record_mmio_exit and               *)
(* record_hlt_exit are two of them, and other threads run in between.      *)
(* Nothing is recorded when the metrics are disabled.  vcpu_runs is left   *)
(* out: it counts the turns of the loop, and nothing depends on it.        *)
(***************************************************************************)
EXTENDS Integers

CONSTANT Enabled   \* VmMetrics::new() or VmMetrics::disabled()

ASSUME MetricsAssumption == Enabled \in BOOLEAN

VARIABLE metrics

Counter == {"vcpu_exits", "io_exits", "mmio_exits", "hlt_exits", "errors"}

MetricsInit == metrics = [c \in Counter |-> 0]

\* Mutant: fetch_sub.
FetchSub(c) ==
  metrics' = IF Enabled THEN [metrics EXCEPT ![c] = @ - 1] ELSE metrics

FetchAdd(c) ==
  metrics' = IF Enabled THEN [metrics EXCEPT ![c] = @ + 1] ELSE metrics

\* Mutant: the exit is left to the record of its kind.
record_nothing == UNCHANGED metrics

record_vcpu_exit == FetchAdd("vcpu_exits")
record_error     == FetchAdd("errors")

\* The first half of record_{io,mmio,hlt}_exit, and the second one.
record_exit(kind) == FetchAdd(kind)
record_exit_end   == FetchAdd("vcpu_exits")
=============================================================================
