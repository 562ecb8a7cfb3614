---------------------------- MODULE MCVmMetrics ----------------------------
(* Small instances of VmMetrics for TLC. *)
EXTENDS VmMetrics, TLC

\* The recorders are interchangeable.
Symmetry == Permutations(Recorder)
=============================================================================
