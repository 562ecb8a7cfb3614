-------------------------- MODULE MCMmioRegisters --------------------------
(* Small instances of MmioRegisters for TLC. *)
EXTENDS MmioRegisters

\* Addresses with both halves, with only a low one and with only a high one.
MCPlan ==
  { [num |-> 256, desc |-> 300 * WordSize + 5, avail |-> 7, used |-> WordSize],
    [num |-> 2, desc |-> 9, avail |-> 4 * WordSize, used |-> 2 * WordSize + 6] }
=============================================================================
