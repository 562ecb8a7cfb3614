--------------------------- MODULE MCVirtioBlock ---------------------------
(* Small instances of VirtioBlock for TLC. *)
EXTENDS VirtioBlock, TLC

\* vCPUs, sectors and sector contents are interchangeable.
Symmetry == Permutations(Vcpu) \cup Permutations(Sector) \cup Permutations(Data)
=============================================================================
