---------------------------- MODULE MCVirtioNet ----------------------------
(* Small instances of VirtioNet for TLC. *)
EXTENDS VirtioNet, TLC
=============================================================================
