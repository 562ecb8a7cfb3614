----------------------------- MODULE MCRunVcpu -----------------------------
(* Small instances of RunVcpu for TLC. *)
EXTENDS RunVcpu
=============================================================================
