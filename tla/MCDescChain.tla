---------------------------- MODULE MCDescChain ----------------------------
(* A small instance of DescChain for TLC. *)
EXTENDS DescChain
=============================================================================
