------------------------------- MODULE MCPsed -------------------------------
(* Instances of Psed for TLC: the threads are numbers, their order matters. *)
EXTENDS Psed
=============================================================================
