------------------------------- MODULE MCMmal -------------------------------
(* Instances of Mmal for TLC.                                              *)
EXTENDS Mmal
=============================================================================
