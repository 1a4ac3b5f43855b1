--------------------------- MODULE MCBusResources ---------------------------
(* Instances of BusResources for TLC; the runs are interchangeable.        *)
EXTENDS BusResources, TLC

Symmetry == Permutations(Runs)
=============================================================================
