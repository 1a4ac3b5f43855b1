------------------------------ MODULE MCBusRuns -----------------------------
(* The simulation of sem_2/ios/proj_2 (module Bus), and the semaphores and *)
(* segments of several runs of it (BusResources): which says whose steps a *)
(* behaviour has, the others stay as they are initialised.  The runs are   *)
(* interchangeable.                                                        *)
EXTENDS Bus, BusRuns, TLC

VARIABLES
  which,
  pc, k, name, sem, segment, shmget, error, alone

resources == INSTANCE BusResources

resourceVars == << pc, k, name, sem, segment, shmget, error, alone >>
all == << which, vars, resourceVars >>

RunsInit == which \in {"simulation", "resources"} /\ Init /\ resources!Init

RunsNext ==
  \/ which = "simulation" /\ Next /\ UNCHANGED << which, resourceVars >>
  \/ which = "resources" /\ resources!Next /\ UNCHANGED << which, vars >>

BusSpec == RunsInit /\ [][RunsNext]_all

Symmetry == Permutations(Runs)

-----------------------------------------------------------------------------
PrivateSemaphores == resources!PrivateSemaphores
Erased == resources!Erased
=============================================================================
