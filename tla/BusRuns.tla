------------------------------- MODULE BusRuns ------------------------------
(* The executions of sem_2/ios/proj_2/proj2.c that BusResources is about.  *)

CONSTANTS
  Runs,     \* the executions of the program
  None      \* no run: a name that is free, a semaphore that was not opened

ASSUME ResourcesAssumption == None \notin Runs
=============================================================================
