---------------------------- MODULE MCProcesses -----------------------------
(* What the programs of several processes or threads do in the end: psed   *)
(* (module Psed), and the bus of module Bus, with two riders and one seat. *)
(* which says whose steps a behaviour has, the other stays as it is        *)
(* initialised.                                                            *)
EXTENDS Psed

CONSTANTS Riders, Bus, C

VARIABLES
  which,
  stop, gen, bus, rider, logging, n, i, waiting, ridCounter, transported,
  sem_mutex, sem_mutex2, sem_bus, sem_boarded, sem_can_finish

sim == INSTANCE Bus WITH main <- stop

psedVars == << main, j, pc, zamky, threadIdMutex, stdOutMutex, threadIdDone, line, live, taken,
               result, out, fate >>
busVars == << stop, gen, bus, rider, logging, n, i, waiting, ridCounter, transported,
              sem_mutex, sem_mutex2, sem_bus, sem_boarded, sem_can_finish >>
all == << which, psedVars, busVars >>

ProcessesInit == which \in {"psed", "bus"} /\ Init /\ sim!Init

Either(filter, ride) ==
  \/ which = "psed" /\ filter /\ UNCHANGED << which, busVars >>
  \/ which = "bus" /\ ride /\ UNCHANGED << which, psedVars >>

(* The fairness of Psed and of Bus.  Only one of them has steps in a       *)
(* behaviour, so an action of the one may share its conjunct with one of   *)
(* the other: each process of the bus shares those of a thread of psed.    *)
ThreadOf ==
  CHOOSE f \in [sim!Procs -> Threads] :
    /\ \A p, q \in sim!Procs : f[p] = f[q] => p = q
    /\ Threads = {f[p] : p \in sim!Procs}
ProcessStep(p) == IF p = Bus THEN sim!BusStep ELSE sim!RiderStep(p)

ProcessesFair ==
  /\ WF_all(Either(MainFree, sim!MainStep)) /\ WF_all(Either(FALSE, sim!ForkRider))
  /\ SF_all(Either(MainTakes, sim!BusAcquire))
  /\ \A p \in sim!Procs : /\ WF_all(Either(ThreadFree(ThreadOf[p]), ProcessStep(p)))
                          /\ SF_all(Either(ThreadTakes(ThreadOf[p]), sim!LogEnter(p)))
  /\ \A r \in Riders : /\ SF_all(Either(FALSE, sim!RiderStop(r)))
                       /\ SF_all(Either(FALSE, sim!RiderCount(r)))

Processes ==
  ProcessesInit /\ [][Either(Next, sim!Next)]_all /\ ProcessesFair

-----------------------------------------------------------------------------
(* Each of the programs comes to its end.                                  *)
PsedEnds == which = "psed" => Termination
BusEnds == which = "bus" => sim!Termination

NobodyStranded == sim!NobodyStranded
=============================================================================
