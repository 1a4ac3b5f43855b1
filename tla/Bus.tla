--------------------------------- MODULE Bus ---------------------------------
(***************************************************************************)
(* The bus stop of sem_2/ios/proj_2/proj2.c: a main process, one bus, a    *)
(* generator of riders and the riders it forks, synchronised by five       *)
(* POSIX semaphores and four shared counters.                              *)
(*                                                                         *)
(* Every sem_wait is a step of its own; what a process does between two    *)
(* semaphore operations is one step, since the shared variables it touches *)
(* are private to it there (StopExclusion and LogExclusion say so).        *)
(* usleep and the text of the log lines are left out.  So is *counter: it  *)
(* is the number of the log line and is only touched inside sem_mutex2.    *)
(*                                                                         *)
(* An operator named after an action with a suffix (RiderCountUnlocked,    *)
(* BusLetGoShort, ...) is a slip the properties must notice: no action     *)
(* uses it, it stands before the right form.                               *)
(***************************************************************************)
EXTENDS Integers, FiniteSets

CONSTANTS
  Riders,   \* the riders the generator may fork; the argument R is their number
  Bus,      \* the bus process
  C         \* the argument C, the capacity of the bus

ASSUME BusAssumption ==
  /\ IsFiniteSet(Riders)
  /\ Bus \notin Riders
  /\ C \in Nat \ {0}

R == Cardinality(Riders)
Procs == Riders \cup {Bus}

VARIABLES
  main,         \* program point of the main process
  gen,          \* program point of the generator
  bus,          \* program point of the bus
  rider,        \* program point of every rider
  logging,      \* the processes inside a sem_mutex2 section
  n, i,         \* the local variables n and i of bus()
  waiting, ridCounter, transported,                       \* shared memory
  sem_mutex, sem_mutex2, sem_bus, sem_boarded, sem_can_finish

sems == << sem_mutex, sem_mutex2, sem_bus, sem_boarded, sem_can_finish >>
shared == << waiting, ridCounter, transported >>
vars == << main, gen, bus, rider, logging, n, i, shared, sems >>

(* The points at which a process is about to write a line, or writes it.   *)
BusLogs == {"start", "arrival", "emptyDepart", "emptyEnd", "startBoarding",
            "endBoarding", "depart", "end", "finish"}
BusPoints == BusLogs \cup {"forked?", "loop", "acquire", "emptyRelease", "post",
                           "waitBoarded", "release", "letGo", "done"}
RiderLogs == {"start", "enter", "boarding", "finish"}
RiderPoints == RiderLogs \cup {"forked?", "stop", "leave", "waitBus", "boarded",
                               "count", "counted", "waitFinish", "done"}
MainPoints == {"forkBus", "forkGenerator", "waitBus", "waitGenerator", "ok", "failed"}
GenPoints == {"forked?", "forking", "ok", "failed"}

Init ==
  /\ main = "forkBus" /\ gen = "forked?" /\ bus = "forked?"
  /\ rider = [r \in Riders |-> "forked?"]
  /\ logging = {}
  /\ n = 0 /\ i = 0
  /\ waiting = 0 /\ ridCounter = 0 /\ transported = 0
  /\ sem_mutex = 1 /\ sem_mutex2 = 1
  /\ sem_bus = 0 /\ sem_boarded = 0 /\ sem_can_finish = 0

-----------------------------------------------------------------------------
(* main(): fork the bus, fork the generator, wait for both, clean up.      *)
(* A fork may fail; the process that called it then cleans up and returns  *)
(* 1, and nobody tells the others.                                         *)

ForkBus ==
  /\ main = "forkBus"
  /\ \/ main' = "forkGenerator" /\ bus' = "start"
     \/ main' = "failed" /\ bus' = bus
  /\ UNCHANGED << gen, rider, logging, n, i, shared, sems >>

ForkGenerator ==
  /\ main = "forkGenerator"
  /\ \/ main' = "waitBus" /\ gen' = "forking"
     \/ main' = "failed" /\ gen' = gen
  /\ UNCHANGED << bus, rider, logging, n, i, shared, sems >>

WaitBus ==
  /\ main = "waitBus"
  /\ bus = "done"
  /\ main' = "waitGenerator"
  /\ UNCHANGED << gen, bus, rider, logging, n, i, shared, sems >>

WaitGenerator ==
  /\ main = "waitGenerator"
  /\ gen \in {"ok", "failed"}
  /\ main' = "ok"
  /\ UNCHANGED << gen, bus, rider, logging, n, i, shared, sems >>

(* The loop of the generator: fork one rider after another, stop at the    *)
(* first fork that fails.                                                  *)
ForkRider ==
  /\ gen = "forking"
  /\ \/ \E r \in Riders :
          /\ rider[r] = "forked?"
          /\ \/ rider' = [rider EXCEPT ![r] = "start"] /\ gen' = gen
             \/ rider' = rider /\ gen' = "failed"
     \/ /\ \A r \in Riders : rider[r] # "forked?"
        /\ rider' = rider /\ gen' = "ok"
  /\ UNCHANGED << main, bus, logging, n, i, shared, sems >>

-----------------------------------------------------------------------------
(* The bracket around every fprintf: sem_wait(sem_mutex2) ... sem_post.    *)

AtLog(p) == IF p = Bus THEN bus \in BusLogs ELSE rider[p] \in RiderLogs

LogEnterUnguarded(p) ==
  /\ AtLog(p)
  /\ p \notin logging
  /\ logging' = logging \cup {p}
  /\ UNCHANGED << main, gen, bus, rider, n, i, shared, sems >>

LogEnter(p) ==
  /\ AtLog(p)
  /\ p \notin logging
  /\ sem_mutex2 > 0
  /\ sem_mutex2' = sem_mutex2 - 1
  /\ logging' = logging \cup {p}
  /\ UNCHANGED << main, gen, bus, rider, n, i, shared,
                  sem_mutex, sem_bus, sem_boarded, sem_can_finish >>

LogLeave(p) ==
  /\ p \in logging
  /\ sem_mutex2' = sem_mutex2 + 1
  /\ logging' = logging \ {p}

-----------------------------------------------------------------------------
(* rider()                                                                 *)

RiderGoes(r, from, to) ==
  /\ rider[r] = from
  /\ rider' = [rider EXCEPT ![r] = to]
  /\ UNCHANGED << main, gen, bus, n, i >>

RiderStart(r) ==
  /\ RiderGoes(r, "start", "stop")
  /\ LogLeave(r)
  /\ ridCounter' = ridCounter + 1
  /\ UNCHANGED << waiting, transported, sem_mutex, sem_bus, sem_boarded, sem_can_finish >>

RiderStop(r) ==
  /\ RiderGoes(r, "stop", "enter")
  /\ sem_mutex > 0
  /\ sem_mutex' = sem_mutex - 1
  /\ waiting' = waiting + 1
  /\ UNCHANGED << logging, ridCounter, transported,
                  sem_mutex2, sem_bus, sem_boarded, sem_can_finish >>

RiderEnter(r) ==
  /\ RiderGoes(r, "enter", "leave")
  /\ LogLeave(r)
  /\ UNCHANGED << shared, sem_mutex, sem_bus, sem_boarded, sem_can_finish >>

RiderLeave(r) ==
  /\ RiderGoes(r, "leave", "waitBus")
  /\ sem_mutex' = sem_mutex + 1
  /\ UNCHANGED << logging, shared, sem_mutex2, sem_bus, sem_boarded, sem_can_finish >>

RiderWaitBus(r) ==
  /\ RiderGoes(r, "waitBus", "boarding")
  /\ sem_bus > 0
  /\ sem_bus' = sem_bus - 1
  /\ UNCHANGED << logging, shared, sem_mutex, sem_mutex2, sem_boarded, sem_can_finish >>

RiderBoarding(r) ==
  /\ RiderGoes(r, "boarding", "boarded")
  /\ LogLeave(r)
  /\ UNCHANGED << shared, sem_mutex, sem_bus, sem_boarded, sem_can_finish >>

RiderBoarded(r) ==
  /\ RiderGoes(r, "boarded", "count")
  /\ sem_boarded' = sem_boarded + 1
  /\ UNCHANGED << logging, shared, sem_mutex, sem_mutex2, sem_bus, sem_can_finish >>

RiderCountUnlocked(r) ==
  /\ RiderGoes(r, "count", "counted")
  /\ transported' = transported + 1
  /\ UNCHANGED << logging, waiting, ridCounter, sems >>

RiderCountForgotten(r) ==
  /\ RiderGoes(r, "count", "counted")
  /\ sem_mutex > 0
  /\ sem_mutex' = sem_mutex - 1
  /\ UNCHANGED << logging, shared, sem_mutex2, sem_bus, sem_boarded, sem_can_finish >>

RiderCount(r) ==
  /\ RiderGoes(r, "count", "counted")
  /\ sem_mutex > 0
  /\ sem_mutex' = sem_mutex - 1
  /\ transported' = transported + 1
  /\ UNCHANGED << logging, waiting, ridCounter,
                  sem_mutex2, sem_bus, sem_boarded, sem_can_finish >>

RiderCounted(r) ==
  /\ RiderGoes(r, "counted", "waitFinish")
  /\ sem_mutex' = sem_mutex + 1
  /\ UNCHANGED << logging, shared, sem_mutex2, sem_bus, sem_boarded, sem_can_finish >>

RiderWaitFinish(r) ==
  /\ RiderGoes(r, "waitFinish", "finish")
  /\ sem_can_finish > 0
  /\ sem_can_finish' = sem_can_finish - 1
  /\ UNCHANGED << logging, shared, sem_mutex, sem_mutex2, sem_bus, sem_boarded >>

RiderFinish(r) ==
  /\ RiderGoes(r, "finish", "done")
  /\ LogLeave(r)
  /\ UNCHANGED << shared, sem_mutex, sem_bus, sem_boarded, sem_can_finish >>

-----------------------------------------------------------------------------
(* bus()                                                                   *)

BusGoes(from, to) ==
  /\ bus = from
  /\ bus' = to
  /\ UNCHANGED << main, gen, rider >>

(* Lines whose writing changes nothing but the bus's program point.        *)
BusLog ==
  /\ \/ BusGoes("start", "loop")
     \/ BusGoes("emptyDepart", "emptyEnd")
     \/ BusGoes("emptyEnd", "loop")
     \/ BusGoes("endBoarding", "depart")
     \/ BusGoes("depart", "release")
     \/ BusGoes("finish", "done")
  /\ LogLeave(Bus)
  /\ UNCHANGED << n, i, shared, sem_mutex, sem_bus, sem_boarded, sem_can_finish >>

BusLoopOnStarted ==
  /\ BusGoes("loop", IF ridCounter # R THEN "acquire" ELSE "finish")
  /\ UNCHANGED << logging, n, i, shared, sems >>

(* The loop condition reads transported without any lock.                  *)
BusLoop ==
  /\ BusGoes("loop", IF transported # R THEN "acquire" ELSE "finish")
  /\ UNCHANGED << logging, n, i, shared, sems >>

BusAcquire ==
  /\ BusGoes("acquire", "arrival")
  /\ sem_mutex > 0
  /\ sem_mutex' = sem_mutex - 1
  /\ UNCHANGED << logging, n, i, shared, sem_mutex2, sem_bus, sem_boarded, sem_can_finish >>

Load == IF waiting > C THEN C ELSE waiting

BusArrival ==
  /\ BusGoes("arrival", IF waiting = 0 THEN "emptyRelease" ELSE "startBoarding")
  /\ LogLeave(Bus)
  /\ n' = Load
  /\ UNCHANGED << i, shared, sem_mutex, sem_bus, sem_boarded, sem_can_finish >>

(* Nobody waits: the stop is given back before "depart" is written.        *)
BusEmptyRelease ==
  /\ BusGoes("emptyRelease", "emptyDepart")
  /\ sem_mutex' = sem_mutex + 1
  /\ UNCHANGED << logging, n, i, shared, sem_mutex2, sem_bus, sem_boarded, sem_can_finish >>

BusStartBoardingReleasing ==
  /\ BusGoes("startBoarding", "post")
  /\ LogLeave(Bus)
  /\ i' = 0
  /\ sem_mutex' = sem_mutex + 1
  /\ UNCHANGED << n, shared, sem_bus, sem_boarded, sem_can_finish >>

BusStartBoarding ==
  /\ BusGoes("startBoarding", "post")
  /\ LogLeave(Bus)
  /\ i' = 0
  /\ UNCHANGED << n, shared, sem_mutex, sem_bus, sem_boarded, sem_can_finish >>

BusPost ==
  /\ BusGoes("post", "waitBoarded")
  /\ i < n
  /\ sem_bus' = sem_bus + 1
  /\ UNCHANGED << logging, n, i, shared, sem_mutex, sem_mutex2, sem_boarded, sem_can_finish >>

BusWaitNobody ==
  /\ BusGoes("waitBoarded", "post")
  /\ i' = i + 1
  /\ UNCHANGED << logging, n, shared, sems >>

BusWaitBoarded ==
  /\ BusGoes("waitBoarded", "post")
  /\ sem_boarded > 0
  /\ sem_boarded' = sem_boarded - 1
  /\ i' = i + 1
  /\ UNCHANGED << logging, n, shared, sem_mutex, sem_mutex2, sem_bus, sem_can_finish >>

BusAllBoardedUnclamped ==
  /\ BusGoes("post", "endBoarding")
  /\ i = n
  /\ waiting' = waiting - C
  /\ UNCHANGED << logging, n, i, ridCounter, transported, sems >>

BusAllBoardedReset ==
  /\ BusGoes("post", "endBoarding")
  /\ i = n
  /\ waiting' = 0
  /\ UNCHANGED << logging, n, i, ridCounter, transported, sems >>

(* The n riders are aboard: what is left of the queue.                     *)
BusAllBoarded ==
  /\ BusGoes("post", "endBoarding")
  /\ i = n
  /\ waiting' = IF waiting - C > 0 THEN waiting - C ELSE 0
  /\ UNCHANGED << logging, n, i, ridCounter, transported, sems >>

BusRelease ==
  /\ BusGoes("release", "end")
  /\ sem_mutex' = sem_mutex + 1
  /\ UNCHANGED << logging, n, i, shared, sem_mutex2, sem_bus, sem_boarded, sem_can_finish >>

BusEnd ==
  /\ BusGoes("end", "letGo")
  /\ LogLeave(Bus)
  /\ i' = 0
  /\ UNCHANGED << n, shared, sem_mutex, sem_bus, sem_boarded, sem_can_finish >>

BusLetGoUpTo(limit) ==
  /\ \/ /\ BusGoes("letGo", "letGo")
        /\ i < limit
        /\ i' = i + 1
        /\ sem_can_finish' = sem_can_finish + 1
     \/ /\ BusGoes("letGo", "loop")
        /\ i >= limit
        /\ UNCHANGED << i, sem_can_finish >>
  /\ UNCHANGED << logging, n, shared, sem_mutex, sem_mutex2, sem_bus, sem_boarded >>

BusLetGoCapacity == BusLetGoUpTo(C)

BusLetGoShort == BusLetGoUpTo(n - 1)

BusLetGo == BusLetGoUpTo(n)

-----------------------------------------------------------------------------
MainStep == ForkBus \/ ForkGenerator \/ WaitBus \/ WaitGenerator

BusStep ==
  \/ BusLog \/ BusLoop \/ BusArrival \/ BusEmptyRelease \/ BusStartBoarding
  \/ BusPost \/ BusWaitBoarded \/ BusAllBoarded \/ BusRelease \/ BusEnd \/ BusLetGo

RiderStep(r) ==
  \/ RiderStart(r) \/ RiderEnter(r) \/ RiderLeave(r) \/ RiderWaitBus(r)
  \/ RiderBoarding(r) \/ RiderBoarded(r) \/ RiderCounted(r)
  \/ RiderWaitFinish(r) \/ RiderFinish(r)

(* Every process that was started has exited.                              *)
AllExited ==
  /\ main \in {"ok", "failed"}
  /\ gen # "forking"
  /\ bus \in {"forked?", "done"}
  /\ \A r \in Riders : rider[r] \in {"forked?", "done"}

Exited == AllExited /\ UNCHANGED vars

Next ==
  \/ MainStep
  \/ ForkRider
  \/ BusAcquire
  \/ BusStep
  \/ \E p \in Procs : LogEnter(p)
  \/ \E r \in Riders : RiderStop(r) \/ RiderCount(r) \/ RiderStep(r)
  \/ Exited

(* Every process keeps running (weak fairness); nobody is passed over for  *)
(* ever at a semaphore others keep taking and giving back: sem_mutex and   *)
(* sem_mutex2 (strong fairness).                                           *)
Fairness ==
  /\ WF_vars(MainStep)
  /\ WF_vars(ForkRider)
  /\ WF_vars(BusStep)
  /\ SF_vars(BusAcquire)
  /\ \A p \in Procs : SF_vars(LogEnter(p))
  /\ \A r \in Riders :
       /\ WF_vars(RiderStep(r))
       /\ SF_vars(RiderStop(r))
       /\ SF_vars(RiderCount(r))

Spec == Init /\ [][Next]_vars
FairSpec == Spec /\ Fairness

-----------------------------------------------------------------------------
(* What the five semaphores are for.                                       *)

At(points) == {r \in Riders : rider[r] \in points}
AtStop == At({"enter", "leave", "waitBus"})
Boarding == At({"boarding", "boarded"})
Counted == At({"counted", "waitFinish", "finish", "done"})
Boarded == At({"boarding", "boarded", "count", "counted", "waitFinish", "finish", "done"})
Free == At({"finish", "done"})

(* Every variable keeps its type; the counters and semaphores never become *)
(* negative, above all waiting, which the bus recomputes by a subtraction. *)
TypeOK ==
  /\ main \in MainPoints
  /\ gen \in GenPoints
  /\ bus \in BusPoints
  /\ rider \in [Riders -> RiderPoints]
  /\ logging \subseteq Procs
  /\ n \in 0 .. C /\ i \in 0 .. C
  /\ waiting \in Nat /\ ridCounter \in Nat /\ transported \in Nat
  /\ sem_mutex \in {0, 1} /\ sem_mutex2 \in {0, 1}
  /\ sem_bus \in {0, 1} /\ sem_boarded \in {0, 1} /\ sem_can_finish \in Nat

(* At most one process writes into proj2.out (and takes a line number, or  *)
(* a rider number) at a time, and only at a point where it does so.        *)
LogExclusion ==
  /\ \A p \in logging : AtLog(p)
  /\ \A p, q \in logging : p = q
  /\ sem_mutex2 = IF logging = {} THEN 1 ELSE 0

(* The bus keeps sem_mutex from its arrival until it has loaded.           *)
BusHoldsStop == bus \in {"arrival", "emptyRelease", "startBoarding", "post", "waitBoarded",
                         "endBoarding", "depart", "release"}
RidersHoldingStop == At({"enter", "leave", "counted"})

(* One holder of the stop at a time: waiting and transported are changed   *)
(* by one process, and nobody joins the queue between the bus's arrival    *)
(* and its departure, although the bus writes log lines and waits for two  *)
(* other semaphores in between.                                            *)
StopExclusion ==
  /\ \A r, q \in RidersHoldingStop : r = q
  /\ BusHoldsStop => RidersHoldingStop = {}
  /\ sem_mutex = IF BusHoldsStop \/ RidersHoldingStop # {} THEN 0 ELSE 1

(* What the two mutexes are for: one writer of the log, who alone changes  *)
(* counter and ridCounter, and one holder of the stop, who alone changes   *)
(* waiting.                                                                *)
Exclusion == LogExclusion /\ StopExclusion

(* The handshake of sem_bus and sem_boarded: at most one rider is between  *)
(* the bus's sem_post(sem_bus) and its sem_wait(sem_boarded), and only     *)
(* while the bus waits for it; no wake-up is left over for a later trip.   *)
Handshake ==
  /\ \A r, q \in Boarding : r = q
  /\ sem_bus + sem_boarded + (IF Boarding = {} THEN 0 ELSE 1)
       = IF bus = "waitBoarded" THEN 1 ELSE 0

(* How many riders of the current trip have left the queue.                *)
Seated == CASE bus = "post" -> i
            [] bus = "waitBoarded" -> i + 1 - sem_bus
            [] OTHER -> 0

(* waiting counts the queue, and the riders of the current trip until the  *)
(* bus subtracts them all at once; n, computed when the bus arrives, is    *)
(* still the number of riders it can take when it uses it.                 *)
StopCount ==
  /\ waiting = Cardinality(AtStop) + Seated
  /\ bus \in {"startBoarding", "post", "waitBoarded"} => n = Load /\ n > 0
  /\ bus \in {"post", "letGo"} => i <= n
  /\ bus = "waitBoarded" => i < n

(* transported, the only thing the bus knows of the riders, counts those   *)
(* that boarded and said so, and the ones counted are aboard.              *)
TransportedCount == transported = Cardinality(Counted)

(* The two counters the processes share tell the truth about the riders,   *)
(* though neither is read under the lock it is written under.              *)
Counters == StopCount /\ TransportedCount

(* The riders aboard the bus that it has not yet let go.                   *)
Owed == CASE bus \in {"post", "waitBoarded"} -> Seated
          [] bus \in {"endBoarding", "depart", "release", "end"} -> n
          [] bus = "letGo" -> n - i
          [] OTHER -> 0

(* Every rider that boards gets exactly one permission to finish: a rider  *)
(* is either let go, may be let go by a sem_can_finish posted already, or  *)
(* is one of those the current trip still has to let go.                   *)
Tickets == Cardinality(Boarded) = Cardinality(Free) + sem_can_finish + Owed

(* The bus never carries more than C riders (those aboard without a        *)
(* permission to finish), and never less than nobody.                      *)
Capacity == Cardinality(Boarded) - Cardinality(Free) - sem_can_finish \in 0 .. C

(* The bus stops, and main reports success, only when every rider has been *)
(* carried and has, or will get, its permission to finish.                 *)
BusFinishes ==
  bus \in {"finish", "done"} \/ main = "ok"
    => /\ Counted = Riders
       /\ sem_can_finish = Cardinality(Riders \ Free)

-----------------------------------------------------------------------------
(* What the bus stop promises (module BusStop).                            *)

Stop == INSTANCE BusStop WITH
  queue <- AtStop,
  aboard <- Boarded \ Free,
  door <- IF bus \in {"post", "waitBoarded"} THEN "open" ELSE "closed",
  seats <- IF bus \in {"post", "waitBoarded"} THEN n - Seated ELSE 0,
  riding <- Owed,
  tickets <- sem_can_finish,
  gone <- Free

(* The detailed specification implements the bus stop: whatever the        *)
(* interleaving, the queue is frozen while the door is open, exactly       *)
(* min(queue, C) riders board, and as many are let go after the trip.      *)
StopSpec == Stop!Spec

-----------------------------------------------------------------------------
(* Liveness.                                                               *)

ForkFailed == main = "failed" \/ gen = "failed"

(* Every process exits, unless a fork failed; then the bus, which waits    *)
(* for all R riders, has nobody to tell it.                                *)
Termination == <>(AllExited \/ ForkFailed)

(* A rider that was started finishes its journey, even when the fork of    *)
(* another rider, or nothing else, fails.                                  *)
NobodyStranded == \A r \in Riders : rider[r] = "start" ~> rider[r] = "done"
=============================================================================
