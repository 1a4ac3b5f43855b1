---------------------------- MODULE BusResources ----------------------------
(***************************************************************************)
(* The named semaphores and the shared memory segments of                  *)
(* sem_2/ios/proj_2/proj2.c, which outlive the process that makes them:    *)
(* several runs of the program, at the same time or one after another, go  *)
(* through set_resources(), the simulation (module Bus) and                *)
(* clean_resources(), and may be killed anywhere.                          *)
(*                                                                         *)
(* A run is the main process of one execution; the second clean-up that a  *)
(* generator without a rider does (line 107) is left out.  An operator     *)
(* with a suffixed name (OpenSemaphoreShared, ...) is a slip the           *)
(* properties must notice.                                                 *)
(***************************************************************************)
EXTENDS BusRuns, Naturals, Sequences

Sems == << "mutex", "mutex2", "bus", "boarded", "can_finish" >>
Segs == << "waiting", "counter", "transported", "ridCounter" >>
RemovedTwice == << "waiting", "transported", "waiting", "transported" >>
Removed == << "waiting", "transported", "waiting", "ridCounter" >>
Names == {Sems[j] : j \in 1 .. Len(Sems)}
Segments == {Segs[j] : j \in 1 .. Len(Segs)}

VARIABLES
  pc,       \* where every run is
  k,        \* how many semaphores or segments it has gone through there
  name,     \* the run whose semaphore a name stands for, or None
  sem,      \* for every run, whose semaphore it has opened under a name
  segment,  \* the segments that a run made and that still exist
  shmget,   \* the segments a run could not make
  error,    \* the variable error of set_resources() and clean_resources()
  alone     \* the last run, while no other has been alive since its start

vars == << pc, k, name, sem, segment, shmget, error, alone >>

Ended == {"exited", "failed", "dead"}
Points == {"off", "semaphores", "memory", "values", "running", "unlink", "remove"} \cup Ended
Alive == {r \in Runs : pc[r] \notin Ended \cup {"off"}}

Init ==
  /\ pc = [r \in Runs |-> "off"] /\ k = [r \in Runs |-> 0]
  /\ name = [s \in Names |-> None]
  /\ sem = [r \in Runs |-> [s \in Names |-> None]]
  /\ segment = [r \in Runs |-> {}] /\ shmget = [r \in Runs |-> {}]
  /\ error = [r \in Runs |-> FALSE]
  /\ alone = {}

(* Run r goes to another point and starts to count there.                  *)
Goes(r, to) == pc' = [pc EXCEPT ![r] = to] /\ k' = [k EXCEPT ![r] = 0]

(* Run r has dealt with one more of a list of length len.                  *)
Steps(r, len, to) ==
  IF k[r] + 1 < len THEN k' = [k EXCEPT ![r] = k[r] + 1] /\ pc' = pc ELSE Goes(r, to)

-----------------------------------------------------------------------------
(* set_resources(); fopen may fail before anything is made.                *)

Start(r) ==
  /\ pc[r] = "off"
  /\ Goes(r, "semaphores") \/ Goes(r, "dead")
  /\ alone' = IF Alive = {} THEN {r} ELSE {}
  /\ UNCHANGED << name, sem, segment, shmget, error >>

OpenSemaphoreShared(r) ==
  LET s == Sems[k[r] + 1]
      owner == IF name[s] = None THEN r ELSE name[s]
  IN
  /\ pc[r] = "semaphores"
  /\ name' = [name EXCEPT ![s] = owner]
  /\ sem' = [sem EXCEPT ![r][s] = owner]
  /\ Steps(r, Len(Sems), "memory")
  /\ UNCHANGED << segment, shmget, error, alone >>

(* sem_open with O_CREAT | O_EXCL: the name must be free.                  *)
OpenSemaphore(r) ==
  LET s == Sems[k[r] + 1] IN
  /\ pc[r] = "semaphores"
  /\ IF name[s] = None
       THEN /\ name' = [name EXCEPT ![s] = r] /\ sem' = [sem EXCEPT ![r][s] = r]
            /\ error' = error
       ELSE error' = [error EXCEPT ![r] = TRUE] /\ UNCHANGED << name, sem >>
  /\ Steps(r, Len(Sems), "memory")
  /\ UNCHANGED << segment, shmget, alone >>

MakeSegment(r) ==
  LET s == Segs[k[r] + 1] IN
  /\ pc[r] = "memory"
  /\ \/ segment' = [segment EXCEPT ![r] = @ \cup {s}] /\ UNCHANGED << shmget, error >>
     \/ /\ shmget' = [shmget EXCEPT ![r] = @ \cup {s}]
        /\ error' = [error EXCEPT ![r] = TRUE]
        /\ UNCHANGED segment
  /\ Steps(r, Len(Segs), "values")
  /\ UNCHANGED << name, sem, alone >>

SetValuesExit(r) ==
  /\ pc[r] = "values"
  /\ Goes(r, IF shmget[r] # {} THEN "dead" ELSE IF error[r] THEN "failed" ELSE "running")
  /\ UNCHANGED << name, sem, segment, shmget, error, alone >>

(* The values are set before error is looked at: shmat answers             *)
(* the address -1 for a segment that was not made, and the run dies there. *)
SetValues(r) ==
  /\ pc[r] = "values"
  /\ Goes(r, IF shmget[r] # {} THEN "dead" ELSE IF error[r] THEN "unlink" ELSE "running")
  /\ UNCHANGED << name, sem, segment, shmget, error, alone >>

(* The simulation is over; fclose of proj2.out may fail before any         *)
(* clean-up.                                                               *)
Simulated(r) ==
  /\ pc[r] = "running"
  /\ Goes(r, "unlink") \/ Goes(r, "dead")
  /\ UNCHANGED << name, sem, segment, shmget, error, alone >>

-----------------------------------------------------------------------------
(* clean_resources(): every name, whoever made it, and the run's segments. *)

UnlinkUpTo(r, last) ==
  /\ pc[r] = "unlink"
  /\ name' = [name EXCEPT ![Sems[k[r] + 1]] = None]
  /\ Steps(r, last, "remove")
  /\ UNCHANGED << sem, segment, shmget, error, alone >>

UnlinkButOne(r) == UnlinkUpTo(r, Len(Sems) - 1)

Unlink(r) == UnlinkUpTo(r, Len(Sems))

(* The run is still attached, so removing a segment twice is no error.     *)
Remove(r) ==
  /\ pc[r] = "remove"
  /\ segment' = [segment EXCEPT ![r] = @ \ {Removed[k[r] + 1]}]
  /\ Steps(r, Len(Removed), IF error[r] THEN "failed" ELSE "exited")
  /\ UNCHANGED << name, sem, shmget, error, alone >>

(* A signal kills the run: nothing is cleaned up.                          *)
Killed(r) ==
  /\ r \in Alive
  /\ Goes(r, "dead")
  /\ UNCHANGED << name, sem, segment, shmget, error, alone >>

RunStep(r) ==
  \/ Start(r) \/ OpenSemaphore(r) \/ MakeSegment(r) \/ SetValues(r)
  \/ Simulated(r) \/ Unlink(r) \/ Remove(r)

Over == (\A r \in Runs : pc[r] \in Ended) /\ UNCHANGED vars

Next == (\E r \in Runs : RunStep(r) \/ Killed(r)) \/ Over

Spec == Init /\ [][Next]_vars

-----------------------------------------------------------------------------
TypeOK ==
  /\ pc \in [Runs -> Points] /\ k \in [Runs -> 0 .. Len(Sems) - 1]
  /\ name \in [Names -> Runs \cup {None}]
  /\ sem \in [Runs -> [Names -> Runs \cup {None}]]
  /\ segment \in [Runs -> SUBSET Segments] /\ shmget \in [Runs -> SUBSET Segments]
  /\ error \in [Runs -> BOOLEAN] /\ alone \subseteq Runs

(* Two simulations never share a semaphore, even when they run at the same *)
(* time and each unlinks the names of the other: a run that reaches the    *)
(* simulation made all five of its semaphores itself.                      *)
PrivateSemaphores ==
  /\ TypeOK
  /\ \A r \in Runs : pc[r] = "running" => \A s \in Names : sem[r][s] = r

(* When every run ended by its own clean-up, no semaphore is left behind,  *)
(* whichever of them unlinked it.                                          *)
NamesErased ==
  (\A r \in Runs : pc[r] \in {"off", "exited", "failed"}) => \A s \in Names : name[s] = None

(* A run that was killed leaves its names to the next one, which fails for *)
(* them but takes them away: after it, whether it failed or not, the       *)
(* program works again.                                                    *)
NextRunRecovers ==
  \A r \in alone : pc[r] \in {"exited", "failed"} => \A s \in Names : name[s] = None

(* A run that has done its clean-up, whether the simulation could start or *)
(* not, has taken away its segments, but for that of counter, which is the *)
(* matter of SegmentsRemoved.                                              *)
SegmentsErased ==
  \A r \in Runs : pc[r] \in {"exited", "failed"} => segment[r] \subseteq {"counter"}

(* What clean_resources takes away.                                        *)
Erased == NamesErased /\ NextRunRecovers /\ SegmentsErased

(* clean_resources is the "function to erase semaphores and shared         *)
(* memmory" (proj2.c:64): a run that has done it has no segment left.      *)
SegmentsRemoved ==
  \A r \in Runs : pc[r] \in {"exited", "failed"} => segment[r] = {}
=============================================================================
