------------------------------ MODULE BusProofs ------------------------------
(* Theorems about Bus, for every finite set of riders and every capacity.  *)
EXTENDS Bus, FiniteSetTheorems, TLAPS

(* The order of main: there is no bus before its fork, and success is      *)
(* reported only after the bus is done.                                    *)
MainOrder ==
  /\ main = "forkBus" => bus = "forked?"
  /\ main \in {"waitGenerator", "ok"} => bus = "done"

(* BusLoop leaves the loop only when transported = R, and then nothing     *)
(* changes transported any more.                                           *)
LoopExit == bus \in {"finish", "done"} => transported = R

(* The inductive invariant.                                                *)
IInv ==
  /\ TypeOK /\ LogExclusion /\ StopExclusion /\ Handshake
  /\ StopCount /\ TransportedCount /\ Tickets
  /\ MainOrder /\ LoopExit

USE BusAssumption

-----------------------------------------------------------------------------
(* Counting riders.                                                        *)

LEMMA AtFinite ==
  ASSUME NEW points
  PROVE  /\ IsFiniteSet(At(points))
         /\ Cardinality(At(points)) \in Nat
         /\ At(points) = {} <=> Cardinality(At(points)) = 0
  <1>1. At(points) \subseteq Riders
    BY DEF At
  <1>2. IsFiniteSet(At(points))
    BY <1>1, FS_Subset
  <1> QED
    BY <1>2, FS_CardinalityType, FS_EmptySet

(* Two sets of riders that differ at one rider at most differ in size by   *)
(* the membership of that rider.                                           *)
One(b) == IF b THEN 1 ELSE 0

LEMMA OneMoves ==
  ASSUME NEW S \in SUBSET Riders, NEW T \in SUBSET Riders, NEW r \in Riders,
         \A q \in Riders : q # r => (q \in S <=> q \in T)
  PROVE  Cardinality(T) = Cardinality(S) + One(r \in T) - One(r \in S)
  <1>1. IsFiniteSet(S) /\ Cardinality(S) \in Nat
    BY FS_Subset, FS_CardinalityType
  <1>2. CASE r \in T /\ r \notin S
    <2>1. T = S \cup {r}
      BY <1>2
    <2>2. Cardinality(S \cup {r}) = Cardinality(S) + 1
      BY <1>1, <1>2, FS_AddElement
    <2> QED
      BY <1>1, <1>2, <2>1, <2>2 DEF One
  <1>3. CASE r \notin T /\ r \in S
    <2>1. T = S \ {r}
      BY <1>3
    <2>2. Cardinality(S \ {r}) = Cardinality(S) - 1
      BY <1>1, <1>3, FS_RemoveElement
    <2> QED
      BY <1>1, <1>3, <2>1, <2>2 DEF One
  <1>4. CASE r \in T <=> r \in S
    <2>1. T = S
      BY <1>4
    <2> QED
      BY <1>1, <1>4, <2>1 DEF One
  <1> QED
    BY <1>2, <1>3, <1>4

LEMMA SameRiders ==
  ASSUME NEW points, UNCHANGED rider
  PROVE  At(points)' = At(points)
  BY DEF At

-----------------------------------------------------------------------------
(* One step at a time: each part of the invariant, for every action.       *)

(* What a process that is about to post a binary semaphore relies on.      *)
LEMMA HeldSemaphores ==
  ASSUME IInv
  PROVE  /\ \A p \in logging : sem_mutex2 = 0
         /\ \A r \in Riders : rider[r] \in {"enter", "leave", "counted"} => sem_mutex = 0
         /\ BusHoldsStop => sem_mutex = 0
         /\ \A r \in Riders : rider[r] = "boarded" => sem_boarded = 0
         /\ bus # "waitBoarded" => sem_bus = 0 /\ sem_boarded = 0 /\ Boarding = {}
  <1>1. \A r \in Riders : rider[r] \in {"enter", "leave", "counted"} => r \in RidersHoldingStop
    BY DEF RidersHoldingStop, At
  <1>2. \A r \in Riders : rider[r] = "boarded" => r \in Boarding
    BY DEF Boarding, At
  <1> QED
    BY <1>1, <1>2 DEF IInv, TypeOK, LogExclusion, StopExclusion, Handshake

LEMMA TypeStep ==
  ASSUME IInv, Next
  PROVE  TypeOK'
  <1> USE DEF IInv, TypeOK, shared, sems, BusPoints, BusLogs, RiderPoints, RiderLogs,
              MainPoints, GenPoints, Procs, BusGoes, RiderGoes, LogLeave
  <1>1. ASSUME MainStep PROVE TypeOK'
    BY <1>1 DEF MainOrder, MainStep, ForkBus, ForkGenerator, WaitBus, WaitGenerator
  <1>2. ASSUME ForkRider PROVE TypeOK'
    BY <1>2 DEF ForkRider
  <1>3. ASSUME NEW p \in Procs, LogEnter(p) PROVE TypeOK'
    BY <1>3 DEF LogEnter
  <1>4. ASSUME NEW r \in Riders, RiderStop(r) PROVE TypeOK'
    BY <1>4 DEF RiderStop
  <1>5. ASSUME NEW r \in Riders, RiderCount(r) PROVE TypeOK'
    BY <1>5 DEF RiderCount
  <1>6. ASSUME NEW r \in Riders, RiderStep(r) PROVE TypeOK'
    <2>1. CASE RiderStart(r) \/ RiderEnter(r) \/ RiderBoarding(r) \/ RiderFinish(r)
      BY <2>1, HeldSemaphores DEF RiderStart, RiderEnter, RiderBoarding, RiderFinish
    <2>2. CASE RiderLeave(r) \/ RiderCounted(r) \/ RiderBoarded(r)
      BY <2>2, HeldSemaphores DEF RiderLeave, RiderCounted, RiderBoarded
    <2>3. CASE RiderWaitBus(r) \/ RiderWaitFinish(r)
      BY <2>3 DEF RiderWaitBus, RiderWaitFinish
    <2> QED
      BY <1>6, <2>1, <2>2, <2>3 DEF RiderStep
  <1>7. ASSUME BusAcquire PROVE TypeOK'
    BY <1>7 DEF BusAcquire
  <1>8. ASSUME BusStep PROVE TypeOK'
    <2>1. CASE BusLog \/ BusStartBoarding \/ BusEnd
      BY <2>1, HeldSemaphores DEF BusLog, BusStartBoarding, BusEnd
    <2>2. CASE BusArrival
      BY <2>2, HeldSemaphores DEF BusArrival, Load
    <2>3. CASE BusEmptyRelease \/ BusRelease
      BY <2>3, HeldSemaphores DEF BusEmptyRelease, BusRelease, BusHoldsStop
    <2>4. CASE BusPost
      BY <2>4, HeldSemaphores DEF BusPost
    <2>5. CASE BusWaitBoarded
      BY <2>5 DEF BusWaitBoarded, StopCount
    <2>6. CASE BusLoop \/ BusAllBoarded
      BY <2>6 DEF BusLoop, BusAllBoarded
    <2>7. CASE BusLetGo
      BY <2>7 DEF BusLetGo, BusLetGoUpTo
    <2> QED
      BY <1>8, <2>1, <2>2, <2>3, <2>4, <2>5, <2>6, <2>7 DEF BusStep
  <1>9. ASSUME Exited PROVE TypeOK'
    BY <1>9 DEF Exited, vars
  <1> QED
    BY <1>1, <1>2, <1>3, <1>4, <1>5, <1>6, <1>7, <1>8, <1>9 DEF Next

LEMMA LogStep ==
  ASSUME IInv, Next
  PROVE  LogExclusion'
  <1> USE DEF IInv, TypeOK, LogExclusion, AtLog, shared, sems, BusPoints, BusLogs, RiderPoints,
              RiderLogs, Procs, BusGoes, RiderGoes, LogLeave
  <1>1. ASSUME MainStep PROVE LogExclusion'
    BY <1>1 DEF MainOrder, MainStep, ForkBus, ForkGenerator, WaitBus, WaitGenerator
  <1>2. ASSUME ForkRider PROVE LogExclusion'
    BY <1>2 DEF ForkRider
  <1>3. ASSUME NEW p \in Procs, LogEnter(p) PROVE LogExclusion'
    BY <1>3 DEF LogEnter
  <1>4. ASSUME NEW r \in Riders, RiderStop(r) PROVE LogExclusion'
    BY <1>4 DEF RiderStop
  <1>5. ASSUME NEW r \in Riders, RiderCount(r) PROVE LogExclusion'
    BY <1>5 DEF RiderCount
  <1>6. ASSUME NEW r \in Riders, RiderStep(r) PROVE LogExclusion'
    BY <1>6 DEF RiderStep, RiderStart, RiderEnter, RiderLeave, RiderWaitBus,
         RiderBoarding, RiderBoarded, RiderCounted, RiderWaitFinish, RiderFinish
  <1>7. ASSUME BusAcquire PROVE LogExclusion'
    BY <1>7 DEF BusAcquire
  <1>8. ASSUME BusStep PROVE LogExclusion'
    BY <1>8 DEF BusStep, BusLog, BusLoop, BusArrival, BusEmptyRelease, BusStartBoarding,
         BusPost, BusWaitBoarded, BusAllBoarded, BusRelease, BusEnd, BusLetGo, BusLetGoUpTo
  <1>9. ASSUME Exited PROVE LogExclusion'
    BY <1>9 DEF Exited, vars
  <1> QED
    BY <1>1, <1>2, <1>3, <1>4, <1>5, <1>6, <1>7, <1>8, <1>9 DEF Next

LEMMA StopStep ==
  ASSUME IInv, Next
  PROVE  StopExclusion'
  <1> USE DEF IInv, TypeOK, shared, sems, BusPoints, BusLogs, RiderPoints,
              RiderLogs, Procs, BusGoes, RiderGoes, LogLeave, At,
              StopExclusion, RidersHoldingStop, BusHoldsStop
  <1>1. ASSUME MainStep PROVE StopExclusion'
    BY <1>1 DEF MainOrder, MainStep, ForkBus, ForkGenerator, WaitBus, WaitGenerator
  <1>2. ASSUME ForkRider PROVE StopExclusion'
    BY <1>2 DEF ForkRider
  <1>3. ASSUME NEW p \in Procs, LogEnter(p) PROVE StopExclusion'
    BY <1>3 DEF LogEnter
  <1>4. ASSUME NEW r \in Riders, RiderStop(r) PROVE StopExclusion'
    BY <1>4 DEF RiderStop
  <1>5. ASSUME NEW r \in Riders, RiderCount(r) PROVE StopExclusion'
    BY <1>5 DEF RiderCount
  <1>6. ASSUME NEW r \in Riders, RiderStep(r) PROVE StopExclusion'
    BY <1>6 DEF RiderStep, RiderStart, RiderEnter, RiderLeave, RiderWaitBus,
         RiderBoarding, RiderBoarded, RiderCounted, RiderWaitFinish, RiderFinish
  <1>7. ASSUME BusAcquire PROVE StopExclusion'
    BY <1>7 DEF BusAcquire
  <1>8. ASSUME BusStep PROVE StopExclusion'
    BY <1>8 DEF BusStep, BusLog, BusLoop, BusArrival, BusEmptyRelease, BusStartBoarding,
         BusPost, BusWaitBoarded, BusAllBoarded, BusRelease, BusEnd, BusLetGo, BusLetGoUpTo
  <1>9. ASSUME Exited PROVE StopExclusion'
    BY <1>9 DEF Exited, vars
  <1> QED
    BY <1>1, <1>2, <1>3, <1>4, <1>5, <1>6, <1>7, <1>8, <1>9 DEF Next

LEMMA HandshakeStep ==
  ASSUME IInv, Next
  PROVE  Handshake'
  <1> USE DEF IInv, TypeOK, shared, sems, BusPoints, BusLogs, RiderPoints,
              RiderLogs, Procs, BusGoes, RiderGoes, LogLeave, At,
              Handshake, Boarding
  <1>1. ASSUME MainStep PROVE Handshake'
    BY <1>1 DEF MainOrder, MainStep, ForkBus, ForkGenerator, WaitBus, WaitGenerator
  <1>2. ASSUME ForkRider PROVE Handshake'
    BY <1>2 DEF ForkRider
  <1>3. ASSUME NEW p \in Procs, LogEnter(p) PROVE Handshake'
    BY <1>3 DEF LogEnter
  <1>4. ASSUME NEW r \in Riders, RiderStop(r) PROVE Handshake'
    BY <1>4 DEF RiderStop
  <1>5. ASSUME NEW r \in Riders, RiderCount(r) PROVE Handshake'
    BY <1>5 DEF RiderCount
  <1>6. ASSUME NEW r \in Riders, RiderStep(r) PROVE Handshake'
    BY <1>6 DEF RiderStep, RiderStart, RiderEnter, RiderLeave, RiderWaitBus,
         RiderBoarding, RiderBoarded, RiderCounted, RiderWaitFinish, RiderFinish
  <1>7. ASSUME BusAcquire PROVE Handshake'
    BY <1>7 DEF BusAcquire
  <1>8. ASSUME BusStep PROVE Handshake'
    BY <1>8 DEF BusStep, BusLog, BusLoop, BusArrival, BusEmptyRelease, BusStartBoarding,
         BusPost, BusWaitBoarded, BusAllBoarded, BusRelease, BusEnd, BusLetGo, BusLetGoUpTo
  <1>9. ASSUME Exited PROVE Handshake'
    BY <1>9 DEF Exited, vars
  <1> QED
    BY <1>1, <1>2, <1>3, <1>4, <1>5, <1>6, <1>7, <1>8, <1>9 DEF Next

(* The four counts the invariant speaks of, when a rider moves and when    *)
(* none does.                                                              *)
StopPoints == {"enter", "leave", "waitBus"}
BoardedPoints == {"boarding", "boarded", "count", "counted", "waitFinish", "finish", "done"}
CountedPoints == {"counted", "waitFinish", "finish", "done"}
FreePoints == {"finish", "done"}

LEMMA CountTypes ==
  /\ Cardinality(AtStop) \in Nat /\ Cardinality(Boarded) \in Nat
  /\ Cardinality(Counted) \in Nat /\ Cardinality(Free) \in Nat
  BY AtFinite DEF AtStop, Boarded, Counted, Free

LEMMA MoveCounts ==
  ASSUME NEW r \in Riders, NEW from, NEW to, TypeOK, RiderGoes(r, from, to)
  PROVE  /\ Cardinality(AtStop') = Cardinality(AtStop)
              + One(to \in StopPoints) - One(from \in StopPoints)
         /\ Cardinality(Boarded') = Cardinality(Boarded)
              + One(to \in BoardedPoints) - One(from \in BoardedPoints)
         /\ Cardinality(Counted') = Cardinality(Counted)
              + One(to \in CountedPoints) - One(from \in CountedPoints)
         /\ Cardinality(Free') = Cardinality(Free)
              + One(to \in FreePoints) - One(from \in FreePoints)
  <1>1. /\ rider \in [Riders -> RiderPoints] /\ rider[r] = from
        /\ rider' = [rider EXCEPT ![r] = to]
    BY DEF TypeOK, RiderGoes
  <1>2. Cardinality(AtStop') = Cardinality(AtStop) + One(r \in AtStop') - One(r \in AtStop)
    <2>1. /\ AtStop \in SUBSET Riders /\ AtStop' \in SUBSET Riders
          /\ \A q \in Riders : q # r => (q \in AtStop <=> q \in AtStop')
      BY <1>1 DEF AtStop, At
    <2> QED
      BY <2>1, OneMoves
  <1>3. Cardinality(Boarded') = Cardinality(Boarded) + One(r \in Boarded') - One(r \in Boarded)
    <2>1. /\ Boarded \in SUBSET Riders /\ Boarded' \in SUBSET Riders
          /\ \A q \in Riders : q # r => (q \in Boarded <=> q \in Boarded')
      BY <1>1 DEF Boarded, At
    <2> QED
      BY <2>1, OneMoves
  <1>4. Cardinality(Counted') = Cardinality(Counted) + One(r \in Counted') - One(r \in Counted)
    <2>1. /\ Counted \in SUBSET Riders /\ Counted' \in SUBSET Riders
          /\ \A q \in Riders : q # r => (q \in Counted <=> q \in Counted')
      BY <1>1 DEF Counted, At
    <2> QED
      BY <2>1, OneMoves
  <1>5. Cardinality(Free') = Cardinality(Free) + One(r \in Free') - One(r \in Free)
    <2>1. /\ Free \in SUBSET Riders /\ Free' \in SUBSET Riders
          /\ \A q \in Riders : q # r => (q \in Free <=> q \in Free')
      BY <1>1 DEF Free, At
    <2> QED
      BY <2>1, OneMoves
  <1>6. /\ r \in AtStop <=> from \in StopPoints
        /\ r \in AtStop' <=> to \in StopPoints
        /\ r \in Boarded <=> from \in BoardedPoints
        /\ r \in Boarded' <=> to \in BoardedPoints
        /\ r \in Counted <=> from \in CountedPoints
        /\ r \in Counted' <=> to \in CountedPoints
        /\ r \in Free <=> from \in FreePoints
        /\ r \in Free' <=> to \in FreePoints
    BY <1>1 DEF AtStop, Boarded, Counted, Free, At,
       StopPoints, BoardedPoints, CountedPoints, FreePoints
  <1> QED
    BY <1>2, <1>3, <1>4, <1>5, <1>6 DEF One

LEMMA SameCounts ==
  ASSUME UNCHANGED rider
  PROVE  /\ Cardinality(AtStop') = Cardinality(AtStop)
         /\ Cardinality(Boarded') = Cardinality(Boarded)
         /\ Cardinality(Counted') = Cardinality(Counted)
         /\ Cardinality(Free') = Cardinality(Free)
  BY SameRiders DEF AtStop, Boarded, Counted, Free

(* The counting part of the invariant; the arithmetic of every action is   *)
(* that of MoveCounts or of SameCounts.                                    *)
Counts == StopCount /\ TransportedCount /\ Tickets

LEMMA CountStep ==
  ASSUME IInv, Next
  PROVE  Counts'
  <1> USE CountTypes, HeldSemaphores
      DEF IInv, TypeOK, Counts, StopCount, TransportedCount, Tickets, Seated, Owed, Load, One,
          StopPoints, BoardedPoints, CountedPoints, FreePoints, shared, sems
  <1>1. ASSUME NEW r \in Riders, RiderStop(r) \/ RiderCount(r) \/ RiderStep(r)
        PROVE  Counts'
    <2>1. CASE RiderStop(r)
      <3>1. RiderGoes(r, "stop", "enter")
        BY <2>1 DEF RiderStop
      <3>2. /\ Cardinality(AtStop') = Cardinality(AtStop) + 1
            /\ Cardinality(Boarded') = Cardinality(Boarded)
            /\ Cardinality(Counted') = Cardinality(Counted)
            /\ Cardinality(Free') = Cardinality(Free)
        BY <3>1, MoveCounts
      <3> QED
        BY <2>1, <3>2 DEF RiderStop, RiderGoes, BusHoldsStop
    <2>2. CASE RiderCount(r)
      <3>1. RiderGoes(r, "count", "counted")
        BY <2>2 DEF RiderCount
      <3>2. /\ Cardinality(AtStop') = Cardinality(AtStop)
            /\ Cardinality(Boarded') = Cardinality(Boarded)
            /\ Cardinality(Counted') = Cardinality(Counted) + 1
            /\ Cardinality(Free') = Cardinality(Free)
        BY <3>1, MoveCounts
      <3> QED
        BY <2>2, <3>2 DEF RiderCount, RiderGoes
    <2>3. CASE RiderStart(r)
      <3>1. RiderGoes(r, "start", "stop")
        BY <2>3 DEF RiderStart
      <3>2. /\ Cardinality(AtStop') = Cardinality(AtStop)
            /\ Cardinality(Boarded') = Cardinality(Boarded)
            /\ Cardinality(Counted') = Cardinality(Counted)
            /\ Cardinality(Free') = Cardinality(Free)
        BY <3>1, MoveCounts
      <3> QED
        BY <2>3, <3>2 DEF RiderStart, RiderGoes
    <2>4. CASE RiderEnter(r)
      <3>1. RiderGoes(r, "enter", "leave")
        BY <2>4 DEF RiderEnter
      <3>2. /\ Cardinality(AtStop') = Cardinality(AtStop)
            /\ Cardinality(Boarded') = Cardinality(Boarded)
            /\ Cardinality(Counted') = Cardinality(Counted)
            /\ Cardinality(Free') = Cardinality(Free)
        BY <3>1, MoveCounts
      <3> QED
        BY <2>4, <3>2 DEF RiderEnter, RiderGoes
    <2>5. CASE RiderLeave(r)
      <3>1. RiderGoes(r, "leave", "waitBus")
        BY <2>5 DEF RiderLeave
      <3>2. /\ Cardinality(AtStop') = Cardinality(AtStop)
            /\ Cardinality(Boarded') = Cardinality(Boarded)
            /\ Cardinality(Counted') = Cardinality(Counted)
            /\ Cardinality(Free') = Cardinality(Free)
        BY <3>1, MoveCounts
      <3> QED
        BY <2>5, <3>2 DEF RiderLeave, RiderGoes
    <2>6. CASE RiderWaitBus(r)
      <3>1. RiderGoes(r, "waitBus", "boarding")
        BY <2>6 DEF RiderWaitBus
      <3>2. /\ Cardinality(AtStop') = Cardinality(AtStop) - 1
            /\ Cardinality(Boarded') = Cardinality(Boarded) + 1
            /\ Cardinality(Counted') = Cardinality(Counted)
            /\ Cardinality(Free') = Cardinality(Free)
        BY <3>1, MoveCounts
      <3> QED
        BY <2>6, <3>2 DEF RiderWaitBus, RiderGoes
    <2>7. CASE RiderBoarding(r)
      <3>1. RiderGoes(r, "boarding", "boarded")
        BY <2>7 DEF RiderBoarding
      <3>2. /\ Cardinality(AtStop') = Cardinality(AtStop)
            /\ Cardinality(Boarded') = Cardinality(Boarded)
            /\ Cardinality(Counted') = Cardinality(Counted)
            /\ Cardinality(Free') = Cardinality(Free)
        BY <3>1, MoveCounts
      <3> QED
        BY <2>7, <3>2 DEF RiderBoarding, RiderGoes
    <2>8. CASE RiderBoarded(r)
      <3>1. RiderGoes(r, "boarded", "count")
        BY <2>8 DEF RiderBoarded
      <3>2. /\ Cardinality(AtStop') = Cardinality(AtStop)
            /\ Cardinality(Boarded') = Cardinality(Boarded)
            /\ Cardinality(Counted') = Cardinality(Counted)
            /\ Cardinality(Free') = Cardinality(Free)
        BY <3>1, MoveCounts
      <3> QED
        BY <2>8, <3>2 DEF RiderBoarded, RiderGoes
    <2>9. CASE RiderCounted(r)
      <3>1. RiderGoes(r, "counted", "waitFinish")
        BY <2>9 DEF RiderCounted
      <3>2. /\ Cardinality(AtStop') = Cardinality(AtStop)
            /\ Cardinality(Boarded') = Cardinality(Boarded)
            /\ Cardinality(Counted') = Cardinality(Counted)
            /\ Cardinality(Free') = Cardinality(Free)
        BY <3>1, MoveCounts
      <3> QED
        BY <2>9, <3>2 DEF RiderCounted, RiderGoes
    <2>10. CASE RiderWaitFinish(r)
      <3>1. RiderGoes(r, "waitFinish", "finish")
        BY <2>10 DEF RiderWaitFinish
      <3>2. /\ Cardinality(AtStop') = Cardinality(AtStop)
            /\ Cardinality(Boarded') = Cardinality(Boarded)
            /\ Cardinality(Counted') = Cardinality(Counted)
            /\ Cardinality(Free') = Cardinality(Free) + 1
        BY <3>1, MoveCounts
      <3> QED
        BY <2>10, <3>2 DEF RiderWaitFinish, RiderGoes
    <2>11. CASE RiderFinish(r)
      <3>1. RiderGoes(r, "finish", "done")
        BY <2>11 DEF RiderFinish
      <3>2. /\ Cardinality(AtStop') = Cardinality(AtStop)
            /\ Cardinality(Boarded') = Cardinality(Boarded)
            /\ Cardinality(Counted') = Cardinality(Counted)
            /\ Cardinality(Free') = Cardinality(Free)
        BY <3>1, MoveCounts
      <3> QED
        BY <2>11, <3>2 DEF RiderFinish, RiderGoes
    <2> QED
      BY <1>1, <2>1, <2>2, <2>3, <2>4, <2>5, <2>6, <2>7, <2>8, <2>9, <2>10, <2>11 DEF RiderStep
  <1>2. ASSUME UNCHANGED << rider, waiting, transported, n, sem_bus, sem_can_finish >>,
               UNCHANGED << bus, i >>
        PROVE  Counts'
    BY <1>2, SameCounts
  <1>3. ASSUME MainStep PROVE Counts'
    BY <1>3, SameCounts DEF MainOrder, MainStep, ForkBus, ForkGenerator, WaitBus, WaitGenerator
  <1>4. ASSUME ForkRider PROVE Counts'
    <2>1. CASE UNCHANGED rider
      BY <1>4, <2>1, SameCounts DEF ForkRider
    <2>2. ASSUME NEW r \in Riders, RiderGoes(r, "forked?", "start")
          PROVE  Counts'
      BY <1>4, <2>2, MoveCounts DEF ForkRider
    <2> QED
      BY <1>4, <2>1, <2>2 DEF ForkRider, RiderGoes
  <1>5. ASSUME NEW p \in Procs, LogEnter(p) PROVE Counts'
    BY <1>5, <1>2 DEF LogEnter
  <1>6. ASSUME BusAcquire \/ BusStep PROVE Counts'
    <2>0. CASE BusAcquire
      BY <2>0, SameCounts DEF BusAcquire, BusGoes
    <2>1. CASE BusLog
      BY <2>1, SameCounts DEF BusLog, BusGoes
    <2>2. CASE BusLoop
      BY <2>2, SameCounts DEF BusLoop, BusGoes
    <2>3. CASE BusArrival
      BY <2>3, SameCounts DEF BusArrival, BusGoes
    <2>4. CASE BusEmptyRelease
      BY <2>4, SameCounts DEF BusEmptyRelease, BusGoes
    <2>5. CASE BusStartBoarding
      BY <2>5, SameCounts DEF BusStartBoarding, BusGoes
    <2>6. CASE BusPost
      BY <2>6, SameCounts DEF BusPost, BusGoes
    <2>7. CASE BusWaitBoarded
      BY <2>7, SameCounts DEF BusWaitBoarded, BusGoes, Handshake
    <2>8. CASE BusAllBoarded
      BY <2>8, SameCounts DEF BusAllBoarded, BusGoes
    <2>9. CASE BusRelease
      BY <2>9, SameCounts DEF BusRelease, BusGoes
    <2>10. CASE BusEnd
      BY <2>10, SameCounts DEF BusEnd, BusGoes
    <2>11. CASE BusLetGo
      BY <2>11, SameCounts DEF BusLetGo, BusLetGoUpTo, BusGoes
    <2> QED
      BY <1>6, <2>0, <2>1, <2>2, <2>3, <2>4, <2>5, <2>6, <2>7, <2>8, <2>9, <2>10, <2>11 DEF BusStep
  <1>7. ASSUME Exited PROVE Counts'
    BY <1>7, <1>2 DEF Exited, vars
  <1> QED
    BY <1>1, <1>3, <1>4, <1>5, <1>6, <1>7 DEF Next

LEMMA MainStepOrder ==
  ASSUME IInv, Next
  PROVE  MainOrder' /\ LoopExit'
  <1> USE DEF IInv, TypeOK, MainOrder, LoopExit, shared, sems, BusGoes, RiderGoes
  <1>1. ASSUME MainStep PROVE MainOrder' /\ LoopExit'
    BY <1>1 DEF MainStep, ForkBus, ForkGenerator, WaitBus, WaitGenerator
  <1>2. ASSUME ForkRider PROVE MainOrder' /\ LoopExit'
    BY <1>2 DEF ForkRider
  <1>3. ASSUME NEW p \in Procs, LogEnter(p) PROVE MainOrder' /\ LoopExit'
    BY <1>3 DEF LogEnter
  <1>4. ASSUME NEW r \in Riders, RiderStop(r) \/ RiderStep(r) PROVE MainOrder' /\ LoopExit'
    BY <1>4 DEF RiderStop, RiderStep, RiderStart, RiderEnter, RiderLeave, RiderWaitBus,
         RiderBoarding, RiderBoarded, RiderCounted, RiderWaitFinish, RiderFinish
  <1>5. ASSUME NEW r \in Riders, RiderCount(r) PROVE MainOrder' /\ LoopExit'
    <2>1. transported # R
      <3>1. Counted \subseteq Riders /\ r \in Riders \ Counted
        BY <1>5 DEF RiderCount, Counted, At
      <3>2. Cardinality(Counted) # Cardinality(Riders)
        BY <3>1, FS_Subset
      <3> QED
        BY <3>2 DEF TransportedCount, R
    <2> QED
      BY <1>5, <2>1 DEF RiderCount
  <1>6. ASSUME BusAcquire \/ BusStep PROVE MainOrder' /\ LoopExit'
    BY <1>6 DEF BusAcquire, BusStep, BusLog, BusLoop, BusArrival, BusEmptyRelease,
         BusStartBoarding, BusPost, BusWaitBoarded, BusAllBoarded, BusRelease, BusEnd,
         BusLetGo, BusLetGoUpTo, R
  <1>7. ASSUME Exited PROVE MainOrder' /\ LoopExit'
    BY <1>7 DEF Exited, vars
  <1> QED
    BY <1>1, <1>2, <1>3, <1>4, <1>5, <1>6, <1>7 DEF Next

-----------------------------------------------------------------------------
(* The invariant, and what follows from it.                                *)

LEMMA InitIInv == Init => IInv
  <1> SUFFICES ASSUME Init PROVE IInv
    OBVIOUS
  <1>1. /\ AtStop = {} /\ Boarding = {} /\ Boarded = {} /\ Counted = {} /\ Free = {}
        /\ RidersHoldingStop = {}
    BY DEF Init, At, AtStop, Boarding, Boarded, Counted, Free, RidersHoldingStop
  <1>2. Cardinality({}) = 0
    BY FS_EmptySet
  <1>3. TypeOK /\ LogExclusion /\ StopExclusion /\ Handshake
    BY <1>1 DEF Init, TypeOK, LogExclusion, StopExclusion, Handshake, BusHoldsStop,
       BusPoints, BusLogs, RiderPoints, RiderLogs, MainPoints, GenPoints
  <1> QED
    BY <1>1, <1>2, <1>3 DEF Init, IInv, StopCount, TransportedCount, Tickets, Seated, Owed,
       MainOrder, LoopExit

LEMMA NextIInv == IInv /\ [Next]_vars => IInv'
  <1> SUFFICES ASSUME IInv, [Next]_vars PROVE IInv'
    OBVIOUS
  <1>1. CASE Next
    BY <1>1, TypeStep, LogStep, StopStep, HandshakeStep, CountStep, MainStepOrder
       DEF IInv, Counts
  <1>2. CASE UNCHANGED vars
    BY <1>2 DEF vars, shared, sems, IInv, TypeOK, LogExclusion, AtLog, StopExclusion, Handshake,
       StopCount, TransportedCount, Tickets, MainOrder, LoopExit, Seated, Owed, Load,
       BusHoldsStop, RidersHoldingStop, AtStop, Boarding, Boarded, Counted, Free, At
  <1> QED
    BY <1>1, <1>2

LEMMA Invariance == Spec => []IInv
  BY InitIInv, NextIInv, PTL DEF Spec

(* Every variable keeps its type: no counter and no semaphore ever becomes *)
(* negative, and the four binary semaphores stay binary.                   *)
THEOREM TypeCorrect == Spec => []TypeOK
  <1>1. IInv => TypeOK
    BY DEF IInv
  <1> QED
    BY Invariance, <1>1, PTL

(* The stop has one holder at a time, and its semaphore says whether it    *)
(* has one; the same for proj2.out.                                        *)
THEOREM StopExclusive == Spec => []Exclusion
  <1>1. IInv => Exclusion
    BY DEF IInv, Exclusion
  <1> QED
    BY Invariance, <1>1, PTL

(* One rider boards at a time, on the bus's demand only.                   *)
THEOREM HandshakeHolds == Spec => []Handshake
  <1>1. IInv => Handshake
    BY DEF IInv
  <1> QED
    BY Invariance, <1>1, PTL

(* The shared counters waiting and transported tell the truth about where  *)
(* the riders are, and n is still right when the bus uses it.              *)
THEOREM CountersCorrect == Spec => []Counters
  <1>1. IInv => Counters
    BY DEF IInv, Counters
  <1> QED
    BY Invariance, <1>1, PTL

(* As many permissions to finish as riders that boarded.                   *)
THEOREM TicketsConserved == Spec => []Tickets
  <1>1. IInv => Tickets
    BY DEF IInv
  <1> QED
    BY Invariance, <1>1, PTL

(* The bus never carries more than C riders.                               *)
THEOREM CapacityRespected == Spec => []Capacity
  <1>1. IInv => Capacity
    <2>1. ASSUME IInv PROVE Owed \in 0 .. C
      BY <2>1, CountTypes DEF IInv, TypeOK, StopCount, Handshake, Owed, Seated
    <2> QED
      BY <2>1, CountTypes DEF IInv, TypeOK, Tickets, Capacity
  <1> QED
    BY Invariance, <1>1, PTL

(* The bus finishes, and main reports success, only when all R riders have *)
(* been carried and none of them lacks its permission to finish.           *)
THEOREM BusFinishesLast == Spec => []BusFinishes
  <1>1. IInv => BusFinishes
    <2>1. SUFFICES ASSUME IInv, bus \in {"finish", "done"} PROVE
                   Counted = Riders /\ sem_can_finish = Cardinality(Riders \ Free)
      BY DEF IInv, MainOrder, BusFinishes
    <2>2. Counted \subseteq Boarded /\ Boarded \subseteq Riders /\ Free \subseteq Riders
      BY DEF Counted, Boarded, Free, At
    <2>3. Cardinality(Counted) = Cardinality(Riders)
      BY <2>1 DEF IInv, LoopExit, TransportedCount, R
    <2>4. Counted = Riders
      BY <2>2, <2>3, FS_Subset
    <2>5. Boarded = Riders
      BY <2>2, <2>4
    <2>6. Cardinality(Riders \ Free) = Cardinality(Riders) - Cardinality(Free)
      <3>1. Cardinality(Riders \ Free) = Cardinality(Riders) - Cardinality(Riders \cap Free)
        BY FS_Difference
      <3>2. Riders \cap Free = Free
        BY <2>2
      <3> QED
        BY <3>1, <3>2
    <2>7. Cardinality(Riders) = Cardinality(Free) + sem_can_finish
      BY <2>1, <2>5, CountTypes DEF IInv, TypeOK, Tickets, Owed
    <2> QED
      BY <2>1, <2>4, <2>5, <2>6, <2>7, CountTypes DEF IInv, TypeOK
  <1> QED
    BY Invariance, <1>1, PTL
-----------------------------------------------------------------------------
(* The processes of Bus implement the bus stop of BusStop, for every       *)
(* finite set of riders and every capacity.                                *)

(* What a rider does to the sets the bus stop speaks of.                   *)
LEMMA MoveSets ==
  ASSUME NEW r \in Riders, NEW from, NEW to, TypeOK, RiderGoes(r, from, to)
  PROVE  /\ AtStop' = IF to \in StopPoints THEN AtStop \cup {r} ELSE AtStop \ {r}
         /\ Boarded' = IF to \in BoardedPoints THEN Boarded \cup {r} ELSE Boarded \ {r}
         /\ Free' = IF to \in FreePoints THEN Free \cup {r} ELSE Free \ {r}
         /\ r \in AtStop <=> from \in StopPoints
         /\ r \in Boarded <=> from \in BoardedPoints
         /\ r \in Free <=> from \in FreePoints
  BY DEF TypeOK, RiderGoes, AtStop, Boarded, Free, At, StopPoints, BoardedPoints, FreePoints

LEMMA SameSets ==
  ASSUME UNCHANGED rider
  PROVE  AtStop' = AtStop /\ Boarded' = Boarded /\ Free' = Free
  BY SameRiders DEF AtStop, Boarded, Free

(* No rider is in the queue and aboard, and whoever is let go was aboard.  *)
LEMMA SetsApart ==
  /\ AtStop \cap Boarded = {}
  /\ Free \subseteq Boarded
  /\ Boarded \subseteq Riders
  BY DEF AtStop, Boarded, Free, At

-----------------------------------------------------------------------------
LEMMA StopInit == Init => Stop!Init
  <1> SUFFICES ASSUME Init PROVE Stop!Init
    OBVIOUS
  <1>1. AtStop = {} /\ Boarded = {} /\ Free = {}
    BY DEF Init, At, AtStop, Boarded, Free
  <1> QED
    BY <1>1 DEF Init, Stop!Init, Owed, Seated

(* The riders' steps: three of them are steps of the bus stop.             *)
LEMMA RiderRefines ==
  ASSUME IInv, NEW r \in Riders, RiderStop(r) \/ RiderCount(r) \/ RiderStep(r)
  PROVE  [Stop!Next]_(Stop!vars)
  <1> USE HeldSemaphores, SetsApart DEF IInv, Seated, Owed, StopPoints, BoardedPoints, FreePoints
  <1>1. CASE RiderStop(r)
    <2>1. RiderGoes(r, "stop", "enter")
      BY <1>1 DEF RiderStop
    <2>2. /\ AtStop' = AtStop \cup {r} /\ Boarded' = Boarded /\ Free' = Free
          /\ r \notin AtStop /\ r \notin Boarded
      BY <2>1, MoveSets
    <2>3. bus \notin {"post", "waitBoarded"}
      BY <1>1 DEF RiderStop, BusHoldsStop
    <2>4. Stop!Join(r)
      BY <1>1, <2>1, <2>2, <2>3 DEF RiderStop, RiderGoes, Stop!Join
    <2> QED
      BY <2>4 DEF Stop!Next
  <1>2. CASE RiderWaitBus(r)
    <2>1. RiderGoes(r, "waitBus", "boarding")
      BY <1>2 DEF RiderWaitBus
    <2>2. /\ AtStop' = AtStop \ {r} /\ Boarded' = Boarded \cup {r} /\ Free' = Free
          /\ r \in AtStop /\ r \notin Boarded
      BY <2>1, MoveSets
    <2>3. bus = "waitBoarded" /\ sem_bus = 1 /\ sem_bus' = 0 /\ i < n /\ n \in Nat /\ i \in Nat
      BY <1>2 DEF RiderWaitBus, TypeOK, StopCount
    <2>4. Stop!Board(r)
      BY <1>2, <2>1, <2>2, <2>3 DEF RiderWaitBus, RiderGoes, Stop!Board
    <2> QED
      BY <2>4 DEF Stop!Next
  <1>3. CASE RiderWaitFinish(r)
    <2>1. RiderGoes(r, "waitFinish", "finish")
      BY <1>3 DEF RiderWaitFinish
    <2>2. /\ AtStop' = AtStop /\ Boarded' = Boarded /\ Free' = Free \cup {r}
          /\ r \in Boarded /\ r \notin Free
      BY <2>1, MoveSets
    <2>3. Stop!Leave(r)
      BY <1>3, <2>1, <2>2 DEF RiderWaitFinish, RiderGoes, Stop!Leave
    <2> QED
      BY <2>3 DEF Stop!Next
  <1>4. ASSUME RiderCount(r) \/ RiderStart(r) \/ RiderEnter(r) \/ RiderLeave(r)
                 \/ RiderBoarding(r) \/ RiderBoarded(r) \/ RiderCounted(r) \/ RiderFinish(r)
        PROVE  UNCHANGED Stop!vars
    <2>1. AtStop' = AtStop /\ Boarded' = Boarded /\ Free' = Free
      BY <1>4, MoveSets DEF RiderCount, RiderStart, RiderEnter, RiderLeave, RiderBoarding,
         RiderBoarded, RiderCounted, RiderFinish
    <2>2. UNCHANGED << bus, n, i, sem_bus, sem_can_finish >>
      BY <1>4 DEF RiderCount, RiderStart, RiderEnter, RiderLeave, RiderBoarding,
         RiderBoarded, RiderCounted, RiderFinish, RiderGoes
    <2> QED
      BY <2>1, <2>2 DEF Stop!vars
  <1> QED
    BY <1>1, <1>2, <1>3, <1>4 DEF RiderStep

(* The bus's steps: opening and closing the door, and letting a rider go.  *)
LEMMA BusRefines ==
  ASSUME IInv, BusAcquire \/ BusStep
  PROVE  [Stop!Next]_(Stop!vars)
  <1> USE HeldSemaphores DEF IInv, TypeOK, Seated, Owed, BusGoes
  <1>0. AtStop' = AtStop /\ Boarded' = Boarded /\ Free' = Free
    BY SameSets DEF BusAcquire, BusStep, BusLog, BusLoop, BusArrival, BusEmptyRelease,
       BusStartBoarding, BusPost, BusWaitBoarded, BusAllBoarded, BusRelease, BusEnd, BusLetGo,
       BusLetGoUpTo
  <1>1. CASE BusStartBoarding
    <2>1. waiting = Cardinality(AtStop) /\ n = Load /\ n > 0
      BY <1>1, CountTypes DEF BusStartBoarding, StopCount
    <2>2. AtStop # {}
      BY <2>1, FS_EmptySet DEF Load
    <2>3. waiting = Stop!Cardinality(AtStop)
      BY <2>1 DEF Stop!Cardinality, Cardinality
    <2>4. Stop!OpenDoor
      BY <1>0, <1>1, <2>1, <2>2, <2>3 DEF BusStartBoarding, Load, Stop!OpenDoor
    <2> QED
      BY <2>4 DEF Stop!Next
  <1>2. CASE BusAllBoarded
    <2>1. Stop!CloseDoor
      BY <1>0, <1>2 DEF BusAllBoarded, sems, Stop!CloseDoor
    <2> QED
      BY <2>1 DEF Stop!Next
  <1>3. CASE BusLetGo /\ i < n
    <2>1. Stop!LetGo
      BY <1>0, <1>3 DEF BusLetGo, BusLetGoUpTo, Stop!LetGo
    <2> QED
      BY <2>1 DEF Stop!Next
  <1>4. CASE BusLetGo /\ ~ i < n
    <2>1. UNCHANGED Stop!vars
      BY <1>0, <1>4 DEF BusLetGo, BusLetGoUpTo, StopCount, Stop!vars
    <2> QED
      BY <2>1
  <1>5. CASE BusWaitBoarded
    <2>1. UNCHANGED Stop!vars
      BY <1>0, <1>5 DEF BusWaitBoarded, Handshake, Stop!vars
    <2> QED
      BY <2>1
  <1>6. CASE BusPost
    <2>1. UNCHANGED Stop!vars
      BY <1>0, <1>6 DEF BusPost, Stop!vars
    <2> QED
      BY <2>1
  <1>7. CASE BusAcquire \/ BusLog \/ BusLoop \/ BusArrival \/ BusEmptyRelease \/ BusRelease
               \/ BusEnd
    <2>1. UNCHANGED Stop!vars
      BY <1>0, <1>7 DEF BusAcquire, BusLog, BusLoop, BusArrival, BusEmptyRelease, BusRelease,
         BusEnd, sems, Stop!vars
    <2> QED
      BY <2>1
  <1> QED
    BY <1>1, <1>2, <1>3, <1>4, <1>5, <1>6, <1>7 DEF BusStep

LEMMA OthersRefine ==
  ASSUME IInv, MainStep \/ ForkRider \/ Exited \/ (\E p \in Procs : LogEnter(p))
  PROVE  UNCHANGED Stop!vars
  <1>1. CASE ForkRider
    <2>1. AtStop' = AtStop /\ Boarded' = Boarded /\ Free' = Free
      BY <1>1 DEF ForkRider, AtStop, Boarded, Free, At, IInv, TypeOK
    <2> QED
      BY <1>1, <2>1 DEF ForkRider, sems, Stop!vars, Seated, Owed
  <1>2. CASE MainStep
    <2>1. AtStop' = AtStop /\ Boarded' = Boarded /\ Free' = Free
      BY <1>2, SameSets DEF MainStep, ForkBus, ForkGenerator, WaitBus, WaitGenerator
    <2> QED
      BY <1>2, <2>1 DEF MainStep, ForkBus, ForkGenerator, WaitBus, WaitGenerator, sems,
         IInv, MainOrder, Stop!vars, Seated, Owed
  <1>3. CASE Exited \/ \E p \in Procs : LogEnter(p)
    <2>1. UNCHANGED << rider, bus, n, i, sem_bus, sem_can_finish >>
      BY <1>3 DEF Exited, LogEnter, vars, sems
    <2> QED
      BY <2>1, SameSets DEF Stop!vars, Seated, Owed
  <1> QED
    BY <1>1, <1>2, <1>3

(* Whatever the interleaving of the processes, the bus stop behaves as     *)
(* BusStop says: the queue frozen while the door is open, exactly          *)
(* min(queue, C) riders taken, and one permission to go for each of them.  *)
THEOREM BusImplementsStop == Spec => StopSpec
  <1>1. IInv /\ [Next]_vars => [Stop!Next]_(Stop!vars)
    <2> SUFFICES ASSUME IInv, [Next]_vars PROVE [Stop!Next]_(Stop!vars)
      OBVIOUS
    <2>1. CASE Next
      BY <2>1, RiderRefines, BusRefines, OthersRefine DEF Next
    <2>2. CASE UNCHANGED vars
      BY <2>2, SameSets DEF vars, sems, Stop!vars, Seated, Owed
    <2> QED
      BY <2>1, <2>2
  <1> QED
    BY <1>1, StopInit, Invariance, PTL DEF Spec, StopSpec, Stop!Spec
=============================================================================
