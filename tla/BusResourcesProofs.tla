------------------------- MODULE BusResourcesProofs -------------------------
(* Theorems about BusResources, for any number of runs of the program.     *)
EXTENDS BusResources, TLAPS

(* What a run has gone through of a list.                                  *)
First(list, n) == {list[j] : j \in 1 .. n}

(* What a run has made, and has to know.                                   *)
Made(r) ==
  /\ pc[r] = "semaphores" => error[r] \/ \A s \in First(Sems, k[r]) : sem[r][s] = r
  /\ pc[r] \in {"memory", "values"} => error[r] \/ \A s \in Names : sem[r][s] = r
  /\ pc[r] = "running" => \A s \in Names : sem[r][s] = r

Memory(r) ==
  /\ pc[r] \in {"off", "semaphores"} => segment[r] = {} /\ shmget[r] = {}
  /\ pc[r] = "memory" => k[r] < 4 /\ segment[r] \cup shmget[r] = First(Segs, k[r])
  /\ pc[r] = "values" => segment[r] \cup shmget[r] = Segments
  /\ pc[r] \in {"running", "unlink"} => segment[r] = Segments
  /\ pc[r] = "remove" => k[r] < 4 /\ segment[r] = Segments \ First(Removed, k[r])
  /\ pc[r] \in {"exited", "failed"} => segment[r] = {"counter"}

(* Who made a name has still to unlink it, unless it is dead.              *)
Owes(r, s) ==
  \/ pc[r] \in {"semaphores", "memory", "values", "running", "dead"}
  \/ pc[r] = "unlink" /\ s \notin First(Sems, k[r])

Owned == \A s \in Names : name[s] # None => Owes(name[s], s)

(* Nobody makes the names again that a run that is alone has unlinked.     *)
Recovers(r) ==
  /\ \A q \in Runs \ {r} : pc[q] \in Ended \cup {"off"}
  /\ pc[r] = "unlink" => \A s \in First(Sems, k[r]) : name[s] = None
  /\ pc[r] \in {"remove", "exited", "failed"} => \A s \in Names : name[s] = None

IInv ==
  /\ TypeOK
  /\ \A r \in Runs : Made(r) /\ Memory(r)
  /\ Owned
  /\ \A r \in alone : Recovers(r)

USE ResourcesAssumption

LEMMA Lists ==
  /\ Len(Sems) = 5 /\ Len(Segs) = 4 /\ Len(Removed) = 4
  /\ \A j \in 1 .. 5 : Sems[j] \in Names
  /\ First(Sems, 5) = Names /\ First(Segs, 4) = Segments
  /\ Segments \ First(Removed, 4) = {"counter"}
<1>1. Len(Sems) = 5 /\ Len(Segs) = 4 /\ Len(Removed) = 4
  BY DEF Sems, Segs, Removed
<1>2. First(Sems, 5) = Names /\ First(Segs, 4) = Segments
  BY <1>1 DEF First, Names, Segments
<1>3. \A j \in 1 .. 5 : Sems[j] \in Names
  BY <1>2 DEF First
<1>4. 1 .. 4 = {1, 2, 3, 4}
  OBVIOUS
<1>5. Segments = {"waiting", "counter", "transported", "ridCounter"}
  <2>1. Segments = {Segs[1], Segs[2], Segs[3], Segs[4]}
    BY <1>2, <1>4 DEF First
  <2> QED
    BY <2>1 DEF Segs
<1>6. First(Removed, 4) = {"waiting", "transported", "ridCounter"}
  <2>1. First(Removed, 4) = {Removed[1], Removed[2], Removed[3], Removed[4]}
    BY <1>4 DEF First
  <2> QED
    BY <2>1 DEF Removed
<1> QED
  BY <1>1, <1>2, <1>3, <1>5, <1>6

LEMMA FirstNext ==
  ASSUME NEW list, NEW n \in Nat
  PROVE  First(list, 0) = {} /\ First(list, n + 1) = First(list, n) \cup {list[n + 1]}
<1>1. 1 .. 0 = {} /\ 1 .. (n + 1) = (1 .. n) \cup {n + 1}
  OBVIOUS
<1> QED
  BY <1>1 DEF First

(* What a run that steps through a list does, and where it stops.          *)
LEMMA StepsCases ==
  ASSUME TypeOK, NEW r \in Runs, NEW len \in {4, 5}, NEW to, k[r] < len, Steps(r, len, to)
  PROVE  \/ k[r] + 1 < len /\ pc' = pc /\ k' = [k EXCEPT ![r] = k[r] + 1]
         \/ k[r] + 1 = len /\ Goes(r, to)
BY DEF TypeOK, Steps, Lists

LEMMA InvErased == IInv => PrivateSemaphores /\ Erased
<1> SUFFICES ASSUME IInv PROVE PrivateSemaphores /\ Erased
  OBVIOUS
<1>1. PrivateSemaphores
  BY DEF IInv, Made, PrivateSemaphores
<1>2. NamesErased
  <2> SUFFICES ASSUME \A r \in Runs : pc[r] \in {"off", "exited", "failed"}, NEW s \in Names, name[s] # None PROVE FALSE
    BY DEF NamesErased
  <2>1. name[s] \in Runs
    BY DEF IInv, TypeOK
  <2> QED
    BY <2>1 DEF IInv, Owned, Owes
<1>3. NextRunRecovers
  BY DEF IInv, Recovers, NextRunRecovers
<1>4. SegmentsErased
  BY DEF IInv, Memory, SegmentsErased
<1> QED
  BY <1>1, <1>2, <1>3, <1>4 DEF Erased

LEMMA InitIInv == Init => IInv
<1> SUFFICES ASSUME Init PROVE IInv
  OBVIOUS
<1>1. TypeOK
  BY Lists DEF Init, TypeOK, Points, Ended
<1>2. \A r \in Runs : Made(r) /\ Memory(r)
  BY DEF Init, Made, Memory
<1>3. Owned /\ \A r \in alone : Recovers(r)
  BY DEF Init, Owned
<1> QED
  BY <1>1, <1>2, <1>3 DEF IInv

(* One run of those that are alive makes a step; if it is alone, it stays  *)
(* so.                                                                     *)
Only(r) ==
  \A q \in Runs \ {r} :
    /\ pc'[q] = pc[q] /\ k'[q] = k[q] /\ sem'[q] = sem[q]
    /\ segment'[q] = segment[q] /\ shmget'[q] = shmget[q] /\ error'[q] = error[q]

LEMMA OneRun ==
  ASSUME IInv, NEW r \in Runs, r \in Alive, alone' = alone, Only(r),
         TypeOK', Made(r)', Memory(r)', Owned',
         r \in alone =>
           /\ pc'[r] = "unlink" => \A s \in First(Sems, k'[r]) : name'[s] = None
           /\ pc'[r] \in {"remove", "exited", "failed"} => \A s \in Names : name'[s] = None
  PROVE  IInv'
<1>1. \A q \in Runs : Made(q)' /\ Memory(q)'
  <2> SUFFICES ASSUME NEW q \in Runs \ {r} PROVE Made(q)' /\ Memory(q)'
    OBVIOUS
  <2>1. Made(q)'
    BY DEF Only, IInv, Made
  <2>2. Memory(q)'
    BY DEF Only, IInv, Memory
  <2> QED
    BY <2>1, <2>2
<1>2. \A q \in alone : q = r
  BY DEF Alive, IInv, TypeOK, Recovers
<1>3. \A q \in alone' : Recovers(q)'
  BY <1>2 DEF Only, IInv, Recovers
<1> QED
  BY <1>1, <1>3 DEF IInv

(* The names are as they were, and their makers have still to unlink them. *)
LEMMA OwnedKept ==
  ASSUME IInv, NEW r \in Runs, Only(r), name' = name, \A s \in Names : Owes(r, s) => Owes(r, s)'
  PROVE  Owned'
<1> SUFFICES ASSUME NEW s \in Names, name[s] # None PROVE Owes(name[s], s)'
  BY DEF Owned
<1> PICK q \in Runs : q = name[s]
  BY DEF IInv, TypeOK
<1>1. Owes(q, s)
  BY DEF IInv, Owned
<1>2. Owes(q, s)'
  BY <1>1 DEF Owes, Only
<1> QED
  BY <1>2

LEMMA GoesOnly ==
  ASSUME TypeOK, NEW r \in Runs, NEW to \in Points, Goes(r, to)
  PROVE  /\ pc'[r] = to /\ k'[r] = 0
         /\ pc' \in [Runs -> Points] /\ k' \in [Runs -> 0 .. Len(Sems) - 1]
         /\ \A q \in Runs \ {r} : pc'[q] = pc[q] /\ k'[q] = k[q]
BY Lists DEF TypeOK, Goes

LEMMA StepsOnly ==
  ASSUME TypeOK, NEW r \in Runs, NEW len \in {4, 5}, NEW to \in Points, k[r] < len, Steps(r, len, to)
  PROVE  /\ \/ k[r] + 1 < len /\ pc'[r] = pc[r] /\ k'[r] = k[r] + 1
            \/ k[r] + 1 = len /\ pc'[r] = to /\ k'[r] = 0
         /\ pc' \in [Runs -> Points] /\ k' \in [Runs -> 0 .. Len(Sems) - 1]
         /\ \A q \in Runs \ {r} : pc'[q] = pc[q] /\ k'[q] = k[q]
<1>1. CASE k[r] + 1 < len /\ pc' = pc /\ k' = [k EXCEPT ![r] = k[r] + 1]
  <2>1. k \in [Runs -> 0 .. 4] /\ pc \in [Runs -> Points]
    BY Lists DEF TypeOK
  <2>2. k' \in [Runs -> 0 .. 4] /\ k'[r] = k[r] + 1
    BY <1>1, <2>1
  <2> QED
    BY <1>1, <2>1, <2>2, Lists
<1>2. CASE k[r] + 1 = len /\ Goes(r, to)
  BY <1>2, GoesOnly
<1> QED
  BY <1>1, <1>2, StepsCases

(* A run that starts has made nothing; it is alone if nobody is alive.     *)
LEMMA StartStep == ASSUME IInv, NEW r \in Runs, Start(r) PROVE IInv'
<1>1. PICK to \in {"semaphores", "dead"} : Goes(r, to)
  BY DEF Start
<1>2. pc[r] = "off" /\ UNCHANGED << name, sem, segment, shmget, error >> /\ alone' = IF Alive = {} THEN {r} ELSE {}
  BY DEF Start
<1>3. /\ pc'[r] = to /\ k'[r] = 0
      /\ pc' \in [Runs -> Points] /\ k' \in [Runs -> 0 .. Len(Sems) - 1]
      /\ \A q \in Runs \ {r} : pc'[q] = pc[q] /\ k'[q] = k[q]
  BY <1>1, GoesOnly DEF IInv, Points, Ended
<1>4. TypeOK'
  BY <1>2, <1>3 DEF IInv, TypeOK
<1>5. First(Sems, 0) = {}
  BY FirstNext
<1>6. Made(r)' /\ Memory(r)'
  BY <1>2, <1>3, <1>5 DEF IInv, Made, Memory
<1>7. \A q \in Runs \ {r} : Made(q)' /\ Memory(q)'
  <2> SUFFICES ASSUME NEW q \in Runs \ {r} PROVE Made(q)' /\ Memory(q)'
    OBVIOUS
  <2>1. Made(q)'
    BY <1>2, <1>3 DEF IInv, Made
  <2>2. Memory(q)'
    BY <1>2, <1>3 DEF IInv, Memory
  <2> QED
    BY <2>1, <2>2
<1>8. Owned'
  <2>1. Only(r)
    BY <1>2, <1>3 DEF Only
  <2> QED
    BY <1>2, <2>1, OwnedKept DEF Owes
<1>9. \A q \in alone' : Recovers(q)'
  BY <1>2, <1>3 DEF Alive, Recovers
<1> QED
  BY <1>4, <1>6, <1>7, <1>8, <1>9 DEF IInv

LEMMA OpenSemaphoreStep == ASSUME IInv, NEW r \in Runs, OpenSemaphore(r) PROVE IInv'
<1>1. PICK s : s = Sems[k[r] + 1]
  OBVIOUS
<1>2. /\ pc[r] = "semaphores" /\ Steps(r, 5, "memory")
      /\ UNCHANGED << segment, shmget, alone >>
      /\ \/ name[s] = None /\ name' = [name EXCEPT ![s] = r] /\ sem' = [sem EXCEPT ![r][s] = r] /\ error' = error
         \/ error' = [error EXCEPT ![r] = TRUE] /\ UNCHANGED << name, sem >>
  BY <1>1, Lists DEF OpenSemaphore
<1>3. k[r] \in 0 .. 4
  BY Lists DEF IInv, TypeOK
<1>4. /\ \/ k[r] + 1 < 5 /\ pc'[r] = pc[r] /\ k'[r] = k[r] + 1
         \/ k[r] + 1 = 5 /\ pc'[r] = "memory" /\ k'[r] = 0
      /\ pc' \in [Runs -> Points] /\ k' \in [Runs -> 0 .. Len(Sems) - 1]
      /\ \A q \in Runs \ {r} : pc'[q] = pc[q] /\ k'[q] = k[q]
  BY <1>2, <1>3, StepsOnly DEF IInv, Points
<1>5. s \in Names /\ First(Sems, k[r] + 1) = First(Sems, k[r]) \cup {s}
  BY <1>1, <1>3, Lists, FirstNext
<1>6. /\ sem' \in [Runs -> [Names -> Runs \cup {None}]] /\ name' \in [Names -> Runs \cup {None}]
      /\ error' \in [Runs -> BOOLEAN]
  <2>1. /\ sem \in [Runs -> [Names -> Runs \cup {None}]] /\ name \in [Names -> Runs \cup {None}]
        /\ error \in [Runs -> BOOLEAN]
    BY DEF IInv, TypeOK
  <2>2. error' \in [Runs -> BOOLEAN]
    BY <1>2, <2>1
  <2>3. name' \in [Names -> Runs \cup {None}]
    BY <1>2, <2>1
  <2>4. sem' \in [Runs -> [Names -> Runs \cup {None}]]
    BY <1>2, <1>5, <2>1
  <2> QED
    BY <2>2, <2>3, <2>4
<1>7. TypeOK'
  BY <1>2, <1>4, <1>6 DEF IInv, TypeOK
<1>8. Only(r)
  BY <1>2, <1>4 DEF IInv, TypeOK, Only
<1>9. pc'[r] \in {"semaphores", "memory"}
  BY <1>2, <1>4
<1>10. error'[r] \/ \A t \in First(Sems, k[r] + 1) : sem'[r][t] = r
  <2>1. /\ sem \in [Runs -> [Names -> Runs \cup {None}]] /\ error \in [Runs -> BOOLEAN]
    BY DEF IInv, TypeOK
  <2>2. error[r] \/ \A t \in First(Sems, k[r]) : sem[r][t] = r
    BY <1>2 DEF IInv, Made
  <2>3. \A t \in First(Sems, k[r]) : t \in Names
    <3>1. \A j \in 1 .. k[r] : j \in 1 .. 5
      BY <1>3
    <3> QED
      BY <3>1, Lists DEF First
  <2>4. CASE error' = error /\ sem' = [sem EXCEPT ![r][s] = r]
    <3>1. sem'[r][s] = r /\ \A t \in Names : sem[r][t] = r => sem'[r][t] = r
      BY <1>5, <2>1, <2>4
    <3> QED
      BY <1>5, <2>2, <2>3, <2>4, <3>1
  <2>5. CASE error' = [error EXCEPT ![r] = TRUE]
    BY <2>1, <2>5
  <2> QED
    BY <1>2, <2>4, <2>5
<1>11. Made(r)'
  <2>1. CASE k'[r] = k[r] + 1 /\ pc'[r] = "semaphores"
    BY <1>10, <2>1 DEF Made
  <2>2. CASE k[r] + 1 = 5 /\ pc'[r] = "memory"
    BY <1>10, <2>2, Lists DEF Made
  <2> QED
    BY <1>2, <1>4, <2>1, <2>2
<1>12. Memory(r)'
  <2>1. segment'[r] = {} /\ shmget'[r] = {}
    BY <1>2 DEF IInv, Memory
  <2>2. pc'[r] = "memory" => k'[r] = 0
    BY <1>2, <1>4
  <2>3. First(Segs, 0) = {}
    BY FirstNext
  <2> QED
    BY <1>9, <2>1, <2>2, <2>3 DEF Memory
<1>13. Owned'
  <2> SUFFICES ASSUME NEW t \in Names, NEW q, q = name'[t], q # None PROVE Owes(q, t)'
    BY DEF Owned
  <2>1. CASE q = r
    BY <1>9, <2>1 DEF Owes
  <2>2. CASE q # r
    <3>1. q \in Runs \ {r}
      BY <1>6, <2>2
    <3>2. name[t] = q
      BY <1>2, <2>2, <3>1 DEF IInv, TypeOK
    <3>3. Owes(q, t)
      BY <3>2 DEF IInv, Owned
    <3>4. pc'[q] = pc[q] /\ k'[q] = k[q]
      BY <1>4, <3>1
    <3>5. Owes(q, t)'
      BY <3>3, <3>4 DEF Owes
    <3> QED
      BY <3>5
  <2> QED
    BY <2>1, <2>2
<1> QED
  BY <1>2, <1>7, <1>8, <1>9, <1>11, <1>12, <1>13, OneRun DEF Alive, Ended

LEMMA MakeSegmentStep == ASSUME IInv, NEW r \in Runs, MakeSegment(r) PROVE IInv'
<1>1. PICK s : s = Segs[k[r] + 1]
  OBVIOUS
<1>2. /\ pc[r] = "memory" /\ Steps(r, 4, "values")
      /\ UNCHANGED << name, sem, alone >>
      /\ \/ segment' = [segment EXCEPT ![r] = @ \cup {s}] /\ UNCHANGED << shmget, error >>
         \/ /\ shmget' = [shmget EXCEPT ![r] = @ \cup {s}]
            /\ error' = [error EXCEPT ![r] = TRUE]
            /\ UNCHANGED segment
  BY <1>1, Lists DEF MakeSegment
<1>3. k[r] \in 0 .. 3
  BY <1>2, Lists DEF IInv, TypeOK, Memory
<1>4. /\ \/ k[r] + 1 < 4 /\ pc'[r] = pc[r] /\ k'[r] = k[r] + 1
         \/ k[r] + 1 = 4 /\ pc'[r] = "values" /\ k'[r] = 0
      /\ pc' \in [Runs -> Points] /\ k' \in [Runs -> 0 .. Len(Sems) - 1]
      /\ \A q \in Runs \ {r} : pc'[q] = pc[q] /\ k'[q] = k[q]
  BY <1>2, <1>3, StepsOnly DEF IInv, Points
<1>5. s \in Segments /\ First(Segs, k[r] + 1) = First(Segs, k[r]) \cup {s}
  <2>1. s \in First(Segs, 4)
    BY <1>1, <1>3 DEF First
  <2> QED
    BY <1>1, <1>3, <2>1, Lists, FirstNext
<1>6. TypeOK'
  <2>1. /\ segment \in [Runs -> SUBSET Segments] /\ shmget \in [Runs -> SUBSET Segments]
        /\ error \in [Runs -> BOOLEAN]
    BY DEF IInv, TypeOK
  <2>2. /\ segment' \in [Runs -> SUBSET Segments] /\ shmget' \in [Runs -> SUBSET Segments]
        /\ error' \in [Runs -> BOOLEAN]
    <3>1. CASE segment' = [segment EXCEPT ![r] = @ \cup {s}] /\ UNCHANGED << shmget, error >>
      BY <1>5, <2>1, <3>1
    <3>2. CASE /\ shmget' = [shmget EXCEPT ![r] = @ \cup {s}]
               /\ error' = [error EXCEPT ![r] = TRUE] /\ UNCHANGED segment
      BY <1>5, <2>1, <3>2
    <3> QED
      BY <1>2, <3>1, <3>2
  <2> QED
    BY <1>2, <1>4, <2>2 DEF IInv, TypeOK
<1>7. Only(r)
  BY <1>2, <1>4 DEF IInv, TypeOK, Only
<1>8. pc'[r] \in {"memory", "values"}
  BY <1>2, <1>4
<1>9. Made(r)'
  <2>1. error'[r] \/ \A t \in Names : sem'[r][t] = r
    BY <1>2 DEF IInv, TypeOK, Made
  <2> QED
    BY <1>8, <2>1 DEF Made
<1>10. segment'[r] \cup shmget'[r] = First(Segs, k[r] + 1)
  BY <1>2, <1>5 DEF IInv, TypeOK, Memory
<1>11. Memory(r)'
  <2>1. CASE k[r] + 1 < 4 /\ pc'[r] = "memory" /\ k'[r] = k[r] + 1
    BY <1>10, <2>1 DEF Memory
  <2>2. CASE k[r] + 1 = 4 /\ pc'[r] = "values"
    BY <1>10, <2>2, Lists DEF Memory
  <2> QED
    BY <1>2, <1>4, <2>1, <2>2
<1>12. Owned'
  BY <1>2, <1>7, <1>8, OwnedKept DEF Owes
<1> QED
  BY <1>2, <1>6, <1>7, <1>8, <1>9, <1>11, <1>12, OneRun DEF Alive, Ended

(* A step that only goes somewhere else: set_values, the end of the        *)
(* simulation, a signal.                                                   *)
LEMMA GoesStep ==
  ASSUME IInv, NEW r \in Runs, r \in Alive, NEW to \in {"running", "unlink", "dead"}, Goes(r, to),
         UNCHANGED << name, sem, segment, shmget, error, alone >>,
         to \in {"running", "unlink"} => pc[r] \in {"values", "running"} /\ segment[r] = Segments,
         to = "running" => \A s \in Names : sem[r][s] = r
  PROVE  IInv'
<1>1. /\ pc'[r] = to /\ k'[r] = 0
      /\ pc' \in [Runs -> Points] /\ k' \in [Runs -> 0 .. Len(Sems) - 1]
      /\ \A q \in Runs \ {r} : pc'[q] = pc[q] /\ k'[q] = k[q]
  BY GoesOnly DEF IInv, Points, Ended
<1>2. TypeOK' /\ Only(r)
  BY <1>1 DEF IInv, TypeOK, Only
<1>3. First(Sems, 0) = {}
  BY FirstNext
<1>4. Made(r)' /\ Memory(r)'
  BY <1>1 DEF Made, Memory
<1>5. Owned'
  BY <1>1, <1>2, <1>3, OwnedKept DEF Owes
<1> QED
  BY <1>1, <1>2, <1>3, <1>4, <1>5, OneRun

LEMMA SetValuesStep == ASSUME IInv, NEW r \in Runs, SetValues(r) PROVE IInv'
<1>1. /\ pc[r] = "values"
      /\ Goes(r, IF shmget[r] # {} THEN "dead" ELSE IF error[r] THEN "unlink" ELSE "running")
      /\ UNCHANGED << name, sem, segment, shmget, error, alone >>
  BY DEF SetValues
<1>2. r \in Alive
  BY <1>1 DEF Alive, Ended
<1>3. error[r] \/ \A s \in Names : sem[r][s] = r
  BY <1>1 DEF IInv, Made
<1>4. shmget[r] = {} => segment[r] = Segments
  BY <1>1 DEF IInv, Memory
<1>5. CASE shmget[r] # {}
  BY <1>1, <1>2, <1>5, GoesStep
<1>6. CASE shmget[r] = {} /\ error[r]
  BY <1>1, <1>2, <1>4, <1>6, GoesStep
<1>7. CASE shmget[r] = {} /\ ~ error[r]
  BY <1>1, <1>2, <1>3, <1>4, <1>7, GoesStep
<1> QED
  BY <1>5, <1>6, <1>7

LEMMA SimulatedStep == ASSUME IInv, NEW r \in Runs, Simulated(r) PROVE IInv'
<1>1. /\ pc[r] = "running"
      /\ Goes(r, "unlink") \/ Goes(r, "dead")
      /\ UNCHANGED << name, sem, segment, shmget, error, alone >>
  BY DEF Simulated
<1>2. r \in Alive
  BY <1>1 DEF Alive, Ended
<1>3. segment[r] = Segments
  BY <1>1 DEF IInv, Memory
<1> QED
  BY <1>1, <1>2, <1>3, GoesStep

LEMMA KilledStep == ASSUME IInv, NEW r \in Runs, Killed(r) PROVE IInv'
BY GoesStep DEF Killed

(* Any run unlinks a name, whoever made it.                                *)
LEMMA UnlinkStep == ASSUME IInv, NEW r \in Runs, Unlink(r) PROVE IInv'
<1>1. PICK s : s = Sems[k[r] + 1]
  OBVIOUS
<1>2. /\ pc[r] = "unlink" /\ Steps(r, 5, "remove")
      /\ name' = [name EXCEPT ![s] = None]
      /\ UNCHANGED << sem, segment, shmget, error, alone >>
  BY <1>1, Lists DEF Unlink, UnlinkUpTo
<1>3. k[r] \in 0 .. 4
  BY Lists DEF IInv, TypeOK
<1>4. /\ \/ k[r] + 1 < 5 /\ pc'[r] = pc[r] /\ k'[r] = k[r] + 1
         \/ k[r] + 1 = 5 /\ pc'[r] = "remove" /\ k'[r] = 0
      /\ pc' \in [Runs -> Points] /\ k' \in [Runs -> 0 .. Len(Sems) - 1]
      /\ \A q \in Runs \ {r} : pc'[q] = pc[q] /\ k'[q] = k[q]
  BY <1>2, <1>3, StepsOnly DEF IInv, Points
<1>5. s \in Names /\ First(Sems, k[r] + 1) = First(Sems, k[r]) \cup {s}
  BY <1>1, <1>3, Lists, FirstNext
<1>6. name \in [Names -> Runs \cup {None}] /\ name' \in [Names -> Runs \cup {None}]
  BY <1>2, <1>5 DEF IInv, TypeOK
<1>7. TypeOK' /\ Only(r)
  BY <1>2, <1>4, <1>6 DEF IInv, TypeOK, Only
<1>8. CASE k[r] + 1 < 5 /\ pc'[r] = "unlink" /\ k'[r] = k[r] + 1
  <2>1. Made(r)' /\ Memory(r)'
    BY <1>2, <1>8 DEF IInv, Made, Memory
  <2>2. \A t \in Names : Owes(r, t) /\ t # s => Owes(r, t)'
    BY <1>2, <1>5, <1>8 DEF Owes
  <2>3. ASSUME NEW t \in Names, NEW q, q = name'[t], q # None PROVE Owes(q, t)'
    <3>1. q = name[t] /\ t # s /\ q \in Runs
      BY <1>2, <1>6, <2>3
    <3>2. Owes(q, t)
      BY <2>3, <3>1 DEF IInv, Owned
    <3>3. CASE q = r
      BY <2>2, <3>1, <3>2, <3>3
    <3>4. CASE q # r
      <4>1. pc'[q] = pc[q] /\ k'[q] = k[q]
        BY <1>4, <3>1, <3>4
      <4> QED
        BY <3>2, <4>1 DEF Owes
    <3> QED
      BY <3>3, <3>4
  <2>4. Owned'
    BY <2>3 DEF Owned
  <2>5. r \in alone => \A t \in First(Sems, k[r] + 1) : name'[t] = None
    BY <1>2, <1>5, <1>6 DEF IInv, Recovers
  <2> QED
    BY <1>2, <1>7, <1>8, <2>1, <2>4, <2>5, OneRun DEF Alive, Ended
<1>9. CASE k[r] + 1 = 5 /\ pc'[r] = "remove" /\ k'[r] = 0
  <2>1. First(Sems, k[r]) \cup {s} = Names
    BY <1>5, <1>9, Lists
  <2>2. Made(r)'
    BY <1>9 DEF Made
  <2>3. Memory(r)'
    <3>1. First(Removed, 0) = {}
      BY FirstNext
    <3>2. segment'[r] = Segments
      BY <1>2 DEF IInv, Memory
    <3>3. k'[r] = 0 /\ k'[r] < 4
      BY <1>9
    <3> QED
      BY <1>9, <3>1, <3>2, <3>3 DEF Memory
  <2>4. ASSUME NEW t \in Names, NEW q, q = name'[t], q # None PROVE Owes(q, t)'
    <3>1. q = name[t] /\ t # s /\ q \in Runs
      BY <1>2, <1>6, <2>4
    <3>2. Owes(q, t)
      BY <2>4, <3>1 DEF IInv, Owned
    <3>3. q # r
      BY <1>2, <2>1, <3>1, <3>2 DEF Owes
    <3>4. pc'[q] = pc[q] /\ k'[q] = k[q]
      BY <1>4, <3>1, <3>3
    <3> QED
      BY <3>2, <3>4 DEF Owes
  <2>5. Owned'
    BY <2>4 DEF Owned
  <2>6. r \in alone => \A t \in Names : name'[t] = None
    BY <1>2, <1>6, <2>1 DEF IInv, Recovers
  <2> QED
    BY <1>2, <1>7, <1>9, <2>2, <2>3, <2>5, <2>6, OneRun DEF Alive, Ended
<1> QED
  BY <1>2, <1>4, <1>8, <1>9

LEMMA RemoveStep == ASSUME IInv, NEW r \in Runs, Remove(r) PROVE IInv'
<1>1. PICK s : s = Removed[k[r] + 1]
  OBVIOUS
<1>2. PICK to \in {"failed", "exited"} :
        /\ pc[r] = "remove" /\ Steps(r, 4, to)
        /\ segment' = [segment EXCEPT ![r] = @ \ {s}]
        /\ UNCHANGED << name, sem, shmget, error, alone >>
  BY <1>1, Lists DEF Remove
<1>3. k[r] \in 0 .. 3 /\ segment[r] = Segments \ First(Removed, k[r])
  BY <1>2, Lists DEF IInv, TypeOK, Memory
<1>4. /\ \/ k[r] + 1 < 4 /\ pc'[r] = pc[r] /\ k'[r] = k[r] + 1
         \/ k[r] + 1 = 4 /\ pc'[r] = to /\ k'[r] = 0
      /\ pc' \in [Runs -> Points] /\ k' \in [Runs -> 0 .. Len(Sems) - 1]
      /\ \A q \in Runs \ {r} : pc'[q] = pc[q] /\ k'[q] = k[q]
  BY <1>2, <1>3, StepsOnly DEF IInv, Points, Ended
<1>5. First(Removed, k[r] + 1) = First(Removed, k[r]) \cup {s}
  BY <1>1, <1>3, FirstNext
<1>6. segment' \in [Runs -> SUBSET Segments] /\ segment'[r] = Segments \ First(Removed, k[r] + 1)
  BY <1>2, <1>3, <1>5 DEF IInv, TypeOK
<1>7. TypeOK' /\ Only(r)
  BY <1>2, <1>4, <1>6 DEF IInv, TypeOK, Only
<1>8. pc'[r] \in {"remove", "failed", "exited"}
  BY <1>2, <1>4
<1>9. Made(r)'
  BY <1>8 DEF Made
<1>10. Memory(r)'
  <2>1. CASE k[r] + 1 < 4 /\ pc'[r] = "remove" /\ k'[r] = k[r] + 1
    BY <1>6, <2>1 DEF Memory
  <2>2. CASE k[r] + 1 = 4 /\ pc'[r] = to
    <3>1. segment'[r] = {"counter"}
      BY <1>6, <2>2, Lists
    <3> QED
      BY <2>2, <3>1 DEF Memory
  <2> QED
    BY <1>2, <1>4, <2>1, <2>2
<1>11. \A t \in Names : ~ Owes(r, t)
  BY <1>2 DEF Owes
<1>12. Owned'
  BY <1>2, <1>7, <1>11, OwnedKept
<1>13. r \in alone => \A t \in Names : name'[t] = None
  BY <1>2 DEF IInv, Recovers
<1> QED
  BY <1>2, <1>7, <1>8, <1>9, <1>10, <1>12, <1>13, OneRun DEF Alive, Ended

LEMMA NextIInv == IInv /\ [Next]_vars => IInv'
<1> SUFFICES ASSUME IInv, [Next]_vars PROVE IInv'
  OBVIOUS
<1>1. CASE \E r \in Runs : RunStep(r)
  BY <1>1, StartStep, OpenSemaphoreStep, MakeSegmentStep, SetValuesStep, SimulatedStep, UnlinkStep,
     RemoveStep DEF RunStep
<1>2. CASE \E r \in Runs : Killed(r)
  BY <1>2, KilledStep
<1>3. CASE UNCHANGED vars
  <2> USE <1>3 DEF vars
  <2>1. TypeOK'
    BY DEF IInv, TypeOK
  <2>2. \A r \in Runs : Made(r)' /\ Memory(r)'
    BY DEF IInv, Made, Memory
  <2>3. Owned' /\ \A r \in alone' : Recovers(r)'
    BY DEF IInv, Owned, Owes, Recovers
  <2> QED
    BY <2>1, <2>2, <2>3 DEF IInv
<1> QED
  BY <1>1, <1>2, <1>3 DEF Next, Over

LEMMA Invariance == Spec => []IInv
BY InitIInv, NextIInv, PTL DEF Spec

(* However many runs there are at the same time, and whichever of them are *)
(* killed: a simulation has its semaphores for itself (set_resources).     *)
THEOREM SemaphoresArePrivate == Spec => []PrivateSemaphores
BY Invariance, InvErased, PTL

(* And what they leave behind is at most the segment of counter, which     *)
(* clean_resources forgets, and what a run that was killed had made.       *)
THEOREM ErasedInvariant == Spec => []Erased
BY Invariance, InvErased, PTL
=============================================================================
