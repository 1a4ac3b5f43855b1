----------------------------- MODULE PsedProofs -----------------------------
(***************************************************************************)
(* Proofs about Psed, for every number of threads and every length of the  *)
(* input.  A line is a round: while main is at "wake", "spin" or "test",   *)
(* the threads it has unlocked and whose number threadIdDone has not       *)
(* reached are at work on the line, and only the one threadIdDone names    *)
(* is beyond its waiting loop.  Outside of a round no thread is beyond the *)
(* lock() it waits at.  IInv states this, with who holds which mutex.      *)
(***************************************************************************)
EXTENDS Psed, Integers, TLAPS

Woken(t) ==
  \/ main \in {"wake", "exitWake"} /\ t < j
  \/ main \in {"spin", "test", "join", "done"}
Ending == main \in {"exitWake", "join", "done"}

(* Where a thread is, between two rounds, in a round and in the end.       *)
Waits(t) ==
  ~ Woken(t) =>
    /\ t \in zamky /\ pc[t] \in {"unborn", "compile", "lock"}
    /\ pc[t] = "unborn" => main = "create" /\ t >= j
Works(t) ==
  InRound /\ Woken(t) =>
    \/ t < threadIdDone /\ t \in zamky /\ pc[t] = "lock"
    \/ t >= threadIdDone /\ t \notin zamky /\ pc[t] \in {"compile", "lock"}
    \/ t >= threadIdDone /\ t \in zamky /\ pc[t] \in {"check", "replace", "spin", "test"}
    \/ t = threadIdDone /\ t \in zamky /\ pc[t] \in {"out", "print", "inc", "incremented"}
Leaves(t) ==
  /\ Ending /\ Woken(t) =>
       \/ t \notin zamky /\ pc[t] \in {"compile", "lock"}
       \/ t \in zamky /\ pc[t] \in {"check", "done"}
  /\ main = "done" \/ (main = "join" /\ t < j) => pc[t] = "done"
Places == \A t \in Threads : Waits(t) /\ Works(t) /\ Leaves(t)

Mutexes ==
  /\ threadIdMutex = Main <=> main \in {"resetting", "test"}
  /\ \A t \in Threads : threadIdMutex = t <=> pc[t] \in {"test", "incremented"}
  /\ stdOutMutex # Main
  /\ \A t \in Threads : stdOutMutex = t <=> pc[t] = "print"

(* The loop variable, the turn and the line, by the program point of main. *)
Progress ==
  /\ main \notin {"create", "wake", "exitWake", "join"} => j = 0
  /\ main = "wake" => threadIdDone <= j
  /\ main = "freeLine" => threadIdDone = N
  /\ IF main \in {"reset", "resetting", "wake", "spin", "test", "freeLine"}
       THEN taken > 0 /\ line = taken /\ live = {taken}
       ELSE line = 0 /\ live = {}

(* How much has been printed.                                              *)
Printed ==
  Len(out) =
    CASE InRound -> N * (taken - 1) + threadIdDone + (IF Printing THEN 1 ELSE 0)
      [] main \in {"reset", "resetting"} -> N * (taken - 1)
      [] OTHER -> N * taken

IInv == TypeOK /\ Places /\ Mutexes /\ Progress /\ Printed

-----------------------------------------------------------------------------
LEMMA NumberOfThreads == N \in Nat /\ N > 0 /\ MaxLines \in Nat
BY PsedAssumption

(* The only facts about products that are needed.                          *)
LEMMA Products ==
  ASSUME NEW k \in Nat
  PROVE  /\ N * ((k + 1) - 1) = N * k
         /\ N * (k - 1) + N = N * k
         /\ N * k \in Int /\ N * (k - 1) \in Int
<1>1. N \in Int /\ k \in Int
  BY NumberOfThreads
<1>2. (k + 1) - 1 = k
  BY <1>1
<1>3. N * (k - 1) + N = N * k
  BY <1>1
<1> QED
  BY <1>1, <1>2, <1>3

(* Only in a round is a thread beyond its loop, and it is the only one.    *)
LEMMA Turn ==
  ASSUME IInv, NEW t \in Threads, pc[t] \in {"replace", "spin", "test", "out", "print", "inc", "incremented"}
  PROVE  /\ InRound /\ Woken(t) /\ t \in zamky
         /\ t >= threadIdDone
         /\ pc[t] \in {"out", "print", "inc", "incremented"} => t = threadIdDone
BY DEF IInv, Places, Waits, Works, Leaves, Woken, InRound, Ending, TypeOK, MainPoints

LEMMA InitInv == Init => IInv
<1> SUFFICES ASSUME Init PROVE IInv
  OBVIOUS
<1> USE NumberOfThreads DEF Init, Threads
<1>1. TypeOK
  BY DEF TypeOK, MainPoints, Points, Owners, Free, Main
<1>2. Places
  BY DEF Places, Waits, Works, Leaves, Woken, InRound, Ending
<1>3. Mutexes
  BY DEF Mutexes, Free, Main
<1>4. Progress
  BY DEF Progress
<1>5. Printed
  BY DEF Printed, InRound
<1> QED
  BY <1>1, <1>2, <1>3, <1>4, <1>5 DEF IInv

LEMMA MainCreateInv == ASSUME IInv, MainCreate PROVE IInv'
<1> USE NumberOfThreads DEF IInv, MainCreate, MainGoes, Loop, mains, memory, Threads
<1>1. TypeOK'
  BY DEF TypeOK, Owners, Points, MainPoints
<1>2. Places'
  BY DEF TypeOK, Places, Waits, Works, Leaves, Woken, InRound, Ending, Mutexes, Progress
<1>3. Mutexes'
  BY DEF TypeOK, Owners, Mutexes, Free, Main, Places, Waits, Works, Leaves, Woken, InRound, Ending
<1>4. Progress'
  BY DEF TypeOK, Progress, Places, Waits, Works, Leaves, Woken, InRound, Ending
<1>5. Printed'
  BY DEF Printed, Printing, InRound, Ending, TypeOK, Places, Waits, Works, Leaves, Woken, Progress
<1> QED
  BY <1>1, <1>2, <1>3, <1>4, <1>5

LEMMA MainReadInv == ASSUME IInv, MainRead PROVE IInv'
<1> USE NumberOfThreads DEF IInv, MainRead, MainGoes, memory, Threads
<1>1. TypeOK' /\ Progress' /\ Printed'
  <2>1. CASE main' = "reset"
    <3>1. taken < MaxLines /\ taken' = taken + 1 /\ line' = taken + 1 /\ live' = live \cup {taken + 1}
      BY <2>1
    <3>a. taken \in Nat /\ main = "read" /\ live = {} /\ j = 0
      BY DEF TypeOK, Progress
    <3>2. TypeOK'
      BY <2>1, <3>1 DEF TypeOK, MainPoints
    <3>3. Progress'
      BY <2>1, <3>1, <3>a DEF Progress
    <3>4. Len(out) = N * taken /\ N * (taken' - 1) = N * taken
      <4>1. Len(out) = N * taken
        BY <3>a DEF Printed, InRound
      <4>2. N * ((taken + 1) - 1) = N * taken
        BY <3>a, Products
      <4> QED
        BY <3>1, <4>1, <4>2
    <3>5. Printed'
      BY <2>1, <3>4 DEF Printed, InRound
    <3> QED
      BY <3>2, <3>3, <3>5
  <2>2. CASE main' = "exitWake"
    <3>1. line' = 0 /\ taken' = taken /\ live' = live
      BY <2>2
    <3>2. TypeOK'
      BY <2>2, <3>1 DEF TypeOK, MainPoints
    <3>3. Progress'
      BY <2>2, <3>1 DEF TypeOK, Progress
    <3>4. Printed'
      BY <2>2, <3>1 DEF Printed, InRound
    <3> QED
      BY <3>2, <3>3, <3>4
  <2> QED
    BY <2>1, <2>2
<1>2. Places'
  BY DEF TypeOK, Places, Waits, Works, Leaves, Woken, InRound, Ending, Mutexes, Progress
<1>3. Mutexes'
  BY DEF TypeOK, Owners, Mutexes, Free, Main, Places, Waits, Works, Leaves, Woken, InRound, Ending
<1> QED
  BY <1>1, <1>2, <1>3

LEMMA MainResetInv == ASSUME IInv, MainReset PROVE IInv'
<1> USE NumberOfThreads DEF IInv, MainReset, MainGoes, TakeMain, mains, memory, Threads
<1>1. TypeOK'
  BY DEF TypeOK, Owners, Points, MainPoints
<1>2. Places'
  BY DEF TypeOK, Places, Waits, Works, Leaves, Woken, InRound, Ending, Mutexes, Progress
<1>3. Mutexes'
  BY DEF TypeOK, Owners, Mutexes, Free, Main, Places, Waits, Works, Leaves, Woken, InRound, Ending
<1>4. Progress'
  BY DEF TypeOK, Progress, Places, Waits, Works, Leaves, Woken, InRound, Ending
<1>5. Printed'
  BY DEF Printed, Printing, InRound, Ending, TypeOK, Places, Waits, Works, Leaves, Woken, Progress
<1> QED
  BY <1>1, <1>2, <1>3, <1>4, <1>5

LEMMA MainResetDoneInv == ASSUME IInv, MainResetDone PROVE IInv'
<1> USE NumberOfThreads DEF IInv, MainResetDone, MainGoes, mains, memory, Threads
<1>1. TypeOK'
  BY DEF TypeOK, Owners, Points, MainPoints
<1>2. Places'
  BY DEF TypeOK, Places, Waits, Works, Leaves, Woken, InRound, Ending, Mutexes, Progress
<1>3. Mutexes'
  BY DEF TypeOK, Owners, Mutexes, Free, Main, Places, Waits, Works, Leaves, Woken, InRound, Ending
<1>4. Progress'
  BY DEF TypeOK, Progress, Places, Waits, Works, Leaves, Woken, InRound, Ending
<1>5. Printed'
  <2>1. ~ Printing'
    BY DEF Printing, Places, Waits, Woken, TypeOK
  <2>2. Len(out) = N * (taken - 1) /\ N * (taken - 1) \in Int
    BY Products DEF Printed, TypeOK, InRound
  <2> QED
    BY <2>1, <2>2 DEF Printed, InRound
<1> QED
  BY <1>1, <1>2, <1>3, <1>4, <1>5

LEMMA MainWakeInv == ASSUME IInv, MainWake PROVE IInv'
<1> USE NumberOfThreads DEF IInv, MainWake, MainGoes, Loop, mains, memory, Threads
<1>1. TypeOK'
  BY DEF TypeOK, Owners, Points, MainPoints
<1>2. Places'
  BY DEF TypeOK, Places, Waits, Works, Leaves, Woken, InRound, Ending, Mutexes, Progress
<1>3. Mutexes'
  BY DEF TypeOK, Owners, Mutexes, Free, Main, Places, Waits, Works, Leaves, Woken, InRound, Ending
<1>4. Progress'
  BY DEF TypeOK, Progress, Places, Waits, Works, Leaves, Woken, InRound, Ending
<1>5. Printed'
  BY DEF Printed, Printing, InRound, Ending, TypeOK, Places, Waits, Works, Leaves, Woken, Progress
<1> QED
  BY <1>1, <1>2, <1>3, <1>4, <1>5

LEMMA MainSpinInv == ASSUME IInv, MainSpin PROVE IInv'
<1> USE NumberOfThreads DEF IInv, MainSpin, MainGoes, TakeMain, mains, memory, Threads
<1>1. TypeOK'
  BY DEF TypeOK, Owners, Points, MainPoints
<1>2. Places'
  BY DEF TypeOK, Places, Waits, Works, Leaves, Woken, InRound, Ending, Mutexes, Progress
<1>3. Mutexes'
  BY DEF TypeOK, Owners, Mutexes, Free, Main, Places, Waits, Works, Leaves, Woken, InRound, Ending
<1>4. Progress'
  BY DEF TypeOK, Progress, Places, Waits, Works, Leaves, Woken, InRound, Ending
<1>5. Printed'
  BY DEF Printed, Printing, InRound, Ending, TypeOK, Places, Waits, Works, Leaves, Woken, Progress
<1> QED
  BY <1>1, <1>2, <1>3, <1>4, <1>5

LEMMA MainTestInv == ASSUME IInv, MainTest PROVE IInv'
<1> USE NumberOfThreads DEF IInv, MainTest, MainGoes, MainTestFor, mains, memory, Threads
<1>1. TypeOK'
  BY DEF TypeOK, Owners, Points, MainPoints
<1>2. Places'
  BY DEF TypeOK, Places, Waits, Works, Leaves, Woken, InRound, Ending, Mutexes, Progress
<1>3. Mutexes'
  BY DEF TypeOK, Owners, Mutexes, Free, Main, Places, Waits, Works, Leaves, Woken, InRound, Ending
<1>4. Progress'
  BY DEF TypeOK, Progress, Places, Waits, Works, Leaves, Woken, InRound, Ending
<1>5. Printed'
  <2>1. CASE threadIdDone = N
    <3>1. ~ Printing
      BY <2>1, Turn DEF Printing, TypeOK, IInv
    <3>2. Len(out) = N * taken
      <4>1. Len(out) = N * (taken - 1) + N + 0
        BY <2>1, <3>1 DEF Printed, InRound
      <4>2. taken \in Nat
        BY DEF TypeOK
      <4>3. N * (taken - 1) \in Int /\ N * (taken - 1) + N = N * taken
        BY <4>2, Products
      <4> QED
        BY <4>1, <4>3
    <3> QED
      BY <2>1, <3>2 DEF Printed, InRound
  <2>2. CASE threadIdDone # N
    BY <2>2 DEF Printed, Printing, InRound
  <2> QED
    BY <2>1, <2>2
<1> QED
  BY <1>1, <1>2, <1>3, <1>4, <1>5

LEMMA MainFreeLineInv == ASSUME IInv, MainFreeLine PROVE IInv'
<1> USE NumberOfThreads DEF IInv, MainFreeLine, MainGoes, mains, memory, Threads
<1>1. TypeOK'
  BY DEF TypeOK, Owners, Points, MainPoints
<1>2. Places'
  BY DEF TypeOK, Places, Waits, Works, Leaves, Woken, InRound, Ending, Mutexes, Progress
<1>3. Mutexes'
  BY DEF TypeOK, Owners, Mutexes, Free, Main, Places, Waits, Works, Leaves, Woken, InRound, Ending
<1>4. Progress'
  BY DEF TypeOK, Progress, Places, Waits, Works, Leaves, Woken, InRound, Ending
<1>5. Printed'
  BY DEF Printed, Printing, InRound, Ending, TypeOK, Places, Waits, Works, Leaves, Woken, Progress
<1> QED
  BY <1>1, <1>2, <1>3, <1>4, <1>5

LEMMA MainExitWakeInv == ASSUME IInv, MainExitWake PROVE IInv'
<1> USE NumberOfThreads DEF IInv, MainExitWake, MainGoes, Loop, mains, memory, Threads
<1>1. TypeOK'
  BY DEF TypeOK, Owners, Points, MainPoints
<1>2. Places'
  BY DEF TypeOK, Places, Waits, Works, Leaves, Woken, InRound, Ending, Mutexes, Progress
<1>3. Mutexes'
  BY DEF TypeOK, Owners, Mutexes, Free, Main, Places, Waits, Works, Leaves, Woken, InRound, Ending
<1>4. Progress'
  BY DEF TypeOK, Progress, Places, Waits, Works, Leaves, Woken, InRound, Ending
<1>5. Printed'
  BY DEF Printed, Printing, InRound, Ending, TypeOK, Places, Waits, Works, Leaves, Woken, Progress
<1> QED
  BY <1>1, <1>2, <1>3, <1>4, <1>5

LEMMA MainJoinInv == ASSUME IInv, MainJoin PROVE IInv'
<1> USE NumberOfThreads DEF IInv, MainJoin, MainGoes, Loop, mains, memory, Threads
<1>1. TypeOK'
  BY DEF TypeOK, Owners, Points, MainPoints
<1>2. Places'
  BY DEF TypeOK, Places, Waits, Works, Leaves, Woken, InRound, Ending, Mutexes, Progress
<1>3. Mutexes'
  BY DEF TypeOK, Owners, Mutexes, Free, Main, Places, Waits, Works, Leaves, Woken, InRound, Ending
<1>4. Progress'
  BY DEF TypeOK, Progress, Places, Waits, Works, Leaves, Woken, InRound, Ending
<1>5. Printed'
  BY DEF Printed, Printing, InRound, Ending, TypeOK, Places, Waits, Works, Leaves, Woken, Progress
<1> QED
  BY <1>1, <1>2, <1>3, <1>4, <1>5

LEMMA ThreadCompileInv == ASSUME IInv, NEW t \in Threads, ThreadCompile(t) PROVE IInv'
<1> USE NumberOfThreads DEF IInv, ThreadCompile, Goes, mains, memory, Threads
<1>1. TypeOK'
  BY DEF TypeOK, Owners, Points, MainPoints
<1>2. Places'
  BY DEF TypeOK, Places, Waits, Works, Leaves, Woken, InRound, Ending, Mutexes, Progress
<1>3. Mutexes'
  BY DEF TypeOK, Owners, Mutexes, Free, Main, Places, Waits, Works, Leaves, Woken, InRound, Ending
<1>4. Progress'
  BY DEF TypeOK, Progress, Places, Waits, Works, Leaves, Woken, InRound, Ending
<1>5. Printed'
  BY DEF Printed, Printing, InRound, Ending, TypeOK, Places, Waits, Works, Leaves, Woken, Progress
<1> QED
  BY <1>1, <1>2, <1>3, <1>4, <1>5

LEMMA ThreadLockInv == ASSUME IInv, NEW t \in Threads, ThreadLock(t) PROVE IInv'
<1> USE NumberOfThreads DEF IInv, ThreadLock, Goes, mains, memory, Threads
<1>1. TypeOK'
  BY DEF TypeOK, Owners, Points, MainPoints
<1>2. Places'
  BY DEF TypeOK, Places, Waits, Works, Leaves, Woken, InRound, Ending, Mutexes, Progress
<1>3. Mutexes'
  BY DEF TypeOK, Owners, Mutexes, Free, Main, Places, Waits, Works, Leaves, Woken, InRound, Ending
<1>4. Progress'
  BY DEF TypeOK, Progress, Places, Waits, Works, Leaves, Woken, InRound, Ending
<1>5. Printed'
  BY DEF Printed, Printing, InRound, Ending, TypeOK, Places, Waits, Works, Leaves, Woken, Progress
<1> QED
  BY <1>1, <1>2, <1>3, <1>4, <1>5

LEMMA ThreadCheckInv == ASSUME IInv, NEW t \in Threads, ThreadCheck(t) PROVE IInv'
<1> USE NumberOfThreads DEF IInv, ThreadCheck, Goes, mains, memory, Threads
<1>1. TypeOK'
  BY DEF TypeOK, Owners, Points, MainPoints
<1>2. Places'
  BY DEF TypeOK, Places, Waits, Works, Leaves, Woken, InRound, Ending, Mutexes, Progress
<1>3. Mutexes'
  BY DEF TypeOK, Owners, Mutexes, Free, Main, Places, Waits, Works, Leaves, Woken, InRound, Ending
<1>4. Progress'
  BY DEF TypeOK, Progress, Places, Waits, Works, Leaves, Woken, InRound, Ending
<1>5. Printed'
  BY DEF Printed, Printing, InRound, Ending, TypeOK, Places, Waits, Works, Leaves, Woken, Progress
<1> QED
  BY <1>1, <1>2, <1>3, <1>4, <1>5

LEMMA ThreadReplaceInv == ASSUME IInv, NEW t \in Threads, ThreadReplace(t) PROVE IInv'
<1> USE NumberOfThreads DEF IInv, ThreadReplace, Goes, mains, memory, Threads
<1>1. TypeOK'
  BY DEF TypeOK, Owners, Points, MainPoints
<1>2. Places'
  BY DEF TypeOK, Places, Waits, Works, Leaves, Woken, InRound, Ending, Mutexes, Progress
<1>3. Mutexes'
  BY DEF TypeOK, Owners, Mutexes, Free, Main, Places, Waits, Works, Leaves, Woken, InRound, Ending
<1>4. Progress'
  BY DEF TypeOK, Progress, Places, Waits, Works, Leaves, Woken, InRound, Ending
<1>5. Printed'
  BY DEF Printed, Printing, InRound, Ending, TypeOK, Places, Waits, Works, Leaves, Woken, Progress
<1> QED
  BY <1>1, <1>2, <1>3, <1>4, <1>5

LEMMA ThreadSpinInv == ASSUME IInv, NEW t \in Threads, ThreadSpin(t) PROVE IInv'
<1> USE NumberOfThreads DEF IInv, ThreadSpin, Goes, Take, mains, memory, Threads
<1>1. TypeOK'
  BY DEF TypeOK, Owners, Points, MainPoints
<1>2. Places'
  BY DEF TypeOK, Places, Waits, Works, Leaves, Woken, InRound, Ending, Mutexes, Progress
<1>3. Mutexes'
  BY DEF TypeOK, Owners, Mutexes, Free, Main, Places, Waits, Works, Leaves, Woken, InRound, Ending
<1>4. Progress'
  BY DEF TypeOK, Progress, Places, Waits, Works, Leaves, Woken, InRound, Ending
<1>5. Printed'
  BY DEF Printed, Printing, InRound, Ending, TypeOK, Places, Waits, Works, Leaves, Woken, Progress
<1> QED
  BY <1>1, <1>2, <1>3, <1>4, <1>5

LEMMA ThreadTestInv == ASSUME IInv, NEW t \in Threads, ThreadTest(t) PROVE IInv'
<1> USE NumberOfThreads DEF IInv, ThreadTest, Goes, ThreadTestFor, mains, memory, Threads
<1>1. TypeOK'
  BY DEF TypeOK, Owners, Points, MainPoints
<1>2. Places'
  <2>1. InRound /\ Woken(t) /\ t \in zamky /\ t >= threadIdDone
    BY Turn DEF IInv
  <2>2. Works(t)'
    BY <2>1 DEF TypeOK, Works, InRound, Woken
  <2>3. Waits(t)' /\ Leaves(t)'
    BY <2>1 DEF TypeOK, Waits, Leaves, InRound, Ending, Woken
  <2>4. \A u \in Threads \ {t} : Waits(u)' /\ Works(u)' /\ Leaves(u)'
    BY DEF TypeOK, Places, Waits, Works, Leaves, Woken, InRound, Ending
  <2> QED
    BY <2>2, <2>3, <2>4 DEF Places
<1>3. Mutexes'
  BY DEF TypeOK, Owners, Mutexes, Free, Main, Places, Waits, Works, Leaves, Woken, InRound, Ending
<1>4. Progress'
  BY DEF TypeOK, Progress, Places, Waits, Works, Leaves, Woken, InRound, Ending
<1>5. Printed'
  BY DEF Printed, Printing, InRound, Ending, TypeOK, Places, Waits, Works, Leaves, Woken, Progress
<1> QED
  BY <1>1, <1>2, <1>3, <1>4, <1>5

LEMMA ThreadOutInv == ASSUME IInv, NEW t \in Threads, ThreadOut(t) PROVE IInv'
<1> USE NumberOfThreads DEF IInv, ThreadOut, Goes, mains, memory, Threads
<1>1. TypeOK'
  BY DEF TypeOK, Owners, Points, MainPoints
<1>2. Places'
  BY DEF TypeOK, Places, Waits, Works, Leaves, Woken, InRound, Ending, Mutexes, Progress
<1>3. Mutexes'
  BY DEF TypeOK, Owners, Mutexes, Free, Main, Places, Waits, Works, Leaves, Woken, InRound, Ending
<1>4. Progress'
  BY DEF TypeOK, Progress, Places, Waits, Works, Leaves, Woken, InRound, Ending
<1>5. Printed'
  BY DEF Printed, Printing, InRound, Ending, TypeOK, Places, Waits, Works, Leaves, Woken, Progress
<1> QED
  BY <1>1, <1>2, <1>3, <1>4, <1>5

LEMMA ThreadPrintInv == ASSUME IInv, NEW t \in Threads, ThreadPrint(t) PROVE IInv'
<1> USE NumberOfThreads DEF IInv, ThreadPrint, Goes, mains, memory, Threads
<1>1. TypeOK'
  BY DEF TypeOK, Owners, Points, MainPoints
<1>2. Places'
  BY DEF TypeOK, Places, Waits, Works, Leaves, Woken, InRound, Ending, Mutexes, Progress
<1>3. Mutexes'
  BY DEF TypeOK, Owners, Mutexes, Free, Main, Places, Waits, Works, Leaves, Woken, InRound, Ending
<1>4. Progress'
  BY DEF TypeOK, Progress, Places, Waits, Works, Leaves, Woken, InRound, Ending
<1>5. Printed'
  <2>1. t = threadIdDone /\ InRound
    BY Turn DEF IInv
  <2>2. ~ Printing
    BY <2>1, Turn DEF Printing, IInv
  <2>3. Printing'
    BY DEF Printing, TypeOK
  <2>4. Len(out') = Len(out) + 1
    BY DEF TypeOK
  <2>5. N * (taken - 1) \in Int /\ threadIdDone \in Nat
    BY Products DEF TypeOK
  <2> QED
    BY <2>1, <2>2, <2>3, <2>4, <2>5 DEF Printed, InRound
<1> QED
  BY <1>1, <1>2, <1>3, <1>4, <1>5

LEMMA ThreadIncInv == ASSUME IInv, NEW t \in Threads, ThreadInc(t) PROVE IInv'
<1> USE NumberOfThreads DEF IInv, ThreadInc, Goes, Take, mains, memory, Threads
<1>1. TypeOK'
  BY DEF TypeOK, Owners, Points, MainPoints
<1>2. Places'
  BY DEF TypeOK, Places, Waits, Works, Leaves, Woken, InRound, Ending, Mutexes, Progress
<1>3. Mutexes'
  BY DEF TypeOK, Owners, Mutexes, Free, Main, Places, Waits, Works, Leaves, Woken, InRound, Ending
<1>4. Progress'
  BY DEF TypeOK, Progress, Places, Waits, Works, Leaves, Woken, InRound, Ending
<1>5. Printed'
  BY DEF Printed, Printing, InRound, Ending, TypeOK, Places, Waits, Works, Leaves, Woken, Progress
<1> QED
  BY <1>1, <1>2, <1>3, <1>4, <1>5

LEMMA ThreadIncDoneInv == ASSUME IInv, NEW t \in Threads, ThreadIncDone(t) PROVE IInv'
<1> USE NumberOfThreads DEF IInv, ThreadIncDone, Goes, ThreadIncTo, mains, memory, Threads
<1>1. TypeOK'
  <2>1. t = threadIdDone
    BY Turn DEF IInv
  <2> QED
    BY <2>1 DEF TypeOK, Owners, Points, MainPoints
<1>2. Places'
  BY DEF TypeOK, Places, Waits, Works, Leaves, Woken, InRound, Ending, Mutexes, Progress
<1>3. Mutexes'
  BY DEF TypeOK, Owners, Mutexes, Free, Main, Places, Waits, Works, Leaves, Woken, InRound, Ending
<1>4. Progress'
  <2>1. t = threadIdDone /\ InRound /\ Woken(t)
    BY Turn DEF IInv
  <2> QED
    BY <2>1 DEF TypeOK, Progress, Woken, InRound
<1>5. Printed'
  <2>1. t = threadIdDone /\ InRound
    BY Turn DEF IInv
  <2>2. Printing
    BY DEF Printing
  <2>3. ~ Printing'
    BY <2>1, Turn DEF Printing, IInv, TypeOK
  <2>4. N * (taken - 1) \in Int /\ threadIdDone \in Nat
    BY Products DEF TypeOK
  <2> QED
    BY <2>1, <2>2, <2>3, <2>4 DEF Printed, InRound
<1> QED
  BY <1>1, <1>2, <1>3, <1>4, <1>5

LEMMA StutterInv == ASSUME IInv, UNCHANGED vars PROVE IInv'
BY DEF vars, memory, IInv, TypeOK, Places, Waits, Works, Leaves, Woken, InRound, Ending, Mutexes,
       Progress, Printed, Printing

LEMMA NextInv == ASSUME IInv, [Next]_vars PROVE IInv'
<1>1. CASE MainFree
  BY <1>1, MainCreateInv, MainReadInv, MainResetDoneInv, MainWakeInv, MainTestInv,
     MainFreeLineInv, MainExitWakeInv, MainJoinInv DEF MainFree
<1>2. CASE MainTakes
  BY <1>2, MainResetInv, MainSpinInv DEF MainTakes
<1>3. ASSUME NEW t \in Threads, ThreadFree(t) PROVE IInv'
  BY <1>3, ThreadCompileInv, ThreadLockInv, ThreadCheckInv, ThreadReplaceInv, ThreadTestInv,
     ThreadOutInv, ThreadPrintInv, ThreadIncDoneInv DEF ThreadFree
<1>4. ASSUME NEW t \in Threads, ThreadTakes(t) PROVE IInv'
  BY <1>4, ThreadSpinInv, ThreadIncInv DEF ThreadTakes
<1>5. CASE UNCHANGED vars
  BY <1>5, StutterInv
<1> QED
  BY <1>1, <1>2, <1>3, <1>4, <1>5 DEF Next

(* The inductive invariant holds of every behaviour of psed.               *)
THEOREM Invariance == Spec => []IInv
<1>1. Init => IInv
  BY InitInv
<1>2. IInv /\ [Next]_vars => IInv'
  BY NextInv
<1> QED
  BY <1>1, <1>2, PTL DEF Spec

(* Every variable of psed.c keeps to its type, threadIdDone to 0 .. N.     *)
THEOREM TypeCorrect == Spec => []TypeOK
<1>1. IInv => TypeOK
  BY DEF IInv
<1> QED
  BY <1>1, Invariance, PTL

(* A thread between its lock() and its printf uses the line main has read, *)
(* which is allocated, and main is where it neither frees nor replaces it. *)
THEOREM LineIsStable == Spec => []LineStable
<1>1. IInv => LineStable
  <2> SUFFICES ASSUME IInv, NEW t \in Working
               PROVE  main \in {"wake", "spin", "test"} /\ line = taken /\ live = {line}
    BY DEF LineStable
  <2>1. InRound
    BY Turn DEF Working
  <2> QED
    BY <2>1 DEF IInv, Progress, InRound
<1> QED
  BY <1>1, Invariance, PTL

(* main never unlocks a mutex of zamky that is not locked.                 *)
THEOREM UnlocksAreMatched == Spec => []UnlocksLocked
<1>1. IInv => UnlocksLocked
  BY NumberOfThreads DEF IInv, UnlocksLocked, TypeOK, Places, Waits, Woken, Threads
<1> QED
  BY <1>1, Invariance, PTL

(* When main deletes the mutexes every thread has returned, nobody holds   *)
(* the shared ones, and every line was printed N times.                    *)
THEOREM DeletionIsSafe == Spec => []DeletesUnused
<1>1. IInv => DeletesUnused
  <2> SUFFICES ASSUME IInv, main = "done"
               PROVE  /\ \A t \in Threads : pc[t] = "done"
                      /\ threadIdMutex = Free /\ stdOutMutex = Free
                      /\ Len(out) = N * taken
    BY DEF DeletesUnused
  <2>1. \A t \in Threads : pc[t] = "done"
    BY DEF IInv, Places, Leaves
  <2>2. threadIdMutex = Free /\ stdOutMutex = Free
    BY <2>1 DEF IInv, Mutexes, TypeOK, Owners
  <2>3. Len(out) = N * taken
    BY DEF IInv, Printed, InRound
  <2> QED
    BY <2>1, <2>2, <2>3
<1> QED
  BY <1>1, Invariance, PTL

(* The mutexes are used as a mutex may be, from their creation to their    *)
(* deletion.                                                               *)
THEOREM MutexesWellUsed == Spec => []MutexUse
<1>1. TypeOK /\ UnlocksLocked /\ DeletesUnused => MutexUse
  BY DEF MutexUse
<1> QED
  BY <1>1, TypeCorrect, UnlocksAreMatched, DeletionIsSafe, PTL

-----------------------------------------------------------------------------
(* The refinement.                                                         *)

Abstract == << out, CurrentLine, NextResult >>

LEMMA OutputInit == Init => Output!Init
BY NumberOfThreads DEF Init, Output!Init, CurrentLine, NextResult, InRound

(* A step that prints nothing and leaves main in its part of the round,    *)
(* threadIdDone and the printing thread alone, is not seen.                *)
LEMMA Unseen ==
  ASSUME IInv, out' = out, InRound' = InRound, threadIdDone' = threadIdDone, taken' = taken,
         Printing' = Printing,
         (main \in {"reset", "resetting"})' = (main \in {"reset", "resetting"})
  PROVE  UNCHANGED Abstract
BY DEF Abstract, CurrentLine, NextResult

LEMMA MainRefines == ASSUME IInv, MainFree \/ MainTakes PROVE [Output!Next]_Abstract
<1> USE DEF MainGoes, memory
<1>1. CASE MainCreate \/ MainReset \/ MainWake \/ MainSpin \/ MainExitWake \/ MainJoin \/ MainFreeLine
  <2>1. Printing' = Printing
    BY <1>1, MainCreateInv, Turn DEF Printing, MainCreate, MainReset, MainWake, MainSpin, MainExitWake,
       MainJoin, MainFreeLine, TakeMain, Loop, InRound, IInv, TypeOK
  <2> QED
    BY <1>1, <2>1, Unseen DEF MainCreate, MainReset, MainWake, MainSpin, MainExitWake, MainJoin,
       MainFreeLine, TakeMain, Loop, InRound
<1>2. CASE MainRead
  <2>1. out' = out /\ ~ InRound /\ ~ InRound'
    BY <1>2 DEF MainRead, InRound
  <2>2. taken \in Nat /\ main = "read"
    BY <1>2 DEF MainRead, IInv, TypeOK
  <2>3. CurrentLine = taken
    BY <2>2 DEF CurrentLine
  <2>4. CurrentLine' = taken
    <3>1. CASE main' = "reset"
      BY <1>2, <2>2, <3>1 DEF MainRead, CurrentLine
    <3>2. CASE main' = "exitWake"
      BY <1>2, <2>2, <3>2 DEF MainRead, CurrentLine
    <3> QED
      BY <1>2, <3>1, <3>2 DEF MainRead
  <2> QED
    BY <2>1, <2>3, <2>4 DEF Abstract, NextResult
<1>3. CASE MainResetDone
  <2>1. ~ Printing'
    BY <1>3, Turn DEF MainResetDone, Printing, InRound
  <2>2. Output!TakeLine
    BY <1>3, <2>1, NumberOfThreads
       DEF MainResetDone, Output!TakeLine, CurrentLine, NextResult, InRound, IInv, TypeOK
  <2> QED
    BY <2>2 DEF Output!Next
<1>4. CASE MainTest
  <2>1. Printing' = Printing
    BY <1>4 DEF MainTest, MainTestFor, Printing
  <2>2. CASE threadIdDone = N
    <3>1. ~ Printing
      BY <2>2, Turn, NumberOfThreads DEF Printing, Threads
    <3> QED
      BY <1>4, <2>1, <2>2, <3>1
         DEF MainTest, MainTestFor, Abstract, CurrentLine, NextResult, InRound, IInv, TypeOK
  <2>3. CASE threadIdDone # N
    BY <1>4, <2>1, <2>3, Unseen DEF MainTest, MainTestFor, InRound
  <2> QED
    BY <2>2, <2>3
<1> QED
  BY <1>1, <1>2, <1>3, <1>4 DEF MainFree, MainTakes

LEMMA ThreadRefines ==
  ASSUME IInv, NEW t \in Threads, ThreadFree(t) \/ ThreadTakes(t)
  PROVE  [Output!Next]_Abstract
<1> USE DEF Goes, mains, memory
<1>1. CASE \/ ThreadCompile(t) \/ ThreadLock(t) \/ ThreadCheck(t) \/ ThreadReplace(t)
           \/ ThreadTest(t) \/ ThreadOut(t) \/ ThreadSpin(t) \/ ThreadInc(t)
  <2>1. Printing' = Printing
    BY <1>1 DEF Printing, ThreadCompile, ThreadLock, ThreadCheck, ThreadReplace, ThreadTest,
       ThreadTestFor, ThreadOut, ThreadSpin, ThreadInc, Take, IInv, TypeOK
  <2> QED
    BY <1>1, <2>1, Unseen DEF ThreadCompile, ThreadLock, ThreadCheck, ThreadReplace, ThreadTest,
       ThreadTestFor, ThreadOut, ThreadSpin, ThreadInc, Take, InRound
<1>2. CASE ThreadPrint(t)
  <2>1. t = threadIdDone /\ InRound /\ line = taken
    BY <1>2, Turn DEF ThreadPrint, IInv, Progress, InRound
  <2>2. ~ Printing
    BY <1>2, <2>1, Turn DEF ThreadPrint, Printing
  <2>3. Printing'
    BY <1>2 DEF ThreadPrint, Printing, IInv, TypeOK
  <2>4. Output!PrintResult
    BY <1>2, <2>1, <2>2, <2>3, NumberOfThreads
       DEF ThreadPrint, Output!PrintResult, CurrentLine, NextResult, InRound, Threads
  <2> QED
    BY <2>4 DEF Output!Next
<1>3. CASE ThreadIncDone(t)
  <2>1. t = threadIdDone /\ InRound
    BY <1>3, Turn DEF ThreadIncDone, ThreadIncTo
  <2>2. Printing
    BY <1>3 DEF ThreadIncDone, ThreadIncTo, Printing
  <2>3. ~ Printing'
    BY <1>3, <2>1, Turn DEF ThreadIncDone, ThreadIncTo, Printing, IInv, TypeOK
  <2> QED
    BY <1>3, <2>1, <2>2, <2>3, NumberOfThreads
       DEF ThreadIncDone, ThreadIncTo, Abstract, CurrentLine, NextResult, InRound, IInv, TypeOK
<1> QED
  BY <1>1, <1>2, <1>3 DEF ThreadFree, ThreadTakes

(* However the threads are scheduled, what is printed is what a sequential *)
(* program would print: line after line, the results in the order of the   *)
(* command line.                                                           *)
THEOREM PsedPrintsInOrder == Spec => OutputInOrder
<1>1. IInv /\ [Next]_vars => [Output!Next]_(Output!vars)
  <2> SUFFICES ASSUME IInv, [Next]_vars PROVE [Output!Next]_(Output!vars)
    OBVIOUS
  <2>1. CASE MainFree \/ MainTakes
    BY <2>1, MainRefines DEF Abstract, Output!vars
  <2>2. ASSUME NEW t \in Threads, ThreadFree(t) \/ ThreadTakes(t)
        PROVE  [Output!Next]_(Output!vars)
    BY <2>2, ThreadRefines DEF Abstract, Output!vars
  <2>3. CASE UNCHANGED vars
    BY <2>3 DEF vars, Output!vars, CurrentLine, NextResult, InRound, Printing
  <2> QED
    BY <2>1, <2>2, <2>3 DEF Next
<1> QED
  BY <1>1, OutputInit, Invariance, PTL DEF Spec, OutputInOrder, Output!Spec
=============================================================================
