-------------------------------- MODULE Psed --------------------------------
(***************************************************************************)
(* sem_3/ips/proj_1/psed.c: the main thread reads lines; one thread for    *)
(* every pair of arguments (a regular expression and its replacement)      *)
(* applies it to the line and prints the result, in turn.                  *)
(*                                                                         *)
(* Main locks every mutex of zamky before it makes the threads and hands   *)
(* it over with unlock(): the mutex is used as a binary semaphore, by      *)
(* threads that do not own it, and is modelled as what pthread does.  A    *)
(* lock() is a step of its own; what is done under a mutex up to its       *)
(* unlock() is another.  A line of the input is its number, and the text   *)
(* of the result is the pair of the line and the thread.                   *)
(*                                                                         *)
(* An operator with a suffixed name (MainTestLast, ThreadIncLost, ...) is  *)
(* a slip the properties must notice.                                      *)
(***************************************************************************)
EXTENDS Naturals, Sequences

CONSTANTS
  N,         \* regexCount, the number of threads
  MaxLines   \* the longest input; the input may end earlier

ASSUME PsedAssumption == N \in Nat \ {0} /\ MaxLines \in Nat

Threads == 0 .. N - 1
Free == N      \* nobody holds the mutex
Main == N + 1  \* the main thread holds it

VARIABLES
  main, j,        \* program point and loop variable of main()
  pc,             \* program point of every thread
  zamky,          \* which of the mutexes of zamky are locked
  threadIdMutex,  \* who holds it
  stdOutMutex,    \* who holds it
  threadIdDone,
  line,           \* the number of the line that line points to, 0 for NULL
  live,           \* the lines whose memory is allocated
  taken,          \* the number of lines read so far
  result,         \* what the pointer result of every thread is worth
  out,            \* standard output
  fate            \* "alive", or why the program was aborted

vars == << main, j, pc, zamky, threadIdMutex, stdOutMutex, threadIdDone, line, live, taken,
           result, out, fate >>
mains == << main, j, taken, fate >>
memory == << line, live >>

MainPoints == {"create", "read", "reset", "resetting", "wake", "spin", "test", "freeLine",
               "exitWake", "join", "done"}
Points == {"unborn", "compile", "lock", "check", "replace", "spin", "test", "out", "print",
           "inc", "incremented", "done"}

Init ==
  /\ main = "create" /\ j = 0
  /\ pc = [t \in Threads |-> "unborn"]
  /\ zamky = Threads
  /\ threadIdMutex = Free /\ stdOutMutex = Free
  /\ threadIdDone = 0
  /\ line = 0 /\ live = {} /\ taken = 0
  /\ result = [t \in Threads |-> "uninitialised"]
  /\ out = << >>
  /\ fate = "alive"

-----------------------------------------------------------------------------
(* main()                                                                  *)

MainGoes(from, to) ==
  /\ fate = "alive" /\ fate' = fate
  /\ main = from
  /\ main' = to

LoopOver(at, to) ==
  /\ MainGoes(at, IF j < N THEN at ELSE to)
  /\ j' = IF j < N THEN j + 1 ELSE 0

(* The next step of a loop over the threads, which ends at point "to".     *)
Loop(at, to) ==
  /\ MainGoes(at, IF j + 1 < N THEN at ELSE to)
  /\ j' = IF j + 1 < N THEN j + 1 ELSE 0

MainCreate ==
  /\ Loop("create", "read")
  /\ pc' = [pc EXCEPT ![j] = "compile"]
  /\ UNCHANGED << zamky, threadIdMutex, stdOutMutex, threadIdDone, memory, taken, result, out >>

(* read_line(): one more line, or the end of the input.                    *)
MainRead ==
  /\ \/ /\ MainGoes("read", "reset")
        /\ taken < MaxLines
        /\ taken' = taken + 1 /\ line' = taken + 1 /\ live' = live \cup {taken + 1}
     \/ /\ MainGoes("read", "exitWake")
        /\ line' = 0 /\ UNCHANGED << taken, live >>
  /\ UNCHANGED << j, pc, zamky, threadIdMutex, stdOutMutex, threadIdDone, result, out >>

TakeMain(from, to) ==
  /\ MainGoes(from, to)
  /\ threadIdMutex = Free
  /\ threadIdMutex' = Main
  /\ UNCHANGED << j, pc, zamky, stdOutMutex, threadIdDone, memory, taken, result, out >>

MainReset == TakeMain("reset", "resetting")

MainResetDone ==
  /\ MainGoes("resetting", "wake")
  /\ threadIdDone' = 0
  /\ threadIdMutex' = Free
  /\ UNCHANGED << j, pc, zamky, stdOutMutex, memory, taken, result, out >>

MainWake ==
  /\ Loop("wake", "spin")
  /\ zamky' = zamky \ {j}
  /\ UNCHANGED << pc, threadIdMutex, stdOutMutex, threadIdDone, memory, taken, result, out >>

MainSpin == TakeMain("spin", "test")

MainTestFor(enough) ==
  /\ MainGoes("test", IF enough THEN "freeLine" ELSE "spin")
  /\ threadIdMutex' = Free
  /\ UNCHANGED << j, pc, zamky, stdOutMutex, threadIdDone, memory, taken, result, out >>

MainTestLast == MainTestFor(threadIdDone = N - 1)

MainTest == MainTestFor(threadIdDone = N)

MainFreeLine ==
  /\ MainGoes("freeLine", "read")
  /\ live' = live \ {line}
  /\ line' = 0
  /\ UNCHANGED << j, pc, zamky, threadIdMutex, stdOutMutex, threadIdDone, taken, result, out >>

(* The threads are woken for the last time, and find no line.              *)
MainExitWake ==
  /\ Loop("exitWake", "join")
  /\ zamky' = zamky \ {j}
  /\ UNCHANGED << pc, threadIdMutex, stdOutMutex, threadIdDone, memory, taken, result, out >>

MainJoin ==
  /\ Loop("join", "done")
  /\ pc[j] = "done"
  /\ UNCHANGED << pc, zamky, threadIdMutex, stdOutMutex, threadIdDone, memory, taken, result,
                  out >>

-----------------------------------------------------------------------------
(* f()                                                                     *)

Goes(t, from, to) ==
  /\ fate = "alive"
  /\ pc[t] = from
  /\ pc' = [pc EXCEPT ![t] = to]

(* std::regex reg(search): an expression that is not valid is an exception *)
(* nobody catches, the end of the whole program.                           *)
ThreadCompile(t) ==
  /\ Goes(t, "compile", "lock")
  /\ fate' \in {"alive", "badRegex"}
  /\ UNCHANGED << main, j, taken, zamky, threadIdMutex, stdOutMutex, threadIdDone, memory,
                  result, out >>

ThreadLockNot(t) ==
  /\ Goes(t, "lock", "check")
  /\ t \notin zamky
  /\ UNCHANGED << mains, zamky, threadIdMutex, stdOutMutex, threadIdDone, memory, result, out >>

ThreadLock(t) ==
  /\ Goes(t, "lock", "check")
  /\ t \notin zamky
  /\ zamky' = zamky \cup {t}
  /\ UNCHANGED << mains, threadIdMutex, stdOutMutex, threadIdDone, memory, result, out >>

(* No line: the thread frees result and returns.  A result that was never  *)
(* assigned is whatever is on the stack: free() may abort the program.     *)
ThreadCheck(t) ==
  /\ \/ /\ Goes(t, "check", "done")
        /\ line = 0
        /\ result' = [result EXCEPT ![t] = "null"]
        /\ \/ fate' = "alive"
           \/ result[t] = "uninitialised" /\ fate' = "wildFree"
     \/ /\ Goes(t, "check", "replace")
        /\ line # 0
        /\ UNCHANGED << result, fate >>
  /\ UNCHANGED << main, j, taken, zamky, threadIdMutex, stdOutMutex, threadIdDone, memory, out >>

ThreadReplace(t) ==
  /\ Goes(t, "replace", "spin")
  /\ result' = [result EXCEPT ![t] = "text"]
  /\ UNCHANGED << mains, zamky, threadIdMutex, stdOutMutex, threadIdDone, memory, out >>

Take(t, from, to) ==
  /\ Goes(t, from, to)
  /\ threadIdMutex = Free
  /\ threadIdMutex' = t
  /\ UNCHANGED << mains, zamky, stdOutMutex, threadIdDone, memory, result, out >>

ThreadSpin(t) == Take(t, "spin", "test")

ThreadTestFor(t, turn) ==
  /\ Goes(t, "test", IF turn THEN "out" ELSE "spin")
  /\ threadIdMutex' = Free
  /\ UNCHANGED << mains, zamky, stdOutMutex, threadIdDone, memory, result, out >>

ThreadTestNever(t) == ThreadTestFor(t, TRUE)

ThreadTest(t) == ThreadTestFor(t, threadIdDone = t)

ThreadOut(t) ==
  /\ Goes(t, "out", "print")
  /\ stdOutMutex = Free
  /\ stdOutMutex' = t
  /\ UNCHANGED << mains, zamky, threadIdMutex, threadIdDone, memory, result, out >>

ThreadPrint(t) ==
  /\ Goes(t, "print", "inc")
  /\ out' = Append(out, << line, t >>)
  /\ stdOutMutex' = Free
  /\ result' = [result EXCEPT ![t] = "null"]
  /\ UNCHANGED << mains, zamky, threadIdMutex, threadIdDone, memory >>

ThreadInc(t) == Take(t, "inc", "incremented")

ThreadIncTo(t, value) ==
  /\ Goes(t, "incremented", "lock")
  /\ threadIdDone' = value
  /\ threadIdMutex' = Free
  /\ UNCHANGED << mains, zamky, stdOutMutex, memory, result, out >>

ThreadIncLost(t) == ThreadIncTo(t, threadIdDone)

ThreadIncDone(t) == ThreadIncTo(t, threadIdDone + 1)

-----------------------------------------------------------------------------
MainFree ==
  \/ MainCreate \/ MainRead \/ MainResetDone \/ MainWake \/ MainTest
  \/ MainFreeLine \/ MainExitWake \/ MainJoin
MainTakes == MainReset \/ MainSpin

ThreadFree(t) ==
  \/ ThreadCompile(t) \/ ThreadLock(t) \/ ThreadCheck(t) \/ ThreadReplace(t)
  \/ ThreadTest(t) \/ ThreadOut(t) \/ ThreadPrint(t) \/ ThreadIncDone(t)
ThreadTakes(t) == ThreadSpin(t) \/ ThreadInc(t)

Ended == main = "done" \/ fate # "alive"

Next ==
  \/ MainFree \/ MainTakes
  \/ \E t \in Threads : ThreadFree(t) \/ ThreadTakes(t)
  \/ Ended /\ UNCHANGED vars

(* Every thread keeps running; none is passed over for ever at             *)
(* threadIdMutex, which the spinning threads keep taking and giving back.  *)
Fairness ==
  /\ WF_vars(MainFree) /\ SF_vars(MainTakes)
  /\ \A t \in Threads : WF_vars(ThreadFree(t)) /\ SF_vars(ThreadTakes(t))

Spec == Init /\ [][Next]_vars
FairSpec == Spec /\ Fairness

-----------------------------------------------------------------------------
Owners == Threads \cup {Free, Main}

TypeOK ==
  /\ main \in MainPoints /\ j \in Threads
  /\ pc \in [Threads -> Points]
  /\ zamky \subseteq Threads
  /\ threadIdMutex \in Owners /\ stdOutMutex \in Owners
  /\ threadIdDone \in 0 .. N
  /\ line \in 0 .. MaxLines /\ live \subseteq 1 .. MaxLines /\ taken \in 0 .. MaxLines
  /\ result \in [Threads -> {"uninitialised", "null", "text"}]
  /\ out \in Seq((0 .. MaxLines) \X Threads)
  /\ fate \in {"alive", "badRegex", "wildFree"}

(* line is shared without a lock: main frees it, and reads the next one    *)
(* into it, only while no thread is between its lock() and its printf.     *)
Working == {t \in Threads : pc[t] \in {"replace", "spin", "test", "out", "print"}}
LineStable ==
  Working # {} => main \in {"wake", "spin", "test"} /\ line = taken /\ live = {line}

(* unlock() of a mutex that is not locked is undefined, and would lose the *)
(* wake-up: when main unlocks zamky[j], thread j has consumed the one      *)
(* before, or main's own lock() of the beginning is still there.           *)
UnlocksLocked == main \in {"wake", "exitWake"} => j \in zamky

(* main joins and then deletes the mutexes of its threads: nobody is left  *)
(* who could use them, and the shared mutexes have been given back.        *)
DeletesUnused ==
  main = "done" =>
    /\ \A t \in Threads : pc[t] = "done"
    /\ threadIdMutex = Free /\ stdOutMutex = Free
    /\ Len(out) = N * taken

(* The mutexes are only unlocked when locked, and only deleted when no     *)
(* thread is left that could use them; meanwhile every variable keeps its  *)
(* type: the turn, threadIdDone, never passes N.                           *)
MutexUse == TypeOK /\ UnlocksLocked /\ DeletesUnused

(* A thread ends "when there is nothing on the input" (psed.c:51): it does *)
(* not bring the program down.                                             *)
QuietEnd == fate # "wildFree"

(* The output is that of a sequential program.  A line counts as taken     *)
(* when main resets threadIdDone for it, a result as printed when it is,   *)
(* before its thread increments threadIdDone.                              *)
InRound == main \in {"wake", "spin", "test"}
Printing == \E t \in Threads : pc[t] \in {"inc", "incremented"}
CurrentLine == IF main \in {"reset", "resetting"} THEN taken - 1 ELSE taken
NextResult == IF InRound THEN threadIdDone + (IF Printing THEN 1 ELSE 0) ELSE N

Output == INSTANCE PsedOutput WITH cur <- CurrentLine, turn <- NextResult

OutputInOrder == Output!Spec

(* psed ends, whatever the length of the input, unless it is aborted.      *)
Termination == <>Ended
=============================================================================
