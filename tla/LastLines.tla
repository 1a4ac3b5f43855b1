------------------------------ MODULE LastLines -----------------------------
(***************************************************************************)
(* The last lines of a file, twice: tail.c keeps them in a ring of rows of *)
(* a fixed length and tail2.cc in a queue of strings (both of              *)
(* sem_2/ijc/proj_2).  tail.c takes a step per character.                  *)
(*                                                                         *)
(* An operator with a suffixed name (SkippedOver, ...) is a slip the       *)
(* properties must notice.                                                 *)
(***************************************************************************)
EXTENDS Naturals, SequencesExt, FiniteSetsExt

CONSTANTS
  Letters, NL, NUL,  \* the characters: newline, zero and others
  MAX_LENGTH,        \* of a line that tail.c prints whole
  MaxInput,          \* how long the input is at most
  MaxLines           \* how many lines are asked for at most

(* Assumed of the constants, by the module that instantiates this one.    *)
LastLinesAssumption ==
  /\ {NL, NUL} \cap Letters = {} /\ NL # NUL
  /\ MAX_LENGTH \in Nat \ {0} /\ MaxInput \in Nat /\ MaxLines \in Nat

VARIABLES
  input, pos,     \* the file, and how much of it has been read
  numberOfLines,
  before,         \* the byte in front of buffer, which is not part of it
  buffer, i, charsCount,
  warning, pc, out

vars == << input, pos, numberOfLines, before, buffer, i, charsCount, warning, pc, out >>
fixed == << input, numberOfLines, before >>

Init ==
  /\ input \in BoundedSeq(Letters \cup {NL}, MaxInput) /\ pos = 0
  /\ numberOfLines \in 0 .. MaxLines /\ before \in {NL, NUL}
  /\ buffer = [row \in 0 .. numberOfLines - 1 |-> [j \in 0 .. MAX_LENGTH + 1 |-> NUL]]
  /\ i = 0 /\ charsCount = 0
  /\ warning = FALSE /\ out = << >>
  /\ pc = IF numberOfLines = 0 THEN "done" ELSE "read"

-----------------------------------------------------------------------------
(* tail.c: read_and_write().                                               *)

AtEOF == pos = Len(input)
c == input[pos + 1]

Gets == ~ AtEOF /\ pos' = pos + 1 /\ UNCHANGED << fixed, out >>

Stores(at, char) == buffer' = [buffer EXCEPT ![i % numberOfLines][at] = char]

Newline ==
  /\ pc = "read" /\ Gets /\ c = NL
  /\ Stores(charsCount, NL)
  /\ i' = i + 1 /\ charsCount' = 0
  /\ UNCHANGED << warning, pc >>

Char ==
  /\ pc = "read" /\ Gets /\ c # NL /\ charsCount < MAX_LENGTH
  /\ Stores(charsCount, c)
  /\ charsCount' = charsCount + 1
  /\ UNCHANGED << i, warning, pc >>

(* One character too many: a newline takes its place.                      *)
Overlong ==
  /\ pc = "read" /\ Gets /\ c # NL /\ charsCount = MAX_LENGTH
  /\ Stores(MAX_LENGTH, NL)
  /\ warning' = TRUE /\ pc' = "skip"
  /\ UNCHANGED << i, charsCount >>

Skip == pc = "skip" /\ Gets /\ c # NL /\ UNCHANGED << buffer, i, charsCount, warning, pc >>

SkippedOver ==
  /\ pc = "skip" /\ Gets /\ c = NL
  /\ charsCount' = 0 /\ pc' = "read"
  /\ UNCHANGED << buffer, i, warning >>

Skipped ==
  /\ pc = "skip" /\ Gets /\ c = NL
  /\ i' = i + 1 /\ charsCount' = 0 /\ pc' = "read"
  /\ UNCHANGED << buffer, warning >>

(* EOF is not '\n' either: while (getc(file) != '\n') goes on.             *)
Hangs == pc = "skip" /\ AtEOF /\ UNCHANGED vars

(* A row is printed up to its newline, which is looked for one place to    *)
(* the left: first at buffer[..][-1], the end of the row before.           *)
Cell(row, j) ==
  IF j >= 0 THEN buffer[row][j]
  ELSE IF row = 0 THEN before ELSE buffer[row - 1][MAX_LENGTH + 1]

Printed(row) ==
  LET stops == {j \in 0 .. MAX_LENGTH : Cell(row, j - 1) = NL}
  IN  [j \in 1 .. Min(stops \cup {MAX_LENGTH + 1}) |-> Cell(row, j - 1)]

PrintRows ==
  /\ pc = "read" /\ AtEOF
  /\ out' = FlattenSeq([k \in 1 .. numberOfLines |-> Printed((i + k - 1) % numberOfLines)])
  /\ pc' = "done"
  /\ UNCHANGED << fixed, pos, buffer, i, charsCount, warning >>

Next == Newline \/ Char \/ Overlong \/ Skip \/ Skipped \/ Hangs \/ PrintRows

Spec == Init /\ [][Next]_vars
FairSpec == Spec /\ WF_vars(Next)

-----------------------------------------------------------------------------
(* tail2.cc: read_and_write().                                             *)

Push(queue, line, n) == IF Len(queue) + 1 > n THEN Tail(Append(queue, line)) ELSE Append(queue, line)

(* getline() gives the lines, the last one without its newline too.        *)
Getline(n) ==
  LET step(read, char) ==
        IF char = NL THEN [queue |-> Push(read.queue, read.line, n), line |-> << >>]
                     ELSE [read EXCEPT !.line = Append(@, char)]
      read == FoldLeft(step, [queue |-> << >>, line |-> << >>], input)
  IN  IF read.line = << >> THEN read.queue ELSE Push(read.queue, read.line, n)

tail2 == FlattenSeq([k \in DOMAIN Getline(numberOfLines) |-> Append(Getline(numberOfLines)[k], NL)])

-----------------------------------------------------------------------------
(* The last lines, by definition: the longest end of the text that begins  *)
(* where a line does and has no more newlines than lines are wanted.       *)
Newlines(s, from, to) == {p \in from .. to : s[p] = NL}

Ending(s) ==
  LET starts == {p \in 1 .. Len(s) + 1 :
                   /\ p = 1 \/ s[p - 1] = NL
                   /\ Cardinality(Newlines(s, p, Len(s))) <= numberOfLines}
  IN  SubSeq(s, Min(starts), Len(s))

Column(s, p) == p - Max(Newlines(s, 1, p - 1) \cup {0})
Overlongs(s) == {p \in DOMAIN s : s[p] # NL /\ Column(s, p) > MAX_LENGTH}
Without(s, places) == [k \in 1 .. Len(s) - Cardinality(places) |->
                         s[SetToSortSeq(DOMAIN s \ places, <)[k]]]

Complete == input = << >> \/ Last(input) = NL

TypeOK ==
  /\ pos \in 0 .. Len(input) /\ charsCount \in 0 .. MAX_LENGTH
  /\ i <= Cardinality(Newlines(input, 1, pos))
  /\ pc \in {"read", "skip", "done"}

(* tail2 prints the last lines, and completes the last one.  So does tail, *)
(* if the input ends in a newline, with lines too long shortened and with  *)
(* zeros for lines there are not; the warning is given if one was too long *)
(* (also if it is not among those printed).  But row 0 is left out when    *)
(* the byte in front of the buffer happens to be a newline.                *)
LastLinesPrinted ==
  /\ TypeOK
  /\ pc = "done" =>
       /\ tail2 = Ending(IF Complete THEN input ELSE Append(input, NL))
       /\ numberOfLines > 0 => warning = (Overlongs(input) # {})
       /\ Complete /\ before # NL =>
            Without(out, {p \in DOMAIN out : out[p] = NUL})
              = LET s == Ending(input) IN Without(s, Overlongs(s))

(* tail ends, but for an input that does so in the middle of a line that   *)
(* is too long.                                                            *)
EndsInOverlong == ~ Complete /\ Column(input, Len(input)) > MAX_LENGTH
Termination == ~ EndsInOverlong => <>(pc = "done")
=============================================================================
