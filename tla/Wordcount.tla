------------------------------ MODULE Wordcount -----------------------------
(***************************************************************************)
(* wordcount of sem_2/ijc/proj_2: main() reads words with get_word(),      *)
(* counts them in a hash table, prints the table and frees it.  One step   *)
(* per character read.                                                     *)
(*                                                                         *)
(* An operator with a suffixed name (ShortenedSilently, ...) is a slip     *)
(* the properties must notice.                                             *)
(***************************************************************************)
EXTENDS Htab, FiniteSets

CONSTANTS
  arr_size,    \* the number of buckets, a power of two (2048 in wordcount.c)
  Spaces,      \* the characters isspace() is true of
  MAX_LENGTH,  \* of a word
  MaxInput     \* how long the input is at most

ASSUME WordcountAssumption ==
  arr_size \in Nat \ {0} /\ MAX_LENGTH \in Nat \ {0} /\ MaxInput \in Nat /\ Spaces \subseteq DOMAIN Code

VARIABLES
  input,    \* stdin
  pos,      \* how many characters of it have been read
  s,        \* the word read so far
  pc,
  htab,
  printed,  \* the lines printed
  warning

vars == << input, pos, s, pc, htab, printed, warning >>

Characters == DOMAIN Code

(* main() until its loop, and get_word() until its.                        *)
Init ==
  /\ input \in BoundedSeq(Characters, MaxInput) /\ pos = 0
  /\ s = << >> /\ pc = "getc"
  /\ htab = htab_init(arr_size) /\ printed = << >>
  /\ warning = FALSE

AtEOF == pos = Len(input)
Next1 == input[pos + 1]

-----------------------------------------------------------------------------
(* get_word(): its three calls of getc().                                  *)

(* getc() reads a character, which is a space or is not.                   *)
Reads(at, space) ==
  /\ pc = at
  /\ ~ AtEOF /\ (Next1 \in Spaces) = space
  /\ pos' = pos + 1
  /\ UNCHANGED << input, htab, printed >>

(* The end of the input, in the middle of a word or not: EOF.              *)
End ==
  /\ pc = "getc" /\ AtEOF
  /\ pc' = "print"
  /\ UNCHANGED << input, pos, s, htab, printed, warning >>

Blank ==
  /\ Reads("getc", TRUE)
  /\ pc' = IF s = << >> THEN "skip" ELSE "add"
  /\ UNCHANGED << s, warning >>

Skip == Reads("skip", TRUE) /\ UNCHANGED << s, pc, warning >>

SkippedUntilLetter ==
  /\ pc = "skip" /\ ~ AtEOF /\ Next1 \notin Spaces
  /\ s' = << Next1 >>
  /\ pc' = "getc"
  /\ UNCHANGED << input, pos, htab, printed, warning >>

(* What follows the blanks is put back, and yet added to the word (the end *)
(* of the input as well, but then the word is never finished).             *)
Skipped ==
  /\ pc = "skip" /\ (~ AtEOF => Next1 \notin Spaces)
  /\ s' = IF AtEOF THEN s ELSE << Next1 >>
  /\ pc' = "getc"
  /\ UNCHANGED << input, pos, htab, printed, warning >>

Letter ==
  /\ Reads("getc", FALSE) /\ Len(s) < MAX_LENGTH
  /\ s' = Append(s, Next1)
  /\ UNCHANGED << pc, warning >>

Overlong ==
  /\ Reads("getc", FALSE) /\ Len(s) = MAX_LENGTH
  /\ pc' = "over"
  /\ UNCHANGED << s, warning >>

(* The rest of a word that is too long is passed over.                     *)
Over == Reads("over", FALSE) /\ UNCHANGED << s, pc, warning >>

ShortenedSilently ==
  /\ Reads("over", TRUE)
  /\ pc' = "add"
  /\ UNCHANGED << s, warning >>

Shortened ==
  /\ Reads("over", TRUE)
  /\ warning' = TRUE
  /\ pc' = "add"
  /\ UNCHANGED s

(* At the end of the input getc() goes on answering EOF, which is no space. *)
Hangs == pc = "over" /\ AtEOF /\ UNCHANGED vars

-----------------------------------------------------------------------------
(* The rest of main().                                                     *)

(* htab_lookup_add, which may find no memory for a new item.               *)
Add ==
  /\ pc = "add"
  /\ \/ htab' = htab_lookup_add(htab, s) /\ s' = << >> /\ pc' = "getc"
     \/ htab_find(htab, s) = 0 /\ pc' = "failed" /\ UNCHANGED << htab, s >>
  /\ UNCHANGED << input, pos, printed, warning >>

PrintAll ==
  /\ pc = "print"
  /\ printed' = htab_foreach(htab)
  /\ htab' = htab_clear(htab)
  /\ pc' = "done"
  /\ UNCHANGED << input, pos, s, warning >>

Next ==
  \/ End \/ Blank \/ Skip \/ Skipped \/ Letter \/ Overlong \/ Over \/ Shortened \/ Hangs
  \/ Add \/ PrintAll

Spec == Init /\ [][Next]_vars
FairSpec == Spec /\ WF_vars(Next)

-----------------------------------------------------------------------------
TypeOK ==
  /\ pos \in 0 .. Len(input)
  /\ Len(s) <= MAX_LENGTH /\ ToSet(s) \subseteq Characters \ Spaces
  /\ pc \in {"getc", "skip", "over", "add", "print", "done", "failed"}
  /\ htab.size \in Nat /\ DOMAIN htab.ptr = 0 .. arr_size - 1
  /\ \A line \in ToSet(printed) : line.data \in 1 .. MaxInput
  /\ warning \in BOOLEAN

(* The words of the input: where they start, what follows them, and what   *)
(* is counted of them.                                                     *)
Starts == {p \in DOMAIN input : input[p] \notin Spaces /\ (p = 1 \/ input[p - 1] \in Spaces)}
After(p) == Min({q \in p .. Len(input) : input[q] \in Spaces} \cup {Len(input) + 1})
WordAt(p) == SubSeq(input, p, Min({After(p) - 1, p + MAX_LENGTH - 1}))

(* An input as this program wants it: single blanks, and only after words. *)
WellSpaced == \A p \in DOMAIN input : input[p] \in Spaces => p > 1 /\ input[p - 1] \notin Spaces
Finished(p) == After(p) <= Len(input)

(* For an input without superfluous blanks, a line is printed for each     *)
(* word that a blank follows, with the number of its occurrences, and the  *)
(* warning given if one was too long.                                      *)
Counts ==
  /\ TypeOK
  /\ pc = "done" /\ WellSpaced =>
       LET words == {p \in Starts : Finished(p)} IN
       /\ Len(printed) = Cardinality({WordAt(p) : p \in words})
       /\ ToSet(printed) =
            {[key |-> WordAt(p), data |-> Cardinality({q \in words : WordAt(q) = WordAt(p)})] : p \in words}
       /\ warning = \E p \in words : After(p) - p > MAX_LENGTH

(* The program ends unless its input does so within a word too long; the   *)
(* first letter after more than one blank counts twice.                    *)
Length(p) == (After(p) - p) + (IF p = 2 \/ (p > 2 /\ input[p - 2] \in Spaces) THEN 1 ELSE 0)
EndsInOverlong == \E p \in Starts : ~ Finished(p) /\ Length(p) > MAX_LENGTH
Termination == ~ EndsInOverlong => <>(pc \in {"done", "failed"})
=============================================================================
