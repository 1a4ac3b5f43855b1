----------------------------- MODULE PsedOutput -----------------------------
(* What psed promises: the lines of the input one after another, for each  *)
(* of them the results of the N replacements in the order of the command   *)
(* line, and no line begun before the one before it is complete.           *)
EXTENDS Naturals, Sequences

CONSTANT N

VARIABLES
  out,   \* what was printed: pairs of a line and a replacement
  cur,   \* the line that is being worked on
  turn   \* the replacement whose result comes next

vars == << out, cur, turn >>

Init == out = << >> /\ cur = 0 /\ turn = N

TakeLine ==
  /\ turn = N
  /\ cur' = cur + 1
  /\ turn' = 0
  /\ out' = out

PrintResult ==
  /\ turn < N
  /\ out' = Append(out, << cur, turn >>)
  /\ turn' = turn + 1
  /\ cur' = cur

Next == TakeLine \/ PrintResult

Spec == Init /\ [][Next]_vars
=============================================================================
