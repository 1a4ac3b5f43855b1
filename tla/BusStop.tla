------------------------------- MODULE BusStop -------------------------------
(***************************************************************************)
(* What the bus stop promises its riders, without semaphores, counters,    *)
(* log lines or program points: riders join a queue while the door is      *)
(* closed, the bus opens its door for as many as it can take, drives when  *)
(* exactly those have boarded, and lets as many go.                        *)
(***************************************************************************)
EXTENDS Integers, FiniteSets

CONSTANTS Riders, C

VARIABLES
  queue,    \* the riders at the stop
  aboard,   \* the riders that boarded and were not let go
  gone,     \* the riders that were let go
  door,     \* "open" while riders board
  seats,    \* how many riders have still to board, while the door is open
  riding,   \* how many riders of this trip are not yet permitted to go
  tickets   \* permissions to go that nobody has used

vars == << queue, aboard, gone, door, seats, riding, tickets >>

Init ==
  /\ queue = {} /\ aboard = {} /\ gone = {}
  /\ door = "closed" /\ seats = 0 /\ riding = 0 /\ tickets = 0

Join(r) ==
  /\ door = "closed"
  /\ r \notin queue \cup aboard \cup gone
  /\ queue' = queue \cup {r}
  /\ UNCHANGED << aboard, gone, door, seats, riding, tickets >>

OpenDoor ==
  /\ door = "closed" /\ riding = 0
  /\ queue # {}
  /\ door' = "open"
  /\ seats' = IF Cardinality(queue) > C THEN C ELSE Cardinality(queue)
  /\ UNCHANGED << queue, aboard, gone, riding, tickets >>

Board(r) ==
  /\ door = "open" /\ seats > 0
  /\ r \in queue
  /\ queue' = queue \ {r}
  /\ aboard' = aboard \cup {r}
  /\ seats' = seats - 1
  /\ riding' = riding + 1
  /\ UNCHANGED << gone, door, tickets >>

CloseDoor ==
  /\ door = "open" /\ seats = 0
  /\ door' = "closed"
  /\ UNCHANGED << queue, aboard, gone, seats, riding, tickets >>

LetGo ==
  /\ door = "closed" /\ riding > 0
  /\ riding' = riding - 1
  /\ tickets' = tickets + 1
  /\ UNCHANGED << queue, aboard, gone, door, seats >>

(* Any rider aboard may use a permission, one of a later trip too.         *)
Leave(r) ==
  /\ r \in aboard /\ tickets > 0
  /\ tickets' = tickets - 1
  /\ aboard' = aboard \ {r}
  /\ gone' = gone \cup {r}
  /\ UNCHANGED << queue, door, seats, riding >>

Next ==
  \/ OpenDoor \/ CloseDoor \/ LetGo
  \/ \E r \in Riders : Join(r) \/ Board(r) \/ Leave(r)

Spec == Init /\ [][Next]_vars
=============================================================================
