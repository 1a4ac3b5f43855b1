-------------------------------- MODULE Fifo --------------------------------
(* What the queue of sem_3/ial/proj_1/c203 promises (c203.h): the          *)
(* characters come out in the order they went in, and a call that cannot   *)
(* be served reports an error and changes nothing.                         *)
EXTENDS Naturals, Sequences

CONSTANTS Values, Room, Done, Error

VARIABLES
  items,  \* what is in the queue, the oldest first
  call,   \* the last call, with its argument
  res     \* what it answered: a value, Done or Error

Init == items = << >> /\ call = << "init" >> /\ res = Done

Clear == items' = << >> /\ res' = Done

Up(c) ==
  IF Len(items) < Room
    THEN items' = Append(items, c) /\ res' = Done
    ELSE items' = items /\ res' = Error

Front == items' = items /\ res' = IF items = << >> THEN Error ELSE Head(items)

Remove ==
  IF items = << >>
    THEN items' = items /\ res' = Error
    ELSE items' = Tail(items) /\ res' = Done

Get ==
  IF items = << >>
    THEN items' = items /\ res' = Error
    ELSE items' = Tail(items) /\ res' = Head(items)

Next ==
  \/ call' = << "init" >> /\ Clear
  \/ \E c \in Values : call' = << "up", c >> /\ Up(c)
  \/ call' = << "front" >> /\ Front
  \/ call' = << "remove" >> /\ Remove
  \/ call' = << "get" >> /\ Get

Spec == Init /\ [][Next]_<< items, call, res >>
=============================================================================
