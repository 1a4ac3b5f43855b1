-------------------------------- MODULE Queue -------------------------------
(***************************************************************************)
(* The queue of sem_3/ial/proj_1/c203/c203.c: QUEUE_SIZE places of an      *)
(* array used in a circle, one of which always stays free to tell an empty *)
(* queue from a full one.  A call is a step.                               *)
(*                                                                         *)
(* An operator with a suffixed name (queueFullLate) is a slip the          *)
(* properties must notice.                                                 *)
(***************************************************************************)
EXTENDS Naturals, Sequences

CONSTANTS
  QUEUE_SIZE,
  Values,      \* the characters put into the queue
  Star,        \* the character the array is filled with
  Done, Error  \* answers that are no character

ASSUME QueueAssumption ==
  /\ QUEUE_SIZE \in Nat \ {0}
  /\ Done \notin Values /\ Error \notin Values \cup {Done}

VARIABLES
  arr, f_index, b_index,
  call,  \* the last call, with its argument
  res    \* what it answered

vars == << arr, f_index, b_index, call, res >>

nextIndex(index) == (index + 1) % QUEUE_SIZE
queueEmpty == f_index = b_index
queueFullLate == b_index = f_index /\ arr[b_index] # Star
queueFull == nextIndex(b_index) = f_index

queueInit ==
  /\ arr' = [k \in 0 .. QUEUE_SIZE - 1 |-> Star]
  /\ f_index' = 0 /\ b_index' = 0
  /\ res' = Done

Init ==
  /\ arr = [k \in 0 .. QUEUE_SIZE - 1 |-> Star]
  /\ f_index = 0 /\ b_index = 0
  /\ call = << "init" >> /\ res = Done

queueError == res' = Error /\ UNCHANGED << arr, f_index, b_index >>

queueFront ==
  IF queueEmpty THEN queueError
  ELSE res' = arr[f_index] /\ UNCHANGED << arr, f_index, b_index >>

queueRemove ==
  IF queueEmpty THEN queueError
  ELSE f_index' = nextIndex(f_index) /\ res' = Done /\ UNCHANGED << arr, b_index >>

queueGet ==
  IF queueEmpty THEN queueError
  ELSE f_index' = nextIndex(f_index) /\ res' = arr[f_index] /\ UNCHANGED << arr, b_index >>

queueUp(c) ==
  IF queueFull THEN queueError
  ELSE /\ arr' = [arr EXCEPT ![b_index] = c] /\ b_index' = nextIndex(b_index)
       /\ res' = Done
       /\ UNCHANGED f_index

Next ==
  \/ call' = << "init" >> /\ queueInit
  \/ call' = << "front" >> /\ queueFront
  \/ call' = << "remove" >> /\ queueRemove
  \/ call' = << "get" >> /\ queueGet
  \/ \E c \in Values : call' = << "up", c >> /\ queueUp(c)

Spec == Init /\ [][Next]_vars

-----------------------------------------------------------------------------
TypeOK ==
  /\ arr \in [0 .. QUEUE_SIZE - 1 -> Values \cup {Star}]
  /\ f_index \in 0 .. QUEUE_SIZE - 1 /\ b_index \in 0 .. QUEUE_SIZE - 1
  /\ res \in Values \cup {Star, Done, Error}

(* The queue, from its first place around to its first free one.           *)
Count == IF f_index <= b_index THEN b_index - f_index ELSE b_index + QUEUE_SIZE - f_index
Place(k) == IF f_index + k - 1 < QUEUE_SIZE THEN f_index + k - 1 ELSE f_index + k - 1 - QUEUE_SIZE

Contents == [k \in 1 .. Count |-> arr[Place(k)]]

Queued == INSTANCE Fifo WITH items <- Contents, Room <- QUEUE_SIZE - 1

(* Wherever in the array the queue is, and however full, it is a FIFO of   *)
(* QUEUE_SIZE - 1 characters.                                              *)
FifoSpec == Queued!Spec
=============================================================================
