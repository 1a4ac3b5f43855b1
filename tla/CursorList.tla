----------------------------- MODULE CursorList -----------------------------
(* What the lists of sem_3/ial/proj_1 (c201 and c206) promise: a sequence  *)
(* of values, of which one may be active, and the calls that use it, which *)
(* do nothing, or report an error, when there is no such item.             *)
EXTENDS Naturals, Sequences

CONSTANTS Values, Done, Error

VARIABLES
  items,  \* the values in the list
  act,    \* the place of the active item, or 0
  call,   \* the last call, with its argument
  res     \* what it answered

Init == items = << >> /\ act = 0 /\ call = << "dispose" >> /\ res = Done

Becomes(s, a) == items' = s /\ act' = a /\ res' = Done
Answers(r) == res' = r /\ UNCHANGED << items, act >>
Nothing == Answers(Done)

(* The items with another at place i, and without that at place i.         *)
With(i, val) == SubSeq(items, 1, i - 1) \o << val >> \o SubSeq(items, i, Len(items))
Without(i) == SubSeq(items, 1, i - 1) \o SubSeq(items, i + 1, Len(items))

(* A new item at place i, if there is memory for it.                       *)
Inserts(i, val) ==
  \/ Becomes(With(i, val), IF act >= i THEN act + 1 ELSE act)
  \/ Answers(Error)

(* The item at place i goes, and with it the activity if it was its.       *)
Deletes(i) ==
  Becomes(Without(i), IF act = i THEN 0 ELSE IF act > i THEN act - 1 ELSE act)

Moves(a) == Becomes(items, a)

Active == act # 0
Empty == items = << >>

Next ==
  \/ call' = << "dispose" >> /\ Becomes(<< >>, 0)
  \/ \E val \in Values :
       \/ call' = << "insertFirst", val >> /\ Inserts(1, val)
       \/ call' = << "insertLast", val >> /\ Inserts(Len(items) + 1, val)
       \/ call' = << "postInsert", val >> /\ IF Active THEN Inserts(act + 1, val) ELSE Nothing
       \/ call' = << "preInsert", val >> /\ IF Active THEN Inserts(act, val) ELSE Nothing
       \/ call' = << "actualize", val >>
            /\ IF Active THEN Becomes([items EXCEPT ![act] = val], act) ELSE Nothing
  \/ call' = << "first" >> /\ Moves(IF Empty THEN 0 ELSE 1)
  \/ call' = << "last" >> /\ Moves(Len(items))
  \/ call' = << "succ" >> /\ Moves(IF Active /\ act < Len(items) THEN act + 1 ELSE 0)
  \/ call' = << "pred" >> /\ Moves(IF Active THEN act - 1 ELSE 0)
  \/ call' = << "deleteFirst" >> /\ IF Empty THEN Nothing ELSE Deletes(1)
  \/ call' = << "deleteLast" >> /\ IF Empty THEN Nothing ELSE Deletes(Len(items))
  \/ call' = << "postDelete" >> /\ IF Active /\ act < Len(items) THEN Deletes(act + 1) ELSE Nothing
  \/ call' = << "preDelete" >> /\ IF act > 1 THEN Deletes(act - 1) ELSE Nothing
  \/ call' = << "copyFirst" >> /\ Answers(IF Empty THEN Error ELSE items[1])
  \/ call' = << "copyLast" >> /\ Answers(IF Empty THEN Error ELSE items[Len(items)])
  \/ call' = << "copy" >> /\ Answers(IF Active THEN items[act] ELSE Error)
  \/ call' = << "active" >> /\ Answers(IF Active THEN "active" ELSE "inactive")

Spec == Init /\ [][Next]_<< items, act, call, res >>
=============================================================================
