-------------------------------- MODULE SList -------------------------------
(***************************************************************************)
(* The singly linked list of sem_3/ial/proj_1/c201/c201.c, on the level of *)
(* its pointers.  A call is a step.                                        *)
(*                                                                         *)
(* An operator with a suffixed name (DeleteFirstActive) is a slip the      *)
(* properties must notice.                                                 *)
(***************************************************************************)
EXTENDS Naturals, Sequences, FiniteSets

CONSTANTS
  Nodes,       \* the addresses malloc may answer
  NULL,
  Values, Done, Error

(* Assumed of the constants, by the module that instantiates this one.    *)
SListAssumption ==
  IsFiniteSet(Nodes) /\ NULL \notin Nodes /\ "crash" \notin Values \cup {Done, Error}

VARIABLES
  mem,         \* the elements that are allocated
  First, Act,  \* the tList
  call,        \* the last call, with its argument
  res          \* what it answered, or "crash"

list == << mem, First, Act >>
vars == << list, call, res >>

Init == mem = << >> /\ First = NULL /\ Act = NULL /\ call = << "dispose" >> /\ res = Done

With(M, e, data, ptr) ==
  [x \in DOMAIN M \cup {e} |-> IF x = e THEN [data |-> data, ptr |-> ptr] ELSE M[x]]
Free(M, freed) == [x \in DOMAIN M \ freed |-> M[x]]

Answers(r) == res' = r /\ UNCHANGED list
Return == Answers(Done)
ErrorCall == Answers(Error)

(* The list as it is read from First.                                      *)
Chain ==
  LET chain[k \in 0 .. Cardinality(Nodes)] ==
        IF k = 0 THEN << >>
        ELSE LET c == chain[k - 1]
                 e == IF c = << >> THEN First ELSE mem[c[Len(c)]].ptr
             IN  IF e = NULL THEN c ELSE Append(c, e)
  IN  chain[Cardinality(Nodes)]

-----------------------------------------------------------------------------
(* The loop of DisposeList is left as soon as the element after the one    *)
(* just freed is the last: that one is not freed.  If there is none after  *)
(* it, NULL is dereferenced.                                               *)
DisposeList ==
  IF First = NULL THEN Return
  ELSE LET n == Len(Chain) IN
       /\ mem' = Free(mem, {Chain[k] : k \in 1 .. (IF n = 1 THEN 1 ELSE n - 1)})
       /\ First' = NULL
       /\ IF n = 1 THEN res' = "crash" /\ UNCHANGED Act ELSE res' = Done /\ Act' = NULL

InsertFirst(val) ==
  \/ ErrorCall
  \/ \E element \in Nodes \ DOMAIN mem :
       /\ mem' = With(mem, element, val, First) /\ First' = element
       /\ res' = Done
       /\ UNCHANGED Act

PostInsert(val) ==
  IF Act = NULL THEN Return
  ELSE \/ ErrorCall
       \/ \E element \in Nodes \ DOMAIN mem :
            /\ mem' = With([mem EXCEPT ![Act].ptr = element], element, val, mem[Act].ptr)
            /\ res' = Done
            /\ UNCHANGED << First, Act >>

Activates(e) == Act' = e /\ res' = Done /\ UNCHANGED << mem, First >>

ToFirst == Activates(First)
Succ == IF Act = NULL THEN Return ELSE Activates(mem[Act].ptr)

CopyFirst == IF First = NULL THEN ErrorCall ELSE Answers(mem[First].data)
Copy == IF Act = NULL THEN ErrorCall ELSE Answers(mem[Act].data)
Active == Answers(IF Act # NULL THEN "active" ELSE "inactive")

Actualize(val) ==
  IF Act = NULL THEN Return
  ELSE mem' = [mem EXCEPT ![Act].data = val] /\ res' = Done /\ UNCHANGED << First, Act >>

DeleteFirstActive ==
  IF First = NULL THEN Return
  ELSE First' = mem[First].ptr /\ mem' = Free(mem, {First}) /\ res' = Done /\ UNCHANGED Act

DeleteFirst ==
  IF First = NULL THEN Return
  ELSE /\ Act' = IF First = Act THEN NULL ELSE Act
       /\ First' = mem[First].ptr /\ mem' = Free(mem, {First})
       /\ res' = Done

PostDelete ==
  IF Act = NULL \/ mem[Act].ptr = NULL THEN Return
  ELSE LET tmp == mem[Act].ptr IN
       /\ mem' = Free([mem EXCEPT ![Act].ptr = mem[tmp].ptr], {tmp})
       /\ res' = Done
       /\ UNCHANGED << First, Act >>

Call ==
  \/ call' = << "dispose" >> /\ DisposeList
  \/ \E val \in Values :
       \/ call' = << "insertFirst", val >> /\ InsertFirst(val)
       \/ call' = << "postInsert", val >> /\ PostInsert(val)
       \/ call' = << "actualize", val >> /\ Actualize(val)
  \/ call' = << "first" >> /\ ToFirst
  \/ call' = << "succ" >> /\ Succ
  \/ call' = << "copyFirst" >> /\ CopyFirst
  \/ call' = << "copy" >> /\ Copy
  \/ call' = << "active" >> /\ Active
  \/ call' = << "deleteFirst" >> /\ DeleteFirst
  \/ call' = << "postDelete" >> /\ PostDelete

Next == res # "crash" /\ Call

Spec == Init /\ [][Next]_vars

-----------------------------------------------------------------------------
(* The place of Act in the list; a dangling Act is beyond its end.         *)
ActPlace ==
  LET places == {k \in DOMAIN Chain : Chain[k] = Act}
  IN  IF Act = NULL \/ res = "crash" THEN 0
      ELSE CHOOSE k \in places \cup {Len(Chain) + 1} : places # {} => k \in places

List == INSTANCE CursorList WITH
  items <- [k \in DOMAIN Chain |-> mem[Chain[k]].data],
  act <- ActPlace,
  res <- IF res = "crash" THEN Done ELSE res

Lost == DOMAIN mem \ {Chain[k] : k \in DOMAIN Chain}

(* The pointers implement a list with an active item, as far as the items  *)
(* are concerned; memory is lost by DisposeList alone, one element of each *)
(* list of two or more, and it is the list of one on which it crashes.     *)
ListSpec ==
  /\ List!Spec
  /\ [][\/ Lost' = Lost
        \/ /\ Len(Chain) > 1 /\ First' = NULL
           /\ \E e \in DOMAIN mem : mem[e].ptr = NULL /\ Lost' = Lost \cup {e}]_vars
  /\ [][res' = "crash" => Len(Chain) = 1 /\ First' = NULL]_vars
=============================================================================
