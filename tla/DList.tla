-------------------------------- MODULE DList -------------------------------
(***************************************************************************)
(* The doubly linked list of sem_3/ial/proj_1/c206/c206.c, on the level of *)
(* its pointers.  A call is a step.                                        *)
(*                                                                         *)
(* An operator with a suffixed name (DLPostDeleteEnd) is a slip the        *)
(* properties must notice.                                                 *)
(***************************************************************************)
EXTENDS Naturals, Sequences, FiniteSets

CONSTANTS
  Nodes,       \* the addresses malloc may answer
  NULL,
  Values, Done, Error

(* Assumed of the constants, by the module that instantiates this one.    *)
DListAssumption == IsFiniteSet(Nodes) /\ NULL \notin Nodes

VARIABLES
  mem,               \* the elements that are allocated
  First, Act, Last,  \* the tDLList
  call,              \* the last call, with its argument
  res                \* what it answered

list == << mem, First, Act, Last >>
vars == << list, call, res >>

Init == mem = << >> /\ First = NULL /\ Act = NULL /\ Last = NULL /\ call = << "dispose" >> /\ res = Done

Element(data, lptr, rptr) == [data |-> data, lptr |-> lptr, rptr |-> rptr]

(* mem with the pointer lptr, or rptr, of an element changed, if there is  *)
(* such an element; with a new one; and without one.                       *)
Left(M, e, to) == IF e = NULL THEN M ELSE [M EXCEPT ![e].lptr = to]
Right(M, e, to) == IF e = NULL THEN M ELSE [M EXCEPT ![e].rptr = to]
With(tmp, element) == [e \in DOMAIN mem \cup {tmp} |-> IF e = tmp THEN element ELSE mem[e]]
Free(M, tmp) == [e \in DOMAIN M \ {tmp} |-> M[e]]

Answers(r) == res' = r /\ UNCHANGED list
Return == Answers(Done)
DLError == Answers(Error)

(* What a call does with the memory malloc gives it, or when it gives none.*)
Malloc(Use(_)) == DLError \/ \E tmp \in Nodes \ DOMAIN mem : Use(tmp) /\ res' = Done

-----------------------------------------------------------------------------
DLDisposeList ==
  /\ mem' = [e \in {} |-> NULL] /\ First' = NULL /\ Act' = NULL /\ Last' = NULL
  /\ res' = Done

DLInsertFirst(val) ==
  LET Use(tmp) ==
    /\ mem' = Left(With(tmp, Element(val, NULL, First)), IF Last = NULL THEN NULL ELSE First, tmp)
    /\ Last' = IF Last = NULL THEN tmp ELSE Last
    /\ First' = tmp
    /\ UNCHANGED Act
  IN Malloc(Use)

DLInsertLast(val) ==
  LET Use(tmp) ==
    /\ mem' = Right(With(tmp, Element(val, Last, NULL)), IF First = NULL THEN NULL ELSE Last, tmp)
    /\ First' = IF First = NULL THEN tmp ELSE First
    /\ Last' = tmp
    /\ UNCHANGED Act
  IN Malloc(Use)

Activates(e) == Act' = e /\ res' = Done /\ UNCHANGED << mem, First, Last >>

DLFirst == Activates(First)
DLLast == Activates(Last)
DLSucc == IF Act = NULL THEN Return ELSE Activates(mem[Act].rptr)
DLPred == IF Act = NULL THEN Return ELSE Activates(mem[Act].lptr)

DLCopyFirst == IF First = NULL THEN DLError ELSE Answers(mem[First].data)
DLCopyLast == IF Last = NULL THEN DLError ELSE Answers(mem[Last].data)
DLCopy == IF Act = NULL THEN DLError ELSE Answers(mem[Act].data)
DLActive == Answers(IF Act # NULL THEN "active" ELSE "inactive")

DLActualize(val) ==
  IF Act = NULL THEN Return
  ELSE mem' = [mem EXCEPT ![Act].data = val] /\ res' = Done /\ UNCHANGED << First, Act, Last >>

DLDeleteFirst ==
  IF First = NULL THEN Return
  ELSE LET next == mem[First].rptr IN
       /\ Act' = IF Act = First THEN NULL ELSE Act
       /\ IF First = Last
            THEN First' = NULL /\ Last' = NULL /\ mem' = Free(mem, First)
            ELSE First' = next /\ Last' = Last /\ mem' = Free(Left(mem, next, NULL), First)
       /\ res' = Done

DLDeleteLast ==
  IF First = NULL THEN Return
  ELSE LET prev == mem[Last].lptr IN
       /\ Act' = IF Act = Last THEN NULL ELSE Act
       /\ IF First = Last
            THEN First' = NULL /\ Last' = NULL /\ mem' = Free(mem, Last)
            ELSE First' = First /\ Last' = prev /\ mem' = Free(Right(mem, prev, NULL), Last)
       /\ res' = Done

DLPostDeleteEnd ==
  IF Act = NULL \/ Act = Last THEN Return
  ELSE LET tmp == mem[Act].rptr
           next == mem[tmp].rptr
       IN
       /\ mem' = Free(Left(Right(mem, Act, next), next, Act), tmp)
       /\ res' = Done
       /\ UNCHANGED << First, Act, Last >>

DLPostDelete ==
  IF Act = NULL \/ Act = Last THEN Return
  ELSE LET tmp == mem[Act].rptr
           next == mem[tmp].rptr
       IN
       /\ IF tmp = Last
            THEN Last' = mem[tmp].lptr /\ mem' = Free(Right(mem, mem[tmp].lptr, NULL), tmp)
            ELSE Last' = Last /\ mem' = Free(Left(Right(mem, Act, next), next, Act), tmp)
       /\ res' = Done
       /\ UNCHANGED << First, Act >>

DLPreDelete ==
  IF Act = NULL \/ Act = First THEN Return
  ELSE LET tmp == mem[Act].lptr
           prev == mem[tmp].lptr
       IN
       /\ IF tmp = First
            THEN First' = mem[tmp].rptr /\ mem' = Free(Left(mem, mem[tmp].rptr, NULL), tmp)
            ELSE First' = First /\ mem' = Free(Right(Left(mem, Act, prev), prev, Act), tmp)
       /\ res' = Done
       /\ UNCHANGED << Act, Last >>

DLPostInsert(val) ==
  LET next == mem[Act].rptr
      Use(tmp) ==
        /\ IF Act = Last
             THEN Last' = tmp /\ mem' = Right(With(tmp, Element(val, Act, NULL)), Act, tmp)
             ELSE Last' = Last /\ mem' = Right(Left(With(tmp, Element(val, Act, next)), next, tmp), Act, tmp)
        /\ UNCHANGED << First, Act >>
  IN IF Act = NULL THEN Return ELSE Malloc(Use)

DLPreInsert(val) ==
  LET prev == mem[Act].lptr
      Use(tmp) ==
        /\ IF Act = First
             THEN First' = tmp /\ mem' = Left(With(tmp, Element(val, NULL, Act)), Act, tmp)
             ELSE First' = First /\ mem' = Left(Right(With(tmp, Element(val, prev, Act)), prev, tmp), Act, tmp)
        /\ UNCHANGED << Act, Last >>
  IN IF Act = NULL THEN Return ELSE Malloc(Use)

Next ==
  \/ call' = << "dispose" >> /\ DLDisposeList
  \/ \E val \in Values :
       \/ call' = << "insertFirst", val >> /\ DLInsertFirst(val)
       \/ call' = << "insertLast", val >> /\ DLInsertLast(val)
       \/ call' = << "postInsert", val >> /\ DLPostInsert(val)
       \/ call' = << "preInsert", val >> /\ DLPreInsert(val)
       \/ call' = << "actualize", val >> /\ DLActualize(val)
  \/ call' = << "first" >> /\ DLFirst
  \/ call' = << "last" >> /\ DLLast
  \/ call' = << "succ" >> /\ DLSucc
  \/ call' = << "pred" >> /\ DLPred
  \/ call' = << "copyFirst" >> /\ DLCopyFirst
  \/ call' = << "copyLast" >> /\ DLCopyLast
  \/ call' = << "copy" >> /\ DLCopy
  \/ call' = << "active" >> /\ DLActive
  \/ call' = << "deleteFirst" >> /\ DLDeleteFirst
  \/ call' = << "deleteLast" >> /\ DLDeleteLast
  \/ call' = << "postDelete" >> /\ DLPostDelete
  \/ call' = << "preDelete" >> /\ DLPreDelete

Spec == Init /\ [][Next]_vars

-----------------------------------------------------------------------------
TypeOK ==
  /\ DOMAIN mem \subseteq Nodes
  /\ \A e \in DOMAIN mem :
       mem[e].data \in Values /\ {mem[e].lptr, mem[e].rptr} \subseteq DOMAIN mem \cup {NULL}
  /\ {First, Act, Last} \subseteq DOMAIN mem \cup {NULL}

(* The list as it is read from First along rptr.                           *)
Chain ==
  LET chain[k \in 0 .. Cardinality(Nodes)] ==
        IF k = 0 THEN << >>
        ELSE LET c == chain[k - 1]
                 e == IF c = << >> THEN First ELSE mem[c[Len(c)]].rptr
             IN  IF e = NULL THEN c ELSE Append(c, e)
  IN  chain[Cardinality(Nodes)]

(* Read from Last along lptr the list is the same, and it has every        *)
(* element that is allocated: none is lost and none is in it twice.        *)
TwoWay ==
  LET n == Len(Chain) IN
  /\ n = Cardinality(DOMAIN mem)
  /\ Last = IF n = 0 THEN NULL ELSE Chain[n]
  /\ \A k \in 1 .. n : mem[Chain[k]].lptr = IF k = 1 THEN NULL ELSE Chain[k - 1]

(* The place of Act in the list; a dangling Act is beyond its end.         *)
ActPlace ==
  LET places == {k \in DOMAIN Chain : Chain[k] = Act}
  IN  IF Act = NULL THEN 0
      ELSE CHOOSE k \in places \cup {Len(Chain) + 1} : places # {} => k \in places

List == INSTANCE CursorList WITH
  items <- [k \in DOMAIN Chain |-> mem[Chain[k]].data],
  act <- ActPlace

(* The pointers implement a list with an active item, both ways.           *)
ListSpec == List!Spec /\ []TwoWay
=============================================================================
