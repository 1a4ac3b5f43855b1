------------------------------ MODULE HtabItems -----------------------------
(***************************************************************************)
(* The hash table of sem_2/ijc/proj_2 as it is in memory: items linked by  *)
(* pointers.  A call is a step, but htab_move takes one per item, as it    *)
(* need not return.  The caller of htab_move frees the old table.          *)
(*                                                                         *)
(* An operator with a suffixed name (RemoveItemFirst, ...) is a slip the   *)
(* properties must notice.                                                 *)
(***************************************************************************)
EXTENDS Htab

CONSTANTS
  Items,      \* the addresses malloc may answer
  NULL,
  Keys,       \* what htab is called with
  Sizes,      \* the numbers of buckets, powers of two
  MaxData     \* how often a key is added at most

(* Assumed of the constants, by the module that instantiates this one.    *)
HtabItemsAssumption ==
  /\ IsFiniteSet(Items) /\ NULL \notin Items
  /\ Keys \subseteq Seq(DOMAIN Code) /\ Sizes \subseteq Nat \ {0} /\ MaxData \in Nat

VARIABLES
  mem,           \* the items that are allocated
  t,             \* the table: size, arr_size and ptr, an array of pointers
  htab, i, tmp,  \* the local variables of htab_move
  pc,
  call, res,     \* the last call, with its argument, and what it answered
  before         \* the table that htab_move is moving

vars == << mem, t, htab, i, tmp, pc, call, res, before >>
moving == << htab, i, tmp, pc, before >>

Empty(arr_size) == [size |-> 0, arr_size |-> arr_size, ptr |-> [k \in 0 .. arr_size - 1 |-> NULL]]

Init ==
  /\ mem = << >>
  /\ \E arr_size \in Sizes : t = Empty(arr_size) /\ call = << "init", arr_size >>
  /\ htab = << >> /\ i = 0 /\ tmp = NULL /\ pc = "idle"
  /\ res = 0
  /\ before = << >>

(* The items from first on, and of a whole table.                          *)
Chain(first) ==
  LET nth[k \in 1 .. Cardinality(Items)] ==
        IF k = 1 THEN first ELSE IF nth[k - 1] = NULL THEN NULL ELSE mem[nth[k - 1]].next
  IN  [k \in 1 .. Cardinality({n \in DOMAIN nth : nth[n] # NULL}) |-> nth[k]]

List(key) == Chain(t.ptr[Bucket(t, key)])

(* Where the loop for tmp finds the key, if it does.                       *)
Matches(key) == {k \in DOMAIN List(key) : mem[List(key)[k]].key = key}

-----------------------------------------------------------------------------
Calls(name, key) == pc = "idle" /\ call' = << name, key >> /\ UNCHANGED moving

FindItem == \E key \in Keys :
  /\ Calls("find", key)
  /\ res' = IF Matches(key) = {} THEN 0 ELSE mem[List(key)[Min(Matches(key))]].data
  /\ UNCHANGED << mem, t >>

(* A new item goes behind the last one of its list; malloc may fail.       *)
LookupAdd == \E key \in Keys :
  LET list == List(key)
      new == CHOOSE item \in Items \ DOMAIN mem : TRUE
      Linked(M) == [item \in DOMAIN M \cup {new} |->
                      IF item = new THEN [key |-> key, data |-> 1, next |-> NULL] ELSE M[item]]
  IN
  /\ Calls("lookup_add", key)
  /\ \/ \E k \in Matches(key) :
          /\ mem[list[k]].data < MaxData
          /\ mem' = [mem EXCEPT ![list[k]].data = @ + 1]
          /\ res' = mem'[list[k]].data
          /\ UNCHANGED t
     \/ Matches(key) = {} /\ res' = 0 /\ UNCHANGED << mem, t >>
     \/ /\ Matches(key) = {} /\ DOMAIN mem # Items
        /\ IF list = << >>
             THEN mem' = Linked(mem)
                  /\ t' = [t EXCEPT !.size = @ + 1, !.ptr[Bucket(t, key)] = new]
             ELSE mem' = Linked([mem EXCEPT ![list[Len(list)]].next = new])
                  /\ t' = [t EXCEPT !.size = @ + 1]
        /\ res' = 1

Freed(M, items) == [item \in DOMAIN M \ items |-> M[item]]

RemoveItemFirst(k, list) ==
  /\ mem' = Freed(mem, {list[k]})
  /\ t' = [t EXCEPT !.size = @ - 1, !.ptr[Bucket(t, mem[list[k]].key)] = mem[list[k]].next]

(* previous->next = next, or the bucket if there is no previous item.      *)
RemoveItem(k, list) ==
  LET next == mem[list[k]].next IN
  IF k > 1
    THEN /\ mem' = Freed([mem EXCEPT ![list[k - 1]].next = next], {list[k]})
         /\ t' = [t EXCEPT !.size = @ - 1]
    ELSE /\ mem' = Freed(mem, {list[k]})
         /\ t' = [t EXCEPT !.size = @ - 1, !.ptr[Bucket(t, mem[list[k]].key)] = next]

RemoveKey == \E key \in Keys :
  /\ Calls("remove", key)
  /\ \/ \E k \in Matches(key) : RemoveItem(k, List(key)) /\ res' = 1
     \/ Matches(key) = {} /\ res' = 0 /\ UNCHANGED << mem, t >>

(* tmp->next is read after free(tmp), which leaves it alone.               *)
Clear ==
  /\ Calls("clear", 0)
  /\ mem' = Freed(mem, UNION {ToSet(Chain(t.ptr[k])) : k \in DOMAIN t.ptr})
  /\ t' = Empty(t.arr_size)
  /\ res' = 0

-----------------------------------------------------------------------------
(* htab_move, which may find no memory for a new table.                    *)

Entries(items) == [n \in DOMAIN items |-> [key |-> mem[items[n]].key, data |-> mem[items[n]].data]]
Table == [t EXCEPT !.ptr = [k \in DOMAIN t.ptr |-> Entries(Chain(t.ptr[k]))]]

Move == \E newsize \in Sizes :
  /\ pc = "idle" /\ call' = << "move", newsize >> /\ res' = 0
  /\ \/ UNCHANGED moving
     \/ /\ htab' = [Empty(newsize) EXCEPT !.size = t.size]
        /\ i' = 0 /\ tmp' = t.ptr[0]
        /\ pc' = "move"
        /\ before' = Table
  /\ UNCHANGED << mem, t >>

(* The item becomes the first of its new list: the next one that is moved  *)
(* is what its next says now, not what it said in the old list.            *)
MoveItem ==
  LET index == htab_hash_function(mem[tmp].key, htab.arr_size) IN
  /\ pc = "move" /\ tmp # NULL
  /\ htab' = [htab EXCEPT !.ptr[index] = tmp]
  /\ mem' = [mem EXCEPT ![tmp].next = htab.ptr[index]]
  /\ tmp' = mem'[tmp].next
  /\ UNCHANGED << t, i, pc, call, res, before >>

MoveBucket ==
  /\ pc = "move" /\ tmp = NULL
  /\ \/ /\ i + 1 < t.arr_size /\ i' = i + 1
        /\ tmp' = t.ptr[i'] /\ t' = [t EXCEPT !.ptr[i] = NULL]
        /\ UNCHANGED << htab, pc, res, before >>
     \/ /\ i + 1 = t.arr_size
        /\ t' = htab /\ res' = 1 /\ pc' = "idle"
        /\ htab' = << >> /\ i' = 0 /\ tmp' = NULL /\ before' = << >>
  /\ UNCHANGED << mem, call >>

Next == FindItem \/ LookupAdd \/ RemoveKey \/ Clear \/ Move \/ MoveItem \/ MoveBucket

Spec == Init /\ [][Next]_vars
FairSpec == Spec /\ WF_vars(MoveItem \/ MoveBucket)

-----------------------------------------------------------------------------
(* A key is in the bucket of its hash and in no other place, and size is   *)
(* the number of items, or more after a move.                              *)
Sound(table) ==
  LET places == {p \in (DOMAIN table.ptr) \X (1 .. Cardinality(Items)) : p[2] <= Len(table.ptr[p[1]])} IN
  /\ \A p \in places : Bucket(table, table.ptr[p[1]][p[2]].key) = p[1]
  /\ \A p, q \in places : table.ptr[p[1]][p[2]].key = table.ptr[q[1]][q[2]].key => p = q
  /\ table.size >= Cardinality(places)

(* The items of a table, and those that are first in their buckets.        *)
Contents(table) == UNION {ToSet(table.ptr[k]) : k \in DOMAIN table.ptr}
Heads(table) == {table.ptr[k][1] : k \in {l \in DOMAIN table.ptr : table.ptr[l] # << >>}}

(* No two of the first items meet in a bucket of newsize.                  *)
Goes(item, newsize) == htab_hash_function(item.key, newsize)
Distinct(old, newsize) == \A p, q \in Heads(old) : Goes(p, newsize) = Goes(q, newsize) => p = q

(* What htab_move keeps: the first item of each bucket at the least.       *)
Kept(old, newsize, new) ==
  /\ new.size = old.size /\ new.arr_size = newsize
  /\ Heads(old) \subseteq Contents(new) /\ Contents(new) \subseteq Contents(old)

(* What a call may make of a table, and answer.                            *)
Results(name, key, table) ==
  CASE name = "find" -> {<< table, Data(table, key) >>}
    [] name = "lookup_add" ->
         {<< htab_lookup_add(table, key), Data(table, key) + 1 >>}
           \cup (IF htab_find(table, key) = 0 THEN {<< table, 0 >>} ELSE {})
    [] name = "remove" ->
         {<< htab_remove(table, key), IF htab_find(table, key) = 0 THEN 0 ELSE 1 >>}
    [] name = "clear" -> {<< htab_clear(table), 0 >>}
    [] OTHER -> {<< table, 0 >>}  \* htab_move without memory for it

(* Every call does to the chains of items what the operator of Htab does   *)
(* to sequences, however keys collide and whatever was removed before, and *)
(* the table stays sound.  A htab_move that returns has a table of the new *)
(* size, without an item that was not there, and with the first item of    *)
(* every bucket: AllMoved is of the others.                                *)
TableImplemented == [][
  \A new \in {Table'} :
    /\ pc = "idle" /\ pc' = "idle" => << new, res' >> \in Results(call'[1], call'[2], Table)
    /\ pc = "move" /\ pc' = "idle" => Kept(before, call[2], new)
    /\ pc' = "idle" => Sound(new)
  ]_vars

(* htab_move is to "move one hash table to another with different size"    *)
(* (htab.h:42): when it returns, all the items are in the new table.       *)
AllMoved == [][
  pc = "move" /\ pc' = "idle" => \A new \in {Table'} : Contents(new) = Contents(before)
  ]_vars

(* htab_move returns if no two first items meet in a new list.             *)
Returns == (pc = "move" /\ Distinct(before, call[2])) ~> pc = "idle"
=============================================================================
