------------------------------ MODULE HashTable -----------------------------
(***************************************************************************)
(* The table with chained synonyms of sem_3/ial/proj_2/c016/c016.c.  A     *)
(* chain is a sequence of its items; a call is a step.                     *)
(*                                                                         *)
(* An operator with a suffixed name (htInsertBlind) is a slip the          *)
(* properties must notice.                                                 *)
(***************************************************************************)
EXTENDS Naturals, Sequences

CONSTANTS
  HTSIZE,
  Keys,
  Sum,         \* of the characters of a key
  Values, Done, None

(* Assumed of the constants, by the module that instantiates this one.    *)
TableAssumption == HTSIZE \in Nat \ {0} /\ Sum \in [Keys -> Nat]

VARIABLES
  ptrht,
  call,  \* the last call, with its arguments
  res    \* what it answered

vars == << ptrht, call, res >>

(* For keys of ASCII characters: others may have a negative sum, and then  *)
(* an index in front of the table.                                         *)
hashCode(key) == (1 + Sum[key]) % HTSIZE

Chains == 0 .. HTSIZE - 1
Init == ptrht = [i \in Chains |-> << >>] /\ call = << "clear" >> /\ res = Done

(* The places of a key in its chain; the code stops at the first.          *)
Places(key) == {k \in DOMAIN ptrht[hashCode(key)] : ptrht[hashCode(key)][k].key = key}
First(places) == CHOOSE k \in places : \A l \in places : k <= l

htSearch(key) ==
  /\ res' = IF Places(key) = {} THEN None ELSE ptrht[hashCode(key)][First(Places(key))].data
  /\ UNCHANGED ptrht

htRead(key) == htSearch(key)

(* Without memory for the item or for its copy of the key nothing is done. *)
htInsert(key, data) ==
  /\ LET i == hashCode(key) IN
     IF Places(key) # {}
       THEN ptrht' = [ptrht EXCEPT ![i][First(Places(key))].data = data]
       ELSE ptrht' \in {ptrht, [ptrht EXCEPT ![i] = << [key |-> key, data |-> data] >> \o @]}
  /\ res' = Done

htDeleteChain(key) ==
  /\ ptrht' = IF Places(key) = {} THEN ptrht
              ELSE [ptrht EXCEPT ![hashCode(key)] = SubSeq(@, First(Places(key)) + 1, Len(@))]
  /\ res' = Done

htDelete(key) ==
  /\ ptrht' = IF Places(key) = {} THEN ptrht
              ELSE [ptrht EXCEPT ![hashCode(key)] =
                      SubSeq(@, 1, First(Places(key)) - 1) \o SubSeq(@, First(Places(key)) + 1, Len(@))]
  /\ res' = Done

htClearAll == ptrht' = [i \in Chains |-> << >>] /\ res' = Done

Next ==
  \/ call' = << "clear" >> /\ htClearAll
  \/ \E key \in Keys :
       \/ call' = << "search", key >> /\ (htSearch(key) \/ htRead(key))
       \/ call' = << "delete", key >> /\ htDelete(key)
       \/ \E data \in Values : call' = << "insert", key, data >> /\ htInsert(key, data)

Spec == Init /\ [][Next]_vars

-----------------------------------------------------------------------------
Items == UNION {{ptrht[i][k] : k \in DOMAIN ptrht[i]} : i \in Chains}

Map == INSTANCE Dictionary WITH
  map <- [key \in {item.key : item \in Items} |-> (CHOOSE item \in Items : item.key = key).data]

(* Whatever the keys that share a chain, the table is a dictionary, and it *)
(* holds no key twice.                                                     *)
DictionarySpec ==
  Map!Spec /\ [](\A item, other \in Items : item.key = other.key => item = other)
=============================================================================
