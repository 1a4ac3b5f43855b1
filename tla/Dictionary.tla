----------------------------- MODULE Dictionary -----------------------------
(* What the hash table c016 and the search tree c401 of sem_3/ial/proj_2   *)
(* promise: at most one value for a key, the last one inserted.  An        *)
(* insertion of a new key may fail, silently, for want of memory.          *)
CONSTANTS Keys, Values, Done, None

VARIABLES
  map,  \* the value of every key there is
  call, \* the last call, with its arguments
  res   \* what it answered: a value, None or Done

Init == map = << >> /\ call = << "clear" >> /\ res = Done

Becomes(m) == map' = m /\ res' = Done

Clear == Becomes(<< >>)

Insert(key, value) ==
  \/ Becomes([k \in DOMAIN map \cup {key} |-> IF k = key THEN value ELSE map[k]])
  \/ key \notin DOMAIN map /\ Becomes(map)

Search(key) == map' = map /\ res' = IF key \in DOMAIN map THEN map[key] ELSE None

Delete(key) == Becomes([k \in DOMAIN map \ {key} |-> map[k]])

Next ==
  \/ call' = << "clear" >> /\ Clear
  \/ \E key \in Keys :
       \/ call' = << "search", key >> /\ Search(key)
       \/ call' = << "delete", key >> /\ Delete(key)
       \/ \E value \in Values : call' = << "insert", key, value >> /\ Insert(key, value)

Spec == Init /\ [][Next]_<< map, call, res >>
=============================================================================
