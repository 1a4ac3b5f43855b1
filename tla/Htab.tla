-------------------------------- MODULE Htab --------------------------------
(***************************************************************************)
(* The hash table of sem_2/ijc/proj_2 (htab_*.c): buckets of items, each a *)
(* key and its data.  The list of a bucket is a sequence; a table is a     *)
(* record of the number of items, the number of buckets and the buckets.   *)
(*                                                                         *)
(* An operator with a suffixed name (htab_lookup_addLast) is a slip the    *)
(* properties must notice.                                                 *)
(***************************************************************************)
EXTENDS Naturals, Sequences, SequencesExt, FiniteSetsExt

CONSTANT Code  \* the character codes

ASSUME HtabAssumption == \A char \in DOMAIN Code : Code[char] \in Nat

(* 65599 * h + *p in unsigned arithmetic, modulo the number of buckets: as *)
(* this divides 2^32, every step may be taken modulo it.                   *)
htab_hash_function(key, arr_size) ==
  LET h[n \in 0 .. Len(key)] == IF n = 0 THEN 0 ELSE (65599 * h[n - 1] + Code[key[n]]) % arr_size
  IN  h[Len(key)]

htab_init(arr_size) ==
  [size |-> 0, arr_size |-> arr_size, ptr |-> [i \in 0 .. arr_size - 1 |-> << >>]]

Bucket(t, key) == htab_hash_function(key, t.arr_size)

(* The item of the key in its bucket, or 0.                                *)
htab_find(t, key) ==
  LET list == t.ptr[Bucket(t, key)]
  IN  Min({k \in DOMAIN list : list[k].key = key} \cup {Len(list) + 1}) % (Len(list) + 1)

Data(t, key) == IF htab_find(t, key) = 0 THEN 0 ELSE t.ptr[Bucket(t, key)][htab_find(t, key)].data

htab_lookup_addLast(t, key) ==
  LET i == Bucket(t, key)
      k == Len(t.ptr[i])
  IN  IF k # 0 /\ t.ptr[i][k].key = key
        THEN [t EXCEPT !.ptr[i][k].data = @ + 1]
        ELSE [t EXCEPT !.size = @ + 1, !.ptr[i] = Append(@, [key |-> key, data |-> 1])]

(* The item of the key counts one more, or a new one is added at the end.  *)
htab_lookup_add(t, key) ==
  LET i == Bucket(t, key)
      k == htab_find(t, key)
  IN  IF k # 0
        THEN [t EXCEPT !.ptr[i][k].data = @ + 1]
        ELSE [t EXCEPT !.size = @ + 1, !.ptr[i] = Append(@, [key |-> key, data |-> 1])]

htab_remove(t, key) ==
  IF htab_find(t, key) = 0 THEN t
  ELSE [t EXCEPT !.size = @ - 1, !.ptr[Bucket(t, key)] = RemoveAt(@, htab_find(t, key))]

(* What htab_foreach calls its function for, in this order.                *)
htab_foreach(t) == FlattenSeq([i \in 1 .. t.arr_size |-> t.ptr[i - 1]])

htab_clear(t) == htab_init(t.arr_size)
=============================================================================
