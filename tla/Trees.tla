-------------------------------- MODULE Trees -------------------------------
(* Binary trees as the programs of sem_3/ial/proj_2 use them (c401, c402). *)
(* A tree is a function whose domain is a set of places; a place is the    *)
(* path to it from the root, << >>, and with a place all those on the way  *)
(* to it are in the tree.                                                  *)
EXTENDS Integers, SequencesExt

LPtr(p) == Append(p, "L")
RPtr(p) == Append(p, "R")

(* The place where the search for key ends: that of the key, or the empty  *)
(* one where it would be.                                                  *)
Where(keys, key) ==
  LET down[n \in 0 .. Cardinality(DOMAIN keys)] ==
        IF n = 0 THEN << >>
        ELSE LET p == down[n - 1]
             IN  CASE p \notin DOMAIN keys \/ keys[p] = key -> p
                   [] p \in DOMAIN keys /\ keys[p] > key    -> LPtr(p)
                   [] p \in DOMAIN keys /\ keys[p] < key    -> RPtr(p)
  IN  down[Cardinality(DOMAIN keys)]

(* The places from p on down one side, as far as there are nodes.          *)
DownSide(places, p, side) ==
  {q \in places : IsPrefix(p, q) /\ \A k \in Len(p) + 1 .. Len(q) : q[k] = side}

Branch(places, p, side) ==
  SetToSortSeq(DownSide(places, p, side), LAMBDA a, b : Len(a) < Len(b))

(* The node at p goes, and its subtree at the given side takes its place.  *)
Hoist(tree, p, side) ==
  LET outside == {q \in DOMAIN tree : ~ IsPrefix(p, q)}
      below   == {q \in DOMAIN tree : IsPrefix(Append(p, side), q)}
      up      == {p \o SubSeq(q, Len(p) + 2, Len(q)) : q \in below}
  IN  [q \in outside \cup up |->
         IF q \in outside THEN tree[q]
         ELSE tree[Append(p, side) \o SubSeq(q, Len(p) + 1, Len(q))]]

Height(places) == IF places = {} THEN 0 ELSE 1 + Max({Len(p) : p \in places})
=============================================================================
