-------------------------- MODULE StructuresProofs --------------------------
(* The lists c206 and c201 implement a sequence with an active item, for   *)
(* every set of addresses malloc may answer.  The pointers are invariantly *)
(* those of some sequence of elements, without repetition; what a call     *)
(* does with them puts one element into that sequence or cuts one out.     *)
(* The queue c203 implements a FIFO.  The table c016 and the search tree   *)
(* c401 are dictionaries, for every size of the table and every set of     *)
(* keys: of the table it is invariant that every item is in the chain of   *)
(* its key and none is there twice; of the tree, that with a place all     *)
(* above it are in use, and that a key is on its side of all keys above it.*)
EXTENDS MCStructures, FiniteSetTheorems, SequenceTheorems, WellFoundedInduction, TLAPS

-----------------------------------------------------------------------------
(* Sequences with an item more and an item less.                           *)

Put(s, i, e) == [k \in 1 .. Len(s) + 1 |-> IF k < i THEN s[k] ELSE IF k = i THEN e ELSE s[k - 1]]
Cut(s, i) == [k \in 1 .. Len(s) - 1 |-> IF k < i THEN s[k] ELSE s[k + 1]]

LEMMA PutSequence ==
  ASSUME NEW S, NEW s \in Seq(S), NEW i \in 1 .. Len(s) + 1, NEW e \in S
  PROVE  Put(s, i, e) \in Seq(S) /\ Len(Put(s, i, e)) = Len(s) + 1
  <1>1. Len(s) + 1 \in Nat
    OBVIOUS
  <1>2. \A k \in 1 .. Len(s) + 1 : (IF k < i THEN s[k] ELSE IF k = i THEN e ELSE s[k - 1]) \in S
    OBVIOUS
  <1>3. Put(s, i, e) \in [1 .. Len(s) + 1 -> S]
    BY <1>2 DEF Put
  <1> QED
    BY <1>1, <1>3

LEMMA CutSequence ==
  ASSUME NEW S, NEW s \in Seq(S), NEW i \in 1 .. Len(s)
  PROVE  Cut(s, i) \in Seq(S) /\ Len(Cut(s, i)) = Len(s) - 1
  <1>1. Len(s) - 1 \in Nat
    OBVIOUS
  <1>2. \A k \in 1 .. Len(s) - 1 : (IF k < i THEN s[k] ELSE s[k + 1]) \in S
    OBVIOUS
  <1>3. Cut(s, i) \in [1 .. Len(s) - 1 -> S]
    BY <1>2 DEF Cut
  <1> QED
    BY <1>1, <1>3

(* They are what the community modules call InsertAt and RemoveAt.         *)
LEMMA PutInserts ==
  ASSUME NEW S, NEW s \in Seq(S), NEW i \in 1 .. Len(s) + 1, NEW e \in S
  PROVE  SubSeq(s, 1, i - 1) \o << e >> \o SubSeq(s, i, Len(s)) = Put(s, i, e)
  <1> DEFINE before == SubSeq(s, 1, i - 1)
             after == SubSeq(s, i, Len(s))
  <1>1. before \in Seq(S) /\ Len(before) = i - 1 /\ \A k \in 1 .. i - 1 : before[k] = s[k]
    OBVIOUS
  <1>2. /\ after \in Seq(S) /\ Len(after) = Len(s) + 1 - i
        /\ \A k \in 1 .. Len(s) + 1 - i : after[k] = s[i + k - 1]
    OBVIOUS
  <1> HIDE DEF before, after
  <1>3. << e >> \in Seq(S) /\ Len(<< e >>) = 1 /\ << e >>[1] = e
    OBVIOUS
  <1> DEFINE front == before \o << e >>
  <1>4. /\ front \in Seq(S) /\ Len(front) = i
        /\ \A k \in 1 .. i - 1 : front[k] = s[k]
        /\ front[i] = e
    BY <1>1, <1>3, ConcatProperties
  <1> HIDE DEF front
  <1>5. /\ front \o after \in Seq(S) /\ Len(front \o after) = Len(front) + Len(after)
        /\ \A k \in 1 .. Len(front) + Len(after) :
             (front \o after)[k] = IF k <= Len(front) THEN front[k] ELSE after[k - Len(front)]
    BY ONLY <1>2, <1>4, ConcatProperties
  <1>6. Len(front) + Len(after) = Len(s) + 1
    BY <1>2, <1>4
  <1>7. \A k \in 1 .. Len(s) + 1 : (front \o after)[k] = Put(s, i, e)[k]
    BY <1>2, <1>4, <1>5, <1>6 DEF Put
  <1>8. Put(s, i, e) \in Seq(S) /\ Len(Put(s, i, e)) = Len(s) + 1
    BY PutSequence
  <1>9. front \o after = Put(s, i, e)
    BY ONLY <1>5, <1>6, <1>7, <1>8, SeqEqual, Zenon
  <1> QED
    BY <1>9, Zenon DEF front, before, after

LEMMA CutRemoves ==
  ASSUME NEW S, NEW s \in Seq(S), NEW i \in 1 .. Len(s)
  PROVE  SubSeq(s, 1, i - 1) \o SubSeq(s, i + 1, Len(s)) = Cut(s, i)
  <1> DEFINE before == SubSeq(s, 1, i - 1)
             after == SubSeq(s, i + 1, Len(s))
  <1>1. before \in Seq(S) /\ Len(before) = i - 1 /\ \A k \in 1 .. i - 1 : before[k] = s[k]
    OBVIOUS
  <1>2. /\ after \in Seq(S) /\ Len(after) = Len(s) - i
        /\ \A k \in 1 .. Len(s) - i : after[k] = s[i + k]
    OBVIOUS
  <1> HIDE DEF before, after
  <1>3. /\ before \o after \in Seq(S) /\ Len(before \o after) = Len(before) + Len(after)
        /\ \A k \in 1 .. Len(before) + Len(after) :
             (before \o after)[k] = IF k <= Len(before) THEN before[k] ELSE after[k - Len(before)]
    BY ONLY <1>1, <1>2, ConcatProperties, Zenon
  <1>4. Len(before) + Len(after) = Len(s) - 1
    BY <1>1, <1>2
  <1>5. ASSUME NEW k \in 1 .. Len(s) - 1 PROVE (before \o after)[k] = Cut(s, i)[k]
    <2>1. Cut(s, i)[k] = IF k < i THEN s[k] ELSE s[k + 1]
      BY DEF Cut
    <2>2. /\ k \in 1 .. Len(before) + Len(after)
          /\ (before \o after)[k] = IF k <= Len(before) THEN before[k] ELSE after[k - Len(before)]
      BY <1>3, <1>4
    <2>3. CASE k < i
      <3>1. k <= Len(before) /\ k \in 1 .. i - 1
        BY <1>1, <2>3
      <3> QED
        BY <1>1, <2>1, <2>2, <2>3, <3>1
    <2>4. CASE ~ (k < i)
      <3>1. ~ (k <= Len(before)) /\ k - Len(before) = k - i + 1 /\ k - i + 1 \in 1 .. Len(s) - i /\ i + (k - i + 1) = k + 1
        BY <1>1, <2>4
      <3>2. after[k - i + 1] = s[i + (k - i + 1)]
        BY <1>2, <3>1
      <3> QED
        BY <2>1, <2>2, <2>4, <3>1, <3>2
    <2> QED
      BY <2>3, <2>4
  <1>6. Cut(s, i) \in Seq(S) /\ Len(Cut(s, i)) = Len(s) - 1
    BY CutSequence
  <1>7. before \o after = Cut(s, i)
    BY ONLY <1>3, <1>4, <1>5, <1>6, SeqEqual, Zenon
  <1> QED
    BY <1>7, Zenon DEF before, after

-----------------------------------------------------------------------------
(* Elements in a row: no element twice, each beside its neighbours.        *)

Row(s) == s \in Seq(Nodes) /\ \A j, k \in 1 .. Len(s) : s[j] = s[k] => j = k
In(s, e) == \E k \in 1 .. Len(s) : e = s[k]

Before(s, k) == IF k = 1 THEN NULL ELSE s[k - 1]
After(s, k) == IF k = Len(s) THEN NULL ELSE s[k + 1]
FirstOf(s) == IF Len(s) = 0 THEN NULL ELSE s[1]
LastOf(s) == IF Len(s) = 0 THEN NULL ELSE s[Len(s)]

(* The neighbours of an element that is put in.                            *)
Behind(s, i) == IF i = 1 THEN NULL ELSE s[i - 1]
Ahead(s, i) == IF i = Len(s) + 1 THEN NULL ELSE s[i]

LEMMA NoNode == IsFiniteSet(Nodes) /\ NULL \notin Nodes /\ "crash" \notin Values \cup {Done, Error}
  BY ListsAssumption DEF DL!DListAssumption, SL!SListAssumption, DL!IsFiniteSet, IsFiniteSet

(* The two modules count addresses as this one does.                       *)
LEMMA SameCount ==
  DL!Cardinality(Nodes) = Cardinality(Nodes) /\ SL!Cardinality(Nodes) = Cardinality(Nodes)
  BY DEF DL!Cardinality, SL!Cardinality, Cardinality

(* A row is no longer than there are addresses.                            *)
LEMMA RowBounded ==
  ASSUME NEW s, Row(s)
  PROVE  Len(s) \in Nat /\ Cardinality(Nodes) \in Nat /\ Len(s) <= Cardinality(Nodes)
  <1>1. s \in Seq(Nodes) /\ Len(s) \in Nat /\ s \in [1 .. Len(s) -> Nodes]
    BY DEF Row
  <1>2. s \in Injection(1 .. Len(s), Nodes)
    BY <1>1 DEF Row, Injection, IsInjective
  <1>3. Cardinality(1 .. Len(s)) <= Cardinality(Nodes)
    BY <1>2, NoNode, FS_Injection
  <1>4. Cardinality(1 .. Len(s)) = IF 1 > Len(s) THEN 0 ELSE Len(s) - 1 + 1
    BY <1>1, FS_Interval
  <1> QED
    BY <1>1, <1>3, <1>4, NoNode, FS_CardinalityType

(* Where the elements come to stand.                                       *)
LEMMA PutPlaces ==
  ASSUME NEW S, NEW s \in Seq(S), NEW i \in 1 .. Len(s) + 1, NEW e \in S
  PROVE  /\ \A k \in 1 .. Len(s) :
              IF k < i THEN Put(s, i, e)[k] = s[k] ELSE Put(s, i, e)[k + 1] = s[k]
         /\ Put(s, i, e)[i] = e
         /\ \A k \in 1 .. Len(s) + 1 :
              \/ k < i /\ k \in 1 .. Len(s) /\ Put(s, i, e)[k] = s[k]
              \/ k = i
              \/ k > i /\ k - 1 \in 1 .. Len(s) /\ Put(s, i, e)[k] = s[k - 1]
  BY DEF Put

LEMMA CutPlaces ==
  ASSUME NEW S, NEW s \in Seq(S), NEW i \in 1 .. Len(s)
  PROVE  /\ \A k \in 1 .. Len(s) : k < i => k \in 1 .. Len(s) - 1 /\ Cut(s, i)[k] = s[k]
         /\ \A k \in 1 .. Len(s) : k > i => k - 1 \in 1 .. Len(s) - 1 /\ Cut(s, i)[k - 1] = s[k]
         /\ \A k \in 1 .. Len(s) - 1 :
              \/ k < i /\ k \in 1 .. Len(s) /\ Cut(s, i)[k] = s[k]
              \/ k >= i /\ k + 1 \in 1 .. Len(s) /\ Cut(s, i)[k] = s[k + 1]
  BY DEF Cut

LEMMA PutRow ==
  ASSUME NEW s, Row(s), NEW i \in 1 .. Len(s) + 1, NEW e \in Nodes, ~ In(s, e)
  PROVE  /\ Row(Put(s, i, e))
         /\ \A x : In(Put(s, i, e), x) <=> In(s, x) \/ x = e
  <1> DEFINE r == Put(s, i, e)
  <1>1. s \in Seq(Nodes) /\ r \in Seq(Nodes) /\ Len(s) \in Nat /\ Len(r) = Len(s) + 1
    BY PutSequence DEF Row
  <1>2. /\ \A k \in 1 .. Len(s) : IF k < i THEN r[k] = s[k] ELSE r[k + 1] = s[k]
        /\ r[i] = e
        /\ \A k \in 1 .. Len(s) + 1 :
             \/ k < i /\ k \in 1 .. Len(s) /\ r[k] = s[k]
             \/ k = i
             \/ k > i /\ k - 1 \in 1 .. Len(s) /\ r[k] = s[k - 1]
    BY <1>1, PutPlaces
  <1> HIDE DEF r
  <1>3. \A j, k \in 1 .. Len(r) : r[j] = r[k] => j = k
    <2>1. /\ \A k \in 1 .. Len(s) : s[k] # e
          /\ \A j, k \in 1 .. Len(s) : s[j] = s[k] => j = k
      BY DEF Row, In
    <2>2. ASSUME NEW j \in 1 .. Len(s) + 1, NEW k \in 1 .. Len(s) + 1, r[j] = r[k] PROVE j = k
      <3>1. CASE j < i
        <4>1. j \in 1 .. Len(s) /\ r[j] = s[j]
          BY <1>1, <1>2, <3>1
        <4>2. k # i
          BY <1>2, <2>1, <2>2, <4>1, Zenon
        <4>3. CASE k < i
          <5>1. k \in 1 .. Len(s) /\ r[k] = s[k]
            BY <1>1, <1>2, <4>3
          <5> QED
            BY <2>1, <2>2, <4>1, <5>1, Zenon
        <4>4. CASE k > i
          <5>1. k - 1 \in 1 .. Len(s) /\ r[k] = s[k - 1]
            BY <1>1, <1>2, <4>4
          <5>2. j = k - 1
            BY <2>1, <2>2, <4>1, <5>1, Zenon
          <5> QED
            BY <1>1, <3>1, <4>4, <5>2
        <4> QED
          BY <1>1, <4>2, <4>3, <4>4
      <3>2. CASE j = i
        BY <1>1, <1>2, <2>1, <2>2, <3>2, Zenon
      <3>3. CASE j > i
        <4>1. j - 1 \in 1 .. Len(s) /\ r[j] = s[j - 1]
          BY <1>1, <1>2, <3>3
        <4>2. k # i
          BY <1>2, <2>1, <2>2, <4>1, Zenon
        <4>3. CASE k < i
          <5>1. k \in 1 .. Len(s) /\ r[k] = s[k]
            BY <1>1, <1>2, <4>3
          <5>2. k = j - 1
            BY <2>1, <2>2, <4>1, <5>1, Zenon
          <5> QED
            BY <1>1, <3>3, <4>3, <5>2
        <4>4. CASE k > i
          <5>1. k - 1 \in 1 .. Len(s) /\ r[k] = s[k - 1]
            BY <1>1, <1>2, <4>4
          <5>2. j - 1 = k - 1
            BY <2>1, <2>2, <4>1, <5>1, Zenon
          <5> QED
            BY <1>1, <5>2
        <4> QED
          BY <1>1, <4>2, <4>3, <4>4
      <3> QED
        BY <1>1, <3>1, <3>2, <3>3
    <2> QED
      BY <1>1, <2>2
  <1>4. ASSUME NEW x PROVE In(r, x) <=> In(s, x) \/ x = e
    <2>1. In(r, x) => In(s, x) \/ x = e
      BY <1>1, <1>2, Zenon DEF In
    <2>2. ASSUME NEW k \in 1 .. Len(s), x = s[k] PROVE In(r, x)
      <3>1. k \in 1 .. Len(r) /\ k + 1 \in 1 .. Len(r)
        BY <1>1
      <3> QED
        BY <2>2, <3>1, <1>2 DEF In
    <2>3. i \in 1 .. Len(r) /\ r[i] = e
      BY <1>1, <1>2
    <2> QED
      BY <2>1, <2>2, <2>3 DEF In
  <1> QED
    BY <1>1, <1>3, <1>4 DEF Row, r

LEMMA CutRow ==
  ASSUME NEW s, Row(s), NEW i \in 1 .. Len(s)
  PROVE  /\ Row(Cut(s, i))
         /\ \A x : In(Cut(s, i), x) <=> In(s, x) /\ x # s[i]
  <1> DEFINE r == Cut(s, i)
  <1>1. s \in Seq(Nodes) /\ r \in Seq(Nodes) /\ Len(s) \in Nat /\ Len(r) = Len(s) - 1
    BY CutSequence DEF Row
  <1>2. /\ \A k \in 1 .. Len(s) : k < i => k \in 1 .. Len(s) - 1 /\ r[k] = s[k]
        /\ \A k \in 1 .. Len(s) : k > i => k - 1 \in 1 .. Len(s) - 1 /\ r[k - 1] = s[k]
        /\ \A k \in 1 .. Len(s) - 1 :
             \/ k < i /\ k \in 1 .. Len(s) /\ r[k] = s[k]
             \/ k >= i /\ k + 1 \in 1 .. Len(s) /\ r[k] = s[k + 1]
    BY <1>1, CutPlaces, Zenon
  <1> HIDE DEF r
  <1>0. \A k \in 1 .. Len(r) :
          \/ k < i /\ k \in 1 .. Len(s) /\ r[k] = s[k]
          \/ k >= i /\ k + 1 \in 1 .. Len(s) /\ r[k] = s[k + 1]
    BY <1>1, <1>2
  <1>3. \A j, k \in 1 .. Len(r) : r[j] = r[k] => j = k
    <2> SUFFICES ASSUME NEW j \in 1 .. Len(r), NEW k \in 1 .. Len(r), r[j] = r[k] PROVE j = k
      OBVIOUS
    <2>1. \A m, n \in 1 .. Len(s) : s[m] = s[n] => m = n
      BY DEF Row
    <2>2. PICK m \in 1 .. Len(s) : r[j] = s[m] /\ m = IF j < i THEN j ELSE j + 1
      BY <1>0
    <2>3. PICK n \in 1 .. Len(s) : r[k] = s[n] /\ n = IF k < i THEN k ELSE k + 1
      BY <1>0
    <2>4. m = n
      BY <2>1, <2>2, <2>3
    <2>5. j \in Int /\ k \in Int /\ i \in Int
      OBVIOUS
    <2> QED
      BY ONLY <2>2, <2>3, <2>4, <2>5
  <1>4. ASSUME NEW x PROVE In(r, x) <=> In(s, x) /\ x # s[i]
    <2>1. ASSUME NEW k \in 1 .. Len(r), x = r[k] PROVE In(s, x) /\ x # s[i]
      <3>1. PICK j \in 1 .. Len(s) : j # i /\ r[k] = s[j]
        BY <1>0, <1>1
      <3> QED
        BY <2>1, <3>1 DEF In, Row
    <2>2. ASSUME NEW k \in 1 .. Len(s), x = s[k], x # s[i] PROVE In(r, x)
      <3>1. k < i \/ k > i
        BY <2>2, <1>1
      <3> QED
        BY <2>2, <3>1, <1>1, <1>2 DEF In
    <2> QED
      BY <2>1, <2>2 DEF In
  <1> QED
    BY <1>1, <1>3, <1>4 DEF Row, r

(* The neighbours of the other elements change where it is put in or cut   *)
(* out.                                                                    *)
LEMMA PutNeighbours ==
  ASSUME NEW s, Row(s), NEW i \in 1 .. Len(s) + 1, NEW e \in Nodes, ~ In(s, e)
  PROVE  /\ Before(Put(s, i, e), i) = Behind(s, i) /\ After(Put(s, i, e), i) = Ahead(s, i)
         /\ \A k \in 1 .. Len(s) :
              LET at == IF k < i THEN k ELSE k + 1 IN
              /\ Put(s, i, e)[at] = s[k]
              /\ Before(Put(s, i, e), at) = IF s[k] = Ahead(s, i) THEN e ELSE Before(s, k)
              /\ After(Put(s, i, e), at) = IF s[k] = Behind(s, i) THEN e ELSE After(s, k)
  <1> DEFINE r == Put(s, i, e)
  <1>1. /\ s \in Seq(Nodes) /\ r \in Seq(Nodes) /\ Len(s) \in Nat /\ Len(r) = Len(s) + 1
        /\ NULL \notin Nodes /\ \A k \in 1 .. Len(s) : s[k] \in Nodes
        /\ \A j, k \in 1 .. Len(s) : s[j] = s[k] => j = k
    BY PutSequence, NoNode DEF Row
  <1>2. /\ \A k \in 1 .. Len(s) : IF k < i THEN r[k] = s[k] ELSE r[k + 1] = s[k]
        /\ r[i] = e
        /\ \A k \in 1 .. Len(s) + 1 :
             \/ k < i /\ k \in 1 .. Len(s) /\ r[k] = s[k]
             \/ k = i
             \/ k > i /\ k - 1 \in 1 .. Len(s) /\ r[k] = s[k - 1]
    BY <1>1, PutPlaces
  <1> HIDE DEF r
  <1>3. Before(r, i) = Behind(s, i)
    BY <1>1, <1>2 DEF Before, Behind
  <1>4. After(r, i) = Ahead(s, i)
    BY <1>1, <1>2 DEF After, Ahead
  <1>5. ASSUME NEW k \in 1 .. Len(s), k < i
        PROVE  /\ r[k] = s[k]
               /\ Before(r, k) = IF s[k] = Ahead(s, i) THEN e ELSE Before(s, k)
               /\ After(r, k) = IF s[k] = Behind(s, i) THEN e ELSE After(s, k)
    <2>1. s[k] # Ahead(s, i) /\ (s[k] = Behind(s, i) <=> k = i - 1)
      BY <1>1, <1>5 DEF Ahead, Behind
    <2>2. Before(r, k) = Before(s, k)
      BY <1>1, <1>2, <1>5 DEF Before
    <2>3. CASE k = i - 1
      BY <1>1, <1>2, <1>5, <2>1, <2>2, <2>3 DEF After
    <2>4. CASE k # i - 1
      <3>1. k + 1 \in 1 .. Len(s) /\ k + 1 < i
        BY <1>1, <1>5, <2>4
      <3> QED
        BY <1>1, <1>2, <1>5, <2>1, <2>2, <2>4, <3>1 DEF After
    <2> QED
      BY <2>3, <2>4
  <1>6. ASSUME NEW k \in 1 .. Len(s), ~ (k < i)
        PROVE  /\ r[k + 1] = s[k]
               /\ Before(r, k + 1) = IF s[k] = Ahead(s, i) THEN e ELSE Before(s, k)
               /\ After(r, k + 1) = IF s[k] = Behind(s, i) THEN e ELSE After(s, k)
    <2>1. s[k] # Behind(s, i) /\ (s[k] = Ahead(s, i) <=> k = i)
      BY <1>1, <1>6 DEF Ahead, Behind
    <2>2. After(r, k + 1) = After(s, k)
      <3>1. k + 1 = Len(r) <=> k = Len(s)
        BY <1>1
      <3>2. k # Len(s) => k + 1 \in 1 .. Len(s) /\ ~ (k + 1 < i)
        BY <1>1, <1>6
      <3> QED
        BY <1>1, <1>2, <1>6, <3>1, <3>2 DEF After
    <2>3. CASE k = i
      BY <1>1, <1>2, <2>1, <2>2, <2>3 DEF Before
    <2>4. CASE k # i
      <3>1. k - 1 \in 1 .. Len(s) /\ ~ (k - 1 < i) /\ k # 1
        BY <1>1, <1>6, <2>4
      <3> QED
        BY <1>1, <1>2, <1>6, <2>1, <2>2, <2>4, <3>1 DEF Before
    <2> QED
      BY <1>2, <1>6, <2>3, <2>4
  <1> QED
    BY <1>3, <1>4, <1>5, <1>6 DEF r

LEMMA CutNeighbours ==
  ASSUME NEW s, Row(s), NEW i \in 1 .. Len(s)
  PROVE  \A k \in 1 .. Len(s) : k # i =>
           LET at == IF k < i THEN k ELSE k - 1 IN
           /\ at \in 1 .. Len(s) - 1
           /\ Cut(s, i)[at] = s[k]
           /\ Before(Cut(s, i), at) = IF s[k] = After(s, i) THEN Before(s, i) ELSE Before(s, k)
           /\ After(Cut(s, i), at) = IF s[k] = Before(s, i) THEN After(s, i) ELSE After(s, k)
  <1> DEFINE r == Cut(s, i)
  <1>1. /\ s \in Seq(Nodes) /\ r \in Seq(Nodes) /\ Len(s) \in Nat /\ Len(r) = Len(s) - 1
        /\ NULL \notin Nodes /\ \A k \in 1 .. Len(s) : s[k] \in Nodes
        /\ \A j, k \in 1 .. Len(s) : s[j] = s[k] => j = k
    BY CutSequence, NoNode DEF Row
  <1>2. /\ \A k \in 1 .. Len(s) : k < i => k \in 1 .. Len(s) - 1 /\ r[k] = s[k]
        /\ \A k \in 1 .. Len(s) : k > i => k - 1 \in 1 .. Len(s) - 1 /\ r[k - 1] = s[k]
        /\ \A k \in 1 .. Len(s) - 1 :
             \/ k < i /\ k \in 1 .. Len(s) /\ r[k] = s[k]
             \/ k >= i /\ k + 1 \in 1 .. Len(s) /\ r[k] = s[k + 1]
    BY <1>1, CutPlaces, Zenon
  <1> HIDE DEF r
  <1>3. ASSUME NEW k \in 1 .. Len(s), k < i
        PROVE  /\ k \in 1 .. Len(s) - 1 /\ r[k] = s[k]
               /\ Before(r, k) = IF s[k] = After(s, i) THEN Before(s, i) ELSE Before(s, k)
               /\ After(r, k) = IF s[k] = Before(s, i) THEN After(s, i) ELSE After(s, k)
    <2>1. s[k] # After(s, i) /\ (s[k] = Before(s, i) <=> k = i - 1)
      BY <1>1, <1>3 DEF After, Before
    <2>2. k \in 1 .. Len(s) - 1 /\ r[k] = s[k] /\ Before(r, k) = Before(s, k)
      BY <1>1, <1>2, <1>3 DEF Before
    <2>3. CASE k = i - 1
      <3>1. k + 1 = i /\ (i = Len(s) <=> k = Len(r))
        BY <1>1, <2>3
      <3>2. i # Len(s) => r[i] = s[i + 1]
        BY <1>1, <1>2
      <3> QED
        BY <2>1, <2>2, <2>3, <3>1, <3>2 DEF After
    <2>4. CASE k # i - 1
      <3>1. k + 1 \in 1 .. Len(s) /\ k + 1 < i /\ k # Len(r) /\ k # Len(s)
        BY <1>1, <1>3, <2>4
      <3> QED
        BY <1>1, <1>2, <1>3, <2>1, <2>2, <2>4, <3>1 DEF After
    <2> QED
      BY <2>3, <2>4
  <1>4. ASSUME NEW k \in 1 .. Len(s), k > i
        PROVE  /\ k - 1 \in 1 .. Len(s) - 1 /\ r[k - 1] = s[k]
               /\ Before(r, k - 1) = IF s[k] = After(s, i) THEN Before(s, i) ELSE Before(s, k)
               /\ After(r, k - 1) = IF s[k] = Before(s, i) THEN After(s, i) ELSE After(s, k)
    <2>1. s[k] # Before(s, i) /\ (s[k] = After(s, i) <=> k = i + 1)
      BY <1>1, <1>4 DEF After, Before
    <2>2. k - 1 \in 1 .. Len(s) - 1 /\ r[k - 1] = s[k]
      BY <1>1, <1>2, <1>4
    <2>3. After(r, k - 1) = After(s, k)
      <3>1. k - 1 = Len(r) <=> k = Len(s)
        BY <1>1
      <3>2. k # Len(s) => k + 1 \in 1 .. Len(s) /\ k + 1 > i /\ k - 1 + 1 = k /\ k + 1 - 1 = k
        BY <1>1, <1>4
      <3> QED
        BY <1>1, <1>2, <1>4, <3>1, <3>2 DEF After
    <2>4. CASE k = i + 1
      <3>1. k - 1 = i /\ (k - 1 = 1 <=> i = 1) /\ (i # 1 => i - 1 \in 1 .. Len(s) /\ i - 1 < i)
        BY <1>1, <2>4
      <3> QED
        BY <1>1, <1>2, <2>1, <2>2, <2>3, <2>4, <3>1 DEF Before
    <2>5. CASE k # i + 1
      <3>1. k - 1 \in 1 .. Len(s) /\ k - 1 > i /\ k # 1 /\ k - 1 # 1
        BY <1>1, <1>4, <2>5
      <3> QED
        BY <1>1, <1>2, <1>4, <2>1, <2>2, <2>3, <2>5, <3>1, Zenon DEF Before
    <2> QED
      BY <2>4, <2>5
  <1> QED
    <2> SUFFICES ASSUME NEW k \in 1 .. Len(s), k # i
                 PROVE  LET at == IF k < i THEN k ELSE k - 1 IN
                        /\ at \in 1 .. Len(s) - 1
                        /\ r[at] = s[k]
                        /\ Before(r, at) = IF s[k] = After(s, i) THEN Before(s, i) ELSE Before(s, k)
                        /\ After(r, at) = IF s[k] = Before(s, i) THEN After(s, i) ELSE After(s, k)
      BY DEF r
    <2>1. k < i \/ (k > i /\ ~ (k < i))
      BY <1>1
    <2> QED
      BY <2>1, <1>3, <1>4

(* The place of an element, or 0.                                          *)
PlaceIn(s, e) == IF e = NULL THEN 0 ELSE CHOOSE k \in 1 .. Len(s) : s[k] = e

LEMMA Placed ==
  ASSUME NEW s, Row(s)
  PROVE  /\ PlaceIn(s, NULL) = 0
         /\ \A k \in 1 .. Len(s) : PlaceIn(s, s[k]) = k
  <1>1. \A k \in 1 .. Len(s) : s[k] # NULL
    BY NoNode DEF Row
  <1>2. ASSUME NEW k \in 1 .. Len(s) PROVE PlaceIn(s, s[k]) = k
    <2>1. PlaceIn(s, s[k]) = CHOOSE j \in 1 .. Len(s) : s[j] = s[k]
      BY <1>1 DEF PlaceIn
    <2>2. PlaceIn(s, s[k]) \in 1 .. Len(s) /\ s[PlaceIn(s, s[k])] = s[k]
      BY <2>1
    <2> QED
      BY <2>2 DEF Row
  <1> QED
    BY <1>2 DEF PlaceIn

LEMMA PutPlaced ==
  ASSUME NEW s, Row(s), NEW i \in 1 .. Len(s) + 1, NEW e \in Nodes, ~ In(s, e),
         NEW a, In(s, a) \/ a = NULL
  PROVE  PlaceIn(Put(s, i, e), a) = IF PlaceIn(s, a) >= i THEN PlaceIn(s, a) + 1 ELSE PlaceIn(s, a)
  <1> DEFINE r == Put(s, i, e)
  <1>1. s \in Seq(Nodes) /\ Len(s) \in Nat /\ Row(r) /\ Len(r) = Len(s) + 1
    <2>1. s \in Seq(Nodes)
      BY DEF Row
    <2>2. Row(r)
      BY PutRow
    <2> QED
      BY <2>1, <2>2, PutSequence
  <1>2. \A k \in 1 .. Len(s) : IF k < i THEN r[k] = s[k] ELSE r[k + 1] = s[k]
    BY <1>1, PutPlaces
  <1> HIDE DEF r
  <1>3. CASE a = NULL
    BY <1>1, <1>3, Placed DEF r
  <1>4. CASE In(s, a)
    <2>1. PICK k \in 1 .. Len(s) : a = s[k]
      BY <1>4 DEF In
    <2>2. PlaceIn(s, a) = k
      BY <2>1, Placed
    <2>3. CASE k < i
      <3>1. k \in 1 .. Len(r) /\ r[k] = a
        BY <1>1, <1>2, <2>1, <2>3
      <3>2. PlaceIn(r, a) = k
        BY <1>1, <3>1, Placed
      <3> QED
        BY <2>2, <2>3, <3>2 DEF r
    <2>4. CASE k >= i
      <3>1. k + 1 \in 1 .. Len(r) /\ r[k + 1] = a
        BY <1>1, <1>2, <2>1, <2>4
      <3>2. PlaceIn(r, a) = k + 1
        BY <1>1, <3>1, Placed
      <3> QED
        BY <2>2, <2>4, <3>2 DEF r
    <2> QED
      BY <1>1, <2>3, <2>4
  <1> QED
    BY <1>3, <1>4

LEMMA CutPlaced ==
  ASSUME NEW s, Row(s), NEW i \in 1 .. Len(s), NEW a, In(s, a) \/ a = NULL
  PROVE  PlaceIn(Cut(s, i), IF a = s[i] THEN NULL ELSE a)
           = IF PlaceIn(s, a) = i THEN 0 ELSE IF PlaceIn(s, a) > i THEN PlaceIn(s, a) - 1 ELSE PlaceIn(s, a)
  <1> DEFINE r == Cut(s, i)
  <1>1. /\ s \in Seq(Nodes) /\ Len(s) \in Nat /\ Row(r) /\ Len(r) = Len(s) - 1
        /\ s[i] # NULL /\ PlaceIn(r, NULL) = 0 /\ PlaceIn(s, NULL) = 0
        /\ \A k \in 1 .. Len(r) : PlaceIn(r, r[k]) = k
    BY CutSequence, CutRow, Placed, NoNode DEF Row
  <1>2. /\ \A k \in 1 .. Len(s) : k < i => k \in 1 .. Len(s) - 1 /\ r[k] = s[k]
        /\ \A k \in 1 .. Len(s) : k > i => k - 1 \in 1 .. Len(s) - 1 /\ r[k - 1] = s[k]
    BY <1>1, CutPlaces
  <1> HIDE DEF r
  <1>3. CASE a = NULL
    BY <1>1, <1>3 DEF r
  <1>4. CASE In(s, a)
    <2>1. PICK k \in 1 .. Len(s) : a = s[k]
      BY <1>4 DEF In
    <2>2. PlaceIn(s, a) = k /\ (a = s[i] <=> k = i)
      BY <2>1, Placed DEF Row
    <2>3. CASE k < i
      <3>1. PlaceIn(r, a) = k
        BY <1>1, <1>2, <2>1, <2>3
      <3> QED
        BY <1>1, <2>2, <2>3, <3>1 DEF r
    <2>4. CASE k > i
      <3>1. PlaceIn(r, a) = k - 1
        BY <1>1, <1>2, <2>1, <2>4
      <3> QED
        BY <1>1, <2>2, <2>4, <3>1 DEF r
    <2>5. CASE k = i
      BY <1>1, <2>2, <2>5 DEF r
    <2> QED
      BY <1>1, <2>3, <2>4, <2>5
  <1> QED
    BY <1>3, <1>4

(* What is in the elements.                                                *)
Data(M, s) == [k \in 1 .. Len(s) |-> M[s[k]].data]

SameData(M, L, s) == \A k \in 1 .. Len(s) : M[s[k]].data \in Values /\ L[s[k]].data = M[s[k]].data

LEMMA PutData ==
  ASSUME NEW s, Row(s), NEW i \in 1 .. Len(s) + 1, NEW e \in Nodes, ~ In(s, e),
         NEW M, NEW L, SameData(M, L, s)
  PROVE  /\ Data(M, s) \in Seq(Values) /\ Len(Data(M, s)) = Len(s)
         /\ Data(L, Put(s, i, e)) = Put(Data(M, s), i, L[e].data)
  <1> DEFINE r == Put(s, i, e)
  <1>1. s \in Seq(Nodes) /\ Len(s) \in Nat /\ Len(r) = Len(s) + 1
    BY PutSequence DEF Row
  <1>2. /\ r[i] = e
        /\ \A k \in 1 .. Len(s) + 1 :
             \/ k < i /\ k \in 1 .. Len(s) /\ r[k] = s[k]
             \/ k = i
             \/ k > i /\ k - 1 \in 1 .. Len(s) /\ r[k] = s[k - 1]
    BY <1>1, PutPlaces
  <1> HIDE DEF r
  <1>3. Data(M, s) \in Seq(Values) /\ Len(Data(M, s)) = Len(s)
    BY <1>1 DEF Data, SameData
  <1>4. \A k \in 1 .. Len(s) + 1 :
          L[r[k]].data = IF k < i THEN Data(M, s)[k] ELSE IF k = i THEN L[e].data ELSE Data(M, s)[k - 1]
    BY <1>1, <1>2 DEF Data, SameData
  <1> QED
    BY <1>1, <1>3, <1>4, Zenon DEF Data, Put, r

LEMMA CutData ==
  ASSUME NEW s, Row(s), NEW i \in 1 .. Len(s), NEW M, NEW L,
         \A k \in 1 .. Len(s) : M[s[k]].data \in Values /\ (k # i => L[s[k]].data = M[s[k]].data)
  PROVE  /\ Data(M, s) \in Seq(Values) /\ Len(Data(M, s)) = Len(s)
         /\ Data(L, Cut(s, i)) = Cut(Data(M, s), i)
  <1> DEFINE r == Cut(s, i)
  <1>1. s \in Seq(Nodes) /\ Len(s) \in Nat /\ Len(r) = Len(s) - 1
    BY CutSequence DEF Row
  <1>2. \A k \in 1 .. Len(s) - 1 :
          \/ k < i /\ k \in 1 .. Len(s) /\ r[k] = s[k]
          \/ k >= i /\ k + 1 \in 1 .. Len(s) /\ r[k] = s[k + 1]
    BY <1>1, CutPlaces
  <1> HIDE DEF r
  <1>3. Data(M, s) \in Seq(Values) /\ Len(Data(M, s)) = Len(s)
    BY <1>1 DEF Data
  <1>4. \A k \in 1 .. Len(s) - 1 :
          L[r[k]].data = IF k < i THEN Data(M, s)[k] ELSE Data(M, s)[k + 1]
    BY <1>1, <1>2 DEF Data
  <1> QED
    BY <1>1, <1>3, <1>4 DEF Data, Cut, r

-----------------------------------------------------------------------------
(* A row is what is read along the pointers.                               *)

LEMMA Less == IsWellFoundedOn({ss \in Nat \X Nat : ss[1] < ss[2]}, Nat)
  BY NatLessThanWellFounded DEF OpToRel

LEMMA SameSteps ==
  ASSUME NEW N \in Nat, NEW f, NEW g, f[0] = g[0],
         \A k \in 0 .. N - 1 : f[k] = g[k] => f[k + 1] = g[k + 1]
  PROVE  f[N] = g[N]
  <1> SUFFICES ASSUME f[N] # g[N] PROVE FALSE
    OBVIOUS
  <1> DEFINE differ == {k \in 0 .. N : f[k] # g[k]}
  <1>1. differ \subseteq Nat /\ differ # {}
    OBVIOUS
  <1>2. PICK k \in differ : \A j \in differ : ~ (<< j, k >> \in {ss \in Nat \X Nat : ss[1] < ss[2]})
    BY ONLY <1>1, Less, WFMin, Zenon
  <1>3. k \in 1 .. N
    OBVIOUS
  <1>4. k - 1 \notin differ
    <2>1. << k - 1, k >> \in {ss \in Nat \X Nat : ss[1] < ss[2]}
      BY <1>3
    <2> QED
      BY <1>2, <2>1
  <1> QED
    BY <1>3, <1>4

(* The part of a row that is read in k steps.                              *)
Part(s, k) == SubSeq(s, 1, IF k <= Len(s) THEN k ELSE Len(s))

LEMMA Parts ==
  ASSUME NEW s, Row(s), NEW k \in Nat
  PROVE  /\ Part(s, 0) = << >>
         /\ k >= Len(s) => Part(s, k) = s
         /\ k < Len(s) => Part(s, k + 1) = Append(Part(s, k), s[k + 1])
         /\ k >= Len(s) => Part(s, k + 1) = Part(s, k)
         /\ Len(Part(s, k)) = IF k <= Len(s) THEN k ELSE Len(s)
         /\ \A j \in 1 .. Len(Part(s, k)) : Part(s, k)[j] = s[j]
         /\ Part(s, k) = << >> <=> Len(Part(s, k)) = 0
  <1>1. s \in Seq(Nodes) /\ Len(s) \in Nat
    BY DEF Row
  <1>2. Part(s, 0) = << >>
    BY <1>1 DEF Part
  <1>3. k >= Len(s) => Part(s, k) = s /\ Part(s, k + 1) = s
    BY <1>1, SubSeqFull DEF Part
  <1>4. ASSUME k < Len(s) PROVE Part(s, k + 1) = Append(Part(s, k), s[k + 1])
    <2>1. SubSeq(s, 1, k + 1) = SubSeq(s, 1, k + 1 - 1) \o << s[k + 1] >>
      BY <1>1, <1>4, SubSeqRecursiveSecond
    <2>2. k + 1 - 1 = k
      OBVIOUS
    <2>3. SubSeq(s, 1, k) \in Seq(Nodes) /\ s[k + 1] \in Nodes
      BY <1>1, <1>4
    <2> QED
      BY <1>1, <1>4, <2>1, <2>2, <2>3, AppendIsConcat DEF Part
  <1>5. /\ Part(s, k) \in Seq(Nodes)
        /\ Len(Part(s, k)) = IF k <= Len(s) THEN k ELSE Len(s)
        /\ \A j \in 1 .. Len(Part(s, k)) : Part(s, k)[j] = s[j]
    BY <1>1 DEF Part
  <1>6. Part(s, k) = << >> <=> Len(Part(s, k)) = 0
    BY <1>5, EmptySeq
  <1> QED
    BY <1>2, <1>3, <1>4, <1>5, <1>6

LEMMA Reading ==
  ASSUME NEW s, Row(s), NEW N \in Nat, Len(s) <= N, NEW chain, chain[0] = << >>,
         \A k \in 0 .. N - 1 : chain[k] = Part(s, k) =>
           chain[k + 1] = IF k < Len(s) THEN Append(Part(s, k), s[k + 1]) ELSE Part(s, k)
  PROVE  chain[N] = s
  <1> DEFINE parts == [k \in 0 .. N |-> Part(s, k)]
  <1>1. \A k \in 0 .. N : parts[k] = Part(s, k)
    OBVIOUS
  <1> HIDE DEF parts
  <1>2. Len(s) \in Nat /\ chain[0] = parts[0]
    BY <1>1, Parts DEF Row
  <1>3. ASSUME NEW k \in 0 .. N - 1, chain[k] = parts[k] PROVE chain[k + 1] = parts[k + 1]
    <2>1. k \in Nat /\ k \in 0 .. N /\ k + 1 \in 0 .. N
      OBVIOUS
    <2>2. chain[k] = Part(s, k)
      BY <1>1, <1>3, <2>1
    <2>3. parts[k + 1] = Part(s, k + 1)
      BY <1>1, <2>1
    <2>4. Part(s, k + 1) = IF k < Len(s) THEN Append(Part(s, k), s[k + 1]) ELSE Part(s, k)
      <3>1. /\ k < Len(s) => Part(s, k + 1) = Append(Part(s, k), s[k + 1])
            /\ k >= Len(s) => Part(s, k + 1) = Part(s, k)
        BY <2>1, Parts
      <3>2. k < Len(s) \/ (k >= Len(s) /\ ~ (k < Len(s)))
        BY <1>2, <2>1
      <3> QED
        BY <3>1, <3>2, Zenon
    <2> QED
      BY <2>2, <2>3, <2>4
  <1>4. chain[N] = parts[N]
    BY ONLY <1>2, <1>3, SameSteps
  <1> QED
    BY <1>1, <1>2, <1>4, Parts

(* What comes after the part that has been read.                           *)
LEMMA NextRead ==
  ASSUME NEW s, Row(s), NEW k \in Nat, NEW e,
         Part(s, k) = << >> => e = FirstOf(s),
         Part(s, k) # << >> =>
           \A j \in 1 .. Len(s) : Part(s, k)[Len(Part(s, k))] = s[j] => e = After(s, j)
  PROVE  (IF e = NULL THEN Part(s, k) ELSE Append(Part(s, k), e))
           = IF k < Len(s) THEN Append(Part(s, k), s[k + 1]) ELSE Part(s, k)
  <1>1. Len(s) \in Nat /\ \A j \in 1 .. Len(s) : s[j] # NULL
    BY NoNode DEF Row
  <1>2. CASE Part(s, k) = << >>
    BY <1>1, <1>2, Parts DEF FirstOf
  <1>3. CASE Part(s, k) # << >>
    <2>1. PICK n \in 1 .. Len(s) : n = IF k <= Len(s) THEN k ELSE Len(s)
      BY <1>1, <1>3, Parts
    <2>2. Part(s, k)[Len(Part(s, k))] = s[n]
      BY <1>3, <2>1, Parts
    <2>3. e = After(s, n)
      BY <1>3, <2>2
    <2> QED
      BY <1>1, <2>1, <2>3 DEF After
  <1> QED
    BY <1>2, <1>3

-----------------------------------------------------------------------------
(* The doubly linked list.                                                 *)

DElement == [data : Values, lptr : Nodes \cup {NULL}, rptr : Nodes \cup {NULL}]

DLinked(M, f, l, s) ==
  /\ Row(s)
  /\ M \in [DOMAIN M -> DElement]
  /\ \A e : e \in DOMAIN M <=> In(s, e)
  /\ \A k \in 1 .. Len(s) : M[s[k]].lptr = Before(s, k) /\ M[s[k]].rptr = After(s, k)
  /\ f = FirstOf(s) /\ l = LastOf(s)

(* Between the calls the elements are those of a row, and the active one   *)
(* is one of them.                                                         *)
DListed(s) == DLinked(dmem, dFirst, dLast, s) /\ (dAct = NULL \/ In(s, dAct))

(* What is seen of a row.                                                  *)
DShows(s) ==
  /\ DL!Chain = s
  /\ [k \in DOMAIN DL!Chain |-> dmem[DL!Chain[k]].data] = Data(dmem, s)
  /\ DL!ActPlace = PlaceIn(s, dAct)
  /\ DL!TwoWay

LEMMA DRead ==
  ASSUME NEW s, DListed(s)
  PROVE  DL!Chain = s
  <1> DEFINE N == Cardinality(Nodes)
             Grown(c) ==
               LET e == IF c = << >> THEN dFirst ELSE dmem[c[Len(c)]].rptr
               IN  IF e = NULL THEN c ELSE Append(c, e)
             Read(f) == [k \in 0 .. N |-> IF k = 0 THEN << >> ELSE Grown(f[k - 1])]
             parts == [k \in 0 .. N |-> Part(s, k)]
  <1>1. Row(s) /\ N \in Nat /\ Len(s) \in Nat /\ Len(s) <= N
    BY RowBounded DEF DListed, DLinked
  <1>2. ASSUME NEW k \in Nat
        PROVE  Grown(Part(s, k)) = IF k < Len(s) THEN Append(Part(s, k), s[k + 1]) ELSE Part(s, k)
    <2> DEFINE c == Part(s, k)
               e == IF c = << >> THEN dFirst ELSE dmem[c[Len(c)]].rptr
    <2>1. c = << >> => e = FirstOf(s)
      BY DEF DListed, DLinked
    <2>2. c # << >> => \A j \in 1 .. Len(s) : c[Len(c)] = s[j] => e = After(s, j)
      BY DEF DListed, DLinked
    <2> HIDE DEF e
    <2>3. (IF e = NULL THEN c ELSE Append(c, e))
            = IF k < Len(s) THEN Append(Part(s, k), s[k + 1]) ELSE Part(s, k)
      BY <1>1, <2>1, <2>2, NextRead, Zenon
    <2> QED
      BY <2>3 DEF e
  <1>3. DL!Chain = (CHOOSE f : f = Read(f))[N]
    BY SameCount DEF DL!Chain
  <1> HIDE DEF Grown
  <1>4. ASSUME NEW f, f = Read(f) PROVE f[N] = s
    <2>1. f[0] = << >> /\ \A n \in 0 .. N : n # 0 => f[n] = Grown(f[n - 1])
      BY <1>1, <1>4
    <2>2. ASSUME NEW k \in 0 .. N - 1, f[k] = Part(s, k)
          PROVE  f[k + 1] = IF k < Len(s) THEN Append(Part(s, k), s[k + 1]) ELSE Part(s, k)
      <3>1. PICK n \in 0 .. N : n = k + 1 /\ n # 0 /\ n - 1 = k
        BY <1>1
      <3>2. f[n] = Grown(f[n - 1]) /\ f[n - 1] = Part(s, k)
        BY <2>1, <2>2, <3>1
      <3>3. Grown(Part(s, k)) = IF k < Len(s) THEN Append(Part(s, k), s[k + 1]) ELSE Part(s, k)
        BY <1>1, <1>2
      <3> QED
        BY <3>1, <3>2, <3>3
    <2> QED
      BY <1>1, <2>1, <2>2, Reading
  <1>5. parts = Read(parts)
    <2> SUFFICES ASSUME NEW k \in 0 .. N PROVE parts[k] = Read(parts)[k]
      OBVIOUS
    <2>1. CASE k = 0
      BY <1>1, <2>1, Parts
    <2>2. CASE k # 0
      <3>1. PICK j \in Nat : j = k - 1 /\ k = j + 1 /\ j \in 0 .. N
        BY <1>1, <2>2
      <3>2. Read(parts)[k] = Grown(Part(s, j))
        BY <2>2, <3>1
      <3>3. /\ j < Len(s) => Part(s, j + 1) = Append(Part(s, j), s[j + 1])
            /\ j >= Len(s) => Part(s, j + 1) = Part(s, j)
        BY <1>1, Parts
      <3>4. parts[k] = IF j < Len(s) THEN Append(Part(s, j), s[j + 1]) ELSE Part(s, j)
        BY <1>1, <3>1, <3>3
      <3> QED
        BY <1>2, <3>2, <3>4, Zenon
    <2> QED
      BY <2>1, <2>2
  <1> HIDE DEF Read, parts
  <1> QED
    BY <1>3, <1>4, <1>5

(* The neighbours along lptr are those of the row too, and there are as    *)
(* many elements as places in it.                                          *)
LEMMA DSeen ==
  ASSUME NEW s, DListed(s)
  PROVE  DShows(s)
  <1>1. DL!Chain = s /\ Row(s) /\ s \in Seq(Nodes) /\ Len(s) \in Nat /\ DOMAIN s = 1 .. Len(s)
    BY DRead DEF DListed, DLinked, Row
  <1>2. [k \in DOMAIN DL!Chain |-> dmem[DL!Chain[k]].data] = Data(dmem, s)
    BY <1>1 DEF Data
  <1>3. DL!ActPlace = PlaceIn(s, dAct)
    <2>1. CASE dAct = NULL
      BY <2>1 DEF DL!ActPlace, PlaceIn
    <2>2. CASE In(s, dAct)
      <3>1. PICK n \in 1 .. Len(s) : dAct = s[n] /\ PlaceIn(s, dAct) = n /\ dAct # NULL
        BY <1>1, <2>2, Placed, NoNode DEF In
      <3>2. {k \in DOMAIN DL!Chain : DL!Chain[k] = dAct} = {n}
        BY <1>1, <3>1 DEF Row
      <3>3. DL!ActPlace = CHOOSE k \in {n} \cup {Len(s) + 1} : {n} # {} => k \in {n}
        BY <1>1, <3>1, <3>2 DEF DL!ActPlace
      <3>4. (CHOOSE k \in {n} \cup {Len(s) + 1} : {n} # {} => k \in {n}) = n
        OBVIOUS
      <3> QED
        BY <3>1, <3>3, <3>4
    <2> QED
      BY <2>1, <2>2 DEF DListed
  <1>4. Len(s) = Cardinality(DOMAIN dmem)
    <2>1. s \in Bijection(1 .. Len(s), DOMAIN dmem)
      BY <1>1 DEF DListed, DLinked, In, Row, Bijection, Injection, IsInjective, Surjection
    <2>2. IsFiniteSet(1 .. Len(s)) /\ Cardinality(1 .. Len(s)) = IF 1 > Len(s) THEN 0 ELSE Len(s) - 1 + 1
      BY <1>1, FS_Interval
    <2>3. Cardinality(1 .. Len(s)) = Cardinality(DOMAIN dmem)
      <3>1. ExistsBijection(1 .. Len(s), DOMAIN dmem)
        BY <2>1 DEF ExistsBijection
      <3> QED
        BY ONLY <2>2, <3>1, FS_Bijection
    <2> QED
      BY <1>1, <2>2, <2>3
  <1>5. DL!Cardinality(DOMAIN dmem) = Cardinality(DOMAIN dmem)
    BY DEF DL!Cardinality, Cardinality
  <1>6. /\ dLast = IF Len(s) = 0 THEN NULL ELSE s[Len(s)]
        /\ \A k \in 1 .. Len(s) : dmem[s[k]].lptr = IF k = 1 THEN NULL ELSE s[k - 1]
    BY DEF DListed, DLinked, LastOf, Before
  <1>7. DL!TwoWay
    BY <1>1, <1>4, <1>5, <1>6 DEF DL!TwoWay
  <1> QED
    BY <1>1, <1>2, <1>3, <1>7 DEF DShows

(* The same after a step.                                                  *)
LEMMA DSeenNext ==
  ASSUME NEW CONSTANT s
  PROVE  DListed(s)' => DShows(s)'
  <1>1. DListed(s) => DShows(s)
    BY DSeen
  <1> QED
    BY <1>1, PTL

-----------------------------------------------------------------------------
(* An element put in, and one cut out.                                     *)

DPutIn(M, s, i, tmp, val) ==
  [e \in DOMAIN M \cup {tmp} |->
     IF e = tmp THEN [data |-> val, lptr |-> Behind(s, i), rptr |-> Ahead(s, i)]
     ELSE [data |-> M[e].data,
           lptr |-> IF e = Ahead(s, i) THEN tmp ELSE M[e].lptr,
           rptr |-> IF e = Behind(s, i) THEN tmp ELSE M[e].rptr]]

DCutOut(M, s, i) ==
  [e \in DOMAIN M \ {s[i]} |->
     [data |-> M[e].data,
      lptr |-> IF e = After(s, i) THEN Before(s, i) ELSE M[e].lptr,
      rptr |-> IF e = Before(s, i) THEN After(s, i) ELSE M[e].rptr]]

LEMMA DPut ==
  ASSUME NEW M, NEW f, NEW l, NEW s, DLinked(M, f, l, s),
         NEW i \in 1 .. Len(s) + 1, NEW tmp \in Nodes, tmp \notin DOMAIN M, NEW val \in Values
  PROVE  /\ DLinked(DPutIn(M, s, i, tmp, val), IF i = 1 THEN tmp ELSE f,
                    IF i = Len(s) + 1 THEN tmp ELSE l, Put(s, i, tmp))
         /\ Data(M, s) \in Seq(Values) /\ Len(Data(M, s)) = Len(s)
         /\ Data(DPutIn(M, s, i, tmp, val), Put(s, i, tmp)) = Put(Data(M, s), i, val)
  <1> DEFINE r == Put(s, i, tmp)
             L == DPutIn(M, s, i, tmp, val)
  <1>1. /\ Row(s) /\ s \in Seq(Nodes) /\ Len(s) \in Nat /\ M \in [DOMAIN M -> DElement]
        /\ \A e : e \in DOMAIN M <=> In(s, e)
        /\ \A k \in 1 .. Len(s) : M[s[k]].lptr = Before(s, k) /\ M[s[k]].rptr = After(s, k)
        /\ f = FirstOf(s) /\ l = LastOf(s)
        /\ ~ In(s, tmp) /\ NULL \notin Nodes
    BY NoNode DEF DLinked, Row
  <1>2. /\ Row(r) /\ Len(r) = Len(s) + 1
        /\ \A x : In(r, x) <=> In(s, x) \/ x = tmp
    BY <1>1, PutRow, PutSequence
  <1>3. /\ Behind(s, i) \in Nodes \cup {NULL} /\ Ahead(s, i) \in Nodes \cup {NULL}
        /\ Behind(s, i) # tmp /\ Ahead(s, i) # tmp
    BY <1>1 DEF Behind, Ahead, In
  <1>4. /\ DOMAIN L = DOMAIN M \cup {tmp}
        /\ L[tmp] = [data |-> val, lptr |-> Behind(s, i), rptr |-> Ahead(s, i)]
        /\ \A e \in DOMAIN M :
             L[e] = [data |-> M[e].data,
                     lptr |-> IF e = Ahead(s, i) THEN tmp ELSE M[e].lptr,
                     rptr |-> IF e = Behind(s, i) THEN tmp ELSE M[e].rptr]
        /\ L = [e \in DOMAIN L |-> L[e]]
    BY DEF DPutIn
  <1> HIDE DEF L
  <1>5. L \in [DOMAIN L -> DElement]
    <2>1. ASSUME NEW e \in DOMAIN M PROVE L[e] \in DElement
      <3>1. M[e] \in DElement
        BY <1>1
      <3> QED
        BY <1>4, <3>1 DEF DElement
    <2>2. L[tmp] \in DElement
      BY <1>3, <1>4 DEF DElement
    <2> QED
      BY <1>4, <2>1, <2>2
  <1>6. \A k \in 1 .. Len(s) : s[k] \in DOMAIN M
    BY <1>1 DEF In
  <1>7. /\ Before(r, i) = Behind(s, i) /\ After(r, i) = Ahead(s, i)
        /\ r[i] = tmp
        /\ \A k \in 1 .. Len(s) :
              LET at == IF k < i THEN k ELSE k + 1 IN
              /\ r[at] = s[k]
              /\ Before(r, at) = IF s[k] = Ahead(s, i) THEN tmp ELSE Before(s, k)
              /\ After(r, at) = IF s[k] = Behind(s, i) THEN tmp ELSE After(s, k)
    BY <1>1, PutNeighbours, PutPlaces
  <1>8. ASSUME NEW k \in 1 .. Len(r) PROVE L[r[k]].lptr = Before(r, k) /\ L[r[k]].rptr = After(r, k)
    <2>1. CASE k = i
      BY <1>4, <1>7, <2>1
    <2>2. CASE k # i
      <3>1. PICK j \in 1 .. Len(s) : k = IF j < i THEN j ELSE j + 1
        <4>1. CASE k < i
          BY <1>1, <1>2, <4>1
        <4>2. CASE k > i
          <5>1. k - 1 \in 1 .. Len(s) /\ ~ (k - 1 < i) /\ k - 1 + 1 = k
            BY <1>1, <1>2, <4>2
          <5> QED
            BY <5>1
        <4> QED
          BY <1>2, <2>2, <4>1, <4>2
      <3>2. /\ r[k] = s[j]
            /\ Before(r, k) = IF s[j] = Ahead(s, i) THEN tmp ELSE Before(s, j)
            /\ After(r, k) = IF s[j] = Behind(s, i) THEN tmp ELSE After(s, j)
        BY <1>7, <3>1
      <3>3. L[s[j]] = [data |-> M[s[j]].data,
                       lptr |-> IF s[j] = Ahead(s, i) THEN tmp ELSE M[s[j]].lptr,
                       rptr |-> IF s[j] = Behind(s, i) THEN tmp ELSE M[s[j]].rptr]
        BY <1>4, <1>6
      <3> QED
        BY <1>1, <3>2, <3>3
    <2> QED
      BY <2>1, <2>2
  <1>9. FirstOf(r) = IF i = 1 THEN tmp ELSE f
    BY <1>1, <1>2, PutPlaces DEF FirstOf
  <1>10. LastOf(r) = IF i = Len(s) + 1 THEN tmp ELSE l
    <2>1. i # Len(s) + 1 => Len(s) \in 1 .. Len(s) /\ r[Len(s) + 1] = s[Len(s)]
      BY <1>1, PutPlaces
    <2> QED
      BY <1>1, <1>2, <1>7, <2>1 DEF LastOf
  <1>11. /\ Data(M, s) \in Seq(Values) /\ Len(Data(M, s)) = Len(s)
         /\ Data(L, r) = Put(Data(M, s), i, val)
    <2>1. SameData(M, L, s)
      BY <1>1, <1>4, <1>6 DEF DElement, SameData
    <2>2. L[tmp].data = val
      BY <1>4
    <2> QED
      <3>1. Row(s) /\ ~ In(s, tmp)
        BY <1>1
      <3> HIDE DEF r
      <3>2. /\ Data(M, s) \in Seq(Values) /\ Len(Data(M, s)) = Len(s)
            /\ Data(L, Put(s, i, tmp)) = Put(Data(M, s), i, L[tmp].data)
        BY <2>1, <3>1, PutData
      <3> QED
        BY <2>2, <3>2 DEF r
  <1>12. DLinked(L, IF i = 1 THEN tmp ELSE f, IF i = Len(s) + 1 THEN tmp ELSE l, r)
    BY <1>1, <1>2, <1>4, <1>5, <1>8, <1>9, <1>10 DEF DLinked
  <1> QED
    BY <1>11, <1>12 DEF L

LEMMA DCut ==
  ASSUME NEW M, NEW f, NEW l, NEW s, DLinked(M, f, l, s), NEW i \in 1 .. Len(s)
  PROVE  /\ DLinked(DCutOut(M, s, i), IF i = 1 THEN After(s, i) ELSE f,
                    IF i = Len(s) THEN Before(s, i) ELSE l, Cut(s, i))
         /\ Data(M, s) \in Seq(Values) /\ Len(Data(M, s)) = Len(s)
         /\ Data(DCutOut(M, s, i), Cut(s, i)) = Cut(Data(M, s), i)
  <1> DEFINE r == Cut(s, i)
             L == DCutOut(M, s, i)
  <1>1. /\ Row(s) /\ s \in Seq(Nodes) /\ Len(s) \in Nat /\ M \in [DOMAIN M -> DElement]
        /\ \A e : e \in DOMAIN M <=> In(s, e)
        /\ \A k \in 1 .. Len(s) : M[s[k]].lptr = Before(s, k) /\ M[s[k]].rptr = After(s, k)
        /\ \A j, k \in 1 .. Len(s) : s[j] = s[k] => j = k
        /\ f = FirstOf(s) /\ l = LastOf(s)
    BY DEF DLinked, Row
  <1>2. /\ Row(r) /\ Len(r) = Len(s) - 1
        /\ \A x : In(r, x) <=> In(s, x) /\ x # s[i]
    BY <1>1, CutRow, CutSequence
  <1>3. Before(s, i) \in Nodes \cup {NULL} /\ After(s, i) \in Nodes \cup {NULL}
    BY <1>1 DEF Before, After
  <1>4. /\ DOMAIN L = DOMAIN M \ {s[i]}
        /\ \A e \in DOMAIN L :
             L[e] = [data |-> M[e].data,
                     lptr |-> IF e = After(s, i) THEN Before(s, i) ELSE M[e].lptr,
                     rptr |-> IF e = Before(s, i) THEN After(s, i) ELSE M[e].rptr]
        /\ L = [e \in DOMAIN L |-> L[e]]
    BY DEF DCutOut
  <1>0. \A e \in DOMAIN L : L[e].data = M[e].data
    BY DEF DCutOut
  <1> HIDE DEF L
  <1>5. L \in [DOMAIN L -> DElement]
    <2>1. ASSUME NEW e \in DOMAIN L PROVE L[e] \in DElement
      <3>1. M[e] \in DElement
        BY <1>1, <1>4
      <3>2. M[e].data \in Values /\ {M[e].lptr, M[e].rptr} \subseteq Nodes \cup {NULL}
        BY <3>1 DEF DElement
      <3>3. L[e] = [data |-> M[e].data,
                    lptr |-> IF e = After(s, i) THEN Before(s, i) ELSE M[e].lptr,
                    rptr |-> IF e = Before(s, i) THEN After(s, i) ELSE M[e].rptr]
        BY <1>4
      <3> QED
        BY ONLY <1>3, <3>2, <3>3 DEF DElement
    <2> QED
      BY <1>4, <2>1
  <1>6. \A k \in 1 .. Len(s) : s[k] \in DOMAIN M /\ (k # i => s[k] \in DOMAIN L)
    BY <1>1, <1>4 DEF In
  <1>7. \A k \in 1 .. Len(s) : k # i =>
           LET at == IF k < i THEN k ELSE k - 1 IN
           /\ r[at] = s[k]
           /\ Before(r, at) = IF s[k] = After(s, i) THEN Before(s, i) ELSE Before(s, k)
           /\ After(r, at) = IF s[k] = Before(s, i) THEN After(s, i) ELSE After(s, k)
    BY <1>1, CutNeighbours
  <1>8. ASSUME NEW k \in 1 .. Len(r) PROVE L[r[k]].lptr = Before(r, k) /\ L[r[k]].rptr = After(r, k)
    <2>1. PICK j \in 1 .. Len(s) : j # i /\ k = IF j < i THEN j ELSE j - 1
      <3>1. CASE k < i
        BY <1>1, <1>2, <3>1
      <3>2. CASE k >= i
        <4>1. k + 1 \in 1 .. Len(s) /\ ~ (k + 1 < i) /\ k + 1 - 1 = k /\ k + 1 # i
          BY <1>1, <1>2, <3>2
        <4> QED
          BY <4>1
      <3> QED
        BY <1>2, <3>1, <3>2
    <2>2. /\ r[k] = s[j]
          /\ Before(r, k) = IF s[j] = After(s, i) THEN Before(s, i) ELSE Before(s, j)
          /\ After(r, k) = IF s[j] = Before(s, i) THEN After(s, i) ELSE After(s, j)
      BY <1>7, <2>1
    <2>3. L[s[j]] = [data |-> M[s[j]].data,
                     lptr |-> IF s[j] = After(s, i) THEN Before(s, i) ELSE M[s[j]].lptr,
                     rptr |-> IF s[j] = Before(s, i) THEN After(s, i) ELSE M[s[j]].rptr]
      BY <1>4, <1>6, <2>1
    <2> QED
      BY <1>1, <2>2, <2>3
  <1>9. FirstOf(r) = IF i = 1 THEN After(s, i) ELSE f
    <2>1. CASE i = 1
      <3>1. Len(s) # 1 => 2 \in 1 .. Len(s) /\ r[1] = s[2]
        <4>1. Len(s) \in Nat /\ s \in Seq(Nodes)
          BY <1>1
        <4>2. Len(s) # 1 => 2 \in 1 .. Len(s) /\ 2 > i /\ 2 - 1 = 1
          <5>1. PICK n \in Nat : n = Len(s)
            BY <4>1
          <5>2. n >= 1
            BY <5>1
          <5>3. n # 1 => 2 \in 1 .. n
            BY <5>1, <5>2
          <5>4. 2 > i /\ 2 - 1 = 1
            BY <2>1
          <5> QED
            BY <5>1, <5>3, <5>4
        <4>3. 2 \in 1 .. Len(s) => Cut(s, i)[2 - 1] = s[2]
          BY <2>1, <4>1, CutPlaces
        <4> QED
          BY <4>2, <4>3
      <3> QED
        BY <1>1, <1>2, <2>1, <3>1 DEF FirstOf, After
    <2>2. CASE i # 1
      <3>1. 1 \in 1 .. Len(s) /\ 1 < i /\ Len(s) # 1
        BY <1>1, <2>2
      <3>2. r[1] = s[1]
        BY <1>1, <3>1, CutPlaces
      <3> QED
        BY <1>1, <1>2, <2>2, <3>1, <3>2 DEF FirstOf
    <2> QED
      BY <2>1, <2>2
  <1>10. LastOf(r) = IF i = Len(s) THEN Before(s, i) ELSE l
    <2>1. CASE i = Len(s)
      <3>1. Len(s) # 1 => Len(s) - 1 \in 1 .. Len(s) /\ r[Len(s) - 1] = s[Len(s) - 1]
        BY <1>1, <2>1, CutPlaces
      <3> QED
        BY <1>1, <1>2, <2>1, <3>1 DEF LastOf, Before
    <2>2. CASE i # Len(s)
      <3>1. Len(s) \in 1 .. Len(s) /\ Len(s) > i
        BY <1>1, <2>2
      <3>2. r[Len(s) - 1] = s[Len(s)]
        BY <1>1, <3>1, CutPlaces
      <3> QED
        BY <1>1, <1>2, <2>2, <3>1, <3>2 DEF LastOf
    <2> QED
      BY <2>1, <2>2
  <1>11. /\ Data(M, s) \in Seq(Values) /\ Len(Data(M, s)) = Len(s)
         /\ Data(L, r) = Cut(Data(M, s), i)
    <2>1. ASSUME NEW k \in 1 .. Len(s)
          PROVE  M[s[k]].data \in Values /\ (k # i => L[s[k]].data = M[s[k]].data)
      <3>1. M[s[k]] \in DElement
        BY <1>1, <1>6
      <3>2. k # i => L[s[k]].data = M[s[k]].data
        BY <1>0, <1>6
      <3> QED
        BY <3>1, <3>2 DEF DElement
    <2> QED
      BY <1>1, <2>1, CutData
  <1>12. DLinked(L, IF i = 1 THEN After(s, i) ELSE f, IF i = Len(s) THEN Before(s, i) ELSE l, r)
    BY <1>1, <1>2, <1>4, <1>5, <1>8, <1>9, <1>10 DEF DLinked
  <1> QED
    BY <1>11, <1>12 DEF L

-----------------------------------------------------------------------------
(* The calls of c206, each a step of the list with an active item.         *)

(* What the list has when the elements are those of s.                     *)
LEMMA DItems ==
  ASSUME NEW s, DListed(s)
  PROVE  /\ Data(dmem, s) \in Seq(Values) /\ Len(Data(dmem, s)) = Len(s) /\ Len(s) \in Nat
         /\ \A k \in 1 .. Len(s) : s[k] \in DOMAIN dmem /\ Data(dmem, s)[k] = dmem[s[k]].data
         /\ PlaceIn(s, dAct) \in 0 .. Len(s)
         /\ dAct = NULL => PlaceIn(s, dAct) = 0
         /\ dAct # NULL => PlaceIn(s, dAct) \in 1 .. Len(s) /\ s[PlaceIn(s, dAct)] = dAct
         /\ Data(dmem, s) = << >> <=> Len(s) = 0
  <1>1. Row(s) /\ s \in Seq(Nodes) /\ Len(s) \in Nat
    BY DEF DListed, DLinked, Row
  <1>2. \A k \in 1 .. Len(s) : s[k] \in DOMAIN dmem /\ dmem[s[k]] \in DElement
    BY DEF DListed, DLinked, In
  <1>3. Data(dmem, s) \in Seq(Values) /\ Len(Data(dmem, s)) = Len(s)
    <2>1. \A k \in 1 .. Len(s) : dmem[s[k]].data \in Values
      BY <1>2 DEF DElement
    <2> QED
      BY <1>1, <2>1 DEF Data
  <1>4. dAct # NULL => \E k \in 1 .. Len(s) : dAct = s[k] /\ PlaceIn(s, dAct) = k
    BY <1>1, Placed DEF DListed, In
  <1>5. dAct = NULL => PlaceIn(s, dAct) = 0
    BY DEF PlaceIn
  <1>6. Data(dmem, s) = << >> <=> Len(s) = 0
    BY <1>1, <1>3, EmptySeq
  <1> QED
    BY <1>1, <1>2, <1>3, <1>4, <1>5, <1>6 DEF Data

LEMMA DInserts ==
  ASSUME NEW s, DListed(s), NEW i \in 1 .. Len(s) + 1,
         NEW tmp \in Nodes, tmp \notin DOMAIN dmem, NEW val \in Values,
         dmem' = DPutIn(dmem, s, i, tmp, val),
         dFirst' = IF i = 1 THEN tmp ELSE dFirst,
         dLast' = IF i = Len(s) + 1 THEN tmp ELSE dLast,
         dAct' = dAct, dres' = Done
  PROVE  DListed(Put(s, i, tmp))' /\ DL!List!Inserts(i, val)
  <1> DEFINE r == Put(s, i, tmp)
  <1>1. DShows(s)
    BY DSeen
  <1>2. /\ DLinked(dmem', dFirst', dLast', r)
        /\ Data(dmem, s) \in Seq(Values) /\ Len(Data(dmem, s)) = Len(s)
        /\ Data(dmem', r) = Put(Data(dmem, s), i, val)
    BY DPut DEF DListed
  <1>3. /\ Row(s) /\ ~ In(s, tmp) /\ (In(s, dAct) \/ dAct = NULL)
    BY DEF DListed, DLinked
  <1>4. \A x : In(r, x) <=> In(s, x) \/ x = tmp
    BY <1>3, PutRow
  <1>5. DListed(r)'
    BY <1>2, <1>3, <1>4 DEF DListed
  <1>6. PlaceIn(r, dAct') = IF PlaceIn(s, dAct) >= i THEN PlaceIn(s, dAct) + 1 ELSE PlaceIn(s, dAct)
    BY <1>3, PutPlaced
  <1>7. Put(Data(dmem, s), i, val) =
          SubSeq(Data(dmem, s), 1, i - 1) \o << val >> \o SubSeq(Data(dmem, s), i, Len(Data(dmem, s)))
    BY <1>2, PutInserts, ZenonT(30)
  <1>8. DShows(r)'
    BY <1>5, DSeenNext
  <1> HIDE DEF r
  <1>9. /\ [k \in DOMAIN DL!Chain |-> dmem[DL!Chain[k]].data]' = Put(Data(dmem, s), i, val)
        /\ DL!ActPlace' = IF PlaceIn(s, dAct) >= i THEN PlaceIn(s, dAct) + 1 ELSE PlaceIn(s, dAct)
    BY <1>2, <1>6, <1>8 DEF DShows
  <1>10. DL!List!Inserts(i, val)
    BY <1>1, <1>7, <1>9, Zenon DEF DShows, DL!List!Inserts, DL!List!Becomes, DL!List!With
  <1> QED
    BY <1>5, <1>10 DEF r

LEMMA DDeletes ==
  ASSUME NEW s, DListed(s), NEW i \in 1 .. Len(s),
         dmem' = DCutOut(dmem, s, i),
         dFirst' = IF i = 1 THEN After(s, i) ELSE dFirst,
         dLast' = IF i = Len(s) THEN Before(s, i) ELSE dLast,
         dAct' = (IF dAct = s[i] THEN NULL ELSE dAct), dres' = Done
  PROVE  DListed(Cut(s, i))' /\ DL!List!Deletes(i)
  <1> DEFINE r == Cut(s, i)
  <1>1. DShows(s)
    BY DSeen
  <1>2. /\ DLinked(dmem', dFirst', dLast', r)
        /\ Data(dmem, s) \in Seq(Values) /\ Len(Data(dmem, s)) = Len(s)
        /\ Data(dmem', r) = Cut(Data(dmem, s), i)
    BY DCut DEF DListed
  <1>3. Row(s) /\ (In(s, dAct) \/ dAct = NULL)
    BY DEF DListed, DLinked
  <1>4. \A x : In(r, x) <=> In(s, x) /\ x # s[i]
    BY <1>3, CutRow
  <1>5. DListed(r)'
    BY <1>2, <1>3, <1>4 DEF DListed
  <1>6. PlaceIn(r, dAct') = IF PlaceIn(s, dAct) = i THEN 0
                          ELSE IF PlaceIn(s, dAct) > i THEN PlaceIn(s, dAct) - 1 ELSE PlaceIn(s, dAct)
    BY <1>3, CutPlaced
  <1>7. Cut(Data(dmem, s), i) =
          SubSeq(Data(dmem, s), 1, i - 1) \o SubSeq(Data(dmem, s), i + 1, Len(Data(dmem, s)))
    BY <1>2, CutRemoves, Zenon
  <1>8. DShows(r)'
    BY <1>5, DSeenNext
  <1> HIDE DEF r
  <1>9. /\ [k \in DOMAIN DL!Chain |-> dmem[DL!Chain[k]].data]' = Cut(Data(dmem, s), i)
        /\ DL!ActPlace' = IF PlaceIn(s, dAct) = i THEN 0
                          ELSE IF PlaceIn(s, dAct) > i THEN PlaceIn(s, dAct) - 1 ELSE PlaceIn(s, dAct)
    BY <1>2, <1>6, <1>8 DEF DShows
  <1>10. DL!List!Deletes(i)
    BY <1>1, <1>7, <1>9, Zenon DEF DShows, DL!List!Deletes, DL!List!Becomes, DL!List!Without
  <1> QED
    BY <1>5, <1>10 DEF r

LEMMA DMoves ==
  ASSUME NEW s, DListed(s), UNCHANGED << dmem, dFirst, dLast >>, dAct' = NULL \/ In(s, dAct')
  PROVE  /\ DListed(s)'
         /\ dres' = Done => DL!List!Moves(PlaceIn(s, dAct'))
         /\ dAct' = dAct => \A r : dres' = r => DL!List!Answers(r)
  <1>1. DShows(s)
    BY DSeen
  <1>2. DListed(s)'
    BY DEF DListed
  <1>3. DShows(s)'
    BY <1>2, DSeenNext
  <1>4. /\ [k \in DOMAIN DL!Chain |-> dmem[DL!Chain[k]].data]'
             = [k \in DOMAIN DL!Chain |-> dmem[DL!Chain[k]].data]
        /\ DL!ActPlace' = PlaceIn(s, dAct')
        /\ dAct' = dAct => DL!ActPlace' = DL!ActPlace
    BY <1>1, <1>3 DEF DShows
  <1>5. dres' = Done => DL!List!Moves(PlaceIn(s, dAct'))
    BY <1>4 DEF DL!List!Moves, DL!List!Becomes
  <1>6. dAct' = dAct => \A r : dres' = r => DL!List!Answers(r)
    BY <1>4 DEF DL!List!Answers
  <1> QED
    BY <1>2, <1>5, <1>6

-----------------------------------------------------------------------------
(* What Left and Right make of the elements.                               *)

LeftLinked(L, D, M, e, to) ==
  /\ L \in [D -> DElement]
  /\ \A x \in D : /\ L[x].data = M[x].data
                  /\ L[x].lptr = IF x = e THEN to ELSE M[x].lptr
                  /\ L[x].rptr = M[x].rptr

RightLinked(L, D, M, e, to) ==
  /\ L \in [D -> DElement]
  /\ \A x \in D : /\ L[x].data = M[x].data
                  /\ L[x].lptr = M[x].lptr
                  /\ L[x].rptr = IF x = e THEN to ELSE M[x].rptr

LEMMA Links ==
  ASSUME NEW D, NULL \notin D, NEW M \in [D -> DElement],
         NEW e \in D \cup {NULL}, NEW to \in Nodes \cup {NULL}
  PROVE  /\ LeftLinked(DL!Left(M, e, to), D, M, e, to)
         /\ RightLinked(DL!Right(M, e, to), D, M, e, to)
  <1>1. CASE e = NULL
    BY <1>1 DEF DL!Left, DL!Right, LeftLinked, RightLinked
  <1>2. CASE e \in D
    <2>1. M[e] \in DElement
      BY <1>2
    <2>2. /\ DL!Left(M, e, to) = [M EXCEPT ![e] = [M[e] EXCEPT !.lptr = to]]
          /\ DL!Right(M, e, to) = [M EXCEPT ![e] = [M[e] EXCEPT !.rptr = to]]
      BY <1>2, NoNode DEF DL!Left, DL!Right
    <2>3. /\ [M[e] EXCEPT !.lptr = to] \in DElement /\ [M[e] EXCEPT !.rptr = to] \in DElement
          /\ [M[e] EXCEPT !.lptr = to].data = M[e].data /\ [M[e] EXCEPT !.rptr = to].data = M[e].data
          /\ [M[e] EXCEPT !.lptr = to].lptr = to /\ [M[e] EXCEPT !.rptr = to].lptr = M[e].lptr
          /\ [M[e] EXCEPT !.lptr = to].rptr = M[e].rptr /\ [M[e] EXCEPT !.rptr = to].rptr = to
      BY <2>1 DEF DElement
    <2> QED
      BY <1>2, <2>2, <2>3 DEF LeftLinked, RightLinked
  <1> QED
    BY <1>1, <1>2

(* Elements are equal that agree in their three fields.                    *)
LEMMA SameElements ==
  ASSUME NEW D, NEW M \in [D -> DElement], NEW L \in [D -> DElement],
         \A x \in D : M[x].data = L[x].data /\ M[x].lptr = L[x].lptr /\ M[x].rptr = L[x].rptr
  PROVE  M = L
  <1>1. ASSUME NEW x \in D PROVE M[x] = L[x]
    <2>1. M[x] \in DElement /\ L[x] \in DElement
      OBVIOUS
    <2> QED
      BY <2>1 DEF DElement
  <1> QED
    BY <1>1

(* The fields of the elements when one is put in, and when one is cut out. *)
DPutFields(L, s, i, tmp, val) ==
  /\ L \in [DOMAIN dmem \cup {tmp} -> DElement]
  /\ L[tmp].data = val /\ L[tmp].lptr = Behind(s, i) /\ L[tmp].rptr = Ahead(s, i)
  /\ \A x \in DOMAIN dmem :
       /\ L[x].data = dmem[x].data
       /\ L[x].lptr = IF x = Ahead(s, i) THEN tmp ELSE dmem[x].lptr
       /\ L[x].rptr = IF x = Behind(s, i) THEN tmp ELSE dmem[x].rptr

DCutFields(L, s, i) ==
  /\ L \in [DOMAIN dmem \ {s[i]} -> DElement]
  /\ \A x \in DOMAIN dmem \ {s[i]} :
       /\ L[x].data = dmem[x].data
       /\ L[x].lptr = IF x = After(s, i) THEN Before(s, i) ELSE dmem[x].lptr
       /\ L[x].rptr = IF x = Before(s, i) THEN After(s, i) ELSE dmem[x].rptr

LEMMA DPutElements ==
  ASSUME NEW s, DListed(s), NEW i \in 1 .. Len(s) + 1,
         NEW tmp \in Nodes, tmp \notin DOMAIN dmem, NEW val \in Values
  PROVE  DPutFields(DPutIn(dmem, s, i, tmp, val), s, i, tmp, val)
  <1> DEFINE L == DPutIn(dmem, s, i, tmp, val)
  <1>1. /\ Behind(s, i) \in Nodes \cup {NULL} /\ Ahead(s, i) \in Nodes \cup {NULL}
        /\ dmem \in [DOMAIN dmem -> DElement]
    BY DEF DListed, DLinked, Row, Behind, Ahead
  <1>2. /\ L = [x \in DOMAIN dmem \cup {tmp} |-> L[x]]
        /\ L[tmp] = [data |-> val, lptr |-> Behind(s, i), rptr |-> Ahead(s, i)]
        /\ \A x \in DOMAIN dmem :
             L[x] = [data |-> dmem[x].data,
                     lptr |-> IF x = Ahead(s, i) THEN tmp ELSE dmem[x].lptr,
                     rptr |-> IF x = Behind(s, i) THEN tmp ELSE dmem[x].rptr]
    BY DEF DPutIn
  <1> HIDE DEF L
  <1>3. /\ L[tmp] \in DElement
        /\ L[tmp].data = val /\ L[tmp].lptr = Behind(s, i) /\ L[tmp].rptr = Ahead(s, i)
    BY <1>1, <1>2 DEF DElement
  <1>4. ASSUME NEW x \in DOMAIN dmem
        PROVE  /\ L[x] \in DElement
               /\ L[x].data = dmem[x].data
               /\ L[x].lptr = IF x = Ahead(s, i) THEN tmp ELSE dmem[x].lptr
               /\ L[x].rptr = IF x = Behind(s, i) THEN tmp ELSE dmem[x].rptr
    <2>1. dmem[x] \in DElement
      BY <1>1
    <2>2. dmem[x].data \in Values /\ {dmem[x].lptr, dmem[x].rptr} \subseteq Nodes \cup {NULL}
      BY <2>1 DEF DElement
    <2>3. L[x] = [data |-> dmem[x].data,
                  lptr |-> IF x = Ahead(s, i) THEN tmp ELSE dmem[x].lptr,
                  rptr |-> IF x = Behind(s, i) THEN tmp ELSE dmem[x].rptr]
      BY <1>2
    <2> QED
      BY ONLY <2>2, <2>3, tmp \in Nodes DEF DElement
  <1>5. L \in [DOMAIN dmem \cup {tmp} -> DElement]
    BY <1>2, <1>3, <1>4
  <1> QED
    BY <1>3, <1>4, <1>5 DEF L, DPutFields

LEMMA DCutElements ==
  ASSUME NEW s, DListed(s), NEW i \in 1 .. Len(s)
  PROVE  DCutFields(DCutOut(dmem, s, i), s, i)
  <1> DEFINE L == DCutOut(dmem, s, i)
  <1>1. /\ Before(s, i) \in Nodes \cup {NULL} /\ After(s, i) \in Nodes \cup {NULL}
        /\ dmem \in [DOMAIN dmem -> DElement]
    BY DEF DListed, DLinked, Row, Before, After
  <1>2. /\ L = [x \in DOMAIN dmem \ {s[i]} |-> L[x]]
        /\ \A x \in DOMAIN dmem \ {s[i]} :
             L[x] = [data |-> dmem[x].data,
                     lptr |-> IF x = After(s, i) THEN Before(s, i) ELSE dmem[x].lptr,
                     rptr |-> IF x = Before(s, i) THEN After(s, i) ELSE dmem[x].rptr]
    BY DEF DCutOut
  <1> HIDE DEF L
  <1>3. ASSUME NEW x \in DOMAIN dmem \ {s[i]} PROVE L[x] \in DElement
    <2>1. dmem[x] \in DElement
      BY <1>1
    <2>2. dmem[x].data \in Values /\ {dmem[x].lptr, dmem[x].rptr} \subseteq Nodes \cup {NULL}
      BY <2>1 DEF DElement
    <2>3. L[x] = [data |-> dmem[x].data,
                  lptr |-> IF x = After(s, i) THEN Before(s, i) ELSE dmem[x].lptr,
                  rptr |-> IF x = Before(s, i) THEN After(s, i) ELSE dmem[x].rptr]
      BY <1>2, Zenon
    <2> QED
      BY ONLY <1>1, <2>2, <2>3 DEF DElement
  <1>4. L \in [DOMAIN dmem \ {s[i]} -> DElement]
    BY <1>2, <1>3, Zenon
  <1>5. ASSUME NEW x \in DOMAIN dmem \ {s[i]}
        PROVE  /\ L[x].data = dmem[x].data
               /\ L[x].lptr = IF x = After(s, i) THEN Before(s, i) ELSE dmem[x].lptr
               /\ L[x].rptr = IF x = Before(s, i) THEN After(s, i) ELSE dmem[x].rptr
    <2>1. L[x] = [data |-> dmem[x].data,
                  lptr |-> IF x = After(s, i) THEN Before(s, i) ELSE dmem[x].lptr,
                  rptr |-> IF x = Before(s, i) THEN After(s, i) ELSE dmem[x].rptr]
      BY <1>2, Zenon
    <2> QED
      BY ONLY <2>1
  <1> QED
    BY <1>4, <1>5 DEF L, DCutFields

DWithFields(M, tmp, val, l, r) ==
  /\ M \in [DOMAIN dmem \cup {tmp} -> DElement]
  /\ M[tmp].data = val /\ M[tmp].lptr = l /\ M[tmp].rptr = r
  /\ \A x \in DOMAIN dmem : M[x] = dmem[x]

LEMMA DWith ==
  ASSUME NEW s, DListed(s), NEW tmp \in Nodes, tmp \notin DOMAIN dmem,
         NEW val \in Values, NEW l \in Nodes \cup {NULL}, NEW r \in Nodes \cup {NULL}
  PROVE  DWithFields(DL!With(tmp, DL!Element(val, l, r)), tmp, val, l, r)
  <1>1. dmem \in [DOMAIN dmem -> DElement]
    BY DEF DListed, DLinked
  <1>2. [data |-> val, lptr |-> l, rptr |-> r] \in DElement
    BY DEF DElement
  <1>3. DL!With(tmp, DL!Element(val, l, r)) \in [DOMAIN dmem \cup {tmp} -> DElement]
    BY <1>1, <1>2 DEF DL!With, DL!Element
  <1> QED
    BY <1>3 DEF DWithFields, DL!With, DL!Element

DFreedFrom(L, D, M, tmp) == L \in [D \ {tmp} -> DElement] /\ \A x \in D \ {tmp} : L[x] = M[x]

LEMMA DFreed ==
  ASSUME NEW D, NEW M \in [D -> DElement], NEW tmp
  PROVE  DFreedFrom(DL!Free(M, tmp), D, M, tmp)
  BY DEF DL!Free, DFreedFrom

(* The elements of a row.                                                  *)
DRow(s) ==
  /\ Row(s) /\ s \in Seq(Nodes) /\ Len(s) \in Nat
  /\ dmem \in [DOMAIN dmem -> DElement]
  /\ DOMAIN dmem \subseteq Nodes /\ NULL \notin DOMAIN dmem /\ NULL \notin Nodes
  /\ \A e : e \in DOMAIN dmem <=> In(s, e)
  /\ \A k \in 1 .. Len(s) :
       s[k] \in DOMAIN dmem /\ dmem[s[k]].lptr = Before(s, k) /\ dmem[s[k]].rptr = After(s, k)
  /\ \A j, k \in 1 .. Len(s) : s[j] = s[k] => j = k
  /\ dFirst = (IF Len(s) = 0 THEN NULL ELSE s[1])
  /\ dLast = (IF Len(s) = 0 THEN NULL ELSE s[Len(s)])
  /\ dFirst \in DOMAIN dmem \cup {NULL} /\ dLast \in DOMAIN dmem \cup {NULL}
  /\ dAct = NULL \/ In(s, dAct)

LEMMA DRows ==
  ASSUME NEW s, DListed(s)
  PROVE  DRow(s)
  <1>1. /\ Row(s) /\ s \in Seq(Nodes) /\ Len(s) \in Nat
        /\ dmem \in [DOMAIN dmem -> DElement]
        /\ \A e : e \in DOMAIN dmem <=> In(s, e)
        /\ \A k \in 1 .. Len(s) : dmem[s[k]].lptr = Before(s, k) /\ dmem[s[k]].rptr = After(s, k)
        /\ \A j, k \in 1 .. Len(s) : s[j] = s[k] => j = k
        /\ dFirst = (IF Len(s) = 0 THEN NULL ELSE s[1])
        /\ dLast = (IF Len(s) = 0 THEN NULL ELSE s[Len(s)])
        /\ dAct = NULL \/ In(s, dAct)
    BY DEF DListed, DLinked, Row, FirstOf, LastOf
  <1>2. \A k \in 1 .. Len(s) : s[k] \in Nodes /\ s[k] \in DOMAIN dmem
    BY <1>1 DEF In
  <1>3. DOMAIN dmem \subseteq Nodes /\ NULL \notin DOMAIN dmem /\ NULL \notin Nodes
    BY <1>1, <1>2, NoNode DEF In
  <1>4. dFirst \in DOMAIN dmem \cup {NULL} /\ dLast \in DOMAIN dmem \cup {NULL}
    BY <1>1, <1>2
  <1> QED
    BY <1>1, <1>2, <1>3, <1>4 DEF DRow

DGood == \E s : DListed(s)

(* To show that an element is put in, or cut out, it is enough to look at  *)
(* the fields.                                                             *)
LEMMA DPuts ==
  ASSUME NEW s, DListed(s), NEW i \in 1 .. Len(s) + 1,
         NEW tmp \in Nodes, tmp \notin DOMAIN dmem, NEW val \in Values,
         DPutFields(dmem', s, i, tmp, val),
         dFirst' = IF i = 1 THEN tmp ELSE dFirst,
         dLast' = IF i = Len(s) + 1 THEN tmp ELSE dLast,
         dAct' = dAct, dres' = Done
  PROVE  DGood' /\ DL!List!Inserts(i, val)
  <1> DEFINE L == DPutIn(dmem, s, i, tmp, val)
  <1>1. DPutFields(L, s, i, tmp, val)
    BY DPutElements
  <1> HIDE DEF L
  <1>2. \A x \in DOMAIN dmem \cup {tmp} :
          dmem'[x].data = L[x].data /\ dmem'[x].lptr = L[x].lptr /\ dmem'[x].rptr = L[x].rptr
    BY <1>1 DEF DPutFields
  <1>3. dmem' = L
    BY <1>1, <1>2, SameElements DEF DPutFields
  <1>4. DListed(Put(s, i, tmp))' /\ DL!List!Inserts(i, val)
    BY <1>3, DInserts DEF L
  <1> QED
    BY <1>4 DEF DGood

LEMMA DCuts ==
  ASSUME NEW s, DListed(s), NEW i \in 1 .. Len(s),
         DCutFields(dmem', s, i),
         dFirst' = IF i = 1 THEN After(s, i) ELSE dFirst,
         dLast' = IF i = Len(s) THEN Before(s, i) ELSE dLast,
         dAct' = (IF dAct = s[i] THEN NULL ELSE dAct), dres' = Done
  PROVE  DGood' /\ DL!List!Deletes(i)
  <1> DEFINE L == DCutOut(dmem, s, i)
  <1>1. DCutFields(L, s, i)
    BY DCutElements
  <1> HIDE DEF L
  <1>2. \A x \in DOMAIN dmem \ {s[i]} :
          dmem'[x].data = L[x].data /\ dmem'[x].lptr = L[x].lptr /\ dmem'[x].rptr = L[x].rptr
    BY <1>1 DEF DCutFields
  <1>3. dmem' = L
    BY <1>1, <1>2, SameElements DEF DCutFields
  <1>4. DListed(Cut(s, i))' /\ DL!List!Deletes(i)
    BY <1>3, DDeletes DEF L
  <1> QED
    BY <1>4 DEF DGood

(* A call that changes nothing.                                            *)
LEMMA DStays ==
  ASSUME NEW s, DListed(s), NEW r, DL!Answers(r)
  PROVE  DGood' /\ DL!List!Answers(r)
  <1>1. UNCHANGED << dmem, dFirst, dLast >> /\ dAct' = dAct /\ dres' = r
    BY DEF DL!Answers, DL!list
  <1>2. DListed(s)' /\ DL!List!Answers(r)
    BY <1>1, DMoves DEF DListed
  <1> QED
    BY <1>2 DEF DGood

LEMMA DInsertFirst ==
  ASSUME NEW s, DListed(s), NEW val \in Values, DL!DLInsertFirst(val)
  PROVE  DGood' /\ DL!List!Inserts(1, val)
  <1>1. CASE DL!DLError
    <2>1. DGood' /\ DL!List!Answers(Error)
      BY <1>1, DStays DEF DL!DLError
    <2> QED
      BY <2>1 DEF DL!List!Inserts
  <1>2. ASSUME NEW tmp \in Nodes \ DOMAIN dmem,
               dmem' = DL!Left(DL!With(tmp, DL!Element(val, NULL, dFirst)),
                               IF dLast = NULL THEN NULL ELSE dFirst, tmp),
               dLast' = IF dLast = NULL THEN tmp ELSE dLast,
               dFirst' = tmp, dAct' = dAct, dres' = Done
        PROVE  DGood' /\ DL!List!Inserts(1, val)
    <2> DEFINE M == DL!With(tmp, DL!Element(val, NULL, dFirst))
               D == DOMAIN dmem \cup {tmp}
    <2>1. DRow(s)
      BY DRows
    <2>2. 1 \in 1 .. Len(s) + 1 /\ Behind(s, 1) = NULL /\ Ahead(s, 1) = dFirst
          /\ (dLast = NULL <=> dFirst = NULL) /\ (dLast = NULL <=> Len(s) + 1 = 1)
      BY <2>1 DEF DRow, Behind, Ahead
    <2>3. DWithFields(M, tmp, val, NULL, dFirst)
      <3>1. dFirst \in Nodes \cup {NULL} /\ NULL \in Nodes \cup {NULL}
        BY <2>1 DEF DRow
      <3> QED
        BY <3>1, DWith
    <2> HIDE DEF M
    <2>4. dmem' = DL!Left(M, dFirst, tmp) /\ dFirst \in D \cup {NULL} /\ NULL \notin D
      BY <1>2, <2>1, <2>2 DEF M, DRow
    <2>5. LeftLinked(dmem', D, M, dFirst, tmp)
      <3>1. M \in [D -> DElement] /\ tmp \in Nodes \cup {NULL}
        BY <2>3 DEF DWithFields
      <3> QED
        BY <2>4, <3>1, Links
    <2>6. dFirst # tmp
      BY <2>1 DEF DRow
    <2>7. DPutFields(dmem', s, 1, tmp, val)
      BY <2>1, <2>2, <2>3, <2>5, <2>6 DEF DRow, DWithFields, DPutFields, LeftLinked
    <2> QED
      BY <1>2, <2>2, <2>7, DPuts
  <1> QED
    BY <1>1, <1>2 DEF DL!DLInsertFirst, DL!Malloc

LEMMA DInsertLast ==
  ASSUME NEW s, DListed(s), NEW val \in Values, DL!DLInsertLast(val)
  PROVE  DGood' /\ DL!List!Inserts(Len(s) + 1, val)
  <1>1. CASE DL!DLError
    <2>1. DGood' /\ DL!List!Answers(Error)
      BY <1>1, DStays DEF DL!DLError
    <2> QED
      BY <2>1 DEF DL!List!Inserts
  <1>2. ASSUME NEW tmp \in Nodes \ DOMAIN dmem,
               dmem' = DL!Right(DL!With(tmp, DL!Element(val, dLast, NULL)),
                                IF dFirst = NULL THEN NULL ELSE dLast, tmp),
               dFirst' = IF dFirst = NULL THEN tmp ELSE dFirst,
               dLast' = tmp, dAct' = dAct, dres' = Done
        PROVE  DGood' /\ DL!List!Inserts(Len(s) + 1, val)
    <2> DEFINE M == DL!With(tmp, DL!Element(val, dLast, NULL))
               D == DOMAIN dmem \cup {tmp}
    <2>1. DRow(s)
      BY DRows
    <2>2. /\ Len(s) + 1 \in 1 .. Len(s) + 1
          /\ Behind(s, Len(s) + 1) = dLast /\ Ahead(s, Len(s) + 1) = NULL
          /\ (dLast = NULL <=> dFirst = NULL) /\ (dFirst = NULL <=> Len(s) + 1 = 1)
      BY <2>1 DEF DRow, Behind, Ahead
    <2>3. DWithFields(M, tmp, val, dLast, NULL)
      <3>1. dLast \in Nodes \cup {NULL} /\ NULL \in Nodes \cup {NULL}
        BY <2>1 DEF DRow
      <3> QED
        BY <3>1, DWith
    <2> HIDE DEF M
    <2>4. dmem' = DL!Right(M, dLast, tmp) /\ dLast \in D \cup {NULL} /\ NULL \notin D
      BY <1>2, <2>1, <2>2 DEF M, DRow
    <2>5. RightLinked(dmem', D, M, dLast, tmp)
      <3>1. M \in [D -> DElement] /\ tmp \in Nodes \cup {NULL}
        BY <2>3 DEF DWithFields
      <3> QED
        BY <2>4, <3>1, Links
    <2>6. dLast # tmp
      BY <2>1 DEF DRow
    <2>7. DPutFields(dmem', s, Len(s) + 1, tmp, val)
      BY <2>1, <2>2, <2>3, <2>5, <2>6 DEF DRow, DWithFields, DPutFields, RightLinked
    <2> QED
      BY <1>2, <2>2, <2>7, DPuts
  <1> QED
    BY <1>1, <1>2 DEF DL!DLInsertLast, DL!Malloc

(* The active element and its neighbours.                                  *)
LEMMA DActive ==
  ASSUME NEW s, DListed(s), dAct # NULL
  PROVE  \E p \in 1 .. Len(s) :
           /\ p = PlaceIn(s, dAct) /\ s[p] = dAct /\ dAct \in DOMAIN dmem
           /\ dmem[dAct].lptr = Before(s, p) /\ dmem[dAct].rptr = After(s, p)
           /\ p = Len(s) <=> dAct = dLast
           /\ p = 1 <=> dAct = dFirst
  <1>1. DRow(s)
    BY DRows
  <1>2. PICK p \in 1 .. Len(s) : p = PlaceIn(s, dAct) /\ s[p] = dAct
    BY DItems
  <1> QED
    BY <1>1, <1>2 DEF DRow

LEMMA DPostInsert ==
  ASSUME NEW s, DListed(s), NEW val \in Values, DL!DLPostInsert(val), dAct # NULL
  PROVE  DGood' /\ DL!List!Inserts(PlaceIn(s, dAct) + 1, val)
  <1>1. CASE DL!DLError
    <2>1. DGood' /\ DL!List!Answers(Error)
      BY <1>1, DStays DEF DL!DLError
    <2> QED
      BY <2>1 DEF DL!List!Inserts
  <1>2. ASSUME NEW tmp \in Nodes \ DOMAIN dmem,
               IF dAct = dLast
                 THEN /\ dLast' = tmp
                      /\ dmem' = DL!Right(DL!With(tmp, DL!Element(val, dAct, NULL)), dAct, tmp)
                 ELSE /\ dLast' = dLast
                      /\ dmem' = DL!Right(DL!Left(DL!With(tmp, DL!Element(val, dAct, dmem[dAct].rptr)),
                                                  dmem[dAct].rptr, tmp), dAct, tmp),
               dFirst' = dFirst, dAct' = dAct, dres' = Done
        PROVE  DGood' /\ DL!List!Inserts(PlaceIn(s, dAct) + 1, val)
    <2>1. DRow(s)
      BY DRows
    <2>2. PICK p \in 1 .. Len(s) :
            /\ p = PlaceIn(s, dAct) /\ s[p] = dAct /\ dAct \in DOMAIN dmem
            /\ dmem[dAct].lptr = Before(s, p) /\ dmem[dAct].rptr = After(s, p)
            /\ p = Len(s) <=> dAct = dLast
            /\ p = 1 <=> dAct = dFirst
      BY DActive
    <2> DEFINE next == dmem[dAct].rptr
               M == DL!With(tmp, DL!Element(val, dAct, next))
               D == DOMAIN dmem \cup {tmp}
    <2>3. /\ p + 1 \in 1 .. Len(s) + 1 /\ p + 1 # 1 /\ (p + 1 = Len(s) + 1 <=> dAct = dLast)
          /\ Behind(s, p + 1) = dAct /\ Ahead(s, p + 1) = next
          /\ dAct = dLast <=> next = NULL
          /\ next \in DOMAIN dmem \cup {NULL}
      BY <2>1, <2>2 DEF DRow, Behind, Ahead, After
    <2> HIDE DEF next
    <2>4. DWithFields(M, tmp, val, dAct, next)
      <3>1. dAct \in Nodes \cup {NULL} /\ next \in Nodes \cup {NULL}
        BY <2>1, <2>2, <2>3 DEF DRow
      <3> QED
        BY <3>1, DWith
    <2> HIDE DEF M
    <2>5. /\ M \in [D -> DElement] /\ tmp \in Nodes \cup {NULL} /\ NULL \notin D
          /\ dAct \in D \cup {NULL} /\ next \in D \cup {NULL}
      BY <2>1, <2>2, <2>3, <2>4 DEF DWithFields, DRow
    <2>6. dAct # tmp /\ next # tmp
      BY <2>1, <2>2, <2>3 DEF DRow
    <2>7. DPutFields(dmem', s, p + 1, tmp, val)
      <3>1. CASE dAct = dLast
        <4>1. dmem' = DL!Right(M, dAct, tmp)
          BY <1>2, <2>3, <3>1 DEF M
        <4>2. RightLinked(dmem', D, M, dAct, tmp)
          BY <2>5, <4>1, Links
        <4> QED
          BY <2>1, <2>3, <2>4, <2>6, <3>1, <4>2 DEF DRow, DWithFields, DPutFields, RightLinked
      <3>2. CASE dAct # dLast
        <4> DEFINE L == DL!Left(M, next, tmp)
        <4>1. dmem' = DL!Right(L, dAct, tmp)
          BY <1>2, <3>2 DEF M, next
        <4>2. LeftLinked(L, D, M, next, tmp)
          BY <2>5, Links, Zenon
        <4> HIDE DEF L
        <4>3. RightLinked(dmem', D, L, dAct, tmp)
          BY <2>5, <4>1, <4>2, Links, Zenon DEF LeftLinked
        <4> QED
          BY <2>1, <2>3, <2>4, <2>6, <4>2, <4>3 DEF DRow, DWithFields, DPutFields, LeftLinked, RightLinked
      <3> QED
        BY <3>1, <3>2
    <2> QED
      BY <1>2, <2>2, <2>3, <2>7, DPuts
  <1> QED
    BY <1>1, <1>2 DEF DL!DLPostInsert, DL!Malloc

LEMMA DPreInsert ==
  ASSUME NEW s, DListed(s), NEW val \in Values, DL!DLPreInsert(val), dAct # NULL
  PROVE  DGood' /\ DL!List!Inserts(PlaceIn(s, dAct), val)
  <1>1. CASE DL!DLError
    <2>1. DGood' /\ DL!List!Answers(Error)
      BY <1>1, DStays DEF DL!DLError
    <2> QED
      BY <2>1 DEF DL!List!Inserts
  <1>2. ASSUME NEW tmp \in Nodes \ DOMAIN dmem,
               IF dAct = dFirst
                 THEN /\ dFirst' = tmp
                      /\ dmem' = DL!Left(DL!With(tmp, DL!Element(val, NULL, dAct)), dAct, tmp)
                 ELSE /\ dFirst' = dFirst
                      /\ dmem' = DL!Left(DL!Right(DL!With(tmp, DL!Element(val, dmem[dAct].lptr, dAct)),
                                                  dmem[dAct].lptr, tmp), dAct, tmp),
               dLast' = dLast, dAct' = dAct, dres' = Done
        PROVE  DGood' /\ DL!List!Inserts(PlaceIn(s, dAct), val)
    <2>1. DRow(s)
      BY DRows
    <2>2. PICK p \in 1 .. Len(s) :
            /\ p = PlaceIn(s, dAct) /\ s[p] = dAct /\ dAct \in DOMAIN dmem
            /\ dmem[dAct].lptr = Before(s, p) /\ dmem[dAct].rptr = After(s, p)
            /\ p = Len(s) <=> dAct = dLast
            /\ p = 1 <=> dAct = dFirst
      BY DActive
    <2> DEFINE prev == dmem[dAct].lptr
               M == DL!With(tmp, DL!Element(val, prev, dAct))
               D == DOMAIN dmem \cup {tmp}
    <2>3. /\ p \in 1 .. Len(s) + 1 /\ p # Len(s) + 1
          /\ Behind(s, p) = prev /\ Ahead(s, p) = dAct
          /\ dAct = dFirst <=> prev = NULL
          /\ prev \in DOMAIN dmem \cup {NULL}
      BY <2>1, <2>2 DEF DRow, Behind, Ahead, Before
    <2> HIDE DEF prev
    <2>4. DWithFields(M, tmp, val, prev, dAct)
      <3>1. dAct \in Nodes \cup {NULL} /\ prev \in Nodes \cup {NULL}
        BY <2>1, <2>2, <2>3 DEF DRow
      <3> QED
        BY <3>1, DWith
    <2> HIDE DEF M
    <2>5. /\ M \in [D -> DElement] /\ tmp \in Nodes \cup {NULL} /\ NULL \notin D
          /\ dAct \in D \cup {NULL} /\ prev \in D \cup {NULL}
      BY <2>1, <2>2, <2>3, <2>4 DEF DWithFields, DRow
    <2>6. dAct # tmp /\ prev # tmp
      BY <2>1, <2>2, <2>3 DEF DRow
    <2>7. DPutFields(dmem', s, p, tmp, val)
      <3>1. CASE dAct = dFirst
        <4>1. dmem' = DL!Left(M, dAct, tmp)
          BY <1>2, <2>3, <3>1 DEF M
        <4>2. LeftLinked(dmem', D, M, dAct, tmp)
          BY <2>5, <4>1, Links
        <4> QED
          BY <2>1, <2>3, <2>4, <2>6, <3>1, <4>2 DEF DRow, DWithFields, DPutFields, LeftLinked
      <3>2. CASE dAct # dFirst
        <4> DEFINE L == DL!Right(M, prev, tmp)
        <4>1. dmem' = DL!Left(L, dAct, tmp)
          BY <1>2, <3>2 DEF M, prev
        <4>2. RightLinked(L, D, M, prev, tmp)
          BY <2>5, Links, Zenon
        <4> HIDE DEF L
        <4>3. LeftLinked(dmem', D, L, dAct, tmp)
          BY <2>5, <4>1, <4>2, Links DEF RightLinked
        <4> QED
          BY <2>1, <2>3, <2>4, <2>6, <4>2, <4>3 DEF DRow, DWithFields, DPutFields, LeftLinked, RightLinked
      <3> QED
        BY <3>1, <3>2
    <2> QED
      BY <1>2, <2>2, <2>3, <2>7, DPuts
  <1> QED
    BY <1>1, <1>2 DEF DL!DLPreInsert, DL!Malloc

LEMMA DDeleteFirst ==
  ASSUME NEW s, DListed(s), DL!DLDeleteFirst, dFirst # NULL
  PROVE  DGood' /\ DL!List!Deletes(1)
  <1> DEFINE next == dmem[dFirst].rptr
  <1>1. DRow(s)
    BY DRows
  <1>2. /\ 1 \in 1 .. Len(s) /\ s[1] = dFirst /\ dFirst \in DOMAIN dmem
        /\ After(s, 1) = next /\ Before(s, 1) = NULL
        /\ 1 = Len(s) <=> dFirst = dLast
    <2>1. Len(s) \in Nat /\ 1 \in 1 .. Len(s) /\ Len(s) \in 1 .. Len(s) /\ s[1] = dFirst /\ s[Len(s)] = dLast
      BY <1>1 DEF DRow
    <2>2. dFirst \in DOMAIN dmem /\ After(s, 1) = next /\ Before(s, 1) = NULL
      BY <1>1, <2>1 DEF DRow, Before
    <2>3. 1 = Len(s) <=> dFirst = dLast
      BY <1>1, <2>1, Zenon DEF DRow
    <2> QED
      BY <2>1, <2>2, <2>3
  <1>6. /\ dFirst = dLast <=> next = NULL
        /\ next \in DOMAIN dmem \cup {NULL} /\ next # dFirst
    <2>1. CASE 1 = Len(s)
      BY <1>1, <1>2, <2>1 DEF DRow, After
    <2>2. CASE 1 # Len(s)
      <3>1. 2 \in 1 .. Len(s) /\ next = s[2]
        BY <1>1, <1>2, <2>2 DEF DRow, After
      <3> QED
        BY <1>1, <1>2, <2>2, <3>1 DEF DRow
    <2> QED
      BY <2>1, <2>2
  <1>3. /\ dAct' = (IF dAct = dFirst THEN NULL ELSE dAct) /\ dres' = Done
        /\ IF dFirst = dLast
             THEN dFirst' = NULL /\ dLast' = NULL /\ dmem' = DL!Free(dmem, dFirst)
             ELSE dFirst' = next /\ dLast' = dLast /\ dmem' = DL!Free(DL!Left(dmem, next, NULL), dFirst)
    BY DEF DL!DLDeleteFirst
  <1> HIDE DEF next
  <1>4. DCutFields(dmem', s, 1)
    <2>1. CASE dFirst = dLast
      <3>1. DFreedFrom(dmem', DOMAIN dmem, dmem, dFirst)
        BY <1>1, <1>3, <2>1, DFreed DEF DRow
      <3> QED
        BY <1>1, <1>2, <1>6, <2>1, <3>1 DEF DRow, DFreedFrom, DCutFields
    <2>2. CASE dFirst # dLast
      <3> DEFINE L == DL!Left(dmem, next, NULL)
      <3>1. dmem' = DL!Free(L, dFirst)
        BY <1>3, <2>2
      <3>2. LeftLinked(L, DOMAIN dmem, dmem, next, NULL)
        BY <1>1, <1>2, <1>6, Links DEF DRow
      <3> HIDE DEF L
      <3>3. DFreedFrom(dmem', DOMAIN dmem, L, dFirst)
        BY <3>1, <3>2, DFreed DEF LeftLinked
      <3> QED
        BY <1>1, <1>2, <1>6, <3>2, <3>3 DEF DRow, DFreedFrom, DCutFields, LeftLinked
    <2> QED
      BY <2>1, <2>2
  <1>5. /\ dFirst' = IF 1 = 1 THEN After(s, 1) ELSE dFirst
        /\ dLast' = IF 1 = Len(s) THEN Before(s, 1) ELSE dLast
        /\ dAct' = (IF dAct = s[1] THEN NULL ELSE dAct)
    BY <1>2, <1>3, <1>6
  <1> QED
    BY <1>2, <1>3, <1>4, <1>5, DCuts, Zenon

LEMMA DDeleteLast ==
  ASSUME NEW s, DListed(s), DL!DLDeleteLast, dFirst # NULL
  PROVE  DGood' /\ DL!List!Deletes(Len(s))
  <1> DEFINE prev == dmem[dLast].lptr
  <1>1. DRow(s)
    BY DRows
  <1>2. /\ Len(s) \in 1 .. Len(s) /\ s[Len(s)] = dLast /\ dLast \in DOMAIN dmem
        /\ Before(s, Len(s)) = prev /\ After(s, Len(s)) = NULL
        /\ Len(s) = 1 <=> dFirst = dLast
    <2>1. Len(s) \in Nat /\ 1 \in 1 .. Len(s) /\ Len(s) \in 1 .. Len(s) /\ s[1] = dFirst /\ s[Len(s)] = dLast
      BY <1>1 DEF DRow
    <2>2. dLast \in DOMAIN dmem /\ Before(s, Len(s)) = prev /\ After(s, Len(s)) = NULL
      BY <1>1, <2>1 DEF DRow, After
    <2>3. Len(s) = 1 <=> dFirst = dLast
      BY <1>1, <2>1, Zenon DEF DRow
    <2> QED
      BY <2>1, <2>2, <2>3
  <1>6. /\ dFirst = dLast <=> prev = NULL
        /\ prev \in DOMAIN dmem \cup {NULL} /\ prev # dLast
    <2>1. CASE 1 = Len(s)
      BY <1>1, <1>2, <2>1 DEF DRow, Before
    <2>2. CASE 1 # Len(s)
      <3>1. Len(s) - 1 \in 1 .. Len(s) /\ prev = s[Len(s) - 1]
        BY <1>1, <1>2, <2>2 DEF DRow, Before
      <3> QED
        BY <1>1, <1>2, <2>2, <3>1 DEF DRow
    <2> QED
      BY <2>1, <2>2
  <1>3. /\ dAct' = (IF dAct = dLast THEN NULL ELSE dAct) /\ dres' = Done
        /\ IF dFirst = dLast
             THEN dFirst' = NULL /\ dLast' = NULL /\ dmem' = DL!Free(dmem, dLast)
             ELSE dFirst' = dFirst /\ dLast' = prev /\ dmem' = DL!Free(DL!Right(dmem, prev, NULL), dLast)
    BY DEF DL!DLDeleteLast
  <1> HIDE DEF prev
  <1>4. DCutFields(dmem', s, Len(s))
    <2>1. CASE dFirst = dLast
      <3>1. DFreedFrom(dmem', DOMAIN dmem, dmem, dLast)
        BY <1>1, <1>3, <2>1, DFreed DEF DRow
      <3> QED
        BY <1>1, <1>2, <1>6, <2>1, <3>1 DEF DRow, DFreedFrom, DCutFields
    <2>2. CASE dFirst # dLast
      <3> DEFINE L == DL!Right(dmem, prev, NULL)
      <3>1. dmem' = DL!Free(L, dLast)
        BY <1>3, <2>2
      <3>2. RightLinked(L, DOMAIN dmem, dmem, prev, NULL)
        BY <1>1, <1>2, <1>6, Links DEF DRow
      <3> HIDE DEF L
      <3>3. DFreedFrom(dmem', DOMAIN dmem, L, dLast)
        BY <3>1, <3>2, DFreed DEF RightLinked
      <3> QED
        BY <1>1, <1>2, <1>6, <3>2, <3>3 DEF DRow, DFreedFrom, DCutFields, RightLinked
    <2> QED
      BY <2>1, <2>2
  <1>5. /\ dFirst' = IF Len(s) = 1 THEN After(s, Len(s)) ELSE dFirst
        /\ dLast' = IF Len(s) = Len(s) THEN Before(s, Len(s)) ELSE dLast
        /\ dAct' = (IF dAct = s[Len(s)] THEN NULL ELSE dAct)
    BY <1>2, <1>3, <1>6
  <1> QED
    BY <1>2, <1>3, <1>4, <1>5, DCuts, Zenon

LEMMA DPostDelete ==
  ASSUME NEW s, DListed(s), DL!DLPostDelete, dAct # NULL, dAct # dLast
  PROVE  /\ PlaceIn(s, dAct) < Len(s)
         /\ DGood' /\ DL!List!Deletes(PlaceIn(s, dAct) + 1)
  <1> DEFINE tmp == dmem[dAct].rptr
             next == dmem[tmp].rptr
  <1>1. DRow(s)
    BY DRows
  <1>2. PICK p \in 1 .. Len(s) :
          /\ p = PlaceIn(s, dAct) /\ s[p] = dAct /\ dAct \in DOMAIN dmem
          /\ dmem[dAct].lptr = Before(s, p) /\ dmem[dAct].rptr = After(s, p)
          /\ p = Len(s) <=> dAct = dLast
          /\ p = 1 <=> dAct = dFirst
    BY DActive
  <1>3. /\ p + 1 \in 1 .. Len(s) /\ p < Len(s) /\ p + 1 # 1 /\ s[p + 1] = tmp
        /\ tmp \in DOMAIN dmem /\ tmp # dAct
        /\ Before(s, p + 1) = dAct /\ dmem[tmp].lptr = dAct /\ After(s, p + 1) = next
        /\ p + 1 = Len(s) <=> tmp = dLast
    <2>1. p + 1 \in 1 .. Len(s) /\ p < Len(s) /\ p + 1 # 1 /\ p # Len(s) /\ p + 1 - 1 = p
      BY <1>1, <1>2 DEF DRow
    <2>2. s[p + 1] = tmp
      BY <1>2, <2>1 DEF After
    <2>3. tmp \in DOMAIN dmem /\ tmp # dAct /\ (p + 1 = Len(s) <=> tmp = dLast)
      BY <1>1, <1>2, <2>1, <2>2 DEF DRow
    <2>4. Before(s, p + 1) = dAct
      BY <1>2, <2>1 DEF Before
    <2>5. dmem[tmp].lptr = dAct /\ After(s, p + 1) = next
      BY <1>1, <2>1, <2>2, <2>4 DEF DRow
    <2> QED
      BY <2>1, <2>2, <2>3, <2>4, <2>5
  <1>4. next \in DOMAIN dmem \cup {NULL} /\ next # tmp /\ next # dAct /\ (tmp = dLast <=> next = NULL)
    <2>1. CASE p + 1 = Len(s)
      BY <1>1, <1>2, <1>3, <2>1 DEF DRow, After
    <2>2. CASE p + 1 # Len(s)
      <3>1. p + 1 + 1 \in 1 .. Len(s) /\ next = s[p + 1 + 1]
        BY <1>1, <1>3, <2>2 DEF After, DRow
      <3> QED
        BY <1>1, <1>2, <1>3, <3>1 DEF DRow
    <2> QED
      BY <2>1, <2>2
  <1>5. /\ dFirst' = dFirst /\ dAct' = dAct /\ dres' = Done
        /\ IF tmp = dLast
             THEN dLast' = dmem[tmp].lptr /\ dmem' = DL!Free(DL!Right(dmem, dmem[tmp].lptr, NULL), tmp)
             ELSE dLast' = dLast /\ dmem' = DL!Free(DL!Left(DL!Right(dmem, dAct, next), next, dAct), tmp)
    BY DEF DL!DLPostDelete
  <1> HIDE DEF tmp, next
  <1>6. dAct \in DOMAIN dmem \cup {NULL} /\ dAct \in Nodes \cup {NULL} /\ next \in Nodes \cup {NULL}
    BY <1>1, <1>2, <1>4 DEF DRow
  <1>7. DCutFields(dmem', s, p + 1)
    <2> DEFINE L == DL!Right(dmem, dAct, next)
    <2>1. RightLinked(L, DOMAIN dmem, dmem, dAct, next)
      BY <1>1, <1>6, Links DEF DRow
    <2>2. CASE tmp = dLast
      <3>1. dmem' = DL!Free(L, tmp)
        BY <1>3, <1>4, <1>5, <2>2
      <3> HIDE DEF L
      <3>2. DFreedFrom(dmem', DOMAIN dmem, L, tmp)
        BY <2>1, <3>1, DFreed DEF RightLinked
      <3> QED
        BY <1>1, <1>3, <1>4, <2>1, <2>2, <3>2 DEF DRow, DFreedFrom, DCutFields, RightLinked
    <2>3. CASE tmp # dLast
      <3> DEFINE K == DL!Left(L, next, dAct)
      <3>1. dmem' = DL!Free(K, tmp)
        BY <1>5, <2>3
      <3> HIDE DEF L
      <3>2. LeftLinked(K, DOMAIN dmem, L, next, dAct)
        BY <1>1, <1>4, <1>6, <2>1, Links DEF RightLinked, DRow
      <3> HIDE DEF K
      <3>3. DFreedFrom(dmem', DOMAIN dmem, K, tmp)
        BY <3>1, <3>2, DFreed DEF LeftLinked
      <3> QED
        BY <1>1, <1>3, <1>4, <2>1, <3>2, <3>3 DEF DRow, DFreedFrom, DCutFields, LeftLinked, RightLinked
    <2> QED
      BY <2>2, <2>3
  <1>8. /\ dFirst' = IF p + 1 = 1 THEN After(s, p + 1) ELSE dFirst
        /\ dLast' = IF p + 1 = Len(s) THEN Before(s, p + 1) ELSE dLast
        /\ dAct' = (IF dAct = s[p + 1] THEN NULL ELSE dAct)
    BY <1>3, <1>5
  <1>9. DGood' /\ DL!List!Deletes(p + 1)
    BY <1>3, <1>5, <1>7, <1>8, DCuts
  <1> QED
    BY <1>2, <1>3, <1>9

LEMMA DPreDelete ==
  ASSUME NEW s, DListed(s), DL!DLPreDelete, dAct # NULL, dAct # dFirst
  PROVE  /\ PlaceIn(s, dAct) > 1
         /\ DGood' /\ DL!List!Deletes(PlaceIn(s, dAct) - 1)
  <1> DEFINE tmp == dmem[dAct].lptr
             prev == dmem[tmp].lptr
  <1>1. DRow(s)
    BY DRows
  <1>2. PICK p \in 1 .. Len(s) :
          /\ p = PlaceIn(s, dAct) /\ s[p] = dAct /\ dAct \in DOMAIN dmem
          /\ dmem[dAct].lptr = Before(s, p) /\ dmem[dAct].rptr = After(s, p)
          /\ p = Len(s) <=> dAct = dLast
          /\ p = 1 <=> dAct = dFirst
    BY DActive
  <1>0. PICK n \in 1 .. Len(s) : n = p - 1 /\ p = n + 1
    BY <1>1, <1>2 DEF DRow
  <1>3. /\ p > 1 /\ n # Len(s) /\ s[n] = tmp
        /\ tmp \in DOMAIN dmem /\ tmp # dAct
        /\ After(s, n) = dAct /\ dmem[tmp].rptr = dAct /\ Before(s, n) = prev
        /\ n = 1 <=> tmp = dFirst
    <2>1. p > 1 /\ n # Len(s)
      BY <1>0, <1>1, <1>2 DEF DRow
    <2>2. s[n] = tmp
      BY <1>0, <1>2, <2>1, Zenon DEF Before
    <2>3. tmp \in DOMAIN dmem /\ tmp # dAct /\ (n = 1 <=> tmp = dFirst)
      <3>1. 1 \in 1 .. Len(s) /\ s[1] = dFirst /\ n # p
        BY <1>0, <1>1, <2>1 DEF DRow
      <3> QED
        BY <1>1, <1>2, <2>2, <3>1 DEF DRow
    <2>4. After(s, n) = dAct
      BY <1>0, <1>2, <2>1 DEF After
    <2>5. dmem[tmp].rptr = dAct /\ Before(s, n) = prev
      BY <1>1, <2>2, <2>4 DEF DRow
    <2> QED
      BY <2>1, <2>2, <2>3, <2>4, <2>5
  <1>4. prev \in DOMAIN dmem \cup {NULL} /\ prev # tmp /\ prev # dAct /\ (tmp = dFirst <=> prev = NULL)
    <2>1. CASE n = 1
      BY <1>1, <1>2, <1>3, <2>1 DEF DRow, Before
    <2>2. CASE n # 1
      <3>1. n - 1 \in 1 .. Len(s) /\ prev = s[n - 1]
        BY <1>1, <1>3, <2>2 DEF Before, DRow
      <3> QED
        BY <1>0, <1>1, <1>2, <1>3, <3>1 DEF DRow
    <2> QED
      BY <2>1, <2>2
  <1>5. /\ dLast' = dLast /\ dAct' = dAct /\ dres' = Done
        /\ IF tmp = dFirst
             THEN dFirst' = dmem[tmp].rptr /\ dmem' = DL!Free(DL!Left(dmem, dmem[tmp].rptr, NULL), tmp)
             ELSE dFirst' = dFirst /\ dmem' = DL!Free(DL!Right(DL!Left(dmem, dAct, prev), prev, dAct), tmp)
    BY DEF DL!DLPreDelete
  <1> HIDE DEF tmp, prev
  <1>6. dAct \in DOMAIN dmem \cup {NULL} /\ dAct \in Nodes \cup {NULL} /\ prev \in Nodes \cup {NULL}
    BY <1>1, <1>2, <1>4 DEF DRow
  <1>7. DCutFields(dmem', s, n)
    <2> DEFINE L == DL!Left(dmem, dAct, prev)
    <2>1. LeftLinked(L, DOMAIN dmem, dmem, dAct, prev)
      BY <1>1, <1>6, Links DEF DRow
    <2>2. CASE tmp = dFirst
      <3>1. dmem' = DL!Free(L, tmp)
        BY <1>3, <1>4, <1>5, <2>2
      <3> HIDE DEF L
      <3>2. DFreedFrom(dmem', DOMAIN dmem, L, tmp)
        BY <2>1, <3>1, DFreed DEF LeftLinked
      <3> QED
        BY <1>1, <1>3, <1>4, <2>1, <2>2, <3>2 DEF DRow, DFreedFrom, DCutFields, LeftLinked
    <2>3. CASE tmp # dFirst
      <3> DEFINE K == DL!Right(L, prev, dAct)
      <3>1. dmem' = DL!Free(K, tmp)
        BY <1>5, <2>3
      <3> HIDE DEF L
      <3>2. RightLinked(K, DOMAIN dmem, L, prev, dAct)
        BY <1>1, <1>4, <1>6, <2>1, Links, Zenon DEF LeftLinked, DRow
      <3> HIDE DEF K
      <3>3. DFreedFrom(dmem', DOMAIN dmem, K, tmp)
        BY <3>1, <3>2, DFreed DEF RightLinked
      <3> QED
        BY <1>1, <1>3, <1>4, <2>1, <3>2, <3>3 DEF DRow, DFreedFrom, DCutFields, LeftLinked, RightLinked
    <2> QED
      BY <2>2, <2>3
  <1>8. /\ dFirst' = IF n = 1 THEN After(s, n) ELSE dFirst
        /\ dLast' = IF n = Len(s) THEN Before(s, n) ELSE dLast
        /\ dAct' = (IF dAct = s[n] THEN NULL ELSE dAct)
    BY <1>3, <1>5
  <1>9. DGood' /\ DL!List!Deletes(n)
    BY <1>5, <1>7, <1>8, DCuts
  <1> QED
    BY <1>0, <1>2, <1>3, <1>9, Zenon

LEMMA DDispose ==
  ASSUME DL!DLDisposeList
  PROVE  DGood' /\ DL!List!Becomes(<< >>, 0)
  <1>1. /\ dmem' = [e \in {} |-> NULL] /\ dFirst' = NULL /\ dAct' = NULL /\ dLast' = NULL
        /\ dres' = Done
    BY DEF DL!DLDisposeList
  <1>2. Row(<< >>) /\ Len(<< >>) = 0 /\ DOMAIN dmem' = {} /\ dmem' \in [{} -> DElement]
    BY <1>1 DEF Row
  <1>3. DListed(<< >>)'
    BY <1>1, <1>2 DEF DListed, DLinked, In, FirstOf, LastOf
  <1>4. DShows(<< >>)'
    BY <1>3, DSeenNext
  <1>5. PlaceIn(<< >>, dAct') = 0
    BY <1>1 DEF PlaceIn
  <1>6. Data(dmem', << >>) = << >>
    BY <1>2, EmptySeq DEF Data
  <1>7. /\ [k \in DOMAIN DL!Chain |-> dmem[DL!Chain[k]].data]' = << >>
        /\ DL!ActPlace' = 0
    BY <1>4, <1>5, <1>6 DEF DShows
  <1> QED
    BY <1>1, <1>3, <1>7 DEF DGood, DL!List!Becomes

(* A call that only makes another element the active one, or none.        *)
LEMMA DMovesTo ==
  ASSUME NEW s, DListed(s), NEW a, dAct' = a, a = NULL \/ In(s, a),
         dres' = Done, UNCHANGED << dmem, dFirst, dLast >>,
         NEW k, PlaceIn(s, a) = k
  PROVE  DGood' /\ DL!List!Moves(k)
  <1>1. dAct' = NULL \/ In(s, dAct')
    OBVIOUS
  <1>2. DListed(s)' /\ DL!List!Moves(PlaceIn(s, dAct'))
    BY <1>1, DMoves
  <1>3. PlaceIn(s, dAct') = k
    OBVIOUS
  <1> QED
    BY <1>2, <1>3 DEF DGood, DL!List!Moves, DL!List!Becomes

LEMMA DFirst ==
  ASSUME NEW s, DListed(s), DL!DLFirst
  PROVE  DGood' /\ DL!List!Moves(IF Len(s) = 0 THEN 0 ELSE 1)
  <1>1. DRow(s)
    BY DRows
  <1>2. dAct' = dFirst /\ dres' = Done /\ UNCHANGED << dmem, dFirst, dLast >>
    BY DEF DL!DLFirst, DL!Activates
  <1>3. /\ dFirst = NULL \/ In(s, dFirst)
        /\ PlaceIn(s, dFirst) = IF Len(s) = 0 THEN 0 ELSE 1
    BY <1>1, Placed DEF DRow, In
  <1> QED
    BY <1>2, <1>3, DMovesTo

LEMMA DLast ==
  ASSUME NEW s, DListed(s), DL!DLLast
  PROVE  DGood' /\ DL!List!Moves(Len(s))
  <1>1. DRow(s)
    BY DRows
  <1>2. dAct' = dLast /\ dres' = Done /\ UNCHANGED << dmem, dFirst, dLast >>
    BY DEF DL!DLLast, DL!Activates
  <1>3. (dLast = NULL \/ In(s, dLast)) /\ PlaceIn(s, dLast) = Len(s)
    BY <1>1, Placed DEF DRow, In
  <1> QED
    BY <1>2, <1>3, DMovesTo

LEMMA DSucc ==
  ASSUME NEW s, DListed(s), DL!DLSucc
  PROVE  DGood' /\ DL!List!Moves(IF dAct # NULL /\ PlaceIn(s, dAct) < Len(s) THEN PlaceIn(s, dAct) + 1 ELSE 0)
  <1>1. DRow(s) /\ PlaceIn(s, NULL) = 0
    BY DRows, Placed DEF DRow
  <1>2. CASE dAct = NULL
    <2>1. dAct' = NULL /\ dres' = Done /\ UNCHANGED << dmem, dFirst, dLast >>
      BY <1>2 DEF DL!DLSucc, DL!Return, DL!Answers, DL!list
    <2>2. PlaceIn(s, NULL) = IF dAct # NULL /\ PlaceIn(s, dAct) < Len(s) THEN PlaceIn(s, dAct) + 1 ELSE 0
      BY <1>1, <1>2
    <2>6. DGood' /\ DL!List!Moves(PlaceIn(s, NULL))
      BY <2>1, <2>2, DMovesTo
    <2> QED
      BY <2>2, <2>6 DEF DL!List!Moves, DL!List!Becomes
  <1>3. CASE dAct # NULL
    <2>1. dAct' = dmem[dAct].rptr /\ dres' = Done /\ UNCHANGED << dmem, dFirst, dLast >>
      BY <1>3 DEF DL!DLSucc, DL!Activates
    <2>2. PICK p \in 1 .. Len(s) : p = PlaceIn(s, dAct) /\ dmem[dAct].rptr = After(s, p)
      BY <1>3, DActive
    <2>3. /\ After(s, p) = NULL \/ In(s, After(s, p))
          /\ PlaceIn(s, After(s, p)) = IF p < Len(s) THEN p + 1 ELSE 0
      <3>1. CASE p = Len(s)
        BY <1>1, <3>1 DEF After
      <3>2. CASE p # Len(s)
        <4>1. p + 1 \in 1 .. Len(s) /\ p < Len(s) /\ After(s, p) = s[p + 1]
          BY <1>1, <3>2 DEF After, DRow
        <4> QED
          BY <1>1, <4>1, Placed DEF DRow, In
      <3> QED
        BY <3>1, <3>2
    <2>4. PlaceIn(s, After(s, p)) = IF dAct # NULL /\ PlaceIn(s, dAct) < Len(s) THEN PlaceIn(s, dAct) + 1 ELSE 0
      BY <1>3, <2>2, <2>3
    <2>5. dAct' = After(s, p)
      BY <2>1, <2>2
    <2>6. DGood' /\ DL!List!Moves(PlaceIn(s, After(s, p)))
      BY <2>1, <2>3, <2>4, <2>5, DMovesTo
    <2> QED
      BY <2>4, <2>6 DEF DL!List!Moves, DL!List!Becomes
  <1> QED
    BY <1>2, <1>3

LEMMA DPred ==
  ASSUME NEW s, DListed(s), DL!DLPred
  PROVE  DGood' /\ DL!List!Moves(IF dAct # NULL THEN PlaceIn(s, dAct) - 1 ELSE 0)
  <1>1. DRow(s) /\ PlaceIn(s, NULL) = 0
    BY DRows, Placed DEF DRow
  <1>2. CASE dAct = NULL
    <2>1. dAct' = NULL /\ dres' = Done /\ UNCHANGED << dmem, dFirst, dLast >>
      BY <1>2 DEF DL!DLPred, DL!Return, DL!Answers, DL!list
    <2>2. PlaceIn(s, NULL) = IF dAct # NULL THEN PlaceIn(s, dAct) - 1 ELSE 0
      BY <1>1, <1>2
    <2>6. DGood' /\ DL!List!Moves(PlaceIn(s, NULL))
      BY <2>1, <2>2, DMovesTo
    <2> QED
      BY <2>2, <2>6 DEF DL!List!Moves, DL!List!Becomes
  <1>3. CASE dAct # NULL
    <2>1. dAct' = dmem[dAct].lptr /\ dres' = Done /\ UNCHANGED << dmem, dFirst, dLast >>
      BY <1>3 DEF DL!DLPred, DL!Activates
    <2>2. PICK p \in 1 .. Len(s) : p = PlaceIn(s, dAct) /\ dmem[dAct].lptr = Before(s, p)
      BY <1>3, DActive
    <2>3. /\ Before(s, p) = NULL \/ In(s, Before(s, p))
          /\ PlaceIn(s, Before(s, p)) = p - 1
      <3>1. CASE p = 1
        BY <1>1, <3>1 DEF Before
      <3>2. CASE p # 1
        <4>1. p - 1 \in 1 .. Len(s) /\ Before(s, p) = s[p - 1]
          BY <1>1, <3>2 DEF Before, DRow
        <4> QED
          BY <1>1, <4>1, Placed DEF DRow, In
      <3> QED
        BY <3>1, <3>2
    <2>4. PlaceIn(s, Before(s, p)) = IF dAct # NULL THEN PlaceIn(s, dAct) - 1 ELSE 0
      BY <1>3, <2>2, <2>3
    <2>5. dAct' = Before(s, p)
      BY <2>1, <2>2
    <2>6. DGood' /\ DL!List!Moves(PlaceIn(s, Before(s, p)))
      BY <2>1, <2>3, <2>4, <2>5, DMovesTo
    <2> QED
      BY <2>4, <2>6 DEF DL!List!Moves, DL!List!Becomes
  <1> QED
    BY <1>2, <1>3

LEMMA DActualize ==
  ASSUME NEW s, DListed(s), NEW val \in Values, DL!DLActualize(val), dAct # NULL
  PROVE  DGood' /\ DL!List!Becomes([Data(dmem, s) EXCEPT ![PlaceIn(s, dAct)] = val], PlaceIn(s, dAct))
  <1>1. DRow(s)
    BY DRows
  <1>2. PICK p \in 1 .. Len(s) : p = PlaceIn(s, dAct) /\ s[p] = dAct /\ dAct \in DOMAIN dmem
    BY DActive
  <1>3. /\ dmem' = [dmem EXCEPT ![dAct] = [dmem[dAct] EXCEPT !.data = val]]
        /\ dres' = Done /\ dFirst' = dFirst /\ dAct' = dAct /\ dLast' = dLast
    BY <1>1, <1>2 DEF DL!DLActualize
  <1>4. /\ [dmem[dAct] EXCEPT !.data = val] \in DElement
        /\ [dmem[dAct] EXCEPT !.data = val].data = val
        /\ [dmem[dAct] EXCEPT !.data = val].lptr = dmem[dAct].lptr
        /\ [dmem[dAct] EXCEPT !.data = val].rptr = dmem[dAct].rptr
    <2>1. dmem[dAct] \in DElement
      BY <1>1, <1>2 DEF DRow
    <2> QED
      BY <2>1 DEF DElement
  <1>5. /\ DOMAIN dmem' = DOMAIN dmem /\ dmem' \in [DOMAIN dmem' -> DElement]
        /\ \A x \in DOMAIN dmem :
             /\ dmem'[x].data = IF x = dAct THEN val ELSE dmem[x].data
             /\ dmem'[x].lptr = dmem[x].lptr
             /\ dmem'[x].rptr = dmem[x].rptr
    BY <1>1, <1>2, <1>3, <1>4 DEF DRow
  <1>6. DListed(s)'
    BY <1>1, <1>3, <1>5 DEF DListed, DLinked, DRow
  <1>7. DShows(s)'
    BY <1>6, DSeenNext
  <1>8. Data(dmem', s) = [Data(dmem, s) EXCEPT ![p] = val]
    BY <1>1, <1>2, <1>5, Zenon DEF Data, DRow
  <1>9. /\ [k \in DOMAIN DL!Chain |-> dmem[DL!Chain[k]].data]' = [Data(dmem, s) EXCEPT ![p] = val]
        /\ DL!ActPlace' = p
    BY <1>2, <1>3, <1>7, <1>8 DEF DShows
  <1> QED
    BY <1>2, <1>3, <1>6, <1>9 DEF DGood, DL!List!Becomes

DItemsOf == [k \in DOMAIN DL!Chain |-> dmem[DL!Chain[k]].data]

(* What the abstract list is when the elements are those of s.             *)
LEMMA DAbstract ==
  ASSUME NEW s, DListed(s)
  PROVE  /\ DItemsOf = Data(dmem, s) /\ DL!ActPlace = PlaceIn(s, dAct)
         /\ Len(DItemsOf) = Len(s) /\ Len(s) \in Nat
         /\ DL!List!Empty <=> Len(s) = 0
         /\ DL!List!Active <=> dAct # NULL
  <1>1. DShows(s)
    BY DSeen
  <1>2. /\ DItemsOf = Data(dmem, s) /\ DL!ActPlace = PlaceIn(s, dAct)
    BY <1>1 DEF DShows, DItemsOf
  <1>3. /\ Data(dmem, s) \in Seq(Values) /\ Len(Data(dmem, s)) = Len(s) /\ Len(s) \in Nat
        /\ Data(dmem, s) = << >> <=> Len(s) = 0
        /\ dAct = NULL => PlaceIn(s, dAct) = 0
        /\ dAct # NULL => PlaceIn(s, dAct) \in 1 .. Len(s)
    BY DItems
  <1>4. DL!List!Empty <=> Len(s) = 0
    BY <1>2, <1>3 DEF DL!List!Empty, DItemsOf
  <1>5. DL!List!Active <=> dAct # NULL
    BY <1>2, <1>3 DEF DL!List!Active
  <1> QED
    BY <1>2, <1>3, <1>4, <1>5

DStepped == DGood' /\ DL!List!Next

LEMMA DDisposeStep ==
  ASSUME dcall' = << "dispose" >>, DL!DLDisposeList
  PROVE  DStepped
  <1>1. DGood' /\ DL!List!Becomes(<< >>, 0)
    BY DDispose
  <1> QED
    BY <1>1 DEF DStepped, DL!List!Next

LEMMA DInsertFirstStep ==
  ASSUME NEW s, DListed(s), NEW val \in Values, dcall' = << "insertFirst", val >>, DL!DLInsertFirst(val)
  PROVE  DStepped
  <1>1. DGood' /\ DL!List!Inserts(1, val)
    BY DInsertFirst
  <1> QED
    BY <1>1 DEF DStepped, DL!List!Next

LEMMA DInsertLastStep ==
  ASSUME NEW s, DListed(s), NEW val \in Values, dcall' = << "insertLast", val >>, DL!DLInsertLast(val)
  PROVE  DStepped
  <1>1. DGood' /\ DL!List!Inserts(Len(s) + 1, val)
    BY DInsertLast
  <1>2. Len(DItemsOf) = Len(s)
    BY DAbstract
  <1>3. DL!List!Inserts(Len(DItemsOf) + 1, val)
    BY <1>1, <1>2, Zenon DEF DL!List!Inserts, DL!List!Becomes, DL!List!With
  <1> QED
    BY <1>1, <1>3 DEF DStepped, DL!List!Next, DItemsOf

LEMMA DPostInsertStep ==
  ASSUME NEW s, DListed(s), NEW val \in Values, dcall' = << "postInsert", val >>, DL!DLPostInsert(val)
  PROVE  DStepped
  <1>1. (DL!List!Active <=> dAct # NULL) /\ DL!ActPlace = PlaceIn(s, dAct)
    BY DAbstract
  <1>2. CASE dAct = NULL
    <2>1. DL!Answers(Done)
      BY <1>2 DEF DL!DLPostInsert, DL!Return
    <2>2. DGood' /\ DL!List!Nothing
      BY <2>1, DStays DEF DL!List!Nothing
    <2> QED
      BY <1>1, <1>2, <2>2 DEF DStepped, DL!List!Next
  <1>3. CASE dAct # NULL
    <2>1. DGood' /\ DL!List!Inserts(PlaceIn(s, dAct) + 1, val)
      BY <1>3, DPostInsert
    <2>2. DL!List!Inserts(DL!ActPlace + 1, val)
      BY <1>1, <2>1, Zenon DEF DL!List!Inserts, DL!List!Becomes, DL!List!With
    <2> QED
      BY <1>1, <1>3, <2>1, <2>2 DEF DStepped, DL!List!Next
  <1> QED
    BY <1>2, <1>3

LEMMA DPreInsertStep ==
  ASSUME NEW s, DListed(s), NEW val \in Values, dcall' = << "preInsert", val >>, DL!DLPreInsert(val)
  PROVE  DStepped
  <1>1. (DL!List!Active <=> dAct # NULL) /\ DL!ActPlace = PlaceIn(s, dAct)
    BY DAbstract
  <1>2. CASE dAct = NULL
    <2>1. DL!Answers(Done)
      BY <1>2 DEF DL!DLPreInsert, DL!Return
    <2>2. DGood' /\ DL!List!Nothing
      BY <2>1, DStays DEF DL!List!Nothing
    <2> QED
      BY <1>1, <1>2, <2>2 DEF DStepped, DL!List!Next
  <1>3. CASE dAct # NULL
    <2>1. DGood' /\ DL!List!Inserts(PlaceIn(s, dAct), val)
      BY <1>3, DPreInsert
    <2>2. DL!List!Inserts(DL!ActPlace, val)
      BY <1>1, <2>1, Zenon DEF DL!List!Inserts, DL!List!Becomes, DL!List!With
    <2> QED
      BY <1>1, <1>3, <2>1, <2>2 DEF DStepped, DL!List!Next
  <1> QED
    BY <1>2, <1>3

LEMMA DActualizeStep ==
  ASSUME NEW s, DListed(s), NEW val \in Values, dcall' = << "actualize", val >>, DL!DLActualize(val)
  PROVE  DStepped
  <1>1. /\ DL!List!Active <=> dAct # NULL
        /\ DItemsOf = Data(dmem, s) /\ DL!ActPlace = PlaceIn(s, dAct)
    BY DAbstract
  <1>2. CASE dAct = NULL
    <2>1. DL!Answers(Done)
      BY <1>2 DEF DL!DLActualize, DL!Return
    <2>2. DGood' /\ DL!List!Nothing
      BY <2>1, DStays DEF DL!List!Nothing
    <2> QED
      BY <1>1, <1>2, <2>2 DEF DStepped, DL!List!Next
  <1>3. CASE dAct # NULL
    <2>1. DGood' /\ DL!List!Becomes([Data(dmem, s) EXCEPT ![PlaceIn(s, dAct)] = val], PlaceIn(s, dAct))
      BY <1>3, DActualize
    <2>2. DL!List!Becomes([DItemsOf EXCEPT ![DL!ActPlace] = val], DL!ActPlace)
      BY <1>1, <2>1 DEF DL!List!Becomes
    <2> QED
      BY <1>1, <1>3, <2>1, <2>2 DEF DStepped, DL!List!Next, DItemsOf
  <1> QED
    BY <1>2, <1>3

LEMMA DMovesStep ==
  ASSUME NEW s, DListed(s),
         \/ dcall' = << "first" >> /\ DL!DLFirst
         \/ dcall' = << "last" >> /\ DL!DLLast
         \/ dcall' = << "succ" >> /\ DL!DLSucc
         \/ dcall' = << "pred" >> /\ DL!DLPred
  PROVE  DStepped
  <1>1. /\ DL!ActPlace = PlaceIn(s, dAct) /\ Len(DItemsOf) = Len(s)
        /\ DL!List!Empty <=> Len(s) = 0
        /\ DL!List!Active <=> dAct # NULL
    BY DAbstract
  <1>2. CASE dcall' = << "first" >> /\ DL!DLFirst
    <2>1. DGood' /\ DL!List!Moves(IF Len(s) = 0 THEN 0 ELSE 1)
      BY <1>2, DFirst
    <2>2. DL!List!Moves(IF DL!List!Empty THEN 0 ELSE 1)
      BY <1>1, <2>1 DEF DL!List!Moves, DL!List!Becomes
    <2> QED
      BY <1>2, <2>1, <2>2 DEF DStepped, DL!List!Next
  <1>3. CASE dcall' = << "last" >> /\ DL!DLLast
    <2>1. DGood' /\ DL!List!Moves(Len(s))
      BY <1>3, DLast
    <2>2. DL!List!Moves(Len(DItemsOf))
      BY <1>1, <2>1 DEF DL!List!Moves, DL!List!Becomes
    <2> QED
      BY <1>3, <2>1, <2>2 DEF DStepped, DL!List!Next, DItemsOf
  <1>4. CASE dcall' = << "succ" >> /\ DL!DLSucc
    <2>1. DGood' /\ DL!List!Moves(IF dAct # NULL /\ PlaceIn(s, dAct) < Len(s) THEN PlaceIn(s, dAct) + 1 ELSE 0)
      BY <1>4, DSucc
    <2>2. DL!List!Moves(IF DL!List!Active /\ DL!ActPlace < Len(DItemsOf) THEN DL!ActPlace + 1 ELSE 0)
      BY <1>1, <2>1 DEF DL!List!Moves, DL!List!Becomes
    <2> QED
      BY <1>4, <2>1, <2>2 DEF DStepped, DL!List!Next, DItemsOf
  <1>5. CASE dcall' = << "pred" >> /\ DL!DLPred
    <2>1. DGood' /\ DL!List!Moves(IF dAct # NULL THEN PlaceIn(s, dAct) - 1 ELSE 0)
      BY <1>5, DPred
    <2>2. DL!List!Moves(IF DL!List!Active THEN DL!ActPlace - 1 ELSE 0)
      BY <1>1, <2>1 DEF DL!List!Moves, DL!List!Becomes
    <2> QED
      BY <1>5, <2>1, <2>2 DEF DStepped, DL!List!Next
  <1> QED
    BY <1>2, <1>3, <1>4, <1>5

LEMMA DCopiesStep ==
  ASSUME NEW s, DListed(s),
         \/ dcall' = << "copyFirst" >> /\ DL!DLCopyFirst
         \/ dcall' = << "copyLast" >> /\ DL!DLCopyLast
         \/ dcall' = << "copy" >> /\ DL!DLCopy
         \/ dcall' = << "active" >> /\ DL!DLActive
  PROVE  DStepped
  <1>1. /\ DL!ActPlace = PlaceIn(s, dAct) /\ Len(DItemsOf) = Len(s)
        /\ DL!List!Empty <=> Len(s) = 0
        /\ DL!List!Active <=> dAct # NULL
        /\ DItemsOf = Data(dmem, s)
    BY DAbstract
  <1>2. DRow(s)
    BY DRows
  <1>3. /\ \A k \in 1 .. Len(s) : DItemsOf[k] = dmem[s[k]].data
        /\ dAct # NULL => PlaceIn(s, dAct) \in 1 .. Len(s) /\ s[PlaceIn(s, dAct)] = dAct
    BY <1>1, DItems
  <1>4. CASE dcall' = << "copyFirst" >> /\ DL!DLCopyFirst
    <2>1. PICK r : r = IF DL!List!Empty THEN Error ELSE DItemsOf[1]
      OBVIOUS
    <2>2. DL!Answers(r)
      BY <1>1, <1>2, <1>3, <1>4, <2>1 DEF DRow, DL!DLCopyFirst, DL!DLError
    <2>3. DGood' /\ DL!List!Answers(r)
      BY <2>2, DStays
    <2>4. DL!List!Answers(IF DL!List!Empty THEN Error ELSE DItemsOf[1])
      BY <2>1, <2>3 DEF DL!List!Answers
    <2> QED
      BY <1>4, <2>3, <2>4 DEF DStepped, DL!List!Next, DItemsOf
  <1>5. CASE dcall' = << "copyLast" >> /\ DL!DLCopyLast
    <2>1. PICK r : r = IF DL!List!Empty THEN Error ELSE DItemsOf[Len(DItemsOf)]
      OBVIOUS
    <2>2. DL!Answers(r)
      BY <1>1, <1>2, <1>3, <1>5, <2>1 DEF DRow, DL!DLCopyLast, DL!DLError
    <2>3. DGood' /\ DL!List!Answers(r)
      BY <2>2, DStays
    <2>4. DL!List!Answers(IF DL!List!Empty THEN Error ELSE DItemsOf[Len(DItemsOf)])
      BY <2>1, <2>3 DEF DL!List!Answers
    <2> QED
      BY <1>5, <2>3, <2>4 DEF DStepped, DL!List!Next, DItemsOf
  <1>6. CASE dcall' = << "copy" >> /\ DL!DLCopy
    <2>1. PICK r : r = IF DL!List!Active THEN DItemsOf[DL!ActPlace] ELSE Error
      OBVIOUS
    <2>2. DL!Answers(r)
      BY <1>1, <1>2, <1>3, <1>6, <2>1 DEF DRow, DL!DLCopy, DL!DLError
    <2>3. DGood' /\ DL!List!Answers(r)
      BY <2>2, DStays
    <2>4. DL!List!Answers(IF DL!List!Active THEN DItemsOf[DL!ActPlace] ELSE Error)
      BY <2>1, <2>3 DEF DL!List!Answers
    <2> QED
      BY <1>6, <2>3, <2>4 DEF DStepped, DL!List!Next, DItemsOf
  <1>7. CASE dcall' = << "active" >> /\ DL!DLActive
    <2>1. PICK r : r = IF DL!List!Active THEN "active" ELSE "inactive"
      OBVIOUS
    <2>2. DL!Answers(r)
      BY <1>1, <1>7, <2>1 DEF DL!DLActive
    <2>3. DGood' /\ DL!List!Answers(r)
      BY <2>2, DStays
    <2>4. DL!List!Answers(IF DL!List!Active THEN "active" ELSE "inactive")
      BY <2>1, <2>3 DEF DL!List!Answers
    <2> QED
      BY <1>7, <2>3, <2>4 DEF DStepped, DL!List!Next
  <1> QED
    BY <1>4, <1>5, <1>6, <1>7

(* The deletions; those at the ends do nothing on an empty list, the       *)
(* others when there is no such neighbour of an active item.               *)
LEMMA DDeletesStep ==
  ASSUME NEW s, DListed(s),
         \/ dcall' = << "deleteFirst" >> /\ DL!DLDeleteFirst
         \/ dcall' = << "deleteLast" >> /\ DL!DLDeleteLast
         \/ dcall' = << "postDelete" >> /\ DL!DLPostDelete
         \/ dcall' = << "preDelete" >> /\ DL!DLPreDelete
  PROVE  DStepped
  <1>1. /\ DL!ActPlace = PlaceIn(s, dAct) /\ Len(DItemsOf) = Len(s) /\ Len(s) \in Nat
        /\ DL!List!Empty <=> Len(s) = 0
        /\ DL!List!Active <=> dAct # NULL
    BY DAbstract
  <1>2. (dFirst = NULL <=> Len(s) = 0)
    BY DRows DEF DRow
  <1>3. ASSUME DL!Answers(Done) PROVE DGood' /\ DL!List!Nothing
    BY <1>3, DStays DEF DL!List!Nothing
  <1>4. CASE dcall' = << "deleteFirst" >> /\ DL!DLDeleteFirst
    <2>1. CASE dFirst = NULL
      <3>1. DGood' /\ DL!List!Nothing
        BY <1>3, <1>4, <2>1 DEF DL!DLDeleteFirst, DL!Return
      <3> QED
        BY <1>1, <1>2, <1>4, <2>1, <3>1 DEF DStepped, DL!List!Next
    <2>2. CASE dFirst # NULL
      <3>1. DGood' /\ DL!List!Deletes(1)
        BY <1>4, <2>2, DDeleteFirst
      <3> QED
        BY <1>1, <1>2, <1>4, <2>2, <3>1 DEF DStepped, DL!List!Next
    <2> QED
      BY <2>1, <2>2
  <1>5. CASE dcall' = << "deleteLast" >> /\ DL!DLDeleteLast
    <2>1. CASE dFirst = NULL
      <3>1. DGood' /\ DL!List!Nothing
        BY <1>3, <1>5, <2>1 DEF DL!DLDeleteLast, DL!Return
      <3> QED
        BY <1>1, <1>2, <1>5, <2>1, <3>1 DEF DStepped, DL!List!Next
    <2>2. CASE dFirst # NULL
      <3>1. DGood' /\ DL!List!Deletes(Len(s))
        BY <1>5, <2>2, DDeleteLast
      <3>2. DL!List!Deletes(Len(DItemsOf))
        BY <1>1, <3>1, Zenon DEF DL!List!Deletes, DL!List!Becomes, DL!List!Without
      <3> QED
        BY <1>1, <1>2, <1>5, <2>2, <3>1, <3>2 DEF DStepped, DL!List!Next, DItemsOf
    <2> QED
      BY <2>1, <2>2
  <1>6. dAct # NULL => /\ PlaceIn(s, dAct) \in 1 .. Len(s)
                       /\ PlaceIn(s, dAct) = Len(s) <=> dAct = dLast
                       /\ PlaceIn(s, dAct) = 1 <=> dAct = dFirst
    BY DActive
  <1>7. CASE dcall' = << "postDelete" >> /\ DL!DLPostDelete
    <2>1. CASE dAct = NULL \/ dAct = dLast
      <3>1. DGood' /\ DL!List!Nothing
        BY <1>3, <1>7, <2>1 DEF DL!DLPostDelete, DL!Return
      <3>2. ~ (DL!List!Active /\ DL!ActPlace < Len(DItemsOf))
        BY <1>1, <1>6, <2>1
      <3> QED
        BY <1>7, <3>1, <3>2 DEF DStepped, DL!List!Next, DItemsOf
    <2>2. CASE dAct # NULL /\ dAct # dLast
      <3>1. PlaceIn(s, dAct) < Len(s) /\ DGood' /\ DL!List!Deletes(PlaceIn(s, dAct) + 1)
        BY <1>7, <2>2, DPostDelete
      <3>2. DL!List!Deletes(DL!ActPlace + 1)
        BY <1>1, <3>1, Zenon DEF DL!List!Deletes, DL!List!Becomes, DL!List!Without
      <3>3. DL!List!Active /\ DL!ActPlace < Len(DItemsOf)
        BY <1>1, <2>2, <3>1
      <3> QED
        BY <1>7, <3>1, <3>2, <3>3 DEF DStepped, DL!List!Next, DItemsOf
    <2> QED
      BY <2>1, <2>2
  <1>8. CASE dcall' = << "preDelete" >> /\ DL!DLPreDelete
    <2>1. CASE dAct = NULL \/ dAct = dFirst
      <3>1. DGood' /\ DL!List!Nothing
        BY <1>3, <1>8, <2>1 DEF DL!DLPreDelete, DL!Return
      <3>2. dAct = NULL => PlaceIn(s, dAct) = 0
        BY DItems
      <3>3. ~ (DL!ActPlace > 1)
        BY <1>1, <1>6, <2>1, <3>2
      <3> QED
        BY <1>8, <3>1, <3>3 DEF DStepped, DL!List!Next
    <2>2. CASE dAct # NULL /\ dAct # dFirst
      <3>1. PlaceIn(s, dAct) > 1 /\ DGood' /\ DL!List!Deletes(PlaceIn(s, dAct) - 1)
        BY <1>8, <2>2, DPreDelete
      <3>2. DL!List!Deletes(DL!ActPlace - 1)
        BY <1>1, <3>1, Zenon DEF DL!List!Deletes, DL!List!Becomes, DL!List!Without
      <3> QED
        BY <1>1, <1>8, <3>1, <3>2 DEF DStepped, DL!List!Next
    <2> QED
      BY <2>1, <2>2
  <1> QED
    BY <1>4, <1>5, <1>7, <1>8

LEMMA DStep ==
  ASSUME DGood, DL!Next
  PROVE  DStepped
  <1>1. PICK s : DListed(s)
    BY DEF DGood
  <1> QED
    BY <1>1, DDisposeStep, DInsertFirstStep, DInsertLastStep, DPostInsertStep, DPreInsertStep,
       DActualizeStep, DMovesStep, DCopiesStep, DDeletesStep DEF DL!Next

LEMMA DInit ==
  ASSUME DL!Init
  PROVE  DGood /\ DL!List!Init
  <1>1. dmem = << >> /\ dFirst = NULL /\ dAct = NULL /\ dLast = NULL /\ dcall = << "dispose" >> /\ dres = Done
    BY DEF DL!Init
  <1>2. Row(<< >>) /\ Len(<< >>) = 0 /\ DOMAIN dmem = {} /\ dmem \in [{} -> DElement]
    BY <1>1 DEF Row
  <1>3. DListed(<< >>)
    BY <1>1, <1>2 DEF DListed, DLinked, In, FirstOf, LastOf
  <1>4. DShows(<< >>)
    BY <1>3, DSeen
  <1>5. PlaceIn(<< >>, dAct) = 0 /\ Data(dmem, << >>) = << >>
    BY <1>1, <1>2, EmptySeq DEF PlaceIn, Data
  <1> QED
    BY <1>1, <1>3, <1>4, <1>5 DEF DGood, DShows, DL!List!Init

LEMMA DIdle ==
  ASSUME DGood, UNCHANGED dlist
  PROVE  DGood' /\ UNCHANGED << DItemsOf, DL!ActPlace, dcall, dres >>
  <1>1. PICK s : DListed(s)
    BY DEF DGood
  <1>2. UNCHANGED << dmem, dFirst, dLast, dAct, dcall, dres >>
    BY DEF dlist
  <1>3. DListed(s)'
    BY <1>1, <1>2 DEF DListed
  <1>4. DShows(s) /\ DShows(s)'
    BY <1>1, <1>3, DSeen, DSeenNext
  <1> QED
    BY <1>2, <1>3, <1>4 DEF DGood, DShows, DItemsOf

(* c206 implements the list with an active item, and its pointers are      *)
(* those of one row both ways.                                             *)
THEOREM DoublyLinked == Structures => DL!ListSpec
  <1>1. StructuresInit => DGood /\ DL!List!Init
    BY DInit DEF StructuresInit
  <1>2. DGood /\ [StructuresNext]_all =>
          DGood' /\ [DL!List!Next]_<< DItemsOf, DL!ActPlace, dcall, dres >>
    <2>1. ASSUME DGood, UNCHANGED dlist
          PROVE  DGood' /\ [DL!List!Next]_<< DItemsOf, DL!ActPlace, dcall, dres >>
      BY <2>1, DIdle
    <2>2. ASSUME DGood, DL!Next
          PROVE  DGood' /\ [DL!List!Next]_<< DItemsOf, DL!ActPlace, dcall, dres >>
      BY <2>2, DStep DEF DStepped
    <2>3. [StructuresNext]_all => DL!Next \/ UNCHANGED dlist
      BY DEF StructuresNext, all
    <2> QED
      BY <2>1, <2>2, <2>3
  <1>3. DGood => DL!TwoWay
    BY DSeen DEF DGood, DShows
  <1> QED
    BY <1>1, <1>2, <1>3, PTL DEF Structures, DL!ListSpec, DL!List!Spec, DItemsOf

-----------------------------------------------------------------------------
(* The singly linked list.                                                 *)

SElement == [data : Values, ptr : Nodes \cup {NULL}]

(* The elements of a row; elements that are lost are in none.              *)
SLinked(M, f, s) ==
  /\ Row(s)
  /\ M \in [DOMAIN M -> SElement]
  /\ DOMAIN M \subseteq Nodes
  /\ \A k \in 1 .. Len(s) : s[k] \in DOMAIN M /\ M[s[k]].ptr = After(s, k)
  /\ f = FirstOf(s)

(* After the crash the pointer to the active element dangles.              *)
SActive == IF sres = "crash" THEN NULL ELSE sAct
SAnswer == IF sres = "crash" THEN Done ELSE sres

SListed(s) ==
  /\ SLinked(smem, sFirst, s)
  /\ SActive = NULL \/ In(s, SActive)

SItemsOf == [k \in DOMAIN SL!Chain |-> smem[SL!Chain[k]].data]
SInRow(s) == {e \in Nodes : In(s, e)}

SShows(s) ==
  /\ SL!Chain = s
  /\ SItemsOf = Data(smem, s)
  /\ SL!ActPlace = PlaceIn(s, SActive)
  /\ SL!Lost = DOMAIN smem \ SInRow(s)

LEMMA SRead ==
  ASSUME NEW s, SListed(s)
  PROVE  SL!Chain = s
  <1> DEFINE N == Cardinality(Nodes)
             Grown(c) ==
               LET e == IF c = << >> THEN sFirst ELSE smem[c[Len(c)]].ptr
               IN  IF e = NULL THEN c ELSE Append(c, e)
             Read(f) == [k \in 0 .. N |-> IF k = 0 THEN << >> ELSE Grown(f[k - 1])]
             parts == [k \in 0 .. N |-> Part(s, k)]
  <1>1. Row(s) /\ N \in Nat /\ Len(s) \in Nat /\ Len(s) <= N
    BY RowBounded DEF SListed, SLinked
  <1>2. ASSUME NEW k \in Nat
        PROVE  Grown(Part(s, k)) = IF k < Len(s) THEN Append(Part(s, k), s[k + 1]) ELSE Part(s, k)
    <2> DEFINE c == Part(s, k)
               e == IF c = << >> THEN sFirst ELSE smem[c[Len(c)]].ptr
    <2>1. c = << >> => e = FirstOf(s)
      BY DEF SListed, SLinked
    <2>2. c # << >> => \A j \in 1 .. Len(s) : c[Len(c)] = s[j] => e = After(s, j)
      BY DEF SListed, SLinked
    <2> HIDE DEF e
    <2>3. (IF e = NULL THEN c ELSE Append(c, e))
            = IF k < Len(s) THEN Append(Part(s, k), s[k + 1]) ELSE Part(s, k)
      BY <1>1, <2>1, <2>2, NextRead, Zenon
    <2> QED
      BY <2>3 DEF e
  <1>3. SL!Chain = (CHOOSE f : f = Read(f))[N]
    BY SameCount DEF SL!Chain
  <1> HIDE DEF Grown
  <1>4. ASSUME NEW f, f = Read(f) PROVE f[N] = s
    <2>1. f[0] = << >> /\ \A n \in 0 .. N : n # 0 => f[n] = Grown(f[n - 1])
      BY <1>1, <1>4
    <2>2. ASSUME NEW k \in 0 .. N - 1, f[k] = Part(s, k)
          PROVE  f[k + 1] = IF k < Len(s) THEN Append(Part(s, k), s[k + 1]) ELSE Part(s, k)
      <3>1. PICK n \in 0 .. N : n = k + 1 /\ n # 0 /\ n - 1 = k
        BY <1>1
      <3>2. f[n] = Grown(f[n - 1]) /\ f[n - 1] = Part(s, k)
        BY <2>1, <2>2, <3>1
      <3>3. Grown(Part(s, k)) = IF k < Len(s) THEN Append(Part(s, k), s[k + 1]) ELSE Part(s, k)
        BY <1>1, <1>2
      <3> QED
        BY <3>1, <3>2, <3>3
    <2> QED
      BY <1>1, <2>1, <2>2, Reading
  <1>5. parts = Read(parts)
    <2> SUFFICES ASSUME NEW k \in 0 .. N PROVE parts[k] = Read(parts)[k]
      OBVIOUS
    <2>1. CASE k = 0
      BY <1>1, <2>1, Parts
    <2>2. CASE k # 0
      <3>1. PICK j \in Nat : j = k - 1 /\ k = j + 1 /\ j \in 0 .. N
        BY <1>1, <2>2
      <3>2. Read(parts)[k] = Grown(Part(s, j))
        BY <2>2, <3>1
      <3>3. /\ j < Len(s) => Part(s, j + 1) = Append(Part(s, j), s[j + 1])
            /\ j >= Len(s) => Part(s, j + 1) = Part(s, j)
        BY <1>1, Parts
      <3>4. parts[k] = IF j < Len(s) THEN Append(Part(s, j), s[j + 1]) ELSE Part(s, j)
        BY <1>1, <3>1, <3>3
      <3> QED
        BY <1>2, <3>2, <3>4, Zenon
    <2> QED
      BY <2>1, <2>2
  <1> HIDE DEF Read, parts
  <1> QED
    BY <1>3, <1>4, <1>5

LEMMA SSeen ==
  ASSUME NEW s, SListed(s)
  PROVE  SShows(s)
  <1>1. SL!Chain = s /\ Row(s) /\ s \in Seq(Nodes) /\ Len(s) \in Nat /\ DOMAIN s = 1 .. Len(s)
    BY SRead DEF SListed, SLinked, Row
  <1>2. SItemsOf = Data(smem, s)
    BY <1>1 DEF Data, SItemsOf
  <1>3. SL!ActPlace = PlaceIn(s, SActive)
    <2>1. CASE SActive = NULL
      BY <2>1 DEF SL!ActPlace, PlaceIn, SActive
    <2>2. CASE In(s, SActive)
      <3>1. PICK n \in 1 .. Len(s) : SActive = s[n] /\ PlaceIn(s, SActive) = n /\ SActive # NULL
        BY <1>1, <2>2, Placed, NoNode DEF In
      <3>2. SActive = sAct /\ sres # "crash"
        BY <3>1 DEF SActive
      <3>3. {k \in DOMAIN SL!Chain : SL!Chain[k] = sAct} = {n}
        BY <1>1, <3>1, <3>2, Zenon DEF Row
      <3>4. SL!ActPlace = CHOOSE k \in {n} \cup {Len(s) + 1} : {n} # {} => k \in {n}
        BY <1>1, <3>1, <3>2, <3>3 DEF SL!ActPlace
      <3>5. (CHOOSE k \in {n} \cup {Len(s) + 1} : {n} # {} => k \in {n}) = n
        OBVIOUS
      <3> QED
        BY <3>1, <3>4, <3>5
    <2> QED
      BY <2>1, <2>2 DEF SListed
  <1>4. SL!Lost = DOMAIN smem \ SInRow(s)
    <2>1. {SL!Chain[k] : k \in DOMAIN SL!Chain} = SInRow(s)
      BY <1>1 DEF SInRow, In
    <2> QED
      BY <2>1 DEF SL!Lost
  <1> QED
    BY <1>1, <1>2, <1>3, <1>4 DEF SShows

LEMMA SSeenNext ==
  ASSUME NEW CONSTANT s
  PROVE  SListed(s)' => SShows(s)'
  <1>1. SListed(s) => SShows(s)
    BY SSeen
  <1> QED
    BY <1>1, PTL

(* What is used of a row of elements.                                      *)
SRow(s) ==
  /\ Row(s) /\ s \in Seq(Nodes) /\ Len(s) \in Nat
  /\ smem \in [DOMAIN smem -> SElement]
  /\ DOMAIN smem \subseteq Nodes /\ NULL \notin DOMAIN smem /\ NULL \notin Nodes
  /\ \A k \in 1 .. Len(s) :
       s[k] \in Nodes /\ s[k] \in DOMAIN smem /\ smem[s[k]].ptr = After(s, k)
  /\ \A j, k \in 1 .. Len(s) : s[j] = s[k] => j = k
  /\ sFirst = (IF Len(s) = 0 THEN NULL ELSE s[1])
  /\ sFirst \in DOMAIN smem \cup {NULL}
  /\ SActive = NULL \/ In(s, SActive)
  /\ SActive # NULL => PlaceIn(s, SActive) \in 1 .. Len(s) /\ s[PlaceIn(s, SActive)] = SActive
  /\ SActive = NULL => PlaceIn(s, SActive) = 0
  /\ Data(smem, s) \in Seq(Values) /\ Len(Data(smem, s)) = Len(s)
  /\ \A k \in 1 .. Len(s) : Data(smem, s)[k] = smem[s[k]].data /\ smem[s[k]].data \in Values
  /\ Data(smem, s) = << >> <=> Len(s) = 0

LEMMA SRows ==
  ASSUME NEW s, SListed(s)
  PROVE  SRow(s)
  <1>1. /\ Row(s) /\ s \in Seq(Nodes) /\ Len(s) \in Nat
        /\ smem \in [DOMAIN smem -> SElement]
        /\ DOMAIN smem \subseteq Nodes
        /\ \A k \in 1 .. Len(s) : s[k] \in DOMAIN smem /\ smem[s[k]].ptr = After(s, k)
        /\ \A j, k \in 1 .. Len(s) : s[j] = s[k] => j = k
        /\ sFirst = (IF Len(s) = 0 THEN NULL ELSE s[1])
        /\ SActive = NULL \/ In(s, SActive)
    BY DEF SListed, SLinked, Row, FirstOf
  <1>2. \A k \in 1 .. Len(s) : s[k] \in Nodes /\ smem[s[k]].data \in Values
    <2>1. \A k \in 1 .. Len(s) : s[k] \in Nodes /\ smem[s[k]] \in SElement
      BY <1>1
    <2> QED
      BY <2>1 DEF SElement
  <1>3. NULL \notin DOMAIN smem /\ NULL \notin Nodes /\ sFirst \in DOMAIN smem \cup {NULL}
    BY <1>1, NoNode
  <1>4. SActive # NULL => \E k \in 1 .. Len(s) : SActive = s[k] /\ PlaceIn(s, SActive) = k
    BY <1>1, Placed DEF In
  <1>5. SActive = NULL => PlaceIn(s, SActive) = 0
    BY DEF PlaceIn
  <1>6. Data(smem, s) \in Seq(Values) /\ Len(Data(smem, s)) = Len(s)
    BY <1>1, <1>2 DEF Data
  <1>7. Data(smem, s) = << >> <=> Len(s) = 0
    BY <1>1, <1>6, EmptySeq
  <1> QED
    BY <1>1, <1>2, <1>3, <1>4, <1>5, <1>6, <1>7 DEF SRow, Data

SGood == \E s : SListed(s)

-----------------------------------------------------------------------------
(* An element put in, and one cut out.                                     *)

SPutFields(L, s, i, tmp, val) ==
  /\ L \in [DOMAIN smem \cup {tmp} -> SElement]
  /\ L[tmp].data = val /\ L[tmp].ptr = Ahead(s, i)
  /\ \A x \in DOMAIN smem :
       L[x].data = smem[x].data /\ L[x].ptr = IF x = Behind(s, i) THEN tmp ELSE smem[x].ptr

SCutFields(L, s, i) ==
  /\ L \in [DOMAIN smem \ {s[i]} -> SElement]
  /\ \A x \in DOMAIN smem \ {s[i]} :
       L[x].data = smem[x].data /\ L[x].ptr = IF x = Before(s, i) THEN After(s, i) ELSE smem[x].ptr

(* A call that loses nothing and does not crash.                           *)
SKept == SGood' /\ SL!Lost' = SL!Lost /\ sres' # "crash"

LEMMA SPuts ==
  ASSUME NEW s, SListed(s), NEW i \in 1 .. Len(s) + 1,
         NEW tmp \in Nodes, tmp \notin DOMAIN smem, NEW val \in Values,
         SPutFields(smem', s, i, tmp, val),
         sFirst' = IF i = 1 THEN tmp ELSE sFirst,
         sAct' = sAct, sres' = Done, sres # "crash"
  PROVE  SKept /\ SL!List!Inserts(i, val)
  <1> DEFINE r == Put(s, i, tmp)
  <1>1. SShows(s) /\ SRow(s) /\ Done # "crash"
    BY SSeen, SRows, NoNode
  <1>2. /\ Row(s) /\ s \in Seq(Nodes) /\ Len(s) \in Nat /\ ~ In(s, tmp)
        /\ \A x : In(s, x) => x \in DOMAIN smem
    BY <1>1 DEF SRow, In
  <1>3. /\ Row(r) /\ Len(r) = Len(s) + 1 /\ \A x : In(r, x) <=> In(s, x) \/ x = tmp
    BY <1>2, PutRow, PutSequence
  <1>4. /\ After(r, i) = Ahead(s, i) /\ r[i] = tmp
        /\ \A k \in 1 .. Len(s) :
              LET at == IF k < i THEN k ELSE k + 1 IN
              r[at] = s[k] /\ After(r, at) = IF s[k] = Behind(s, i) THEN tmp ELSE After(s, k)
    <2>1. After(r, i) = Ahead(s, i)
      BY <1>2, PutNeighbours
    <2>2. r[i] = tmp
      BY <1>2 DEF Put
    <2>3. \A k \in 1 .. Len(s) :
             LET at == IF k < i THEN k ELSE k + 1 IN
             r[at] = s[k] /\ After(r, at) = IF s[k] = Behind(s, i) THEN tmp ELSE After(s, k)
      BY <1>2, PutNeighbours
    <2> QED
      BY <2>1, <2>2, <2>3
  <1>5. ASSUME NEW k \in 1 .. Len(r) PROVE r[k] \in DOMAIN smem' /\ smem'[r[k]].ptr = After(r, k)
    <2>1. CASE k = i
      BY <1>4, <2>1 DEF SPutFields
    <2>2. CASE k # i
      <3>1. PICK j \in 1 .. Len(s) : k = IF j < i THEN j ELSE j + 1
        <4>1. CASE k < i
          BY <1>2, <1>3, <4>1
        <4>2. CASE k > i
          <5>1. k - 1 \in 1 .. Len(s) /\ ~ (k - 1 < i) /\ k - 1 + 1 = k
            BY <1>2, <1>3, <4>2
          <5> QED
            BY <5>1
        <4> QED
          BY <1>3, <2>2, <4>1, <4>2
      <3>2. r[k] = s[j] /\ After(r, k) = IF s[j] = Behind(s, i) THEN tmp ELSE After(s, j)
        BY <1>4, <3>1
      <3>3. s[j] \in DOMAIN smem /\ smem[s[j]].ptr = After(s, j)
        BY <1>1 DEF SRow
      <3> QED
        BY <3>2, <3>3 DEF SPutFields
    <2> QED
      BY <2>1, <2>2
  <1>6. FirstOf(r) = IF i = 1 THEN tmp ELSE sFirst
    BY <1>1, <1>2, <1>3, PutPlaces DEF FirstOf, SRow
  <1>7. smem' \in [DOMAIN smem' -> SElement] /\ DOMAIN smem' = DOMAIN smem \cup {tmp}
        /\ DOMAIN smem' \subseteq Nodes
    BY <1>1 DEF SPutFields, SRow
  <1>8. Data(smem', r) = Put(Data(smem, s), i, val)
    <2>1. SameData(smem, smem', s)
      BY <1>1 DEF SRow, SPutFields, SameData
    <2> QED
      BY <1>2, <2>1, PutData DEF SPutFields
  <1>9. SActive' = SActive /\ SAnswer' = Done
    BY <1>1 DEF SActive, SAnswer
  <1>10. PlaceIn(r, SActive) = IF PlaceIn(s, SActive) >= i THEN PlaceIn(s, SActive) + 1 ELSE PlaceIn(s, SActive)
    BY <1>1, <1>2, PutPlaced DEF SRow
  <1>11. Put(Data(smem, s), i, val) =
          SubSeq(Data(smem, s), 1, i - 1) \o << val >> \o SubSeq(Data(smem, s), i, Len(Data(smem, s)))
    <2>1. Data(smem, s) \in Seq(Values) /\ i \in 1 .. Len(Data(smem, s)) + 1
      BY <1>1 DEF SRow
    <2> QED
      BY <2>1, PutInserts, Zenon
  <1> HIDE DEF r
  <1>12. SListed(r)'
    BY <1>1, <1>3, <1>5, <1>6, <1>7, <1>9 DEF SListed, SLinked, SRow
  <1>13. SShows(r)'
    BY <1>12, SSeenNext
  <1>14. SL!Lost' = SL!Lost
    <2>1. SL!Lost' = DOMAIN smem' \ SInRow(r) /\ SL!Lost = DOMAIN smem \ SInRow(s)
      BY <1>1, <1>13 DEF SShows, SInRow, In
    <2> QED
      BY <1>1, <1>3, <1>7, <2>1 DEF SInRow, SRow
  <1>15. /\ SItemsOf' = Put(Data(smem, s), i, val)
         /\ SL!ActPlace' = IF PlaceIn(s, SActive) >= i THEN PlaceIn(s, SActive) + 1 ELSE PlaceIn(s, SActive)
    BY <1>8, <1>9, <1>10, <1>13 DEF SShows
  <1>16. SL!List!Inserts(i, val)
    BY <1>1, <1>9, <1>11, <1>15, Zenon DEF SShows, SItemsOf, SAnswer, SL!List!Inserts, SL!List!Becomes, SL!List!With
  <1> QED
    BY <1>1, <1>12, <1>14, <1>16 DEF SKept, SGood

LEMMA SCuts ==
  ASSUME NEW s, SListed(s), NEW i \in 1 .. Len(s), SCutFields(smem', s, i),
         sFirst' = IF i = 1 THEN After(s, i) ELSE sFirst,
         sAct' = (IF sAct = s[i] THEN NULL ELSE sAct), sres' = Done, sres # "crash"
  PROVE  SKept /\ SL!List!Deletes(i)
  <1> DEFINE r == Cut(s, i)
  <1>1. SShows(s) /\ SRow(s) /\ Done # "crash"
    BY SSeen, SRows, NoNode
  <1>2. Row(s) /\ s \in Seq(Nodes) /\ Len(s) \in Nat
    BY <1>1 DEF SRow
  <1>3. /\ Row(r) /\ Len(r) = Len(s) - 1 /\ \A x : In(r, x) <=> In(s, x) /\ x # s[i]
    BY <1>2, CutRow, CutSequence
  <1>4. \A k \in 1 .. Len(s) : k # i =>
           LET at == IF k < i THEN k ELSE k - 1 IN
           r[at] = s[k] /\ After(r, at) = IF s[k] = Before(s, i) THEN After(s, i) ELSE After(s, k)
    BY <1>2, CutNeighbours
  <1>5. ASSUME NEW k \in 1 .. Len(r) PROVE r[k] \in DOMAIN smem' /\ smem'[r[k]].ptr = After(r, k)
    <2>1. PICK j \in 1 .. Len(s) : j # i /\ k = IF j < i THEN j ELSE j - 1
      <3>1. CASE k < i
        <4>1. k \in 1 .. Len(s) /\ k < i /\ k # i
          BY <1>2, <1>3, <3>1
        <4> QED
          BY <4>1, Zenon
      <3>2. CASE k >= i
        <4>1. k + 1 \in 1 .. Len(s) /\ ~ (k + 1 < i) /\ k + 1 - 1 = k /\ k + 1 # i
          BY <1>2, <1>3, <3>2
        <4> QED
          BY <4>1
      <3> QED
        BY <1>3, <3>1, <3>2
    <2>2. r[k] = s[j] /\ After(r, k) = IF s[j] = Before(s, i) THEN After(s, i) ELSE After(s, j)
      BY <1>4, <2>1
    <2>3. s[j] \in DOMAIN smem \ {s[i]} /\ smem[s[j]].ptr = After(s, j)
      BY <1>1, <2>1 DEF SRow
    <2> QED
      BY <2>2, <2>3 DEF SCutFields
  <1>6. FirstOf(r) = IF i = 1 THEN After(s, i) ELSE sFirst
    BY <1>1, <1>2, <1>3, CutPlaces DEF FirstOf, After, SRow
  <1>7. smem' \in [DOMAIN smem' -> SElement] /\ DOMAIN smem' = DOMAIN smem \ {s[i]}
        /\ DOMAIN smem' \subseteq Nodes
    BY <1>1 DEF SCutFields, SRow
  <1>8. Data(smem', r) = Cut(Data(smem, s), i)
    <2>1. \A k \in 1 .. Len(s) : smem[s[k]].data \in Values /\ (k # i => smem'[s[k]].data = smem[s[k]].data)
      BY <1>1 DEF SRow, SCutFields
    <2> QED
      BY <1>2, <2>1, CutData
  <1>9. SActive' = (IF SActive = s[i] THEN NULL ELSE SActive) /\ SAnswer' = Done
    BY <1>1 DEF SActive, SAnswer
  <1>10. PlaceIn(r, IF SActive = s[i] THEN NULL ELSE SActive) =
           IF PlaceIn(s, SActive) = i THEN 0
           ELSE IF PlaceIn(s, SActive) > i THEN PlaceIn(s, SActive) - 1 ELSE PlaceIn(s, SActive)
    BY <1>1, <1>2, CutPlaced DEF SRow
  <1>11. Cut(Data(smem, s), i) =
           SubSeq(Data(smem, s), 1, i - 1) \o SubSeq(Data(smem, s), i + 1, Len(Data(smem, s)))
    BY <1>1, CutRemoves, Zenon DEF SRow
  <1> HIDE DEF r
  <1>12. SListed(r)'
    BY <1>1, <1>3, <1>5, <1>6, <1>7, <1>9 DEF SListed, SLinked, SRow
  <1>13. SShows(r)'
    BY <1>12, SSeenNext
  <1>14. SL!Lost' = SL!Lost
    <2>1. SL!Lost' = DOMAIN smem' \ SInRow(r) /\ SL!Lost = DOMAIN smem \ SInRow(s)
      BY <1>1, <1>13 DEF SShows, SInRow, In
    <2>2. In(s, s[i]) /\ s[i] \in Nodes
      BY <1>1 DEF SRow, In
    <2> QED
      BY <1>1, <1>3, <1>7, <2>1, <2>2 DEF SInRow, SRow
  <1>15. /\ SItemsOf' = Cut(Data(smem, s), i)
         /\ SL!ActPlace' = IF PlaceIn(s, SActive) = i THEN 0
                           ELSE IF PlaceIn(s, SActive) > i THEN PlaceIn(s, SActive) - 1
                           ELSE PlaceIn(s, SActive)
    BY <1>8, <1>9, <1>10, <1>13 DEF SShows
  <1>16. SL!List!Deletes(i)
    BY <1>1, <1>9, <1>11, <1>15, Zenon DEF SShows, SItemsOf, SAnswer, SL!List!Deletes, SL!List!Becomes, SL!List!Without
  <1> QED
    BY <1>1, <1>12, <1>14, <1>16 DEF SKept, SGood

(* A call that only makes another element the active one, or none.         *)
LEMMA SMovesTo ==
  ASSUME NEW s, SListed(s), NEW a, sAct' = a, a = NULL \/ In(s, a),
         sres' = Done, UNCHANGED << smem, sFirst >>
  PROVE  SKept /\ SL!List!Moves(PlaceIn(s, a))
  <1>1. SShows(s) /\ SRow(s) /\ Done # "crash"
    BY SSeen, SRows, NoNode
  <1>2. SActive' = a /\ SAnswer' = Done
    BY <1>1 DEF SActive, SAnswer
  <1>3. SListed(s)'
    BY <1>2 DEF SListed
  <1>4. SShows(s)'
    BY <1>3, SSeenNext
  <1>5. SL!Lost' = SL!Lost
    BY <1>1, <1>4 DEF SShows, SInRow, In
  <1>6. SItemsOf' = SItemsOf /\ SL!ActPlace' = PlaceIn(s, a)
    BY <1>1, <1>2, <1>4 DEF SShows
  <1>7. SL!List!Moves(PlaceIn(s, a))
    BY <1>2, <1>6 DEF SItemsOf, SAnswer, SL!List!Moves, SL!List!Becomes
  <1> QED
    BY <1>1, <1>3, <1>5, <1>7 DEF SKept, SGood

(* A call that changes nothing.                                            *)
LEMMA SStays ==
  ASSUME NEW s, SListed(s), NEW r, r # "crash", sres # "crash", SL!Answers(r)
  PROVE  SKept /\ SL!List!Answers(r)
  <1>1. UNCHANGED << smem, sFirst >> /\ sAct' = sAct /\ sres' = r
    BY DEF SL!Answers, SL!list
  <1>2. SActive' = SActive /\ SAnswer' = r
    BY <1>1 DEF SActive, SAnswer
  <1>3. SListed(s)'
    BY <1>1, <1>2 DEF SListed
  <1>4. SShows(s) /\ SShows(s)'
    BY <1>3, SSeen, SSeenNext
  <1>5. SL!Lost' = SL!Lost
    BY <1>1, <1>4 DEF SShows, SInRow, In
  <1>6. SItemsOf' = SItemsOf /\ SL!ActPlace' = SL!ActPlace
    BY <1>1, <1>2, <1>4 DEF SShows
  <1>7. SL!List!Answers(r)
    BY <1>2, <1>6 DEF SItemsOf, SAnswer, SL!List!Answers
  <1> QED
    BY <1>1, <1>3, <1>5, <1>7 DEF SKept, SGood

-----------------------------------------------------------------------------
(* The calls of c201.                                                      *)

LEMMA SAbstract ==
  ASSUME NEW s, SListed(s), sres # "crash"
  PROVE  /\ SItemsOf = Data(smem, s) /\ SL!ActPlace = PlaceIn(s, sAct) /\ SActive = sAct
         /\ Len(SItemsOf) = Len(s) /\ SL!Chain = s
         /\ SL!List!Empty <=> Len(s) = 0
         /\ SL!List!Active <=> sAct # NULL
         /\ sFirst = NULL <=> Len(s) = 0
  <1>1. SShows(s) /\ SRow(s) /\ SActive = sAct
    BY SSeen, SRows DEF SActive
  <1>2. SL!List!Empty <=> Len(s) = 0
    BY <1>1 DEF SL!List!Empty, SItemsOf, SShows, SRow
  <1>3. SL!List!Active <=> sAct # NULL
    BY <1>1 DEF SL!List!Active, SShows, SRow
  <1> QED
    BY <1>1, <1>2, <1>3 DEF SShows, SRow

(* The active element, and the one after it.                               *)
LEMMA SActives ==
  ASSUME NEW s, SListed(s), sres # "crash", sAct # NULL
  PROVE  \E p \in 1 .. Len(s) :
           /\ p = PlaceIn(s, sAct) /\ s[p] = sAct /\ sAct \in DOMAIN smem
           /\ smem[sAct] \in SElement /\ smem[sAct].ptr = After(s, p)
           /\ After(s, p) = NULL <=> p = Len(s)
           /\ After(s, p) # NULL => /\ p + 1 \in 1 .. Len(s) /\ s[p + 1] = After(s, p)
                                    /\ After(s, p) \in DOMAIN smem /\ After(s, p) # sAct
                                    /\ Before(s, p + 1) = sAct
                                    /\ smem[After(s, p)].ptr = After(s, p + 1)
  <1>1. SRow(s) /\ SActive = sAct
    BY SRows DEF SActive
  <1>2. PICK p \in 1 .. Len(s) : p = PlaceIn(s, sAct) /\ s[p] = sAct
    BY <1>1 DEF SRow
  <1>3. sAct \in DOMAIN smem /\ smem[sAct] \in SElement /\ smem[sAct].ptr = After(s, p)
    BY <1>1, <1>2 DEF SRow
  <1>4. CASE p = Len(s)
    BY <1>2, <1>3, <1>4, Zenon DEF After
  <1>5. CASE p # Len(s)
    <2>1. p + 1 \in 1 .. Len(s) /\ p + 1 # 1 /\ p + 1 - 1 = p /\ p + 1 # p
      BY <1>1, <1>5 DEF SRow
    <2>2. s[p + 1] = After(s, p) /\ After(s, p) \in DOMAIN smem /\ After(s, p) # sAct /\ After(s, p) # NULL
      BY <1>1, <1>2, <1>5, <2>1 DEF SRow, After
    <2>3. Before(s, p + 1) = sAct
      BY <1>2, <2>1 DEF Before
    <2>4. smem[After(s, p)].ptr = After(s, p + 1)
      BY <1>1, <2>1, <2>2 DEF SRow
    <2> QED
      BY <1>2, <1>3, <1>5, <2>1, <2>2, <2>3, <2>4
  <1> QED
    BY <1>4, <1>5

LEMMA SInsertFirst ==
  ASSUME NEW s, SListed(s), sres # "crash", NEW val \in Values, SL!InsertFirst(val)
  PROVE  SKept /\ SL!List!Inserts(1, val)
  <1>1. CASE SL!ErrorCall
    <2>1. SKept /\ SL!List!Answers(Error)
      BY <1>1, SStays, NoNode DEF SL!ErrorCall
    <2> QED
      BY <2>1 DEF SL!List!Inserts
  <1>2. ASSUME NEW tmp \in Nodes \ DOMAIN smem, smem' = SL!With(smem, tmp, val, sFirst),
               sFirst' = tmp, sres' = Done, sAct' = sAct
        PROVE  SKept /\ SL!List!Inserts(1, val)
    <2>1. SRow(s)
      BY SRows
    <2>2. 1 \in 1 .. Len(s) + 1 /\ Ahead(s, 1) = sFirst /\ Behind(s, 1) = NULL
      BY <2>1 DEF SRow, Ahead, Behind
    <2>3. /\ DOMAIN smem' = DOMAIN smem \cup {tmp}
          /\ smem' = [x \in DOMAIN smem \cup {tmp} |-> smem'[x]]
          /\ smem'[tmp] = [data |-> val, ptr |-> sFirst]
          /\ \A x \in DOMAIN smem : smem'[x] = smem[x]
      BY <1>2 DEF SL!With
    <2>4. smem'[tmp] \in SElement /\ smem'[tmp].data = val /\ smem'[tmp].ptr = sFirst
      BY <2>1, <2>3 DEF SElement, SRow
    <2>5. SPutFields(smem', s, 1, tmp, val)
      BY <2>1, <2>2, <2>3, <2>4 DEF SPutFields, SRow
    <2> QED
      BY <1>2, <2>2, <2>5, SPuts
  <1> QED
    BY <1>1, <1>2 DEF SL!InsertFirst

LEMMA SPostInsert ==
  ASSUME NEW s, SListed(s), sres # "crash", NEW val \in Values, SL!PostInsert(val), sAct # NULL
  PROVE  SKept /\ SL!List!Inserts(PlaceIn(s, sAct) + 1, val)
  <1>1. CASE SL!ErrorCall
    <2>1. SKept /\ SL!List!Answers(Error)
      BY <1>1, SStays, NoNode DEF SL!ErrorCall
    <2> QED
      BY <2>1 DEF SL!List!Inserts
  <1>2. ASSUME NEW tmp \in Nodes \ DOMAIN smem,
               smem' = SL!With([smem EXCEPT ![sAct].ptr = tmp], tmp, val, smem[sAct].ptr),
               sFirst' = sFirst, sres' = Done, sAct' = sAct
        PROVE  SKept /\ SL!List!Inserts(PlaceIn(s, sAct) + 1, val)
    <2>1. SRow(s)
      BY SRows
    <2>2. PICK p \in 1 .. Len(s) :
            /\ p = PlaceIn(s, sAct) /\ s[p] = sAct /\ sAct \in DOMAIN smem
            /\ smem[sAct] \in SElement /\ smem[sAct].ptr = After(s, p)
      BY SActives
    <2>3. p + 1 \in 1 .. Len(s) + 1 /\ p + 1 # 1 /\ Ahead(s, p + 1) = smem[sAct].ptr /\ Behind(s, p + 1) = sAct
      BY <2>1, <2>2 DEF SRow, Ahead, Behind, After
    <2>4. smem' = [x \in DOMAIN smem \cup {tmp} |->
                     IF x = tmp THEN [data |-> val, ptr |-> smem[sAct].ptr]
                     ELSE IF x = sAct THEN [smem[sAct] EXCEPT !.ptr = tmp] ELSE smem[x]]
      BY <1>2, <2>2 DEF SL!With
    <2>5. /\ DOMAIN smem' = DOMAIN smem \cup {tmp}
          /\ smem' = [x \in DOMAIN smem \cup {tmp} |-> smem'[x]]
          /\ smem'[tmp] = [data |-> val, ptr |-> smem[sAct].ptr]
          /\ \A x \in DOMAIN smem :
               smem'[x] = IF x = sAct THEN [smem[sAct] EXCEPT !.ptr = tmp] ELSE smem[x]
      BY <2>4
    <2>6. smem'[tmp] \in SElement /\ smem'[tmp].data = val /\ smem'[tmp].ptr = smem[sAct].ptr
      BY <2>2, <2>5 DEF SElement
    <2>7. /\ [smem[sAct] EXCEPT !.ptr = tmp] \in SElement
          /\ [smem[sAct] EXCEPT !.ptr = tmp].data = smem[sAct].data
          /\ [smem[sAct] EXCEPT !.ptr = tmp].ptr = tmp
      BY <2>2 DEF SElement
    <2>8. ASSUME NEW x \in DOMAIN smem
          PROVE  /\ smem'[x] \in SElement /\ smem'[x].data = smem[x].data
                 /\ smem'[x].ptr = IF x = sAct THEN tmp ELSE smem[x].ptr
      <3>1. CASE x = sAct
        BY <2>5, <2>7, <3>1, Zenon
      <3>2. CASE x # sAct
        <4>1. smem'[x] = smem[x]
          BY <2>5, <3>2
        <4>2. smem[x] \in SElement
          BY <2>1 DEF SRow
        <4> QED
          BY <3>2, <4>1, <4>2
      <3> QED
        BY <3>1, <3>2
    <2>9. SPutFields(smem', s, p + 1, tmp, val)
      BY <2>3, <2>5, <2>6, <2>8 DEF SPutFields
    <2>10. SKept /\ SL!List!Inserts(p + 1, val)
      BY <1>2, <2>3, <2>9, SPuts, Zenon
    <2> QED
      BY <2>2, <2>10
  <1> QED
    BY <1>1, <1>2, Zenon DEF SL!PostInsert

LEMMA SDeleteFirst ==
  ASSUME NEW s, SListed(s), sres # "crash", SL!DeleteFirst, sFirst # NULL
  PROVE  SKept /\ SL!List!Deletes(1)
  <1>1. SRow(s)
    BY SRows
  <1>2. 1 \in 1 .. Len(s) /\ s[1] = sFirst /\ smem[sFirst].ptr = After(s, 1) /\ Before(s, 1) = NULL
    BY <1>1 DEF SRow, Before
  <1>3. /\ sAct' = (IF sFirst = sAct THEN NULL ELSE sAct)
        /\ sFirst' = smem[sFirst].ptr /\ smem' = SL!Free(smem, {sFirst}) /\ sres' = Done
    BY DEF SL!DeleteFirst
  <1>4. smem' = [x \in DOMAIN smem \ {s[1]} |-> smem[x]]
    BY <1>2, <1>3 DEF SL!Free
  <1>5. SCutFields(smem', s, 1)
    BY <1>1, <1>2, <1>4 DEF SRow, SCutFields
  <1> QED
    BY <1>2, <1>3, <1>5, SCuts, Zenon

LEMMA SPostDelete ==
  ASSUME NEW s, SListed(s), sres # "crash", SL!PostDelete, sAct # NULL, smem[sAct].ptr # NULL
  PROVE  PlaceIn(s, sAct) < Len(s) /\ SKept /\ SL!List!Deletes(PlaceIn(s, sAct) + 1)
  <1>1. SRow(s)
    BY SRows
  <1>2. PICK p \in 1 .. Len(s) :
          /\ p = PlaceIn(s, sAct) /\ s[p] = sAct /\ sAct \in DOMAIN smem
          /\ smem[sAct] \in SElement /\ smem[sAct].ptr = After(s, p)
          /\ p + 1 \in 1 .. Len(s) /\ s[p + 1] = After(s, p)
          /\ After(s, p) \in DOMAIN smem /\ After(s, p) # sAct
          /\ Before(s, p + 1) = sAct
          /\ smem[After(s, p)].ptr = After(s, p + 1)
    BY SActives
  <1> DEFINE next == smem[smem[sAct].ptr].ptr
  <1>3. next = After(s, p + 1) /\ next \in Nodes \cup {NULL}
    BY <1>1, <1>2 DEF SRow, After
  <1>4. /\ smem' = SL!Free([smem EXCEPT ![sAct].ptr = next], {smem[sAct].ptr})
        /\ sres' = Done /\ sFirst' = sFirst /\ sAct' = sAct
    BY DEF SL!PostDelete
  <1> HIDE DEF next
  <1>5. smem' = [x \in DOMAIN smem \ {s[p + 1]} |->
                   IF x = sAct THEN [smem[sAct] EXCEPT !.ptr = next] ELSE smem[x]]
    BY <1>2, <1>4 DEF SL!Free
  <1>6. /\ [smem[sAct] EXCEPT !.ptr = next] \in SElement
        /\ [smem[sAct] EXCEPT !.ptr = next].data = smem[sAct].data
        /\ [smem[sAct] EXCEPT !.ptr = next].ptr = next
    BY <1>2, <1>3 DEF SElement
  <1>7. /\ smem' = [x \in DOMAIN smem \ {s[p + 1]} |-> smem'[x]]
        /\ \A x \in DOMAIN smem \ {s[p + 1]} :
             /\ smem'[x] \in SElement /\ smem'[x].data = smem[x].data
             /\ smem'[x].ptr = IF x = sAct THEN next ELSE smem[x].ptr
    BY <1>1, <1>5, <1>6, Zenon DEF SRow
  <1>8. SCutFields(smem', s, p + 1)
    BY <1>2, <1>3, <1>7 DEF SCutFields
  <1>9. p + 1 # 1 /\ p < Len(s) /\ s[p + 1] # sAct
    BY <1>1, <1>2 DEF SRow
  <1>10. SKept /\ SL!List!Deletes(p + 1)
    BY <1>2, <1>4, <1>8, <1>9, SCuts, Zenon
  <1> QED
    BY <1>2, <1>9, <1>10

LEMMA SActualize ==
  ASSUME NEW s, SListed(s), sres # "crash", NEW val \in Values, SL!Actualize(val), sAct # NULL
  PROVE  SKept /\ SL!List!Becomes([Data(smem, s) EXCEPT ![PlaceIn(s, sAct)] = val], PlaceIn(s, sAct))
  <1>1. SRow(s) /\ SShows(s)
    BY SRows, SSeen
  <1>2. PICK p \in 1 .. Len(s) :
          /\ p = PlaceIn(s, sAct) /\ s[p] = sAct /\ sAct \in DOMAIN smem /\ smem[sAct] \in SElement
    BY SActives
  <1>3. /\ smem' = [smem EXCEPT ![sAct] = [smem[sAct] EXCEPT !.data = val]]
        /\ sres' = Done /\ sFirst' = sFirst /\ sAct' = sAct
    BY <1>1, <1>2 DEF SL!Actualize
  <1>4. /\ [smem[sAct] EXCEPT !.data = val] \in SElement
        /\ [smem[sAct] EXCEPT !.data = val].data = val
        /\ [smem[sAct] EXCEPT !.data = val].ptr = smem[sAct].ptr
    BY <1>2 DEF SElement
  <1>5. /\ DOMAIN smem' = DOMAIN smem /\ smem' \in [DOMAIN smem' -> SElement]
        /\ \A x \in DOMAIN smem :
             /\ smem'[x].data = IF x = sAct THEN val ELSE smem[x].data
             /\ smem'[x].ptr = smem[x].ptr
    BY <1>1, <1>2, <1>3, <1>4 DEF SRow
  <1>6. SActive' = sAct /\ SActive = sAct /\ SAnswer' = Done /\ sres' # "crash"
    BY <1>3, NoNode DEF SActive, SAnswer
  <1>7. SListed(s)'
    BY <1>1, <1>3, <1>5, <1>6 DEF SListed, SLinked, SRow, FirstOf
  <1>8. SShows(s)'
    BY <1>7, SSeenNext
  <1>9. Data(smem', s) = [Data(smem, s) EXCEPT ![p] = val]
    BY <1>1, <1>2, <1>5, Zenon DEF Data, SRow
  <1>10. SItemsOf' = [Data(smem, s) EXCEPT ![p] = val] /\ SL!ActPlace' = p /\ SL!Lost' = SL!Lost
    BY <1>1, <1>2, <1>5, <1>6, <1>8, <1>9 DEF SShows, SInRow, In
  <1> QED
    BY <1>2, <1>6, <1>7, <1>10 DEF SGood, SKept, SItemsOf, SAnswer, SL!List!Becomes

(* What a step may lose, and when it crashes.                              *)
SLoses ==
  \/ SL!Lost' = SL!Lost
  \/ /\ Len(SL!Chain) > 1 /\ sFirst' = NULL
     /\ \E e \in DOMAIN smem : smem[e].ptr = NULL /\ SL!Lost' = SL!Lost \cup {e}

SCrashes == sres' = "crash" => Len(SL!Chain) = 1 /\ sFirst' = NULL

SStepped == SGood' /\ SL!List!Next /\ SLoses /\ SCrashes

LEMMA SDispose ==
  ASSUME NEW s, SListed(s), sres # "crash", SL!DisposeList
  PROVE  SGood' /\ SL!List!Becomes(<< >>, 0) /\ SLoses /\ SCrashes
  <1>1. SRow(s) /\ SShows(s) /\ SL!Chain = s /\ SActive = sAct /\ Done # "crash"
    BY SRows, SSeen, NoNode DEF SShows, SActive
  <1>2. CASE sFirst = NULL
    <2>1. SL!Answers(Done)
      BY <1>2 DEF SL!DisposeList, SL!Return
    <2>2. UNCHANGED << smem, sFirst >> /\ sAct' = sAct /\ sres' = Done
      BY <2>1 DEF SL!Answers, SL!list
    <2>3. Len(s) = 0 /\ sAct = NULL
      BY <1>1, <1>2 DEF SRow, In
    <2>4. NULL = NULL \/ In(s, NULL)
      OBVIOUS
    <2>5. SKept /\ SL!List!Moves(PlaceIn(s, NULL))
      BY <2>2, <2>3, SMovesTo
    <2>6. SItemsOf = << >> /\ PlaceIn(s, NULL) = 0
      BY <1>1, <2>3, Placed DEF SShows, SRow
    <2>7. SL!List!Becomes(<< >>, 0)
      BY <2>5, <2>6 DEF SL!List!Moves, SL!List!Becomes, SItemsOf
    <2> QED
      BY <2>5, <2>7 DEF SKept, SLoses, SCrashes
  <1>3. CASE sFirst # NULL
    <2>1. PICK n \in 1 .. Len(s) : n = Len(s)
      BY <1>1, <1>3 DEF SRow
    <2> DEFINE freed == {s[k] : k \in 1 .. (IF n = 1 THEN 1 ELSE n - 1)}
    <2>2. /\ smem' = SL!Free(smem, freed) /\ sFirst' = NULL
          /\ IF n = 1 THEN sres' = "crash" /\ sAct' = sAct ELSE sres' = Done /\ sAct' = NULL
      BY <1>1, <1>3, <2>1 DEF SL!DisposeList
    <2> HIDE DEF freed
    <2>3. DOMAIN smem' = DOMAIN smem \ freed /\ smem' \in [DOMAIN smem' -> SElement]
      BY <1>1, <2>2 DEF SRow, SL!Free
    <2>4. SActive' = NULL /\ SAnswer' = Done /\ SCrashes
      BY <1>1, <2>1, <2>2 DEF SActive, SAnswer, SCrashes
    <2>5. Row(<< >>) /\ Len(<< >>) = 0
      BY DEF Row
    <2>6. SListed(<< >>)'
      BY <1>1, <2>2, <2>3, <2>4, <2>5 DEF SListed, SLinked, In, FirstOf, SRow
    <2>7. SShows(<< >>)'
      BY <2>6, SSeenNext
    <2>8. PlaceIn(<< >>, NULL) = 0 /\ Data(smem', << >>) = << >>
      BY <2>5, EmptySeq DEF PlaceIn, Data
    <2>9. SItemsOf' = << >> /\ SL!ActPlace' = 0
      BY <2>4, <2>7, <2>8 DEF SShows
    <2>10. SL!List!Becomes(<< >>, 0)
      BY <2>4, <2>9 DEF SItemsOf, SAnswer, SL!List!Becomes
    <2>11. SL!Lost' = DOMAIN smem' /\ SL!Lost = DOMAIN smem \ SInRow(s)
      <3>1. SInRow(<< >>) = {}
        BY <2>5 DEF SInRow, In
      <3>2. SL!Lost' = DOMAIN smem' \ SInRow(<< >>)
        BY <2>7 DEF SShows, SInRow, In
      <3> QED
        BY <1>1, <3>1, <3>2, Zenon DEF SShows
    <2>12. SLoses
      <3>1. CASE n = 1
        <4>1. freed = SInRow(s)
          BY <1>1, <2>1, <3>1 DEF freed, SInRow, In, SRow
        <4> QED
          BY <2>3, <2>11, <4>1 DEF SLoses
      <3>2. CASE n # 1
        <4>1. s[n] \in DOMAIN smem /\ smem[s[n]].ptr = NULL
          BY <1>1, <2>1 DEF SRow, After
        <4>2. SInRow(s) = freed \cup {s[n]} /\ s[n] \notin freed
          BY <1>1, <2>1, <3>2 DEF freed, SInRow, In, SRow
        <4>3. SL!Lost' = SL!Lost \cup {s[n]}
          BY <2>3, <2>11, <4>1, <4>2
        <4>4. Len(SL!Chain) > 1
          BY <1>1, <2>1, <3>2
        <4> QED
          BY <2>2, <4>1, <4>3, <4>4 DEF SLoses
      <3> QED
        BY <3>1, <3>2
    <2> QED
      BY <2>4, <2>6, <2>10, <2>12 DEF SGood
  <1> QED
    BY <1>2, <1>3

LEMMA SKeeps == ASSUME SKept, SL!List!Next PROVE SStepped
  BY DEF SKept, SStepped, SLoses, SCrashes

LEMMA SDisposeStep ==
  ASSUME NEW s, SListed(s), sres # "crash", scall' = << "dispose" >>, SL!DisposeList
  PROVE  SStepped
  <1>1. SGood' /\ SL!List!Becomes(<< >>, 0) /\ SLoses /\ SCrashes
    BY SDispose
  <1> QED
    BY <1>1 DEF SStepped, SL!List!Next

LEMMA SInsertsStep ==
  ASSUME NEW s, SListed(s), sres # "crash", NEW val \in Values,
         \/ scall' = << "insertFirst", val >> /\ SL!InsertFirst(val)
         \/ scall' = << "postInsert", val >> /\ SL!PostInsert(val)
         \/ scall' = << "actualize", val >> /\ SL!Actualize(val)
  PROVE  SStepped
  <1>1. /\ SItemsOf = Data(smem, s) /\ SL!ActPlace = PlaceIn(s, sAct)
        /\ SL!List!Active <=> sAct # NULL
    BY SAbstract
  <1>2. ASSUME SL!Answers(Done) PROVE SKept /\ SL!List!Nothing
    BY <1>2, SStays, NoNode DEF SL!List!Nothing
  <1>3. CASE scall' = << "insertFirst", val >> /\ SL!InsertFirst(val)
    <2>1. SKept /\ SL!List!Inserts(1, val)
      BY <1>3, SInsertFirst
    <2>2. SL!List!Next
      BY <1>3, <2>1 DEF SL!List!Next
    <2> QED
      BY <2>1, <2>2, SKeeps
  <1>4. CASE scall' = << "postInsert", val >> /\ SL!PostInsert(val)
    <2>1. CASE sAct = NULL
      <3>1. SKept /\ SL!List!Nothing
        BY <1>2, <1>4, <2>1 DEF SL!PostInsert, SL!Return
      <3>2. SL!List!Next
        BY <1>1, <1>4, <2>1, <3>1 DEF SL!List!Next
      <3> QED
        BY <3>1, <3>2, SKeeps
    <2>2. CASE sAct # NULL
      <3>1. SKept /\ SL!List!Inserts(PlaceIn(s, sAct) + 1, val)
        BY <1>4, <2>2, SPostInsert
      <3>2. SL!List!Inserts(SL!ActPlace + 1, val)
        BY <1>1, <3>1, Zenon DEF SL!List!Inserts, SL!List!Becomes, SL!List!With
      <3>3. SL!List!Next
        BY <1>1, <1>4, <2>2, <3>2 DEF SL!List!Next
      <3> QED
        BY <3>1, <3>3, SKeeps
    <2> QED
      BY <2>1, <2>2
  <1>5. CASE scall' = << "actualize", val >> /\ SL!Actualize(val)
    <2>1. CASE sAct = NULL
      <3>1. SKept /\ SL!List!Nothing
        BY <1>2, <1>5, <2>1 DEF SL!Actualize, SL!Return
      <3>2. SL!List!Next
        BY <1>1, <1>5, <2>1, <3>1 DEF SL!List!Next
      <3> QED
        BY <3>1, <3>2, SKeeps
    <2>2. CASE sAct # NULL
      <3>1. SKept /\ SL!List!Becomes([Data(smem, s) EXCEPT ![PlaceIn(s, sAct)] = val], PlaceIn(s, sAct))
        BY <1>5, <2>2, SActualize
      <3>2. SL!List!Becomes([SItemsOf EXCEPT ![SL!ActPlace] = val], SL!ActPlace)
        BY <1>1, <3>1 DEF SL!List!Becomes
      <3>3. SL!List!Next
        BY <1>1, <1>5, <2>2, <3>2 DEF SL!List!Next, SItemsOf
      <3> QED
        BY <3>1, <3>3, SKeeps
    <2> QED
      BY <2>1, <2>2
  <1> QED
    BY <1>3, <1>4, <1>5

LEMMA SMovesStep ==
  ASSUME NEW s, SListed(s), sres # "crash",
         \/ scall' = << "first" >> /\ SL!ToFirst
         \/ scall' = << "succ" >> /\ SL!Succ
  PROVE  SStepped
  <1>1. /\ SL!ActPlace = PlaceIn(s, sAct) /\ Len(SItemsOf) = Len(s)
        /\ SL!List!Empty <=> Len(s) = 0
        /\ SL!List!Active <=> sAct # NULL
    BY SAbstract
  <1>2. SRow(s) /\ PlaceIn(s, NULL) = 0 /\ \A k \in 1 .. Len(s) : PlaceIn(s, s[k]) = k /\ In(s, s[k])
    BY SRows, Placed DEF SRow, In
  <1>3. CASE scall' = << "first" >> /\ SL!ToFirst
    <2>1. sAct' = sFirst /\ sres' = Done /\ UNCHANGED << smem, sFirst >>
      BY <1>3 DEF SL!ToFirst, SL!Activates
    <2>2. (sFirst = NULL \/ In(s, sFirst)) /\ PlaceIn(s, sFirst) = IF Len(s) = 0 THEN 0 ELSE 1
      BY <1>2 DEF SRow
    <2>0. PICK e : e = sFirst
      OBVIOUS
    <2>3. SKept /\ SL!List!Moves(PlaceIn(s, e))
      BY <2>0, <2>1, <2>2, SMovesTo
    <2>4. SL!List!Moves(IF SL!List!Empty THEN 0 ELSE 1)
      BY <1>1, <2>0, <2>2, <2>3 DEF SL!List!Moves, SL!List!Becomes
    <2>5. SL!List!Next
      BY <1>3, <2>4 DEF SL!List!Next
    <2> QED
      BY <2>3, <2>5, SKeeps
  <1>4. CASE scall' = << "succ" >> /\ SL!Succ
    <2> DEFINE to == IF SL!List!Active /\ SL!ActPlace < Len(SItemsOf) THEN SL!ActPlace + 1 ELSE 0
    <2>1. SKept /\ SL!List!Moves(to)
      <3>1. CASE sAct = NULL
        <4>1. sAct' = NULL /\ sres' = Done /\ UNCHANGED << smem, sFirst >>
          BY <1>4, <3>1 DEF SL!Succ, SL!Return, SL!Answers, SL!list
        <4>2. SKept /\ SL!List!Moves(PlaceIn(s, NULL))
          BY <4>1, SMovesTo
        <4> QED
          BY <1>1, <1>2, <3>1, <4>2 DEF SL!List!Moves, SL!List!Becomes
      <3>2. CASE sAct # NULL
        <4>1. sAct' = smem[sAct].ptr /\ sres' = Done /\ UNCHANGED << smem, sFirst >>
          BY <1>4, <3>2 DEF SL!Succ, SL!Activates
        <4>2. PICK p \in 1 .. Len(s) :
                /\ p = PlaceIn(s, sAct) /\ smem[sAct].ptr = After(s, p)
                /\ After(s, p) = NULL <=> p = Len(s)
                /\ After(s, p) # NULL => p + 1 \in 1 .. Len(s) /\ s[p + 1] = After(s, p)
          BY <3>2, SActives
        <4>3. /\ After(s, p) = NULL \/ In(s, After(s, p))
              /\ PlaceIn(s, After(s, p)) = to /\ sAct' = After(s, p)
          BY <1>1, <1>2, <3>2, <4>1, <4>2 DEF SRow
        <4>4. SKept /\ SL!List!Moves(PlaceIn(s, After(s, p)))
          BY <4>1, <4>3, SMovesTo
        <4> QED
          BY <4>3, <4>4 DEF SL!List!Moves, SL!List!Becomes
      <3> QED
        BY <3>1, <3>2
    <2>2. SL!List!Next
      BY <1>4, <2>1 DEF SL!List!Next, SItemsOf
    <2> QED
      BY <2>1, <2>2, SKeeps
  <1> QED
    BY <1>3, <1>4

LEMMA SCopiesStep ==
  ASSUME NEW s, SListed(s), sres # "crash",
         \/ scall' = << "copyFirst" >> /\ SL!CopyFirst
         \/ scall' = << "copy" >> /\ SL!Copy
         \/ scall' = << "active" >> /\ SL!Active
  PROVE  SStepped
  <1>1. /\ SL!ActPlace = PlaceIn(s, sAct) /\ SItemsOf = Data(smem, s) /\ SActive = sAct
        /\ SL!List!Empty <=> Len(s) = 0
        /\ SL!List!Active <=> sAct # NULL
    BY SAbstract
  <1>2. SRow(s) /\ Error # "crash" /\ "crash" \notin Values
    BY SRows, NoNode
  <1>3. CASE scall' = << "copyFirst" >> /\ SL!CopyFirst
    <2>1. PICK r : r = IF SL!List!Empty THEN Error ELSE SItemsOf[1]
      OBVIOUS
    <2>2. SL!Answers(r) /\ r # "crash"
      BY <1>1, <1>2, <1>3, <2>1 DEF SRow, SL!CopyFirst, SL!ErrorCall
    <2>3. SKept /\ SL!List!Answers(r)
      BY <2>2, SStays
    <2>4. SL!List!Answers(IF SL!List!Empty THEN Error ELSE SItemsOf[1])
      BY <2>1, <2>3 DEF SL!List!Answers
    <2>5. SL!List!Next
      BY <1>3, <2>4 DEF SL!List!Next, SItemsOf
    <2> QED
      BY <2>3, <2>5, SKeeps
  <1>4. CASE scall' = << "copy" >> /\ SL!Copy
    <2>1. PICK r : r = IF SL!List!Active THEN SItemsOf[SL!ActPlace] ELSE Error
      OBVIOUS
    <2>2. SL!Answers(r) /\ r # "crash"
      BY <1>1, <1>2, <1>4, <2>1 DEF SRow, SL!Copy, SL!ErrorCall
    <2>3. SKept /\ SL!List!Answers(r)
      BY <2>2, SStays
    <2>4. SL!List!Answers(IF SL!List!Active THEN SItemsOf[SL!ActPlace] ELSE Error)
      BY <2>1, <2>3 DEF SL!List!Answers
    <2>5. SL!List!Next
      BY <1>4, <2>4 DEF SL!List!Next, SItemsOf
    <2> QED
      BY <2>3, <2>5, SKeeps
  <1>5. CASE scall' = << "active" >> /\ SL!Active
    <2>1. PICK r : r = IF SL!List!Active THEN "active" ELSE "inactive"
      OBVIOUS
    <2>2. SL!Answers(r) /\ r # "crash"
      BY <1>1, <1>5, <2>1 DEF SL!Active
    <2>3. SKept /\ SL!List!Answers(r)
      BY <2>2, SStays
    <2>4. SL!List!Answers(IF SL!List!Active THEN "active" ELSE "inactive")
      BY <2>1, <2>3 DEF SL!List!Answers
    <2>5. SL!List!Next
      BY <1>5, <2>4 DEF SL!List!Next
    <2> QED
      BY <2>3, <2>5, SKeeps
  <1> QED
    BY <1>3, <1>4, <1>5

LEMMA SDeletesStep ==
  ASSUME NEW s, SListed(s), sres # "crash",
         \/ scall' = << "deleteFirst" >> /\ SL!DeleteFirst
         \/ scall' = << "postDelete" >> /\ SL!PostDelete
  PROVE  SStepped
  <1>1. /\ SL!ActPlace = PlaceIn(s, sAct) /\ Len(SItemsOf) = Len(s)
        /\ SL!List!Empty <=> Len(s) = 0
        /\ SL!List!Active <=> sAct # NULL
        /\ sFirst = NULL <=> Len(s) = 0
    BY SAbstract
  <1>2. ASSUME SL!Answers(Done) PROVE SKept /\ SL!List!Nothing
    BY <1>2, SStays, NoNode DEF SL!List!Nothing
  <1>3. CASE scall' = << "deleteFirst" >> /\ SL!DeleteFirst
    <2>1. CASE sFirst = NULL
      <3>1. SKept /\ SL!List!Nothing
        BY <1>2, <1>3, <2>1 DEF SL!DeleteFirst, SL!Return
      <3>2. SL!List!Next
        BY <1>1, <1>3, <2>1, <3>1 DEF SL!List!Next
      <3> QED
        BY <3>1, <3>2, SKeeps
    <2>2. CASE sFirst # NULL
      <3>1. SKept /\ SL!List!Deletes(1)
        BY <1>3, <2>2, SDeleteFirst
      <3>2. SL!List!Next
        BY <1>1, <1>3, <2>2, <3>1 DEF SL!List!Next
      <3> QED
        BY <3>1, <3>2, SKeeps
    <2> QED
      BY <2>1, <2>2
  <1>4. CASE scall' = << "postDelete" >> /\ SL!PostDelete
    <2>1. CASE sAct = NULL \/ smem[sAct].ptr = NULL
      <3>1. SKept /\ SL!List!Nothing
        BY <1>2, <1>4, <2>1 DEF SL!PostDelete, SL!Return
      <3>2. sAct # NULL => PlaceIn(s, sAct) = Len(s)
        <4>1. ASSUME sAct # NULL, smem[sAct].ptr = NULL PROVE PlaceIn(s, sAct) = Len(s)
          BY <4>1, SActives
        <4> QED
          BY <2>1, <4>1
      <3>3. ~ (SL!List!Active /\ SL!ActPlace < Len(SItemsOf))
        BY <1>1, <3>2, SRows DEF SRow
      <3>4. SL!List!Next
        BY <1>4, <3>1, <3>3 DEF SL!List!Next, SItemsOf
      <3> QED
        BY <3>1, <3>4, SKeeps
    <2>2. CASE sAct # NULL /\ smem[sAct].ptr # NULL
      <3>1. PlaceIn(s, sAct) < Len(s) /\ SKept /\ SL!List!Deletes(PlaceIn(s, sAct) + 1)
        BY <1>4, <2>2, SPostDelete
      <3>2. SL!List!Deletes(SL!ActPlace + 1)
        BY <1>1, <3>1, Zenon DEF SL!List!Deletes, SL!List!Becomes, SL!List!Without
      <3>3. SL!List!Active /\ SL!ActPlace < Len(SItemsOf)
        BY <1>1, <2>2, <3>1
      <3>4. SL!List!Next
        BY <1>4, <3>2, <3>3 DEF SL!List!Next, SItemsOf
      <3> QED
        BY <3>1, <3>4, SKeeps
    <2> QED
      BY <2>1, <2>2
  <1> QED
    BY <1>3, <1>4

LEMMA SStep ==
  ASSUME SGood, SL!Next
  PROVE  SStepped
  <1>1. PICK s : SListed(s)
    BY DEF SGood
  <1> QED
    BY <1>1, SDisposeStep, SInsertsStep, SMovesStep, SCopiesStep, SDeletesStep DEF SL!Next, SL!Call

LEMMA SInit ==
  ASSUME SL!Init
  PROVE  SGood /\ SL!List!Init
  <1>1. smem = << >> /\ sFirst = NULL /\ sAct = NULL /\ scall = << "dispose" >> /\ sres = Done
    BY DEF SL!Init
  <1>2. Row(<< >>) /\ Len(<< >>) = 0 /\ DOMAIN smem = {} /\ smem \in [{} -> SElement]
    BY <1>1 DEF Row
  <1>3. SActive = NULL /\ SAnswer = Done
    BY <1>1 DEF SActive, SAnswer
  <1>4. SListed(<< >>)
    BY <1>1, <1>2, <1>3 DEF SListed, SLinked, In, FirstOf
  <1>5. SShows(<< >>)
    BY <1>4, SSeen
  <1>6. PlaceIn(<< >>, SActive) = 0 /\ Data(smem, << >>) = << >>
    BY <1>2, <1>3, EmptySeq DEF PlaceIn, Data
  <1> QED
    BY <1>1, <1>3, <1>4, <1>5, <1>6 DEF SGood, SShows, SItemsOf, SAnswer, SL!List!Init

LEMMA SIdle ==
  ASSUME SGood, UNCHANGED slist
  PROVE  SGood' /\ UNCHANGED << SItemsOf, SL!ActPlace, scall, SAnswer >> /\ UNCHANGED SL!vars
  <1>1. PICK s : SListed(s)
    BY DEF SGood
  <1>2. UNCHANGED << smem, sFirst, sAct, scall, sres >>
    BY DEF slist
  <1>3. SActive' = SActive /\ SAnswer' = SAnswer
    BY <1>2 DEF SActive, SAnswer
  <1>4. SListed(s)'
    BY <1>1, <1>2, <1>3 DEF SListed
  <1>5. SShows(s) /\ SShows(s)'
    BY <1>1, <1>4, SSeen, SSeenNext
  <1> QED
    BY <1>2, <1>3, <1>4, <1>5 DEF SGood, SShows, SL!vars, SL!list

(* c201 implements the list with an active item; DisposeList alone loses   *)
(* memory, one element of each list of two or more, and crashes on a list  *)
(* of one.                                                                 *)
THEOREM SinglyLinked == Structures => SL!ListSpec
  <1>1. StructuresInit => SGood /\ SL!List!Init
    BY SInit DEF StructuresInit
  <1>2. SGood /\ [StructuresNext]_all =>
          /\ SGood'
          /\ [SL!List!Next]_<< SItemsOf, SL!ActPlace, scall, SAnswer >>
          /\ [SLoses]_SL!vars /\ [SCrashes]_SL!vars
    <2>1. ASSUME SGood, UNCHANGED slist
          PROVE  /\ SGood'
                 /\ [SL!List!Next]_<< SItemsOf, SL!ActPlace, scall, SAnswer >>
                 /\ [SLoses]_SL!vars /\ [SCrashes]_SL!vars
      BY <2>1, SIdle
    <2>2. ASSUME SGood, SL!Next
          PROVE  /\ SGood'
                 /\ [SL!List!Next]_<< SItemsOf, SL!ActPlace, scall, SAnswer >>
                 /\ [SLoses]_SL!vars /\ [SCrashes]_SL!vars
      BY <2>2, SStep DEF SStepped
    <2>3. [StructuresNext]_all => SL!Next \/ UNCHANGED slist
      BY DEF StructuresNext, all
    <2> QED
      BY <2>1, <2>2, <2>3
  <1> QED
    BY <1>1, <1>2, PTL DEF Structures, SL!ListSpec, SL!List!Spec, SItemsOf, SAnswer, SLoses, SCrashes

(* Both lists are sequences with an active item.                           *)
THEOREM ListsImplement == Structures => ListsImplemented
  BY DoublyLinked, SinglyLinked DEF ListsImplemented

-----------------------------------------------------------------------------
(* The queue c203 implements a FIFO for every QUEUE_SIZE and every set of  *)
(* characters.  Its type invariant is inductive by itself; what is to be   *)
(* shown is that a step of the indices around the array is an Append or a  *)
(* Tail of the sequence they stand for.                                    *)

Indices == 0 .. QUEUE_SIZE - 1

(* The remainder is needed only at the end of the array.                   *)
LEMMA Around ==
  ASSUME NEW index \in Indices
  PROVE  /\ nextIndex(index) = IF index + 1 = QUEUE_SIZE THEN 0 ELSE index + 1
         /\ nextIndex(index) \in Indices
  BY QueueAssumption DEF nextIndex, Indices

(* No index leaves the array, and nothing else is answered than characters *)
(* and the two signs.                                                      *)
Characters == Values \cup {Star}

LEMMA Typed == Init => TypeOK
  BY QueueAssumption DEF Init, TypeOK

LEMMA StaysTyped == TypeOK /\ [Next]_vars => TypeOK'
  <1> SUFFICES ASSUME TypeOK, [Next]_vars PROVE TypeOK'
    OBVIOUS
  <1>0. /\ f_index \in Indices /\ b_index \in Indices
        /\ nextIndex(f_index) \in Indices /\ nextIndex(b_index) \in Indices
    BY Around DEF TypeOK, Indices
  <1>1. CASE queueInit
    BY QueueAssumption, <1>1 DEF queueInit, TypeOK
  <1> QED
    BY <1>0, <1>1
       DEF Next, vars, TypeOK, Indices, queueError, queueFront, queueRemove, queueGet, queueUp

(* The array of the queue and its indices keep their types.                *)
THEOREM TypeCorrect == Spec => []TypeOK
  BY Typed, StaysTyped, PTL DEF Spec

-----------------------------------------------------------------------------
(* The sequence in the array.                                              *)

LEMMA Counted ==
  ASSUME TypeOK
  PROVE  /\ Count \in Nat /\ Count <= QUEUE_SIZE - 1
         /\ queueEmpty <=> Count = 0
         /\ queueFull <=> Count = QUEUE_SIZE - 1
  <1>1. f_index \in Indices /\ b_index \in Indices
    BY DEF TypeOK, Indices
  <1>2. Count \in Nat /\ Count <= QUEUE_SIZE - 1 /\ (queueEmpty <=> Count = 0)
    BY QueueAssumption, <1>1 DEF Count, queueEmpty, Indices
  <1>3. queueFull <=> (IF b_index + 1 = QUEUE_SIZE THEN 0 ELSE b_index + 1) = f_index
    BY <1>1, Around DEF queueFull
  <1> QED
    BY QueueAssumption, <1>1, <1>2, <1>3 DEF Count, Indices

(* The places of the queue are the indices from f_index up to b_index.     *)
LEMMA QPlaced ==
  ASSUME TypeOK
  PROVE  /\ \A k \in 1 .. Count : Place(k) \in Indices /\ Place(k) # b_index
         /\ ~ queueEmpty => Place(1) = f_index
         /\ Place(Count + 1) = b_index
  BY QueueAssumption DEF TypeOK, Indices, Count, Place, queueEmpty

LEMMA ContentsSequence ==
  ASSUME TypeOK
  PROVE  Contents \in Seq(Characters) /\ Len(Contents) = Count
  <1>1. \A k \in 1 .. Count : arr[Place(k)] \in Characters
    BY QPlaced DEF TypeOK, Indices, Characters
  <1> QED
    BY <1>1, Counted DEF Contents

(* The same after a step.                                                  *)
LEMMA ContentsSequenceNext ==
  TypeOK' => Contents' \in Seq(Characters) /\ Len(Contents') = Count'
  <1> DEFINE Sequence == Contents \in Seq(Characters) /\ Len(Contents) = Count
  <1>1. TypeOK => Sequence
    BY ContentsSequence
  <1> HIDE DEF Sequence
  <1>2. TypeOK' => Sequence'
    BY <1>1, PTL
  <1> QED
    BY <1>2 DEF Sequence, Characters

-----------------------------------------------------------------------------
(* The steps.                                                              *)

LEMMA InitRefines == Init => Queued!Init
  <1> SUFFICES ASSUME Init PROVE Contents = << >> /\ call = << "init" >> /\ res = Done
    BY DEF Queued!Init
  <1>1. TypeOK
    BY Typed
  <1>2. Count = 0
    BY DEF Init, Count
  <1> QED
    BY <1>1, <1>2, ContentsSequence DEF Init

(* What is written at b_index comes after all there is.                    *)
LEMMA UpAppends ==
  ASSUME TypeOK, TypeOK', NEW c \in Values, queueUp(c), ~ queueFull
  PROVE  Contents' = Append(Contents, c)
  <1>1. /\ arr' = [arr EXCEPT ![b_index] = c] /\ f_index' = f_index
        /\ b_index' = (IF b_index + 1 = QUEUE_SIZE THEN 0 ELSE b_index + 1)
    BY Around, Zenon DEF queueUp, TypeOK, Indices
  <1>2. Count' = Count + 1
    BY QueueAssumption, <1>1, Counted DEF TypeOK, Count, queueFull
  <1>3. \A k \in 1 .. Count' : Place(k)' = Place(k)
    BY <1>1 DEF Place
  <1>4. \A k \in 1 .. Count : arr'[Place(k)] = arr[Place(k)]
    BY <1>1, QPlaced DEF TypeOK, Indices
  <1>5. arr'[Place(Count + 1)] = c
    BY <1>1, QPlaced DEF TypeOK
  <1>6. Contents' \in Seq(Characters) /\ Len(Contents') = Count + 1
    BY <1>2, ContentsSequenceNext
  <1>7. \A k \in 1 .. Count + 1 : Contents'[k] = Append(Contents, c)[k]
    BY <1>2, <1>3, <1>4, <1>5, ContentsSequence, Counted DEF Contents, Characters
  <1> QED
    BY <1>6, <1>7, ContentsSequence, Counted DEF Characters

(* Without its first place the sequence is its tail.                       *)
LEMMA FrontLeaves ==
  ASSUME TypeOK, TypeOK', ~ queueEmpty,
         f_index' = nextIndex(f_index), UNCHANGED << arr, b_index >>
  PROVE  Contents' = Tail(Contents)
  <1>1. f_index' = IF f_index + 1 = QUEUE_SIZE THEN 0 ELSE f_index + 1
    BY Around, Zenon DEF TypeOK, Indices
  <1>2. Count' = Count - 1 /\ Count > 0
    BY QueueAssumption, <1>1, Counted DEF TypeOK, Count, queueEmpty
  <1>3. \A k \in 1 .. Count - 1 : Place(k)' = Place(k + 1)
    BY QueueAssumption, <1>1, Counted DEF TypeOK, Place
  <1>4. Contents' \in Seq(Characters) /\ Len(Contents') = Count - 1
    BY <1>2, ContentsSequenceNext
  <1>5. \A k \in 1 .. Count - 1 : Contents'[k] = Tail(Contents)[k]
    BY <1>2, <1>3, ContentsSequence, Counted DEF Contents
  <1> QED
    BY <1>2, <1>4, <1>5, ContentsSequence, Counted

LEMMA FrontIsHead ==
  ASSUME TypeOK, ~ queueEmpty
  PROVE  Contents # << >> /\ Head(Contents) = arr[f_index]
  <1>1. Count > 0 /\ Place(1) = f_index
    BY Counted, QPlaced
  <1> QED
    BY <1>1, ContentsSequence, Counted DEF Contents

LEMMA StepRefines ==
  ASSUME TypeOK, TypeOK', Next
  PROVE  Queued!Next
  <1>1. queueEmpty <=> Contents = << >>
    BY Counted, ContentsSequence
  <1>2. UNCHANGED << arr, f_index, b_index >> => Contents' = Contents
    BY DEF Contents, Count, Place
  <1>3. CASE call' = << "init" >> /\ queueInit
    <2>1. Count' = 0
      BY <1>3 DEF queueInit, Count
    <2>2. Contents' = << >>
      BY <2>1, ContentsSequenceNext
    <2> QED
      BY <1>3, <2>2 DEF queueInit, Queued!Clear, Queued!Next
  <1>4. CASE call' = << "front" >> /\ queueFront
    BY <1>1, <1>2, <1>4, FrontIsHead DEF queueFront, queueError, Queued!Front, Queued!Next
  <1>5. CASE call' = << "remove" >> /\ queueRemove
    BY <1>1, <1>2, <1>5, FrontLeaves DEF queueRemove, queueError, Queued!Remove, Queued!Next
  <1>6. CASE call' = << "get" >> /\ queueGet
    BY <1>1, <1>2, <1>6, FrontLeaves, FrontIsHead DEF queueGet, queueError, Queued!Get, Queued!Next
  <1>7. ASSUME NEW c \in Values, call' = << "up", c >>, queueUp(c) PROVE Queued!Next
    <2>1. queueFull <=> ~ (Len(Contents) < QUEUE_SIZE - 1)
      BY QueueAssumption, Counted, ContentsSequence
    <2>2. CASE queueFull
      BY <1>2, <1>7, <2>1, <2>2 DEF queueUp, queueError, Queued!Up, Queued!Next
    <2>3. CASE ~ queueFull
      BY <1>7, <2>1, <2>3, UpAppends DEF queueUp, Queued!Up, Queued!Next
    <2> QED
      BY <2>2, <2>3
  <1> QED
    BY <1>3, <1>4, <1>5, <1>6, <1>7 DEF Next

(* The circular array is a FIFO of QUEUE_SIZE - 1 characters, whatever its *)
(* size: no call loses, doubles or reorders a character, and full and      *)
(* empty are told apart.                                                   *)
THEOREM QueueIsFifo == Spec => FifoSpec
  <1>1. TypeOK /\ TypeOK' /\ [Next]_vars => [Queued!Next]_<< Contents, call, res >>
    <2>1. ASSUME UNCHANGED vars PROVE UNCHANGED << Contents, call, res >>
      BY <2>1 DEF vars, Contents, Count, Place
    <2> QED
      BY <2>1, StepRefines
  <1> QED
    BY <1>1, InitRefines, TypeCorrect, PTL DEF Spec, FifoSpec, Queued!Spec
-----------------------------------------------------------------------------
(* The table c016 and the search tree c401 are dictionaries.               *)

(* What a set of items stands for.                                         *)

Item == [key : Keys, data : Values]

(* No two items with the same key.                                         *)
Single(items) == \A item, other \in items : item.key = other.key => item = other

MapOf(items) ==
  [key \in {item.key : item \in items} |-> (CHOOSE item \in items : item.key = key).data]

Without(items, key) == {item \in items : item.key # key}

LEMMA MapValue ==
  ASSUME NEW items, Single(items), NEW item \in items
  PROVE  item.key \in DOMAIN MapOf(items) /\ MapOf(items)[item.key] = item.data
  <1>1. (CHOOSE other \in items : other.key = item.key) = item
    BY DEF Single
  <1> QED
    BY <1>1 DEF MapOf

LEMMA MapEmpty == MapOf({}) = << >>
  BY DEF MapOf

LEMMA MapWithout ==
  ASSUME NEW items, Single(items), NEW key
  PROVE  /\ Single(Without(items, key))
         /\ MapOf(Without(items, key)) = [k \in DOMAIN MapOf(items) \ {key} |-> MapOf(items)[k]]
  <1> DEFINE rest == Without(items, key)
  <1>1. Single(rest)
    BY DEF Single, Without
  <1>2. DOMAIN MapOf(rest) = DOMAIN MapOf(items) \ {key}
    BY DEF MapOf, Without
  <1>3. ASSUME NEW k \in DOMAIN MapOf(rest) PROVE MapOf(rest)[k] = MapOf(items)[k]
    <2>1. PICK item \in rest : item.key = k
      BY DEF MapOf
    <2>2. item \in items
      BY <2>1 DEF Without
    <2> HIDE DEF rest
    <2> QED
      BY <1>1, <2>1, <2>2, MapValue
  <1> HIDE DEF rest
  <1>4. MapOf(rest) = [k \in DOMAIN MapOf(rest) |-> MapOf(rest)[k]]
    BY DEF MapOf
  <1> QED
    BY <1>1, <1>2, <1>3, <1>4 DEF rest

MapPlus(map, key, data) == [k \in {key} \cup DOMAIN map |-> IF k = key THEN data ELSE map[k]]

LEMMA MapWith ==
  ASSUME NEW items, Single(items), NEW item, NEW others, others = Without(items, item.key) \cup {item}
  PROVE  /\ Single(others)
         /\ MapOf(others) = MapPlus(MapOf(items), item.key, item.data)
  <1>1. Single(others)
    BY DEF Single, Without
  <1>2. DOMAIN MapOf(others) = {item.key} \cup DOMAIN MapOf(items)
    BY DEF MapOf, Without
  <1>3. ASSUME NEW k \in DOMAIN MapOf(others)
        PROVE  MapOf(others)[k] = IF k = item.key THEN item.data ELSE MapOf(items)[k]
    <2>1. PICK other \in others : other.key = k
      BY DEF MapOf
    <2>2. MapOf(others)[k] = other.data
      BY <1>1, <2>1, MapValue
    <2>3. CASE k = item.key
      BY <2>1, <2>2, <2>3 DEF Without
    <2>4. CASE k # item.key
      <3>1. other \in items
        BY <2>1, <2>4 DEF Without
      <3>2. MapOf(items)[k] = other.data
        BY <2>1, <3>1, MapValue
      <3> QED
        BY <2>2, <2>4, <3>2
    <2> QED
      BY <2>3, <2>4
  <1>4. MapOf(others) = [k \in DOMAIN MapOf(others) |-> MapOf(others)[k]]
    BY DEF MapOf
  <1> QED
    BY <1>1, <1>2, <1>3, <1>4 DEF MapPlus

-----------------------------------------------------------------------------
(* The chains of c016.                                                     *)

LEMMA Hashed ==
  /\ HTSIZE \in Nat \ {0} /\ Keys \subseteq Nat
  /\ \A key \in Keys : HT!hashCode(key) \in HT!Chains
  <1>1. HTSIZE \in Nat \ {0} /\ [key \in Keys |-> key] \in [Keys -> Nat]
    BY TableAssumption DEF HT!TableAssumption
  <1>2. \A key \in Keys : key \in Nat /\ [k \in Keys |-> k][key] = key
    BY <1>1
  <1> QED
    BY <1>1, <1>2 DEF HT!hashCode, HT!Chains

(* A chain: items of keys that belong in it, none of them twice.           *)
Chained(i, c) ==
  /\ c \in Seq(Item)
  /\ \A k \in 1 .. Len(c) : HT!hashCode(c[k].key) = i
  /\ \A j, k \in 1 .. Len(c) : c[j].key = c[k].key => j = k

Table(P) == P = [i \in HT!Chains |-> P[i]] /\ \A i \in HT!Chains : Chained(i, P[i])

InChain(c) == {c[k] : k \in 1 .. Len(c)}
ItemsOf(P) == UNION {InChain(P[i]) : i \in HT!Chains}

LEMMA TableItems ==
  ASSUME NEW P, Table(P)
  PROVE  /\ ItemsOf(P) \subseteq Item /\ Single(ItemsOf(P))
         /\ \A i \in HT!Chains : \A item \in InChain(P[i]) : HT!hashCode(item.key) = i
  <1>1. \A i \in HT!Chains : P[i] \in Seq(Item) /\ \A k \in 1 .. Len(P[i]) : P[i][k] \in Item
    BY DEF Table, Chained
  <1>2. \A i \in HT!Chains : \A item \in InChain(P[i]) : HT!hashCode(item.key) = i
    BY DEF Table, Chained, InChain
  <1>3. ASSUME NEW item \in ItemsOf(P), NEW other \in ItemsOf(P), item.key = other.key
        PROVE  item = other
    <2>1. PICK i \in HT!Chains : item \in InChain(P[i])
      BY DEF ItemsOf
    <2>2. PICK j \in HT!Chains : other \in InChain(P[j])
      BY DEF ItemsOf
    <2>3. i = j
      BY <1>2, <1>3, <2>1, <2>2
    <2> QED
      BY <1>3, <2>1, <2>2, <2>3 DEF InChain, Table, Chained
  <1> QED
    BY <1>1, <1>2, <1>3 DEF ItemsOf, InChain, Single

(* One chain becomes another.                                              *)
Exchanged(P, key, h, c, added, L) ==
  /\ key \in Keys /\ h = HT!hashCode(key)
  /\ Chained(h, c)
  /\ InChain(c) = Without(InChain(P[h]), key) \cup added
  /\ L = [P EXCEPT ![h] = c]

LEMMA ChainBecomes ==
  ASSUME NEW P, Table(P), NEW key, NEW h, NEW c, NEW added, NEW L, Exchanged(P, key, h, c, added, L)
  PROVE  Table(L) /\ ItemsOf(L) = Without(ItemsOf(P), key) \cup added
  <1>0. /\ key \in Keys /\ h = HT!hashCode(key) /\ Chained(h, c)
        /\ InChain(c) = Without(InChain(P[h]), key) \cup added
        /\ L = [P EXCEPT ![h] = c]
    BY DEF Exchanged
  <1>1. h \in HT!Chains
    BY <1>0, Hashed
  <1>2. /\ L = [i \in HT!Chains |-> L[i]]
        /\ L[h] = c /\ \A i \in HT!Chains \ {h} : L[i] = P[i]
    BY <1>0, <1>1 DEF Table
  <1>3. \A i \in HT!Chains : \A item \in InChain(P[i]) : HT!hashCode(item.key) = i
    BY TableItems
  <1>4. Table(L)
    BY <1>0, <1>1, <1>2 DEF Table
  <1>5. ItemsOf(L) = Without(ItemsOf(P), key) \cup added
    <2>1. ASSUME NEW i \in HT!Chains \ {h} PROVE Without(InChain(P[i]), key) = InChain(P[i])
      BY <1>0, <1>3 DEF Without
    <2>2. ItemsOf(L) = InChain(c) \cup UNION {InChain(P[i]) : i \in HT!Chains \ {h}}
      BY <1>1, <1>2 DEF ItemsOf
    <2>3. Without(ItemsOf(P), key) = Without(InChain(P[h]), key) \cup UNION {InChain(P[i]) : i \in HT!Chains \ {h}}
      BY <1>1, <2>1 DEF ItemsOf, Without
    <2> QED
      BY <1>0, <2>2, <2>3, Zenon
  <1> QED
    BY <1>4, <1>5

(* A chain with an item changed, with one more in front, with one less.    *)
LEMMA ChainUpdated ==
  ASSUME NEW i, NEW c, Chained(i, c), NEW p \in 1 .. Len(c), NEW data \in Values
  PROVE  /\ Chained(i, [c EXCEPT ![p] = [c[p] EXCEPT !.data = data]])
         /\ InChain([c EXCEPT ![p] = [c[p] EXCEPT !.data = data]])
              = Without(InChain(c), c[p].key) \cup {[key |-> c[p].key, data |-> data]}
  <1> DEFINE item == [c[p] EXCEPT !.data = data]
             r == [c EXCEPT ![p] = item]
  <1>1. /\ c \in Seq(Item) /\ c[p] \in Item
        /\ \A j, k \in 1 .. Len(c) : c[j].key = c[k].key => j = k
        /\ \A k \in 1 .. Len(c) : HT!hashCode(c[k].key) = i
    BY DEF Chained
  <1>2. item = [key |-> c[p].key, data |-> data] /\ item \in Item /\ item.key = c[p].key
    BY <1>1 DEF Item
  <1> HIDE DEF item
  <1>3. /\ r \in Seq(Item) /\ Len(r) = Len(c)
        /\ r[p] = item /\ \A k \in 1 .. Len(c) : k # p => r[k] = c[k]
    BY <1>1, <1>2
  <1> HIDE DEF r
  <1>4. \A k \in 1 .. Len(c) : r[k].key = c[k].key
    BY <1>2, <1>3
  <1>5. Chained(i, r)
    BY <1>1, <1>3, <1>4 DEF Chained
  <1>6. InChain(r) = Without(InChain(c), c[p].key) \cup {item}
    BY <1>1, <1>2, <1>3 DEF InChain, Without
  <1> QED
    BY <1>2, <1>5, <1>6, Zenon DEF r, item

LEMMA ChainLonger ==
  ASSUME NEW i, NEW c, Chained(i, c), NEW item \in Item, HT!hashCode(item.key) = i,
         \A k \in 1 .. Len(c) : c[k].key # item.key
  PROVE  /\ Chained(i, << item >> \o c)
         /\ InChain(<< item >> \o c) = Without(InChain(c), item.key) \cup {item}
  <1> DEFINE r == << item >> \o c
  <1>1. /\ c \in Seq(Item) /\ Len(c) \in Nat
        /\ \A j, k \in 1 .. Len(c) : c[j].key = c[k].key => j = k
        /\ \A k \in 1 .. Len(c) : HT!hashCode(c[k].key) = i
    BY DEF Chained
  <1>2. << item >> \in Seq(Item) /\ Len(<< item >>) = 1 /\ << item >>[1] = item
    OBVIOUS
  <1>3. /\ r \in Seq(Item) /\ Len(r) = Len(c) + 1 /\ r[1] = item
        /\ \A k \in 2 .. Len(c) + 1 : r[k] = c[k - 1]
    <2>1. /\ r \in Seq(Item) /\ Len(r) = 1 + Len(c)
          /\ \A k \in 1 .. 1 + Len(c) : r[k] = IF k <= 1 THEN << item >>[k] ELSE c[k - 1]
      BY <1>1, <1>2, ConcatProperties
    <2> QED
      BY <1>1, <1>2, <2>1
  <1> HIDE DEF r
  <1>4. \A k \in 1 .. Len(c) : k + 1 \in 1 .. Len(r) /\ r[k + 1] = c[k]
    <2> SUFFICES ASSUME NEW k \in 1 .. Len(c) PROVE k + 1 \in 1 .. Len(r) /\ r[k + 1] = c[k]
      OBVIOUS
    <2>1. k + 1 \in 2 .. Len(c) + 1 /\ k + 1 - 1 = k
      BY <1>1
    <2> QED
      BY <1>3, <2>1
  <1>5. \A k \in 1 .. Len(r) : k = 1 \/ (k - 1 \in 1 .. Len(c) /\ r[k] = c[k - 1])
    BY <1>1, <1>3
  <1>6. Chained(i, r)
    <2>1. \A k \in 1 .. Len(r) : HT!hashCode(r[k].key) = i
      BY <1>1, <1>3, <1>5, Zenon
    <2>2. ASSUME NEW j \in 1 .. Len(r), NEW k \in 1 .. Len(r), r[j].key = r[k].key PROVE j = k
      <3>1. j = 1 <=> k = 1
        BY <1>3, <1>5, <2>2, Zenon
      <3>2. CASE j # 1 /\ k # 1
        <4>1. j - 1 = k - 1
          BY <1>1, <1>5, <2>2, <3>2
        <4> QED
          BY <1>3, <4>1
      <3> QED
        BY <3>1, <3>2
    <2> QED
      BY <1>3, <2>1, <2>2 DEF Chained
  <1>7. InChain(r) = Without(InChain(c), item.key) \cup {item}
    <2>1. Without(InChain(c), item.key) = InChain(c)
      BY DEF InChain, Without
    <2>2. ASSUME NEW x \in InChain(r) PROVE x \in InChain(c) \cup {item}
      BY <1>3, <1>5 DEF InChain
    <2>3. ASSUME NEW x \in InChain(c) PROVE x \in InChain(r)
      BY <1>4 DEF InChain
    <2>4. item \in InChain(r)
      BY <1>1, <1>3 DEF InChain
    <2> QED
      BY <2>1, <2>2, <2>3, <2>4
  <1> QED
    BY <1>6, <1>7 DEF r

LEMMA ChainShorter ==
  ASSUME NEW i, NEW c, Chained(i, c), NEW p \in 1 .. Len(c)
  PROVE  /\ Chained(i, Cut(c, p))
         /\ InChain(Cut(c, p)) = Without(InChain(c), c[p].key)
  <1> DEFINE r == Cut(c, p)
  <1>1. /\ c \in Seq(Item) /\ Len(c) \in Nat
        /\ \A j, k \in 1 .. Len(c) : c[j].key = c[k].key => j = k
        /\ \A k \in 1 .. Len(c) : HT!hashCode(c[k].key) = i
    BY DEF Chained
  <1>2. r \in Seq(Item) /\ Len(r) = Len(c) - 1
    BY <1>1, CutSequence
  <1>3. /\ \A k \in 1 .. Len(c) : k < p => k \in 1 .. Len(c) - 1 /\ r[k] = c[k]
        /\ \A k \in 1 .. Len(c) : k > p => k - 1 \in 1 .. Len(c) - 1 /\ r[k - 1] = c[k]
        /\ \A k \in 1 .. Len(c) - 1 :
             \/ k < p /\ k \in 1 .. Len(c) /\ r[k] = c[k]
             \/ k >= p /\ k + 1 \in 1 .. Len(c) /\ r[k] = c[k + 1]
    BY <1>1, CutPlaces
  <1> HIDE DEF r
  <1>4. Chained(i, r)
    <2>1. \A k \in 1 .. Len(r) : HT!hashCode(r[k].key) = i
      BY <1>1, <1>2, <1>3
    <2>2. ASSUME NEW j \in 1 .. Len(r), NEW k \in 1 .. Len(r), r[j].key = r[k].key PROVE j = k
      <3>1. CASE j < p
        BY <1>1, <1>2, <1>3, <2>2, <3>1
      <3>2. CASE j >= p
        BY <1>1, <1>2, <1>3, <2>2, <3>2
      <3> QED
        BY <1>2, <3>1, <3>2
    <2> QED
      BY <1>2, <2>1, <2>2 DEF Chained
  <1>5. InChain(r) = Without(InChain(c), c[p].key)
    <2>1. ASSUME NEW x \in InChain(r) PROVE x \in Without(InChain(c), c[p].key)
      <3>1. PICK k \in 1 .. Len(c) - 1 : x = r[k]
        BY <1>2 DEF InChain
      <3>2. PICK j \in 1 .. Len(c) : x = c[j] /\ j # p
        <4>1. CASE k < p
          <5>1. k \in 1 .. Len(c) /\ r[k] = c[k] /\ k # p
            BY <1>1, <1>3, <4>1
          <5> QED
            BY <3>1, <5>1
        <4>2. CASE k >= p
          <5>1. k + 1 \in 1 .. Len(c) /\ r[k] = c[k + 1] /\ k + 1 # p
            BY <1>1, <1>3, <4>2
          <5> QED
            BY <3>1, <5>1
        <4> QED
          BY <1>1, <4>1, <4>2
      <3> QED
        BY <1>1, <3>2 DEF InChain, Without
    <2>2. ASSUME NEW x \in Without(InChain(c), c[p].key) PROVE x \in InChain(r)
      <3>1. PICK j \in 1 .. Len(c) : x = c[j] /\ j # p
        BY DEF InChain, Without
      <3>2. \E k \in 1 .. Len(c) - 1 : x = r[k]
        <4>1. j < p \/ j > p
          BY <1>1, <3>1
        <4> QED
          BY <1>3, <3>1, <4>1
      <3> QED
        BY <1>2, <3>2 DEF InChain
    <2> QED
      BY <2>1, <2>2, Zenon
  <1> QED
    BY <1>4, <1>5 DEF r

(* What a search in a chain finds.                                         *)
LEMMA Finds ==
  ASSUME Table(ptrht), NEW key \in Keys
  PROVE  LET c == ptrht[HT!hashCode(key)] IN
         /\ Chained(HT!hashCode(key), c)
         /\ HT!Places(key) = {} => /\ \A k \in 1 .. Len(c) : c[k].key # key
                                   /\ \A item \in ItemsOf(ptrht) : item.key # key
         /\ HT!Places(key) # {} => /\ HT!First(HT!Places(key)) \in 1 .. Len(c)
                                   /\ c[HT!First(HT!Places(key))].key = key
                                   /\ c[HT!First(HT!Places(key))] \in ItemsOf(ptrht)
  <1> DEFINE h == HT!hashCode(key)
             c == ptrht[h]
  <1>1. h \in HT!Chains /\ Chained(h, c)
    BY Hashed DEF Table
  <1>2. c \in Seq(Item) /\ DOMAIN c = 1 .. Len(c) /\ \A j, k \in 1 .. Len(c) : c[j].key = c[k].key => j = k
    BY <1>1 DEF Chained
  <1>3. HT!Places(key) = {k \in 1 .. Len(c) : c[k].key = key}
    BY <1>2 DEF HT!Places
  <1>4. CASE HT!Places(key) = {}
    <2>1. \A k \in 1 .. Len(c) : c[k].key # key
      BY <1>3, <1>4
    <2>2. ASSUME NEW item \in ItemsOf(ptrht), item.key = key PROVE FALSE
      <3>1. PICK i \in HT!Chains : item \in InChain(ptrht[i])
        BY <2>2 DEF ItemsOf
      <3>2. i = h
        BY <2>2, <3>1, TableItems
      <3> QED
        BY <2>1, <2>2, <3>1, <3>2 DEF InChain
    <2> QED
      BY <1>1, <1>4, <2>1, <2>2
  <1>5. CASE HT!Places(key) # {}
    <2>1. PICK p \in 1 .. Len(c) : HT!Places(key) = {p} /\ c[p].key = key
      BY <1>2, <1>3, <1>5
    <2>2. HT!First({p}) = p
      BY <1>2 DEF HT!First
    <2>3. c[p] \in ItemsOf(ptrht)
      BY <1>1 DEF ItemsOf, InChain
    <2> QED
      BY <1>1, <1>5, <2>1, <2>2, <2>3
  <1> QED
    BY <1>4, <1>5

(* The dictionary the table stands for.                                    *)
Entries == MapOf(ItemsOf(ptrht))

LEMMA EntriesSeen ==
  ASSUME Table(ptrht)
  PROVE  HT!Items = ItemsOf(ptrht)
  <1>1. ASSUME NEW i \in HT!Chains PROVE {ptrht[i][k] : k \in DOMAIN ptrht[i]} = InChain(ptrht[i])
    <2>1. DOMAIN ptrht[i] = 1 .. Len(ptrht[i])
      BY DEF Table, Chained
    <2> QED
      BY <2>1 DEF InChain
  <1> QED
    BY <1>1 DEF HT!Items, ItemsOf

(* What is to be shown of a step.                                          *)
HSteps == Table(ptrht)' /\ HT!Map!Next

LEMMA MapSeen ==
  ASSUME Table(ptrht)
  PROVE  [key \in {item.key : item \in HT!Items} |-> (CHOOSE item \in HT!Items : item.key = key).data] = Entries
  BY EntriesSeen DEF Entries, MapOf

HEntries == [key \in {item.key : item \in HT!Items} |-> (CHOOSE item \in HT!Items : item.key = key).data]

LEMMA MapSeenNext == Table(ptrht)' => HEntries' = Entries'
  <1> DEFINE Tabled == Table(ptrht)
             Same == HEntries = Entries
  <1>1. Tabled => Same
    BY MapSeen DEF HEntries
  <1> HIDE DEF Tabled, Same
  <1>2. Tabled' => Same'
    BY <1>1, PTL
  <1> QED
    BY <1>2 DEF Tabled, Same

LEMMA HClears ==
  ASSUME hcall' = << "clear" >>, HT!htClearAll
  PROVE  HSteps
  <1>1. ptrht' = [i \in HT!Chains |-> << >>] /\ hres' = Done
    BY DEF HT!htClearAll
  <1>2. \A i \in HT!Chains : ptrht'[i] = << >>
    BY <1>1
  <1>3. Table(ptrht)' /\ Table(ptrht')
    <2>1. \A i \in HT!Chains : Chained(i, << >>)
      BY DEF Chained
    <2> QED
      BY <1>1, <1>2, <2>1 DEF Table, HT!Chains
  <1>4. ItemsOf(ptrht') = {}
    BY <1>2 DEF ItemsOf, InChain
  <1>5. HEntries' = << >>
    BY <1>3, <1>4, MapSeenNext, MapEmpty DEF Entries
  <1> QED
    BY <1>1, <1>3, <1>5 DEF HSteps, HEntries, HT!Map!Next, HT!Map!Clear, HT!Map!Becomes

LEMMA HSearches ==
  ASSUME Table(ptrht), NEW key \in Keys, hcall' = << "search", key >>, HT!htSearch(key)
  PROVE  HSteps
  <1>1. ptrht' = ptrht /\ Table(ptrht)'
    BY DEF HT!htSearch, Table, HT!Chains, Chained, HT!hashCode
  <1>2. HEntries = Entries /\ HEntries' = HEntries
    BY <1>1, MapSeen DEF HEntries, HT!Items, HT!Chains
  <1>3. hres' = IF key \in DOMAIN Entries THEN Entries[key] ELSE None
    <2>1. Single(ItemsOf(ptrht))
      BY TableItems
    <2>2. CASE HT!Places(key) = {}
      <3>1. key \notin DOMAIN Entries
        BY <2>2, Finds DEF Entries, MapOf
      <3> QED
        BY <2>2, <3>1 DEF HT!htSearch
    <2>3. CASE HT!Places(key) # {}
      <3>1. PICK item \in ItemsOf(ptrht) : item = ptrht[HT!hashCode(key)][HT!First(HT!Places(key))] /\ item.key = key
        BY <2>3, Finds
      <3>2. key \in DOMAIN Entries /\ Entries[key] = item.data
        BY <2>1, <3>1, MapValue DEF Entries
      <3> QED
        BY <2>3, <3>1, <3>2 DEF HT!htSearch
    <2> QED
      BY <2>2, <2>3
  <1> QED
    BY <1>1, <1>2, <1>3, Zenon DEF HSteps, HEntries, HT!Map!Next, HT!Map!Search

(* A step that changes one chain.                                          *)
LEMMA HBecomes ==
  ASSUME Table(ptrht), NEW key \in Keys, NEW STATE c, NEW STATE added,
         Chained(HT!hashCode(key), c),
         InChain(c) = Without(InChain(ptrht[HT!hashCode(key)]), key) \cup added,
         ptrht' = [ptrht EXCEPT ![HT!hashCode(key)] = c]
  PROVE  Table(ptrht)' /\ HEntries' = MapOf(Without(ItemsOf(ptrht), key) \cup added)
  <1>1. PICK P, h, d, more, L :
          P = ptrht /\ h = HT!hashCode(key) /\ d = c /\ more = added /\ L = ptrht'
    OBVIOUS
  <1>2. Table(P) /\ Exchanged(P, key, h, d, more, L)
    BY <1>1 DEF Exchanged
  <1>3. Table(L) /\ ItemsOf(L) = Without(ItemsOf(P), key) \cup more
    BY <1>2, ChainBecomes
  <1>4. Table(ptrht)'
    <2>1. L = [i \in HT!Chains |-> L[i]] /\ \A i \in HT!Chains : Chained(i, L[i])
      BY <1>3 DEF Table
    <2>2. (ptrht = [i \in HT!Chains |-> ptrht[i]])'
      BY <1>1, <2>1, Zenon DEF HT!Chains
    <2>3. (\A i \in HT!Chains : Chained(i, ptrht[i]))'
      BY <1>1, <2>1 DEF HT!Chains, Chained, HT!hashCode
    <2> QED
      BY <2>2, <2>3 DEF Table
  <1>5. Entries' = MapOf(ItemsOf(L))
    BY <1>1 DEF Entries, MapOf, ItemsOf, InChain, HT!Chains
  <1>6. Entries' = MapOf(Without(ItemsOf(ptrht), key) \cup added)
    BY <1>1, <1>3, <1>5
  <1> QED
    BY <1>4, <1>6, MapSeenNext

LEMMA HStays ==
  ASSUME Table(ptrht), ptrht' = ptrht
  PROVE  Table(ptrht)' /\ HEntries = Entries /\ HEntries' = HEntries
  <1>1. Table(ptrht)'
    BY DEF Table, HT!Chains, Chained, HT!hashCode
  <1> QED
    BY <1>1, MapSeen DEF HEntries, HT!Items, HT!Chains

LEMMA HDeletes ==
  ASSUME Table(ptrht), NEW key \in Keys, hcall' = << "delete", key >>, HT!htDelete(key)
  PROVE  HSteps
  <1> DEFINE c == ptrht[HT!hashCode(key)]
             p == HT!First(HT!Places(key))
  <1>1. Single(ItemsOf(ptrht)) /\ HEntries = Entries
    BY TableItems, MapSeen DEF HEntries
  <1>2. Table(ptrht)' /\ HEntries' = [k \in DOMAIN Entries \ {key} |-> Entries[k]]
    <2>1. CASE HT!Places(key) = {}
      <3>1. ptrht' = ptrht
        BY <2>1 DEF HT!htDelete
      <3>2. key \notin DOMAIN Entries
        BY <2>1, Finds DEF Entries, MapOf
      <3>3. Entries = [k \in DOMAIN Entries |-> Entries[k]]
        BY DEF Entries, MapOf
      <3> QED
        BY <3>1, <3>2, <3>3, HStays
    <2>2. CASE HT!Places(key) # {}
      <3>1. Chained(HT!hashCode(key), c) /\ p \in 1 .. Len(c) /\ c[p].key = key
        BY <2>2, Finds
      <3>2. PICK i, s, k : i = HT!hashCode(key) /\ s = c /\ k = p
        OBVIOUS
      <3>3. Chained(i, Cut(s, k)) /\ InChain(Cut(s, k)) = Without(InChain(s), s[k].key)
        BY <3>1, <3>2, ChainShorter
      <3>4. SubSeq(s, 1, k - 1) \o SubSeq(s, k + 1, Len(s)) = Cut(s, k)
        <4>1. s \in Seq(Item) /\ k \in 1 .. Len(s)
          BY <3>1, <3>2 DEF Chained
        <4> QED
          BY <4>1, CutRemoves, Zenon
      <3>5. ptrht' = [ptrht EXCEPT ![HT!hashCode(key)] = Cut(c, p)]
        <4>1. ptrht' = [ptrht EXCEPT ![HT!hashCode(key)] =
                          SubSeq(c, 1, p - 1) \o SubSeq(c, p + 1, Len(c))]
          BY <2>2 DEF HT!htDelete
        <4> QED
          BY <3>2, <3>4, <4>1, Zenon
      <3> HIDE DEF c, p
      <3>6. InChain(Cut(c, p)) = Without(InChain(ptrht[HT!hashCode(key)]), key) \cup {}
        BY <3>1, <3>2, <3>3 DEF c
      <3>7. Chained(HT!hashCode(key), Cut(c, p))
        BY <3>2, <3>3
      <3>8. Table(ptrht)' /\ HEntries' = MapOf(Without(ItemsOf(ptrht), key) \cup {})
        BY <3>5, <3>6, <3>7, HBecomes, Zenon
      <3>9. PICK items : items = ItemsOf(ptrht)
        OBVIOUS
      <3>a. Single(items)
        BY <1>1, <3>9
      <3>10. MapOf(Without(items, key)) = [h \in DOMAIN MapOf(items) \ {key} |-> MapOf(items)[h]]
        BY <3>a, MapWithout, Zenon
      <3> QED
        BY <3>8, <3>9, <3>10 DEF Entries
    <2> QED
      BY <2>1, <2>2
  <1>3. hres' = Done
    BY DEF HT!htDelete
  <1>4. HEntries' = [k \in DOMAIN HEntries \ {key} |-> HEntries[k]]
    BY <1>1, <1>2
  <1>5. HT!Map!Delete(key)
    BY <1>3, <1>4, Zenon DEF HEntries, HT!Map!Delete, HT!Map!Becomes
  <1> QED
    BY <1>2, <1>5 DEF HSteps, HT!Map!Next

LEMMA HInserts ==
  ASSUME Table(ptrht), NEW key \in Keys, NEW data \in Values,
         hcall' = << "insert", key, data >>, HT!htInsert(key, data)
  PROVE  HSteps
  <1> DEFINE h == HT!hashCode(key)
             c == ptrht[h]
             p == HT!First(HT!Places(key))
             item == [key |-> key, data |-> data]
  <1>0. item \in Item /\ item.key = key /\ item.data = data
    BY DEF Item
  <1>1. Single(ItemsOf(ptrht)) /\ HEntries = Entries /\ h \in HT!Chains /\ Chained(h, c)
    BY TableItems, MapSeen, Hashed DEF HEntries, Table
  <1>2. hres' = Done
    BY DEF HT!htInsert
  <1>3. \/ HT!Places(key) = {} /\ ptrht' = ptrht
        \/ \E d : /\ Chained(h, d) /\ InChain(d) = Without(InChain(c), key) \cup {item}
                  /\ ptrht' = [ptrht EXCEPT ![h] = d]
    <2>1. CASE HT!Places(key) = {} /\ ptrht' # ptrht
      <3>1. ptrht' = [ptrht EXCEPT ![h] = << item >> \o c]
        BY <2>1 DEF HT!htInsert
      <3>2. \A k \in 1 .. Len(c) : c[k].key # item.key
        BY <1>0, <2>1, Finds
      <3>3. PICK i, s : i = h /\ s = c
        OBVIOUS
      <3>4. Chained(i, << item >> \o s) /\ InChain(<< item >> \o s) = Without(InChain(s), item.key) \cup {item}
        <4> HIDE DEF h, c, item
        <4> QED
          BY <1>0, <1>1, <3>2, <3>3, ChainLonger DEF h
      <3> QED
        BY <1>0, <3>1, <3>3, <3>4, Zenon
    <2>2. CASE HT!Places(key) # {}
      <3>1. Chained(h, c) /\ p \in 1 .. Len(c) /\ c[p].key = key
        BY <2>2, Finds
      <3>2. ptrht' = [ptrht EXCEPT ![h] = [c EXCEPT ![p] = [c[p] EXCEPT !.data = data]]]
        BY <2>2 DEF HT!htInsert
      <3>3. PICK i, s, k : i = h /\ s = c /\ k = p
        OBVIOUS
      <3> HIDE DEF h, c, p
      <3>4. /\ Chained(i, [s EXCEPT ![k] = [s[k] EXCEPT !.data = data]])
            /\ InChain([s EXCEPT ![k] = [s[k] EXCEPT !.data = data]])
                 = Without(InChain(s), s[k].key) \cup {[key |-> s[k].key, data |-> data]}
        BY <3>1, <3>3, ChainUpdated, Zenon
      <3> QED
        BY <3>1, <3>2, <3>3, <3>4, Zenon
    <2> QED
      BY <2>1, <2>2 DEF HT!htInsert
  <1>4. CASE HT!Places(key) = {} /\ ptrht' = ptrht
    <2>1. key \notin DOMAIN Entries
      BY <1>4, Finds DEF Entries, MapOf
    <2> QED
      BY <1>1, <1>2, <1>4, <2>1, HStays, Zenon
         DEF HSteps, HEntries, HT!Map!Next, HT!Map!Insert, HT!Map!Becomes
  <1>5. ASSUME NEW d, Chained(h, d), InChain(d) = Without(InChain(c), key) \cup {item},
               ptrht' = [ptrht EXCEPT ![h] = d]
        PROVE  HSteps
    <2>1. Table(ptrht)' /\ HEntries' = MapOf(Without(ItemsOf(ptrht), key) \cup {item})
      BY <1>5, HBecomes, Zenon
    <2>2. PICK items : items = ItemsOf(ptrht)
      OBVIOUS
    <2>3. MapOf(Without(items, key) \cup {item}) = MapPlus(MapOf(items), key, data)
      <3> HIDE DEF item
      <3> QED
        BY <1>0, <1>1, <2>2, MapWith
    <2>4. HEntries' = [k \in {key} \cup DOMAIN Entries |-> IF k = key THEN data ELSE Entries[k]]
      BY <2>1, <2>2, <2>3 DEF Entries, MapPlus
    <2>5. HEntries' = [k \in DOMAIN HEntries \cup {key} |-> IF k = key THEN data ELSE HEntries[k]]
      BY <1>1, <2>4
    <2>6. HT!Map!Insert(key, data)
      BY <1>2, <2>5, Zenon DEF HEntries, HT!Map!Insert, HT!Map!Becomes
    <2> QED
      BY <2>1, <2>6 DEF HSteps, HT!Map!Next
  <1> QED
    BY <1>3, <1>4, <1>5

LEMMA HStep == ASSUME Table(ptrht), HT!Next PROVE HSteps
  <1>1. CASE hcall' = << "clear" >> /\ HT!htClearAll
    BY <1>1, HClears
  <1>2. ASSUME NEW key \in Keys, hcall' = << "search", key >>, HT!htSearch(key) \/ HT!htRead(key) PROVE HSteps
    BY <1>2, HSearches DEF HT!htRead
  <1>3. ASSUME NEW key \in Keys, hcall' = << "delete", key >>, HT!htDelete(key) PROVE HSteps
    BY <1>3, HDeletes
  <1>4. ASSUME NEW key \in Keys, NEW data \in Values, hcall' = << "insert", key, data >>, HT!htInsert(key, data)
        PROVE  HSteps
    BY <1>4, HInserts
  <1> QED
    BY <1>1, <1>2, <1>3, <1>4 DEF HT!Next

LEMMA HInit == HT!Init => Table(ptrht) /\ HT!Map!Init
  <1> SUFFICES ASSUME HT!Init PROVE Table(ptrht) /\ HT!Map!Init
    OBVIOUS
  <1>1. ptrht = [i \in HT!Chains |-> << >>] /\ hcall = << "clear" >> /\ hres = Done
    BY DEF HT!Init
  <1>2. \A i \in HT!Chains : ptrht[i] = << >>
    BY <1>1
  <1>3. Table(ptrht)
    <2>1. \A i \in HT!Chains : Chained(i, << >>)
      BY DEF Chained
    <2> QED
      BY <1>1, <1>2, <2>1 DEF Table
  <1>4. ItemsOf(ptrht) = {}
    BY <1>2 DEF ItemsOf, InChain
  <1>5. HEntries = << >>
    BY <1>3, <1>4, MapSeen, MapEmpty DEF HEntries, Entries
  <1> QED
    BY <1>1, <1>3, <1>5 DEF HEntries, HT!Map!Init

(* No key is there twice.                                                  *)
HSingle == \A item, other \in HT!Items : item.key = other.key => item = other

(* The table c016 is a dictionary that holds no key twice: a key is found  *)
(* if it is there, whatever the other keys of its chain, an insertion      *)
(* changes the data of the item there is, and a deletion leaves the other  *)
(* items of the chain.                                                     *)
THEOREM TableIsDictionary == Structures => HT!DictionarySpec
  <1> DEFINE Tabled == Table(ptrht)
  <1>1. StructuresInit => Tabled /\ HT!Map!Init
    BY HInit DEF StructuresInit
  <1>2. Tabled /\ [StructuresNext]_all => Tabled' /\ [HT!Map!Next]_<< HEntries, hcall, hres >>
    <2>1. ASSUME Tabled, UNCHANGED table PROVE Tabled' /\ UNCHANGED << HEntries, hcall, hres >>
      BY <2>1, HStays DEF table
    <2>2. ASSUME Tabled, HT!Next PROVE Tabled' /\ HT!Map!Next
      BY <2>2, HStep DEF HSteps
    <2>3. [StructuresNext]_all => HT!Next \/ UNCHANGED table
      BY DEF StructuresNext, all
    <2> QED
      BY <2>1, <2>2, <2>3
  <1>3. Tabled => HSingle
    BY EntriesSeen, TableItems DEF HSingle, Single
  <1> HIDE DEF Tabled
  <1> QED
    BY <1>1, <1>2, <1>3, PTL DEF Structures, HT!DictionarySpec, HT!Map!Spec, HEntries, HSingle

-----------------------------------------------------------------------------
(* Places of a tree, and the way down to them.                             *)

Sides == {"L", "R"}
Spot == Seq(Sides)
Upto(q, k) == [i \in 1 .. k |-> q[i]]

LEMMA LeastNatural ==
  ASSUME NEW S, S \subseteq Nat, S # {}
  PROVE  \E m \in S : \A k \in S : m <= k
  <1>1. PICK m \in S : \A k \in S : ~ (<< k, m >> \in {ss \in Nat \X Nat : ss[1] < ss[2]})
    BY ONLY S \subseteq Nat, S # {}, Less, WFMin, Zenon
  <1>2. \A k \in S : k \in Nat /\ m \in Nat /\ ~ (k < m)
    BY <1>1, Zenon
  <1> QED
    BY <1>2

LEMMA SamePlace ==
  ASSUME NEW q \in Spot, NEW r \in Spot, Len(q) = Len(r), \A i \in 1 .. Len(q) : q[i] = r[i]
  PROVE  q = r
  BY DEF Spot

LEMMA UptoPlace ==
  ASSUME NEW q \in Spot, NEW k \in 0 .. Len(q)
  PROVE  /\ Upto(q, k) \in Spot /\ Len(Upto(q, k)) = k
         /\ \A i \in 1 .. k : Upto(q, k)[i] = q[i] /\ i \in 1 .. Len(q)
         /\ \A j \in 0 .. k : Upto(Upto(q, k), j) = Upto(q, j)
         /\ Upto(q, Len(q)) = q
         /\ Upto(q, 0) = << >>
  <1>1. Len(q) \in Nat /\ \A i \in 1 .. Len(q) : q[i] \in Sides
    BY DEF Spot
  <1>2. \A j \in 0 .. Len(q) : Upto(q, j) \in Spot /\ Len(Upto(q, j)) = j
    <2> SUFFICES ASSUME NEW j \in 0 .. Len(q) PROVE Upto(q, j) \in Spot /\ Len(Upto(q, j)) = j
      OBVIOUS
    <2>1. Upto(q, j) \in [1 .. j -> Sides] /\ j \in Nat
      BY <1>1 DEF Upto
    <2> QED
      BY <2>1 DEF Spot
  <1>3. \A j \in 0 .. Len(q) : \A i \in 1 .. j : Upto(q, j)[i] = q[i] /\ i \in 1 .. Len(q)
    BY <1>1 DEF Upto
  <1>4. \A j \in 0 .. k : Upto(Upto(q, k), j) = Upto(q, j)
    BY <1>1 DEF Upto
  <1>5. Upto(q, Len(q)) = q
    BY <1>1, <1>2, <1>3, SamePlace
  <1>6. Upto(q, 0) = << >>
    BY DEF Upto
  <1> QED
    BY <1>1, <1>2, <1>3, <1>4, <1>5, <1>6

LEMMA AppendPlace ==
  ASSUME NEW q \in Spot, NEW side \in Sides
  PROVE  /\ Append(q, side) \in Spot /\ Len(Append(q, side)) = Len(q) + 1
         /\ Append(q, side)[Len(q) + 1] = side
         /\ \A i \in 1 .. Len(q) : Append(q, side)[i] = q[i]
         /\ \A k \in 0 .. Len(q) : Upto(Append(q, side), k) = Upto(q, k)
  <1>1. /\ Append(q, side) \in Spot /\ Len(Append(q, side)) = Len(q) + 1
        /\ Append(q, side)[Len(q) + 1] = side
        /\ \A i \in 1 .. Len(q) : Append(q, side)[i] = q[i]
    BY DEF Spot
  <1>2. Len(q) \in Nat
    BY DEF Spot
  <1> QED
    BY <1>1, <1>2 DEF Upto

-----------------------------------------------------------------------------
(* The search.                                                             *)

(* The side a key is on, seen from another.                                *)
Turn(side, key, other) == IF side = "L" THEN key < other ELSE key > other

(* One step of the search.                                                 *)
Further(keys, key, p) ==
  CASE p \notin DOMAIN keys \/ keys[p] = key -> p
    [] p \in DOMAIN keys /\ keys[p] > key    -> Append(p, "L")
    [] p \in DOMAIN keys /\ keys[p] < key    -> Append(p, "R")

IsDown(f, keys, key, N) ==
  f = [n \in 0 .. N |-> IF n = 0 THEN << >> ELSE Further(keys, key, f[n - 1])]

LEMMA SomeDown ==
  ASSUME NEW keys, NEW key, NEW N \in Nat
  PROVE  \E f : IsDown(f, keys, key, N)
  <1> DEFINE none == {n \in Nat : ~ \E f : IsDown(f, keys, key, n)}
  <1> SUFFICES ASSUME none # {} PROVE FALSE
    OBVIOUS
  <1>1. PICK m \in none : \A k \in none : m <= k
    BY LeastNatural, Zenon
  <1>2. m # 0
    <2>1. IsDown([n \in 0 .. 0 |-> << >>], keys, key, 0)
      BY DEF IsDown
    <2> QED
      BY <1>1, <2>1
  <1>3. m - 1 \in Nat /\ m - 1 \notin none
    BY <1>1, <1>2
  <1>4. PICK f : IsDown(f, keys, key, m - 1)
    BY <1>3
  <1> DEFINE g == [n \in 0 .. m |-> IF n = m THEN Further(keys, key, f[m - 1]) ELSE f[n]]
  <1>5. \A n \in 0 .. m - 1 : f[n] = IF n = 0 THEN << >> ELSE Further(keys, key, f[n - 1])
    <2>1. f = [n \in 0 .. m - 1 |-> IF n = 0 THEN << >> ELSE Further(keys, key, f[n - 1])]
      BY <1>4 DEF IsDown
    <2> QED
      BY <2>1
  <1>6. \A n \in 0 .. m : g[n] = IF n = 0 THEN << >> ELSE Further(keys, key, g[n - 1])
    <2> SUFFICES ASSUME NEW n \in 0 .. m
                 PROVE  g[n] = IF n = 0 THEN << >> ELSE Further(keys, key, g[n - 1])
      OBVIOUS
    <2>1. CASE n = m
      <3>1. m - 1 \in 0 .. m /\ m - 1 # m /\ g[m - 1] = f[m - 1]
        BY <1>3
      <3> QED
        BY <1>2, <2>1, <3>1
    <2>2. CASE n # m
      <3>1. n \in 0 .. m - 1 /\ g[n] = f[n]
        BY <1>3, <2>2
      <3>2. n # 0 => n - 1 \in 0 .. m /\ n - 1 # m /\ g[n - 1] = f[n - 1]
        BY <1>3
      <3> HIDE DEF g
      <3> QED
        BY <1>5, <3>1, <3>2
    <2> QED
      BY <2>1, <2>2
  <1>7. IsDown(g, keys, key, m)
    <2>1. g = [n \in 0 .. m |-> g[n]]
      OBVIOUS
    <2> HIDE DEF g
    <2> QED
      BY <1>6, <2>1, Zenon DEF IsDown
  <1> QED
    BY <1>1, <1>7

LEMMA SameCardinality == \A S : BST!Cardinality(S) = Cardinality(S)
  BY DEF BST!Cardinality, Cardinality

LEMMA WhereDown ==
  ASSUME NEW keys, NEW key, Cardinality(DOMAIN keys) \in Nat
  PROVE  \E f : IsDown(f, keys, key, Cardinality(DOMAIN keys))
                /\ BST!Where(keys, key) = f[Cardinality(DOMAIN keys)]
  <1> DEFINE N == BST!Cardinality(DOMAIN keys)
             down == CHOOSE f : IsDown(f, keys, key, N)
  <1>0. N = Cardinality(DOMAIN keys)
    BY SameCardinality
  <1>1. IsDown(down, keys, key, N)
    BY <1>0, SomeDown
  <1>2. BST!Where(keys, key) = down[N]
    BY DEF BST!Where, Further, BST!LPtr, BST!RPtr, IsDown
  <1> QED
    BY <1>0, <1>1, <1>2, Zenon

(* A way down: at every node of it, to the side of the key.                *)
Path(keys, key, p) ==
  /\ p \in Spot
  /\ \A k \in 1 .. Len(p) : Upto(p, k - 1) \in DOMAIN keys /\ Turn(p[k], key, keys[Upto(p, k - 1)])

Stops(keys, key, p) == p \notin DOMAIN keys \/ keys[p] = key

Numbered(keys, key) == key \in Int /\ \A q \in DOMAIN keys : keys[q] \in Int

LEMMA FurtherPath ==
  ASSUME NEW keys, NEW key, Numbered(keys, key), NEW p, Path(keys, key, p)
  PROVE  /\ Path(keys, key, Further(keys, key, p))
         /\ Stops(keys, key, p) => Further(keys, key, p) = p
         /\ ~ Stops(keys, key, p) => Len(Further(keys, key, p)) = Len(p) + 1
  <1>1. CASE Stops(keys, key, p)
    <2>1. p \notin DOMAIN keys \/ (p \in DOMAIN keys /\ keys[p] = key /\ key \in Int)
      BY <1>1 DEF Stops, Numbered
    <2>2. Further(keys, key, p) = p
      BY <2>1 DEF Further
    <2> QED
      BY <1>1, <2>2
  <1>2. CASE ~ Stops(keys, key, p)
    <2>1. /\ p \in DOMAIN keys /\ p \in Spot /\ Len(p) \in Nat
          /\ keys[p] # key /\ keys[p] \in Int /\ key \in Int
      BY <1>2 DEF Stops, Path, Numbered, Spot
    <2>2. PICK side \in Sides : Further(keys, key, p) = Append(p, side) /\ Turn(side, key, keys[p])
      <3>1. keys[p] > key \/ keys[p] < key
        BY <2>1
      <3>2. CASE keys[p] > key
        <4>1. Further(keys, key, p) = Append(p, "L")
          BY <2>1, <3>2 DEF Further
        <4> QED
          BY <2>1, <3>2, <4>1 DEF Turn, Sides
      <3>3. CASE keys[p] < key
        <4>1. Further(keys, key, p) = Append(p, "R")
          BY <2>1, <3>3 DEF Further
        <4> QED
          BY <2>1, <3>3, <4>1 DEF Turn, Sides
      <3> QED
        BY <3>1, <3>2, <3>3
    <2> DEFINE q == Append(p, side)
    <2>3. /\ q \in Spot /\ Len(q) = Len(p) + 1 /\ q[Len(p) + 1] = side
          /\ \A i \in 1 .. Len(p) : q[i] = p[i]
          /\ \A k \in 0 .. Len(p) : Upto(q, k) = Upto(p, k)
      BY <2>1, AppendPlace
    <2>4. Upto(p, Len(p)) = p
      BY <2>1, UptoPlace
    <2> HIDE DEF q
    <2>5. ASSUME NEW k \in 1 .. Len(q)
          PROVE  Upto(q, k - 1) \in DOMAIN keys /\ Turn(q[k], key, keys[Upto(q, k - 1)])
      <3>1. Upto(q, k - 1) = Upto(p, k - 1)
        BY <2>1, <2>3
      <3>2. CASE k = Len(q)
        BY <2>1, <2>2, <2>3, <2>4, <3>1, <3>2
      <3>3. CASE k # Len(q)
        <4>1. k \in 1 .. Len(p) /\ q[k] = p[k]
          BY <2>1, <2>3, <3>3
        <4> QED
          BY <3>1, <4>1 DEF Path
      <3> QED
        BY <3>2, <3>3
    <2> QED
      BY <1>2, <2>2, <2>3, <2>5 DEF Path, q
  <1> QED
    BY <1>1, <1>2

LEMMA DownPath ==
  ASSUME NEW keys, NEW key, Numbered(keys, key), NEW N \in Nat, NEW f, IsDown(f, keys, key, N)
  PROVE  Path(keys, key, f[N]) /\ (Stops(keys, key, f[N]) \/ Len(f[N]) = N)
  <1> DEFINE Good(n) == Path(keys, key, f[n]) /\ (Stops(keys, key, f[n]) \/ Len(f[n]) = n)
             bad == {n \in 0 .. N : ~ Good(n)}
  <1>1. \A n \in 0 .. N : f[n] = IF n = 0 THEN << >> ELSE Further(keys, key, f[n - 1])
    <2>1. f = [n \in 0 .. N |-> IF n = 0 THEN << >> ELSE Further(keys, key, f[n - 1])]
      BY DEF IsDown
    <2> QED
      BY <2>1
  <1>2. Good(0)
    <2>1. f[0] = << >>
      BY <1>1
    <2>2. << >> \in Spot /\ Len(<< >>) = 0
      BY DEF Spot
    <2> QED
      BY <2>1, <2>2 DEF Path
  <1>3. ASSUME NEW n \in 1 .. N, Good(n - 1) PROVE Good(n)
    <2>1. f[n] = Further(keys, key, f[n - 1])
      BY <1>1
    <2>2. CASE Stops(keys, key, f[n - 1])
      <3>1. f[n] = f[n - 1]
        BY <1>3, <2>1, <2>2, FurtherPath
      <3> QED
        BY <1>3, <2>2, <3>1
    <2>3. CASE ~ Stops(keys, key, f[n - 1])
      <3>1. Path(keys, key, f[n]) /\ Len(f[n]) = n - 1 + 1
        BY <1>3, <2>1, <2>3, FurtherPath
      <3> QED
        BY <3>1
    <2> QED
      BY <2>2, <2>3
  <1> HIDE DEF Good
  <1>4. bad = {}
    <2> SUFFICES ASSUME bad # {} PROVE FALSE
      OBVIOUS
    <2>0. bad \subseteq Nat
      OBVIOUS
    <2>1. PICK m \in bad : \A k \in bad : m <= k
      <3> HIDE DEF bad
      <3> QED
        BY <2>0, LeastNatural, Zenon
    <2>2. m \in 1 .. N
      BY <1>2, <2>1
    <2>3. m - 1 \in 0 .. N /\ m - 1 \notin bad
      BY <2>1, <2>2
    <2> QED
      BY <1>3, <2>1, <2>2, <2>3
  <1>5. Good(N)
    BY <1>4
  <1> QED
    BY <1>5 DEF Good

(* A place is not deeper than there are nodes.                             *)
LEMMA Depth ==
  ASSUME NEW S, IsFiniteSet(S), NEW q \in Spot, \A k \in 0 .. Len(q) : Upto(q, k) \in S
  PROVE  Len(q) < Cardinality(S)
  <1> DEFINE n == Len(q)
             g == [k \in 0 .. n |-> Upto(q, k)]
  <1>1. n \in Nat
    BY DEF Spot
  <1>2. \A k \in 0 .. n : Len(g[k]) = k
    BY UptoPlace
  <1>3. g \in Injection(0 .. n, S)
    <2>1. g \in [0 .. n -> S]
      OBVIOUS
    <2>2. \A j, k \in 0 .. n : g[j] = g[k] => j = k
      BY <1>2
    <2> HIDE DEF g
    <2> QED
      BY <2>1, <2>2 DEF Injection, IsInjective
  <1> HIDE DEF g
  <1>4. Cardinality(0 .. n) <= Cardinality(S)
    BY <1>3, FS_Injection
  <1>5. Cardinality(0 .. n) = n + 1
    BY <1>1, FS_Interval
  <1>6. Cardinality(S) \in Nat
    BY FS_CardinalityType
  <1> QED
    BY <1>1, <1>4, <1>5, <1>6

LEMMA WhereEnds ==
  ASSUME NEW keys, NEW key, Numbered(keys, key), IsFiniteSet(DOMAIN keys)
  PROVE  Path(keys, key, BST!Where(keys, key)) /\ Stops(keys, key, BST!Where(keys, key))
  <1> DEFINE N == Cardinality(DOMAIN keys)
  <1>1. N \in Nat
    BY FS_CardinalityType
  <1>2. PICK f : IsDown(f, keys, key, N) /\ BST!Where(keys, key) = f[N]
    BY <1>1, WhereDown
  <1> DEFINE p == f[N]
  <1>3. Path(keys, key, p) /\ (Stops(keys, key, p) \/ Len(p) = N)
    BY <1>1, <1>2, DownPath
  <1>4. ASSUME ~ Stops(keys, key, p) PROVE FALSE
    <2>1. p \in Spot /\ Len(p) = N /\ p \in DOMAIN keys
      BY <1>3, <1>4 DEF Path, Stops
    <2>2. Upto(p, Len(p)) = p
      BY <2>1, UptoPlace
    <2>3. ASSUME NEW k \in 0 .. Len(p) PROVE Upto(p, k) \in DOMAIN keys
      <3>1. CASE k = Len(p)
        BY <2>1, <2>2, <3>1
      <3>2. CASE k # Len(p)
        <4>1. k + 1 \in 1 .. Len(p) /\ k + 1 - 1 = k
          BY <1>1, <2>1, <3>2
        <4>2. Upto(p, k + 1 - 1) \in DOMAIN keys
          BY <1>3, <4>1 DEF Path
        <4> QED
          BY <4>1, <4>2
      <3> QED
        BY <3>1, <3>2
    <2> HIDE DEF p
    <2>4. Len(p) < N
      BY <2>1, <2>3, Depth
    <2> QED
      BY <1>1, <2>1, <2>4
  <1> QED
    BY <1>2, <1>3, <1>4

-----------------------------------------------------------------------------
(* Search trees.                                                           *)

(* One place is above the other, or their ways part.                       *)
Below(p, q) == \E k \in 1 .. Len(q) : Upto(q, k - 1) = p
Parted(p, q) == \E k \in 1 .. Len(p) : /\ k \in 1 .. Len(q) /\ p[k] # q[k]
                                      /\ Upto(p, k - 1) = Upto(q, k - 1)

LEMMA Shorter ==
  ASSUME NEW p \in Spot, NEW q \in Spot, Len(p) <= Len(q), p # q
  PROVE  Below(p, q) \/ Parted(p, q)
  <1> DEFINE differ == {k \in 1 .. Len(p) : p[k] # q[k]}
  <1>1. Len(p) \in Nat /\ Len(q) \in Nat
    BY DEF Spot
  <1>2. CASE differ = {}
    <2>1. \A k \in 1 .. Len(p) : p[k] = q[k]
      BY <1>2
    <2>2. Upto(q, Len(p)) = p
      <3>1. Len(p) \in 0 .. Len(q)
        BY <1>1
      <3>2. Upto(q, Len(p)) \in Spot /\ Len(Upto(q, Len(p))) = Len(p)
        BY <3>1, UptoPlace
      <3>3. \A k \in 1 .. Len(p) : Upto(q, Len(p))[k] = p[k]
        BY <2>1 DEF Upto
      <3> QED
        BY <3>2, <3>3, SamePlace
    <2>3. Len(p) # Len(q)
      BY <2>1, SamePlace
    <2>4. Len(p) + 1 \in 1 .. Len(q) /\ Len(p) + 1 - 1 = Len(p)
      BY <1>1, <2>3
    <2> QED
      BY <2>2, <2>4 DEF Below
  <1>3. CASE differ # {}
    <2>1. differ \subseteq Nat
      OBVIOUS
    <2>2. PICK k \in differ : \A j \in differ : k <= j
      <3> HIDE DEF differ
      <3> QED
        BY <1>3, <2>1, LeastNatural, Zenon
    <2>3. \A j \in 1 .. k - 1 : p[j] = q[j]
      BY <1>1, <2>2
    <2>4. Upto(p, k - 1) = Upto(q, k - 1)
      BY <2>3 DEF Upto
    <2>5. k \in 1 .. Len(p) /\ k \in 1 .. Len(q) /\ p[k] # q[k]
      BY <1>1, <2>2
    <2> QED
      BY <2>4, <2>5 DEF Parted
  <1> QED
    BY <1>2, <1>3

LEMMA Parting ==
  ASSUME NEW p \in Spot, NEW q \in Spot, p # q
  PROVE  \/ \E k \in 1 .. Len(q) : Upto(q, k - 1) = p
         \/ \E k \in 1 .. Len(p) : Upto(p, k - 1) = q
         \/ \E k \in 1 .. Len(p) : /\ k \in 1 .. Len(q) /\ p[k] # q[k]
                                   /\ Upto(p, k - 1) = Upto(q, k - 1)
  <1>1. Len(p) <= Len(q) \/ Len(q) <= Len(p)
    BY DEF Spot
  <1>2. Parted(q, p) => Parted(p, q)
    BY DEF Parted
  <1> QED
    BY <1>1, <1>2, Shorter DEF Below, Parted

Node == [Key : Keys, BSTNodeCont : Values]

(* With a place, all those above it.                                       *)
Shaped(D) ==
  /\ IsFiniteSet(D) /\ D \subseteq Spot
  /\ \A q \in D : \A k \in 0 .. Len(q) : Upto(q, k) \in D

Ordered(t) ==
  \A q \in DOMAIN t : \A k \in 1 .. Len(q) : Turn(q[k], t[q].Key, t[Upto(q, k - 1)].Key)

SearchTree(t) == Shaped(DOMAIN t) /\ (\A q \in DOMAIN t : t[q] \in Node) /\ Ordered(t)

LEMMA KeysNumbers == Keys \subseteq Int /\ \A node \in Node : node.Key \in Int
  BY BstAssumption, Zenon DEF BST!BstAssumption, Node

LEMMA Above ==
  ASSUME NEW D, Shaped(D), NEW q \in D, NEW k \in 1 .. Len(q)
  PROVE  Upto(q, k - 1) \in D /\ q[k] \in Sides /\ q \in Spot
  <1>1. q \in Spot /\ k - 1 \in 0 .. Len(q)
    BY DEF Shaped, Spot
  <1> QED
    BY <1>1 DEF Shaped, Spot

LEMMA Distinct ==
  ASSUME NEW t, SearchTree(t), NEW q \in DOMAIN t, NEW r \in DOMAIN t, t[q].Key = t[r].Key
  PROVE  q = r
  <1> SUFFICES ASSUME q # r PROVE FALSE
    OBVIOUS
  <1>1. /\ q \in Spot /\ r \in Spot /\ Shaped(DOMAIN t) /\ Ordered(t)
        /\ \A p \in DOMAIN t : t[p].Key \in Int
    BY KeysNumbers DEF SearchTree, Shaped
  <1>2. ASSUME NEW a \in DOMAIN t, NEW b \in DOMAIN t, NEW k \in 1 .. Len(b), Upto(b, k - 1) = a,
               t[a].Key = t[b].Key
        PROVE  FALSE
    <2>1. Turn(b[k], t[b].Key, t[a].Key)
      BY <1>1, <1>2 DEF Ordered
    <2> QED
      BY <1>1, <1>2, <2>1 DEF Turn
  <1>3. ASSUME NEW k \in 1 .. Len(q), k \in 1 .. Len(r), q[k] # r[k], Upto(q, k - 1) = Upto(r, k - 1)
        PROVE  FALSE
    <2> DEFINE a == Upto(q, k - 1)
    <2>1. a \in DOMAIN t /\ q[k] \in Sides /\ r[k] \in Sides
      BY <1>1, <1>3, Above
    <2>2. Turn(q[k], t[q].Key, t[a].Key) /\ Turn(r[k], t[r].Key, t[a].Key)
      BY <1>1, <1>3 DEF Ordered
    <2> QED
      BY <1>1, <1>3, <2>1, <2>2 DEF Turn, Sides
  <1> QED
    BY <1>1, <1>2, <1>3, Parting

(* Where a key is searched for.                                            *)
KeysOf(t) == [q \in DOMAIN t |-> t[q].Key]
Search(t, key) == BST!Where(KeysOf(t), key)

LEMMA SearchEnds ==
  ASSUME NEW t, SearchTree(t), NEW key \in Keys
  PROVE  /\ Path(KeysOf(t), key, Search(t, key)) /\ Search(t, key) \in Spot
         /\ Search(t, key) \in DOMAIN t => t[Search(t, key)].Key = key
         /\ \A q \in DOMAIN t : t[q].Key = key => Search(t, key) = q
  <1> DEFINE p == Search(t, key)
             keys == KeysOf(t)
  <1>1. /\ Shaped(DOMAIN t) /\ Ordered(t) /\ DOMAIN keys = DOMAIN t
        /\ \A q \in DOMAIN t : keys[q] = t[q].Key /\ t[q].Key \in Int
        /\ key \in Int
    BY KeysNumbers DEF SearchTree, KeysOf
  <1>2. Path(keys, key, p) /\ Stops(keys, key, p)
    BY <1>1, WhereEnds DEF Numbered, Shaped, Search
  <1>3. p \in Spot /\ (p \in DOMAIN t => t[p].Key = key)
    BY <1>1, <1>2 DEF Path, Stops
  <1> HIDE DEF p, keys
  <1>4. ASSUME NEW q \in DOMAIN t, t[q].Key = key, p # q PROVE FALSE
    <2>1. q \in Spot
      BY <1>1 DEF Shaped
    <2>2. ASSUME NEW k \in 1 .. Len(q), Upto(q, k - 1) = p PROVE FALSE
      <3>1. p \in DOMAIN t
        BY <1>1, <2>2, Above
      <3> QED
        BY <1>3, <1>4, <3>1, Distinct
    <2>3. ASSUME NEW k \in 1 .. Len(p), Upto(p, k - 1) = q PROVE FALSE
      <3>1. Turn(p[k], key, key)
        BY <1>1, <1>2, <1>4, <2>3 DEF Path
      <3> QED
        BY <1>1, <3>1 DEF Turn
    <2>4. ASSUME NEW k \in 1 .. Len(p), k \in 1 .. Len(q), p[k] # q[k], Upto(p, k - 1) = Upto(q, k - 1)
          PROVE  FALSE
      <3> DEFINE a == Upto(q, k - 1)
      <3>1. a \in DOMAIN t /\ q[k] \in Sides /\ p[k] \in Sides
        BY <1>1, <1>3, <2>4, Above DEF Spot
      <3>2. Turn(q[k], key, t[a].Key)
        BY <1>1, <1>4, <2>4 DEF Ordered
      <3>3. Turn(p[k], key, t[a].Key)
        BY <1>1, <1>2, <2>4, <3>1 DEF Path
      <3> QED
        BY <1>1, <2>4, <3>1, <3>2, <3>3 DEF Turn, Sides
    <2> QED
      BY <1>3, <1>4, <2>1, <2>2, <2>3, <2>4, Parting, Zenon
  <1> QED
    BY <1>2, <1>3, <1>4 DEF p, keys

(* The items of a tree.                                                    *)
ItemAt(t, q) == [key |-> t[q].Key, data |-> t[q].BSTNodeCont]
ItemsIn(t) == {ItemAt(t, q) : q \in DOMAIN t}

LEMMA ItemsOnce ==
  ASSUME NEW t, SearchTree(t)
  PROVE  /\ Single(ItemsIn(t))
         /\ \A p \in DOMAIN t : Without(ItemsIn(t), t[p].Key) = {ItemAt(t, q) : q \in DOMAIN t \ {p}}
  <1>1. \A q, r \in DOMAIN t : t[q].Key = t[r].Key => q = r
    BY Distinct
  <1>2. \A q : ItemAt(t, q).key = t[q].Key
    BY DEF ItemAt
  <1>3. Single(ItemsIn(t))
    BY <1>1, <1>2 DEF Single, ItemsIn
  <1>4. ASSUME NEW p \in DOMAIN t
        PROVE  Without(ItemsIn(t), t[p].Key) = {ItemAt(t, q) : q \in DOMAIN t \ {p}}
    BY <1>1, <1>2 DEF Without, ItemsIn
  <1> QED
    BY <1>3, <1>4

(* With a node where the search for its key ends.                          *)
LEMMA Grown ==
  ASSUME NEW t, SearchTree(t), NEW node \in Node, NEW p, p = Search(t, node.Key),
         NEW u, u = [q \in DOMAIN t \cup {p} |-> IF q = p THEN node ELSE t[q]]
  PROVE  /\ SearchTree(u)
         /\ ItemsIn(u) = Without(ItemsIn(t), node.Key) \cup {[key |-> node.Key, data |-> node.BSTNodeCont]}
  <1> DEFINE key == node.Key
  <1>1. /\ Shaped(DOMAIN t) /\ Ordered(t) /\ \A q \in DOMAIN t : t[q] \in Node /\ q \in Spot
        /\ key \in Keys
    BY DEF SearchTree, Shaped, Node
  <1>2. /\ Path(KeysOf(t), key, p) /\ p \in Spot
        /\ p \in DOMAIN t => t[p].Key = key
        /\ \A q \in DOMAIN t : t[q].Key = key => p = q
    BY <1>1, SearchEnds
  <1>3. /\ DOMAIN u = DOMAIN t \cup {p} /\ u[p] = node
        /\ \A q \in DOMAIN t : q # p => u[q] = t[q]
    OBVIOUS
  <1>4. \A k \in 1 .. Len(p) : /\ Upto(p, k - 1) \in DOMAIN t
                               /\ Turn(p[k], key, t[Upto(p, k - 1)].Key)
    BY <1>2, Zenon DEF Path, KeysOf
  <1>5. \A q \in DOMAIN t : u[q].Key = t[q].Key
    BY <1>2, <1>3
  <1>6. Shaped(DOMAIN u)
    <2>1. IsFiniteSet(DOMAIN u) /\ DOMAIN u \subseteq Spot
      BY <1>1, <1>2, <1>3, FS_AddElement DEF Shaped
    <2>2. ASSUME NEW k \in 0 .. Len(p) PROVE Upto(p, k) \in DOMAIN u
      <3>1. CASE k = Len(p)
        BY <1>2, <1>3, <3>1, UptoPlace
      <3>2. CASE k # Len(p)
        <4>1. k + 1 \in 1 .. Len(p) /\ k + 1 - 1 = k
          BY <1>2, <3>2 DEF Spot
        <4>2. Upto(p, k + 1 - 1) \in DOMAIN t
          BY <1>4, <4>1
        <4> QED
          BY <1>3, <4>1, <4>2
      <3> QED
        BY <3>1, <3>2
    <2> QED
      BY <1>1, <1>3, <2>1, <2>2 DEF Shaped
  <1>7. Ordered(u)
    <2>1. ASSUME NEW k \in 1 .. Len(p) PROVE Turn(p[k], u[p].Key, u[Upto(p, k - 1)].Key)
      BY <1>3, <1>4, <1>5
    <2>2. ASSUME NEW q \in DOMAIN t, NEW k \in 1 .. Len(q)
          PROVE  Turn(q[k], u[q].Key, u[Upto(q, k - 1)].Key)
      <3>1. Upto(q, k - 1) \in DOMAIN t
        BY <1>1, Above
      <3>2. Turn(q[k], t[q].Key, t[Upto(q, k - 1)].Key)
        BY <1>1 DEF Ordered
      <3> QED
        BY <1>5, <3>1, <3>2
    <2> QED
      BY <1>3, <2>1, <2>2, Zenon DEF Ordered
  <1>8. SearchTree(u)
    BY <1>1, <1>3, <1>6, <1>7 DEF SearchTree
  <1>9. ItemsIn(u) = Without(ItemsIn(t), key) \cup {[key |-> key, data |-> node.BSTNodeCont]}
    <2>1. ItemsIn(u) = {ItemAt(u, q) : q \in DOMAIN t \ {p}} \cup {ItemAt(u, p)}
      BY <1>3 DEF ItemsIn
    <2>2. ItemAt(u, p) = [key |-> key, data |-> node.BSTNodeCont]
      BY <1>3 DEF ItemAt
    <2>3. \A q \in DOMAIN t \ {p} : ItemAt(u, q) = ItemAt(t, q)
      BY <1>3 DEF ItemAt
    <2>4. Without(ItemsIn(t), key) = {ItemAt(t, q) : q \in DOMAIN t \ {p}}
      <3>1. \A q : ItemAt(t, q).key = t[q].Key
        BY DEF ItemAt
      <3> QED
        BY <1>2, <3>1 DEF Without, ItemsIn
    <2> QED
      BY <2>1, <2>2, <2>3, <2>4, Zenon
  <1> QED
    BY <1>8, <1>9

-----------------------------------------------------------------------------
(* A node goes, and what is on one side of it moves up.                    *)

Under(p, q) == Len(p) <= Len(q) /\ Upto(q, Len(p)) = p

(* From where what is at q after it came.                                  *)
From(p, side, q) == IF Under(p, q) THEN Put(q, Len(p) + 1, side) ELSE q

Hoisted(D, p, side) == {q \in Spot : From(p, side, q) \in D}

LEMMA UnderParts ==
  ASSUME NEW p \in Spot, NEW q \in Spot
  PROVE  /\ Under(p, q) <=> BST!IsPrefix(p, q)
         /\ Under(p, q) <=> Len(p) <= Len(q) /\ \A i \in 1 .. Len(p) : q[i] = p[i]
         /\ \A k \in 0 .. Len(q) : Under(p, Upto(q, k)) <=> Under(p, q) /\ Len(p) <= k
  <1>1. /\ Len(p) \in Nat /\ Len(q) \in Nat
    BY DEF Spot
  <1>2. Under(p, q) <=> Len(p) <= Len(q) /\ \A i \in 1 .. Len(p) : q[i] = p[i]
    <2>1. CASE Len(p) <= Len(q)
      <3>1. Len(p) \in 0 .. Len(q)
        BY <1>1, <2>1
      <3> DEFINE r == Upto(q, Len(p))
      <3>2. r \in Spot /\ Len(r) = Len(p) /\ \A i \in 1 .. Len(p) : r[i] = q[i]
        BY <3>1, UptoPlace
      <3>3. (r = p) <=> \A i \in 1 .. Len(p) : q[i] = p[i]
        <4> HIDE DEF r
        <4> QED
          BY <3>2, SamePlace
      <3> QED
        BY <2>1, <3>3 DEF Under
    <2>2. CASE ~ (Len(p) <= Len(q))
      BY <2>2 DEF Under
    <2> QED
      BY <2>1, <2>2
  <1>3. BST!IsPrefix(p, q) <=> Len(p) <= Len(q) /\ \A i \in 1 .. Len(p) : q[i] = p[i]
    <2>1. CASE Len(p) <= Len(q)
      <3> DEFINE a == SubSeq(p, 1, Len(p))
                 b == SubSeq(q, 1, Len(p))
      <3>1. a \in Spot /\ Len(a) = Len(p) /\ \A i \in 1 .. Len(p) : a[i] = p[i]
        BY <1>1 DEF Spot
      <3>2. b \in Spot /\ Len(b) = Len(p) /\ \A i \in 1 .. Len(p) : b[i] = q[i]
        BY <1>1, <2>1 DEF Spot
      <3>3. a = b <=> \A i \in 1 .. Len(p) : q[i] = p[i]
        <4> HIDE DEF a, b
        <4> QED
          BY <3>1, <3>2, SamePlace
      <3> QED
        BY <2>1, <3>3 DEF BST!IsPrefix
    <2>2. CASE ~ (Len(p) <= Len(q))
      BY <2>2 DEF BST!IsPrefix
    <2> QED
      BY <2>1, <2>2
  <1>4. ASSUME NEW k \in 0 .. Len(q) PROVE Under(p, Upto(q, k)) <=> Under(p, q) /\ Len(p) <= k
    <2>1. Len(Upto(q, k)) = k
      BY UptoPlace
    <2>2. CASE Len(p) <= k
      <3>1. Upto(Upto(q, k), Len(p)) = Upto(q, Len(p))
        BY <1>1, <2>2, UptoPlace
      <3> QED
        BY <1>1, <2>1, <2>2, <3>1 DEF Under
    <2>3. CASE ~ (Len(p) <= k)
      BY <2>1, <2>3 DEF Under
    <2> QED
      BY <2>2, <2>3
  <1> QED
    BY <1>2, <1>3, <1>4

LEMMA UnderSide ==
  ASSUME NEW p \in Spot, NEW side \in Sides, NEW q \in Spot
  PROVE  Under(Append(p, side), q) <=>
           Len(p) + 1 <= Len(q) /\ q[Len(p) + 1] = side /\ \A i \in 1 .. Len(p) : q[i] = p[i]
  <1>1. PICK a : a = Append(p, side)
    BY Zenon
  <1>2. a \in Spot /\ Len(a) = Len(p) + 1 /\ a[Len(p) + 1] = side /\ \A i \in 1 .. Len(p) : a[i] = p[i]
    BY <1>1, AppendPlace
  <1>3. Len(p) \in Nat
    BY DEF Spot
  <1>4. Under(a, q) <=> Len(a) <= Len(q) /\ \A i \in 1 .. Len(a) : q[i] = a[i]
    BY <1>2, UnderParts
  <1>5. (\A i \in 1 .. Len(a) : q[i] = a[i]) <=> q[Len(p) + 1] = side /\ \A i \in 1 .. Len(p) : q[i] = p[i]
    BY <1>2, <1>3
  <1> QED
    BY <1>1, <1>2, <1>4, <1>5

LEMMA FromPlace ==
  ASSUME NEW p \in Spot, NEW side \in Sides, NEW q \in Spot
  PROVE  /\ From(p, side, q) \in Spot
         /\ ~ Under(p, q) => From(p, side, q) = q
         /\ Under(p, q) => /\ Len(p) \in 0 .. Len(q)
                           /\ From(p, side, q) = Put(q, Len(p) + 1, side)
                           /\ Len(From(p, side, q)) = Len(q) + 1
                           /\ From(p, side, q)[Len(p) + 1] = side
                           /\ Under(Append(p, side), From(p, side, q))
  <1>1. CASE ~ Under(p, q)
    BY <1>1 DEF From
  <1>2. CASE Under(p, q)
    <2>1. /\ Len(p) \in Nat /\ Len(q) \in Nat /\ Len(p) <= Len(q)
          /\ \A i \in 1 .. Len(p) : q[i] = p[i]
      BY <1>2, UnderParts DEF Spot
    <2> DEFINE r == Put(q, Len(p) + 1, side)
    <2>2. Len(p) + 1 \in 1 .. Len(q) + 1
      BY <2>1
    <2>3. r \in Spot /\ Len(r) = Len(q) + 1
      BY <2>2, PutSequence, Zenon DEF Spot
    <2>4. r[Len(p) + 1] = side /\ \A i \in 1 .. Len(p) : r[i] = q[i]
      BY <2>1, <2>2 DEF Put
    <2> HIDE DEF r
    <2>5. Under(Append(p, side), r)
      BY <2>1, <2>3, <2>4, UnderSide
    <2> QED
      BY <1>2, <2>1, <2>3, <2>4, <2>5 DEF From, r
  <1> QED
    BY <1>1, <1>2

(* A step on the way to a place comes from a step, to the same side.       *)
LEMMA FromAbove ==
  ASSUME NEW p \in Spot, NEW side \in Sides, NEW q \in Spot, NEW k \in 1 .. Len(q)
  PROVE  \E j \in 1 .. Len(From(p, side, q)) :
           /\ From(p, side, q)[j] = q[k]
           /\ Upto(From(p, side, q), j - 1) = From(p, side, Upto(q, k - 1))
  <1> DEFINE r == From(p, side, q)
             a == Upto(q, k - 1)
  <1>1. Len(p) \in Nat /\ Len(q) \in Nat /\ k - 1 \in 0 .. Len(q)
    BY DEF Spot
  <1>2. a \in Spot /\ Len(a) = k - 1 /\ (Under(p, a) <=> Under(p, q) /\ Len(p) <= k - 1)
    BY <1>1, UptoPlace, UnderParts
  <1>3. CASE ~ Under(p, q)
    <2>1. r = q /\ From(p, side, a) = a
      BY <1>2, <1>3, FromPlace
    <2> QED
      BY <2>1
  <1>4. CASE Under(p, q) /\ k - 1 < Len(p)
    <2>1. From(p, side, a) = a
      BY <1>1, <1>2, <1>4, FromPlace
    <2>2. r = Put(q, Len(p) + 1, side) /\ Len(r) = Len(q) + 1
      BY <1>4, FromPlace
    <2>3. \A i \in 1 .. k : r[i] = q[i]
      BY <1>1, <1>4, <2>2 DEF Put
    <2> HIDE DEF r
    <2>4. Upto(r, k - 1) = a /\ r[k] = q[k] /\ k \in 1 .. Len(r)
      BY <1>1, <2>2, <2>3 DEF Upto
    <2> QED
      BY <2>1, <2>4 DEF r
  <1>5. CASE Under(p, q) /\ Len(p) <= k - 1
    <2>1. From(p, side, a) = Put(a, Len(p) + 1, side)
      BY <1>2, <1>5, FromPlace
    <2>2. r = Put(q, Len(p) + 1, side) /\ Len(r) = Len(q) + 1
      BY <1>5, FromPlace
    <2>3. r[k + 1] = q[k] /\ k + 1 \in 1 .. Len(r) /\ k + 1 - 1 = k
      BY <1>1, <1>5, <2>2 DEF Put
    <2>4. Upto(r, k) = Put(a, Len(p) + 1, side)
      <3>1. Put(a, Len(p) + 1, side)
              = [i \in 1 .. k |-> IF i < Len(p) + 1 THEN a[i] ELSE IF i = Len(p) + 1 THEN side ELSE a[i - 1]]
        BY <1>1, <1>2 DEF Put
      <3>2. \A i \in 1 .. k : r[i] = IF i < Len(p) + 1 THEN a[i] ELSE IF i = Len(p) + 1 THEN side ELSE a[i - 1]
        <4>1. \A i \in 1 .. k : r[i] = IF i < Len(p) + 1 THEN q[i] ELSE IF i = Len(p) + 1 THEN side ELSE q[i - 1]
          BY <1>1, <2>2 DEF Put
        <4>2. \A i \in 1 .. k : i < Len(p) + 1 => a[i] = q[i]
          BY <1>1, <1>5 DEF Upto
        <4>3. \A i \in 1 .. k : i > Len(p) + 1 => a[i - 1] = q[i - 1]
          BY <1>1 DEF Upto
        <4> HIDE DEF a, r
        <4> QED
          BY <1>1, <4>1, <4>2, <4>3
      <3> HIDE DEF a, r
      <3> QED
        BY <3>1, <3>2 DEF Upto
    <2> HIDE DEF r, a
    <2> QED
      BY <2>1, <2>3, <2>4 DEF r, a
  <1> QED
    BY <1>1, <1>3, <1>4, <1>5

(* No two places come from the same, and but for p and what is on its      *)
(* other side all come from one.                                           *)
LEMMA FromOnce ==
  ASSUME NEW p \in Spot, NEW side \in Sides, NEW q \in Spot, NEW r \in Spot,
         From(p, side, q) = From(p, side, r)
  PROVE  q = r
  <1>1. Len(p) \in Nat /\ Len(q) \in Nat /\ Len(r) \in Nat
    BY DEF Spot
  <1>2. ASSUME NEW x \in Spot, NEW y \in Spot, Under(p, x), ~ Under(p, y), From(p, side, x) = From(p, side, y)
        PROVE  FALSE
    <2>1. Under(Append(p, side), y)
      BY <1>2, FromPlace
    <2>3. Len(p) + 1 <= Len(y) /\ \A i \in 1 .. Len(p) : y[i] = p[i]
      BY <2>1, UnderSide
    <2>4. Len(y) \in Nat
      BY DEF Spot
    <2> QED
      BY <1>1, <1>2, <2>3, <2>4, UnderParts
  <1>3. CASE Under(p, q) /\ Under(p, r)
    <2> DEFINE a == From(p, side, q)
    <2>1. /\ a = Put(q, Len(p) + 1, side) /\ a = Put(r, Len(p) + 1, side)
          /\ Len(a) = Len(q) + 1 /\ Len(a) = Len(r) + 1 /\ Len(p) <= Len(q)
      BY <1>3, FromPlace
    <2>2. ASSUME NEW i \in 1 .. Len(q) PROVE q[i] = r[i]
      <3>1. \A x \in Spot : Len(x) = Len(q) => x[i] = Put(x, Len(p) + 1, side)[IF i <= Len(p) THEN i ELSE i + 1]
        BY <1>1, <2>1 DEF Put
      <3> QED
        BY <1>1, <2>1, <3>1
    <2> QED
      BY <1>1, <2>1, <2>2, SamePlace
  <1>4. CASE ~ Under(p, q) /\ ~ Under(p, r)
    BY <1>4, FromPlace
  <1> QED
    BY <1>2, <1>3, <1>4

LEMMA Raised ==
  ASSUME NEW p \in Spot, NEW side \in Sides, NEW x \in Spot, Under(Append(p, side), x)
  PROVE  /\ Cut(x, Len(p) + 1) \in Spot /\ Under(p, Cut(x, Len(p) + 1))
         /\ From(p, side, Cut(x, Len(p) + 1)) = x
  <1>1. Len(p) \in Nat /\ Len(x) \in Nat
    BY DEF Spot
  <1>2. Len(p) + 1 \in 1 .. Len(x) /\ x[Len(p) + 1] = side /\ \A i \in 1 .. Len(p) : x[i] = p[i]
    BY <1>1, UnderSide
  <1> DEFINE q == Cut(x, Len(p) + 1)
  <1>3. q \in Spot /\ Len(q) = Len(x) - 1
    BY <1>2, CutSequence DEF Spot
  <1>4. \A i \in 1 .. Len(p) : q[i] = p[i]
    BY <1>1, <1>2 DEF Cut
  <1>5. Under(p, q)
    BY <1>1, <1>2, <1>3, <1>4, UnderParts
  <1>6. From(p, side, q) = Put(q, Len(p) + 1, side) /\ From(p, side, q) \in Spot
        /\ Len(From(p, side, q)) = Len(q) + 1
    BY <1>3, <1>5, FromPlace
  <1>7. \A i \in 1 .. Len(x) : Put(q, Len(p) + 1, side)[i] = x[i]
    BY <1>1, <1>2, <1>3 DEF Put, Cut
  <1> HIDE DEF q
  <1>8. From(p, side, q) = x
    BY <1>1, <1>3, <1>6, <1>7, SamePlace
  <1> QED
    BY <1>3, <1>5, <1>8 DEF q

LEMMA FromAll ==
  ASSUME NEW p \in Spot, NEW side \in Sides, NEW x \in Spot
  PROVE  \/ x = p
         \/ \E other \in Sides \ {side} : Under(Append(p, other), x)
         \/ \E q \in Spot : From(p, side, q) = x
  <1>1. Len(p) \in Nat /\ Len(x) \in Nat
    BY DEF Spot
  <1>2. CASE ~ Under(p, x)
    BY <1>2, FromPlace
  <1>3. CASE Under(p, x) /\ Len(x) = Len(p)
    BY <1>3, UnderParts, SamePlace
  <1>4. CASE Under(p, x) /\ Len(x) # Len(p)
    <2>1. Len(p) + 1 \in 1 .. Len(x) /\ \A i \in 1 .. Len(p) : x[i] = p[i]
      BY <1>1, <1>4, UnderParts
    <2>2. x[Len(p) + 1] \in Sides
      BY <2>1 DEF Spot
    <2>3. ASSUME NEW s \in Sides, x[Len(p) + 1] = s PROVE Under(Append(p, s), x)
      BY <1>1, <2>1, <2>3, UnderSide
    <2>4. CASE x[Len(p) + 1] # side
      BY <2>2, <2>3, <2>4
    <2>5. CASE x[Len(p) + 1] = side
      BY <2>3, <2>5, Raised
    <2> QED
      BY <2>4, <2>5
  <1> QED
    BY <1>2, <1>3, <1>4

LEMMA HoistPaths ==
  ASSUME NEW p \in Spot, NEW side \in Sides, NEW q \in Spot
  PROVE  /\ Under(Append(p, side), q) => p \o SubSeq(q, Len(p) + 2, Len(q)) = Cut(q, Len(p) + 1)
         /\ Under(p, q) => Append(p, side) \o SubSeq(q, Len(p) + 1, Len(q)) = From(p, side, q)
  <1>1. Len(p) \in Nat /\ Len(q) \in Nat
    BY DEF Spot
  <1>2. PICK i : i = Len(p) + 1
    OBVIOUS
  <1>3. ASSUME Under(p, q) PROVE SubSeq(q, 1, Len(p)) = p
    <2>1. Len(p) <= Len(q) /\ \A k \in 1 .. Len(p) : q[k] = p[k]
      BY <1>3, UnderParts
    <2> DEFINE r == SubSeq(q, 1, Len(p))
    <2>2. r \in Spot /\ Len(r) = Len(p) /\ \A k \in 1 .. Len(p) : r[k] = q[k]
      BY <1>1, <2>1 DEF Spot
    <2> HIDE DEF r
    <2>3. r = p
      BY <2>1, <2>2, SamePlace
    <2> QED
      BY <2>3 DEF r
  <1>4. ASSUME Under(Append(p, side), q)
        PROVE  p \o SubSeq(q, Len(p) + 2, Len(q)) = Cut(q, Len(p) + 1)
    <2>1. i \in 1 .. Len(q) /\ Under(p, q)
      BY <1>1, <1>2, <1>4, UnderSide, UnderParts
    <2>2. SubSeq(q, 1, i - 1) \o SubSeq(q, i + 1, Len(q)) = Cut(q, i)
      BY <2>1, CutRemoves, Zenon DEF Spot
    <2>3. i - 1 = Len(p) /\ i + 1 = Len(p) + 2
      BY <1>1, <1>2
    <2> QED
      BY <1>2, <1>3, <2>1, <2>2, <2>3, Zenon
  <1>5. ASSUME Under(p, q)
        PROVE  Append(p, side) \o SubSeq(q, Len(p) + 1, Len(q)) = From(p, side, q)
    <2>1. i \in 1 .. Len(q) + 1
      BY <1>1, <1>2, <1>5 DEF Under
    <2>2. SubSeq(q, 1, i - 1) \o << side >> \o SubSeq(q, i, Len(q)) = Put(q, i, side)
      BY <2>1, PutInserts, Zenon DEF Spot
    <2>3. i - 1 = Len(p)
      BY <1>1, <1>2
    <2>4. p \o << side >> = Append(p, side)
      BY DEF Spot
    <2> QED
      BY <1>2, <1>3, <1>5, <2>2, <2>3, <2>4, FromPlace, Zenon
  <1> QED
    BY <1>4, <1>5, Zenon

LEMMA HoistIs ==
  ASSUME NEW t, DOMAIN t \subseteq Spot, NEW p \in Spot, NEW side \in Sides
  PROVE  /\ DOMAIN BST!Hoist(t, p, side) = Hoisted(DOMAIN t, p, side)
         /\ \A q \in Hoisted(DOMAIN t, p, side) : BST!Hoist(t, p, side)[q] = t[From(p, side, q)]
  <1> DEFINE outside == {q \in DOMAIN t : ~ BST!IsPrefix(p, q)}
             below == {q \in DOMAIN t : BST!IsPrefix(Append(p, side), q)}
             up == {p \o SubSeq(q, Len(p) + 2, Len(q)) : q \in below}
             h == [q \in outside \cup up |->
                     IF q \in outside THEN t[q]
                     ELSE t[Append(p, side) \o SubSeq(q, Len(p) + 1, Len(q))]]
  <1>1. BST!Hoist(t, p, side) = h
    BY DEF BST!Hoist
  <1>2. outside = {q \in DOMAIN t : ~ Under(p, q)}
    BY UnderParts
  <1>3. below = {q \in DOMAIN t : Under(Append(p, side), q)}
    <2>1. Append(p, side) \in Spot
      BY AppendPlace
    <2> QED
      BY <2>1, UnderParts
  <1> HIDE DEF outside, below
  <1>4. \A q \in up : /\ q \in Spot /\ Under(p, q) /\ From(p, side, q) \in DOMAIN t
    <2>1. ASSUME NEW x \in below
          PROVE  LET q == p \o SubSeq(x, Len(p) + 2, Len(x)) IN
                 q \in Spot /\ Under(p, q) /\ From(p, side, q) \in DOMAIN t
      <3>1. x \in Spot /\ x \in DOMAIN t /\ Under(Append(p, side), x)
        BY <1>3
      <3>2. p \o SubSeq(x, Len(p) + 2, Len(x)) = Cut(x, Len(p) + 1)
        BY <3>1, HoistPaths, Zenon
      <3>3. Cut(x, Len(p) + 1) \in Spot /\ Under(p, Cut(x, Len(p) + 1))
            /\ From(p, side, Cut(x, Len(p) + 1)) = x
        BY <3>1, Raised
      <3> QED
        BY <3>1, <3>2, <3>3, Zenon
    <2> QED
      BY <2>1, Zenon
  <1>5. \A q \in Spot : Under(p, q) /\ From(p, side, q) \in DOMAIN t => q \in up
    <2> SUFFICES ASSUME NEW q \in Spot, Under(p, q), From(p, side, q) \in DOMAIN t PROVE q \in up
      BY Zenon
    <2>1. PICK x : x = From(p, side, q)
      OBVIOUS
    <2>2. x \in Spot /\ Under(Append(p, side), x) /\ x \in below
      BY <1>3, <2>1, FromPlace
    <2>3. Cut(x, Len(p) + 1) \in Spot /\ From(p, side, Cut(x, Len(p) + 1)) = x
      BY <2>2, Raised
    <2>4. Cut(x, Len(p) + 1) = q
      BY <2>1, <2>3, FromOnce
    <2>5. p \o SubSeq(x, Len(p) + 2, Len(x)) = q
      BY <2>2, <2>4, HoistPaths, Zenon
    <2> QED
      BY <2>2, <2>5, Zenon
  <1> HIDE DEF up
  <1>6. outside \cup up = Hoisted(DOMAIN t, p, side)
    BY <1>2, <1>4, <1>5, FromPlace DEF Hoisted
  <1>7. ASSUME NEW q \in outside \cup up PROVE h[q] = t[From(p, side, q)]
    <2>1. CASE q \in outside
      BY <1>2, <2>1, FromPlace
    <2>2. CASE q \notin outside
      <3>1. q \in Spot /\ Under(p, q)
        BY <1>4, <2>2
      <3>2. Append(p, side) \o SubSeq(q, Len(p) + 1, Len(q)) = From(p, side, q)
        BY <3>1, HoistPaths, Zenon
      <3> QED
        BY <2>2, <3>2, Zenon
    <2> QED
      BY <2>1, <2>2
  <1>8. DOMAIN h = outside \cup up
    OBVIOUS
  <1> HIDE DEF h
  <1> QED
    BY <1>1, <1>6, <1>7, <1>8

LEMMA HoistShaped ==
  ASSUME NEW D, Shaped(D), NEW p \in Spot, NEW side \in Sides
  PROVE  Shaped(Hoisted(D, p, side))
  <1> DEFINE H == Hoisted(D, p, side)
             f == [q \in H |-> From(p, side, q)]
  <1>1. H \subseteq Spot /\ \A q \in H : From(p, side, q) \in D
    BY DEF Hoisted
  <1>2. IsFiniteSet(H)
    <2>1. f \in [H -> D] /\ \A q, r \in H : f[q] = f[r] => q = r
      BY <1>1, FromOnce
    <2>2. f \in Injection(H, D)
      <3> HIDE DEF f
      <3> QED
        BY <2>1 DEF Injection, IsInjective
    <2> HIDE DEF f, H
    <2> QED
      BY <2>2, FS_Injection DEF Shaped
  <1>3. ASSUME NEW q \in H, NEW k \in 0 .. Len(q) PROVE Upto(q, k) \in H
    <2>1. q \in Spot /\ Len(q) \in Nat
      BY <1>1 DEF Spot
    <2>2. CASE k = Len(q)
      BY <2>1, <2>2, UptoPlace
    <2>3. CASE k # Len(q)
      <3>1. PICK m : m \in 1 .. Len(q) /\ m - 1 = k
        <4>1. k + 1 \in 1 .. Len(q) /\ k + 1 - 1 = k
          BY <2>1, <2>3
        <4> QED
          BY <4>1
      <3>2. PICK j \in 1 .. Len(From(p, side, q)) :
              Upto(From(p, side, q), j - 1) = From(p, side, Upto(q, m - 1))
        BY <2>1, <3>1, FromAbove, Zenon
      <3>3. Upto(From(p, side, q), j - 1) \in D
        BY <1>1, <3>2, Above
      <3> QED
        BY <2>1, <3>1, <3>2, <3>3, UptoPlace DEF Hoisted
    <2> QED
      BY <2>2, <2>3
  <1> QED
    BY <1>1, <1>2, <1>3 DEF Shaped

(* The nodes that stay.                                                    *)
LEMMA HoistStays ==
  ASSUME NEW D, Shaped(D), NEW p \in D, NEW side \in Sides,
         \A other \in Sides \ {side} : Append(p, other) \notin D
  PROVE  /\ \A q \in Hoisted(D, p, side) : From(p, side, q) \in D \ {p}
         /\ \A x \in D \ {p} : \E q \in Hoisted(D, p, side) : From(p, side, q) = x
  <1>1. p \in Spot /\ D \subseteq Spot
    BY DEF Shaped
  <1>2. ASSUME NEW q \in Hoisted(D, p, side) PROVE From(p, side, q) \in D \ {p}
    <2>1. q \in Spot /\ From(p, side, q) \in D
      BY DEF Hoisted
    <2>2. CASE Under(p, q)
      <3>1. Len(From(p, side, q)) = Len(q) + 1 /\ Len(p) <= Len(q) /\ Len(p) \in Nat /\ Len(q) \in Nat
        BY <1>1, <2>1, <2>2, FromPlace DEF Under, Spot
      <3> QED
        BY <2>1, <3>1
    <2>3. CASE ~ Under(p, q)
      <3>1. From(p, side, q) = q
        BY <1>1, <2>1, <2>3, FromPlace
      <3>2. Under(p, p)
        BY <1>1, UptoPlace DEF Under, Spot
      <3> QED
        BY <2>1, <2>3, <3>1, <3>2
    <2> QED
      BY <2>2, <2>3
  <1>3. ASSUME NEW x \in D \ {p} PROVE \E q \in Hoisted(D, p, side) : From(p, side, q) = x
    <2>1. x \in Spot
      BY <1>1
    <2>2. ASSUME NEW other \in Sides \ {side}, Under(Append(p, other), x) PROVE FALSE
      <3>1. /\ Upto(x, Len(Append(p, other))) = Append(p, other)
            /\ Len(Append(p, other)) <= Len(x) /\ Len(Append(p, other)) \in Nat
        BY <1>1, <2>2, AppendPlace DEF Under, Spot
      <3>2. Len(Append(p, other)) \in 0 .. Len(x)
        BY <2>1, <3>1 DEF Spot
      <3>3. Upto(x, Len(Append(p, other))) \in D
        BY <3>2 DEF Shaped
      <3> QED
        BY <3>1, <3>3
    <2>3. PICK q \in Spot : From(p, side, q) = x
      BY <1>1, <2>1, <2>2, FromAll
    <2> QED
      BY <2>3 DEF Hoisted
  <1> QED
    BY <1>2, <1>3

(* A node with nothing on one side goes.                                   *)
LEMMA Removed ==
  ASSUME NEW t, SearchTree(t), NEW p \in DOMAIN t, NEW side \in Sides,
         \A other \in Sides \ {side} : Append(p, other) \notin DOMAIN t
  PROVE  /\ SearchTree(BST!Hoist(t, p, side))
         /\ ItemsIn(BST!Hoist(t, p, side)) = Without(ItemsIn(t), t[p].Key)
  <1> DEFINE h == BST!Hoist(t, p, side)
             D == DOMAIN t
             H == Hoisted(D, p, side)
  <1>1. Shaped(D) /\ Ordered(t) /\ p \in Spot /\ D \subseteq Spot /\ \A q \in D : t[q] \in Node
    BY DEF SearchTree, Shaped
  <1>2. DOMAIN h = H /\ \A q \in H : h[q] = t[From(p, side, q)]
    BY <1>1, HoistIs
  <1>3. Shaped(H)
    BY <1>1, HoistShaped
  <1>4. /\ \A q \in H : From(p, side, q) \in D \ {p}
        /\ \A x \in D \ {p} : \E q \in H : From(p, side, q) = x
    BY <1>1, HoistStays
  <1> HIDE DEF h, H
  <1>5. Ordered(h)
    <2> SUFFICES ASSUME NEW q \in H, NEW k \in 1 .. Len(q)
                 PROVE  Turn(q[k], h[q].Key, h[Upto(q, k - 1)].Key)
      BY <1>2 DEF Ordered
    <2>1. q \in Spot /\ Upto(q, k - 1) \in H
      BY <1>3, Above
    <2>2. PICK x : x = From(p, side, q)
      OBVIOUS
    <2>3. PICK j \in 1 .. Len(x) : x[j] = q[k] /\ Upto(x, j - 1) = From(p, side, Upto(q, k - 1))
      BY <1>1, <2>1, <2>2, FromAbove, Zenon
    <2>4. x \in D
      BY <1>4, <2>2
    <2>5. Turn(x[j], t[x].Key, t[Upto(x, j - 1)].Key)
      BY <1>1, <2>4 DEF Ordered
    <2> QED
      BY <1>2, <2>1, <2>2, <2>3, <2>5
  <1>6. ItemsIn(h) = Without(ItemsIn(t), t[p].Key)
    <2>1. Without(ItemsIn(t), t[p].Key) = {ItemAt(t, x) : x \in D \ {p}}
      BY ItemsOnce
    <2>2. \A q \in H : ItemAt(h, q) = ItemAt(t, From(p, side, q))
      BY <1>2 DEF ItemAt
    <2> QED
      BY <1>2, <1>4, <2>1, <2>2 DEF ItemsIn
  <1>7. \A q \in H : h[q] \in Node
    BY <1>1, <1>2, <1>4
  <1> QED
    BY <1>2, <1>3, <1>5, <1>6, <1>7 DEF SearchTree, h

(* The rightmost node of the left subtree.                                 *)
IsRightmost(D, p, r) ==
  /\ r \in D /\ Append(r, "R") \notin D
  /\ Len(p) + 1 <= Len(r) /\ r[Len(p) + 1] = "L" /\ Upto(r, Len(p)) = p
  /\ \A k \in Len(p) + 2 .. Len(r) : r[k] = "R"

LEMMA Rightmost ==
  ASSUME NEW D, Shaped(D), NEW p \in D, Append(p, "L") \in D
  PROVE  IsRightmost(D, p, CHOOSE q \in BST!DownSide(D, BST!LPtr(p), "R") : BST!RPtr(q) \notin D)
  <1> DEFINE S == BST!DownSide(D, BST!LPtr(p), "R")
             a == Append(p, "L")
  <1>1. p \in Spot /\ D \subseteq Spot /\ "L" \in Sides /\ "R" \in Sides /\ Len(p) \in Nat
    BY DEF Shaped, Sides, Spot
  <1>2. a \in Spot /\ Len(a) = Len(p) + 1
    BY <1>1, AppendPlace
  <1>3. S = {q \in D : Under(a, q) /\ \A k \in Len(p) + 2 .. Len(q) : q[k] = "R"}
    <2>1. S = {q \in D : BST!IsPrefix(a, q) /\ \A k \in Len(a) + 1 .. Len(q) : q[k] = "R"}
      BY DEF BST!DownSide, BST!LPtr
    <2>2. Len(a) + 1 = Len(p) + 2
      BY <1>1, <1>2
    <2> HIDE DEF a, S
    <2> QED
      BY <1>1, <1>2, <2>1, <2>2, UnderParts
  <1>4. a \in S
    <2> HIDE DEF a, S
    <2>1. Upto(a, Len(a)) = a
      <3>1. Len(a) \in 0 .. Len(a)
        BY <1>1, <1>2
      <3> QED
        BY <1>2, <3>1, UptoPlace
    <2>2. \A k \in Len(p) + 2 .. Len(a) : FALSE
      BY <1>1, <1>2
    <2> QED
      BY <1>1, <1>2, <1>3, <2>1, <2>2 DEF Under, a
  <1>5. ASSUME NEW q \in S, Append(q, "R") \in D PROVE Append(q, "R") \in S
    <2>1. q \in Spot /\ Under(a, q) /\ Len(q) \in Nat
      BY <1>1, <1>3 DEF Spot
    <2> DEFINE b == Append(q, "R")
    <2>2. b \in Spot /\ Len(b) = Len(q) + 1 /\ b[Len(q) + 1] = "R" /\ \A i \in 1 .. Len(q) : b[i] = q[i]
      BY <1>1, <2>1, AppendPlace
    <2> HIDE DEF a, b
    <2>3. Under(a, b)
      BY <1>1, <1>2, <2>1, <2>2, UnderParts
    <2>4. \A k \in Len(p) + 2 .. Len(b) : b[k] = "R"
      BY <1>1, <1>3, <2>1, <2>2
    <2> QED
      BY <1>3, <1>5, <2>3, <2>4, Zenon DEF b
  <1> HIDE DEF S, a
  <1>6. \E q \in S : Append(q, "R") \notin D
    <2> SUFFICES ASSUME \A q \in S : Append(q, "R") \in D PROVE FALSE
      OBVIOUS
    <2> DEFINE deep == {n \in Nat : \A q \in S : Len(q) < n}
    <2>1. Cardinality(D) \in deep
      <3>1. Cardinality(D) \in Nat
        BY FS_CardinalityType DEF Shaped
      <3>2. ASSUME NEW q \in S PROVE Len(q) < Cardinality(D)
        <4>1. q \in Spot /\ q \in D
          BY <1>1, <1>3
        <4> QED
          BY <4>1, Depth DEF Shaped
      <3> QED
        BY <3>1, <3>2
    <2>2. PICK n \in deep : \A m \in deep : n <= m
      <3>1. deep \subseteq Nat
        OBVIOUS
      <3> HIDE DEF deep
      <3> QED
        BY <2>1, <3>1, LeastNatural, Zenon
    <2>3. ASSUME NEW q \in S PROVE Len(q) < n - 1
      <3>1. Append(q, "R") \in S
        BY <1>5
      <3>2. q \in Spot
        BY <1>1, <1>3
      <3>3. Len(Append(q, "R")) = Len(q) + 1 /\ Len(q) \in Nat
        BY <1>1, <3>2, AppendPlace DEF Spot
      <3>4. Len(Append(q, "R")) < n
        BY <2>2, <3>1, Zenon
      <3> QED
        BY <2>2, <3>3, <3>4
    <2>4. n - 1 \in deep
      <3>1. n \in Nat /\ n # 0
        BY <1>2, <1>4, <2>2 DEF Spot
      <3> QED
        BY <2>3, <3>1
    <2> QED
      BY <2>2, <2>4
  <1>7. PICK r : r = CHOOSE q \in S : BST!RPtr(q) \notin D
    OBVIOUS
  <1>8. r \in S /\ Append(r, "R") \notin D
    BY <1>6, <1>7 DEF BST!RPtr
  <1>9. IsRightmost(D, p, r)
    <2>1. r \in Spot /\ Len(r) \in Nat
      BY <1>1, <1>3, <1>8 DEF Spot
    <2>2. Len(p) + 1 <= Len(r) /\ r[Len(p) + 1] = "L" /\ \A i \in 1 .. Len(p) : r[i] = p[i]
      BY <1>1, <1>3, <1>8, <2>1, UnderSide DEF a
    <2>3. Under(p, r)
      BY <1>1, <2>1, <2>2, UnderParts
    <2> QED
      BY <1>3, <1>8, <2>2, <2>3 DEF IsRightmost, Under
  <1> QED
    BY <1>7, <1>9 DEF S

(* Its key is the greatest of that subtree.                                *)
LEMMA Greatest ==
  ASSUME NEW t, SearchTree(t), NEW p \in DOMAIN t, NEW r, IsRightmost(DOMAIN t, p, r),
         NEW x \in DOMAIN t, x # r,
         Len(p) + 1 <= Len(x), x[Len(p) + 1] = "L", Upto(x, Len(p)) = p
  PROVE  t[x].Key < t[r].Key
  <1>1. /\ Shaped(DOMAIN t) /\ Ordered(t) /\ p \in Spot /\ r \in Spot /\ x \in Spot /\ r \in DOMAIN t
        /\ \A q \in DOMAIN t : t[q].Key \in Int
    BY KeysNumbers DEF SearchTree, Shaped, IsRightmost
  <1>2. /\ Len(p) \in Nat /\ Len(r) \in Nat /\ Len(x) \in Nat
        /\ Len(p) + 1 <= Len(r) /\ r[Len(p) + 1] = "L" /\ Upto(r, Len(p)) = p
        /\ Append(r, "R") \notin DOMAIN t
        /\ \A k \in 1 .. Len(r) : k > Len(p) + 1 => r[k] = "R"
    BY <1>1 DEF Spot, IsRightmost
  <1>3. \A i \in 1 .. Len(p) + 1 : r[i] = x[i]
    <2>1. \A i \in 1 .. Len(p) : r[i] = p[i] /\ x[i] = p[i]
      BY <1>1, <1>2, UptoPlace
    <2> QED
      BY <1>2, <2>1
  <1>4. ASSUME NEW k \in 1 .. Len(x), Upto(x, k - 1) = r PROVE t[x].Key < t[r].Key
    <2>1. Turn(x[k], t[x].Key, t[r].Key) /\ x[k] \in Sides
      BY <1>1, <1>4, Above DEF Ordered
    <2>2. x[k] # "R"
      <3> SUFFICES ASSUME x[k] = "R" PROVE FALSE
        OBVIOUS
      <3>1. k - 1 \in 0 .. Len(x) /\ k \in 0 .. Len(x)
        BY <1>2
      <3>2. Len(r) = k - 1 /\ \A i \in 1 .. k - 1 : r[i] = x[i]
        BY <1>1, <1>4, <3>1, UptoPlace
      <3>3. Upto(x, k) \in DOMAIN t /\ Upto(x, k) \in Spot /\ Len(Upto(x, k)) = k
            /\ \A i \in 1 .. k : Upto(x, k)[i] = x[i]
        BY <1>1, <3>1, UptoPlace DEF Shaped
      <3>4. "R" \in Sides
        BY DEF Sides
      <3> DEFINE b == Append(r, "R")
      <3>5. b \in Spot /\ Len(b) = Len(r) + 1 /\ b[Len(r) + 1] = "R" /\ \A i \in 1 .. Len(r) : b[i] = r[i]
        BY <1>1, <3>4, AppendPlace
      <3> HIDE DEF b
      <3>6. \A i \in 1 .. k : b[i] = Upto(x, k)[i]
        BY <1>2, <3>2, <3>3, <3>5
      <3>7. b = Upto(x, k)
        BY <1>2, <3>2, <3>3, <3>5, <3>6, SamePlace
      <3> QED
        BY <1>2, <3>3, <3>7, Zenon DEF b
    <2> QED
      BY <2>1, <2>2 DEF Turn, Sides
  <1>5. ASSUME NEW k \in 1 .. Len(r), Upto(r, k - 1) = x PROVE t[x].Key < t[r].Key
    <2>1. k - 1 \in 0 .. Len(r)
      BY <1>2
    <2>2. Len(x) = k - 1
      BY <1>1, <1>5, <2>1, UptoPlace
    <2>3. r[k] = "R"
      BY <1>2, <2>2
    <2>4. Turn(r[k], t[r].Key, t[x].Key)
      BY <1>1, <1>5 DEF Ordered
    <2> QED
      BY <1>1, <2>3, <2>4 DEF Turn
  <1>6. ASSUME NEW k \in 1 .. Len(x), k \in 1 .. Len(r), x[k] # r[k], Upto(x, k - 1) = Upto(r, k - 1)
        PROVE  t[x].Key < t[r].Key
    <2>1. r[k] = "R"
      BY <1>2, <1>3, <1>6
    <2>2. x[k] = "L" /\ Upto(r, k - 1) \in DOMAIN t
      BY <1>1, <1>6, <2>1, Above DEF Sides
    <2>3. Turn(r[k], t[r].Key, t[Upto(r, k - 1)].Key) /\ Turn(x[k], t[x].Key, t[Upto(r, k - 1)].Key)
      BY <1>1, <1>6 DEF Ordered
    <2> QED
      BY <1>1, <2>1, <2>2, <2>3 DEF Turn
  <1> QED
    BY <1>1, <1>4, <1>5, <1>6, Parting

(* A node goes whose place the rightmost of its left subtree takes.        *)
Overwritten(t, p, r, u) == u = [t EXCEPT ![p] = t[r]]

LEMMA Replaced ==
  ASSUME NEW t, SearchTree(t), NEW p \in DOMAIN t, NEW r, IsRightmost(DOMAIN t, p, r),
         NEW u, Overwritten(t, p, r, u)
  PROVE  /\ SearchTree(BST!Hoist(u, r, "L"))
         /\ ItemsIn(BST!Hoist(u, r, "L")) = Without(ItemsIn(t), t[p].Key)
  <1>a. PICK side : side = "L"
    OBVIOUS
  <1> DEFINE h == BST!Hoist(u, r, side)
             D == DOMAIN t
             H == Hoisted(D, r, side)
             F(q) == From(r, side, q)
  <1>0. side \in Sides /\ Sides \ {side} = {"R"}
    BY <1>a DEF Sides
  <1>1. /\ Shaped(D) /\ Ordered(t) /\ p \in Spot /\ r \in Spot /\ r \in D /\ D \subseteq Spot
        /\ \A q \in D : t[q] \in Node /\ t[q].Key \in Int
        /\ Len(p) \in Nat /\ Len(r) \in Nat
    BY KeysNumbers DEF SearchTree, Shaped, IsRightmost, Spot
  <1>2. /\ Len(p) + 1 <= Len(r) /\ r[Len(p) + 1] = "L" /\ Upto(r, Len(p)) = p
        /\ Append(r, "R") \notin D
    BY DEF IsRightmost
  <1>3. DOMAIN u = D /\ u[p] = t[r] /\ \A q \in D : q # p => u[q] = t[q]
    BY DEF Overwritten
  <1>4. DOMAIN h = H /\ \A q \in H : h[q] = u[F(q)]
    <2>1. DOMAIN u \subseteq Spot /\ r \in Spot /\ side \in Sides
      BY <1>0, <1>1, <1>3
    <2>2. /\ DOMAIN BST!Hoist(u, r, side) = Hoisted(DOMAIN u, r, side)
          /\ \A q \in Hoisted(DOMAIN u, r, side) : BST!Hoist(u, r, side)[q] = u[From(r, side, q)]
      BY ONLY <2>1, HoistIs
    <2> QED
      BY <1>3, <2>2
  <1>5. Shaped(H)
    BY <1>0, <1>1, HoistShaped
  <1>6. /\ \A q \in H : F(q) \in D \ {r}
        /\ \A x \in D \ {r} : \E q \in H : F(q) = x
    BY <1>0, <1>1, <1>2, HoistStays
  <1> HIDE DEF h, H, F
  <1>7. /\ t[r].Key < t[p].Key
        /\ \A j \in 1 .. Len(p) : r[j] = p[j] /\ Upto(r, j - 1) = Upto(p, j - 1) /\ j \in 1 .. Len(r)
    <2>1. PICK k : k \in 1 .. Len(r) /\ k = Len(p) + 1 /\ k - 1 = Len(p)
      BY <1>1, <1>2
    <2>2. Turn(r[k], t[r].Key, t[Upto(r, k - 1)].Key)
      BY <1>1, <2>1 DEF Ordered
    <2>3. t[r].Key < t[p].Key
      BY <1>1, <1>2, <2>1, <2>2 DEF Turn
    <2>4. Len(p) \in 0 .. Len(r)
      BY <1>1, <1>2
    <2>5. ASSUME NEW j \in 1 .. Len(p)
          PROVE  r[j] = p[j] /\ Upto(r, j - 1) = Upto(p, j - 1) /\ j \in 1 .. Len(r)
      <3>1. j - 1 \in 0 .. Len(p) /\ j \in 1 .. Len(r)
        BY <1>1, <1>2
      <3>2. r[j] = p[j] /\ Upto(Upto(r, Len(p)), j - 1) = Upto(r, j - 1)
        BY <1>1, <1>2, <2>4, <3>1, UptoPlace
      <3> QED
        BY <1>2, <3>1, <3>2
    <2> QED
      BY <2>3, <2>5
  <1>8. ASSUME NEW x \in D \ {r}, NEW j \in 1 .. Len(x), Upto(x, j - 1) # r
        PROVE  Turn(x[j], u[x].Key, u[Upto(x, j - 1)].Key)
    <2> DEFINE a == Upto(x, j - 1)
    <2>1. /\ a \in D /\ x[j] \in Sides /\ x \in Spot
          /\ Turn(x[j], t[x].Key, t[a].Key)
          /\ Len(a) = j - 1 /\ Len(x) \in Nat
      <3>1. x \in Spot /\ a \in D /\ x[j] \in Sides
        BY <1>1, Above
      <3>2. j - 1 \in 0 .. Len(x) /\ Len(x) \in Nat
        BY <3>1 DEF Spot
      <3> QED
        BY <1>1, <3>1, <3>2, UptoPlace, Zenon DEF Ordered
    <2>2. CASE x = p
      <3>1. a # p
        BY <1>1, <2>1, <2>2
      <3>2. Turn(r[j], t[r].Key, t[Upto(r, j - 1)].Key)
        BY <1>1, <1>7, <2>2 DEF Ordered
      <3> QED
        BY <1>3, <1>7, <2>1, <2>2, <3>1, <3>2
    <2>3. CASE x # p /\ a = p
      <3>1. u[x] = t[x] /\ u[a] = t[r] /\ j = Len(p) + 1
        BY <1>1, <1>3, <2>1, <2>3
      <3>2. CASE x[j] = "R"
        <4>1. t[x].Key > t[p].Key
          BY <2>1, <2>3, <3>2 DEF Turn
        <4> QED
          BY <1>1, <1>7, <3>1, <3>2, <4>1 DEF Turn
      <3>3. CASE x[j] = "L"
        <4>1. Len(p) + 1 <= Len(x) /\ x[Len(p) + 1] = "L" /\ Upto(x, Len(p)) = p
          BY <1>1, <2>1, <2>3, <3>1, <3>3
        <4>2. t[x].Key < t[r].Key
          BY <4>1, Greatest
        <4> QED
          BY <3>1, <3>3, <4>2 DEF Turn
      <3> QED
        BY <2>1, <3>2, <3>3 DEF Sides
    <2>4. CASE x # p /\ a # p
      BY <1>3, <2>1, <2>4
    <2> QED
      BY <2>2, <2>3, <2>4
  <1>9. Ordered(h)
    <2> SUFFICES ASSUME NEW q \in H, NEW k \in 1 .. Len(q)
                 PROVE  Turn(q[k], h[q].Key, h[Upto(q, k - 1)].Key)
      BY <1>4 DEF Ordered
    <2>1. q \in Spot /\ Upto(q, k - 1) \in H
      BY <1>5, Above
    <2>2. PICK x : x = F(q)
      OBVIOUS
    <2>3. PICK j \in 1 .. Len(x) : x[j] = q[k] /\ Upto(x, j - 1) = F(Upto(q, k - 1))
      <3>1. x = From(r, side, q) /\ r \in Spot /\ side \in Sides
        BY <1>0, <1>1, <2>2 DEF F
      <3>2. \E j \in 1 .. Len(x) : x[j] = q[k] /\ Upto(x, j - 1) = From(r, side, Upto(q, k - 1))
        BY ONLY <2>1, <3>1, k \in 1 .. Len(q), FromAbove, Zenon
      <3> QED
        BY <3>2 DEF F
    <2>4. x \in D \ {r} /\ Upto(x, j - 1) # r
      BY <1>6, <2>1, <2>2, <2>3
    <2>5. Turn(x[j], u[x].Key, u[Upto(x, j - 1)].Key)
      BY <1>8, <2>4
    <2> QED
      BY <1>4, <2>1, <2>2, <2>3, <2>5
  <1>10. ItemsIn(h) = Without(ItemsIn(t), t[p].Key)
    <2>1. Without(ItemsIn(t), t[p].Key) = {ItemAt(t, x) : x \in D \ {p}}
      BY ItemsOnce
    <2>2. \A q \in H : ItemAt(h, q) = ItemAt(u, F(q))
      BY <1>4 DEF ItemAt
    <2>3. ItemsIn(h) = {ItemAt(u, x) : x \in D \ {r}}
      <3>1. ItemsIn(h) = {ItemAt(h, q) : q \in H}
        BY <1>4 DEF ItemsIn
      <3>2. ASSUME NEW q \in H PROVE \E x \in D \ {r} : ItemAt(h, q) = ItemAt(u, x)
        BY <1>6, <2>2
      <3>3. ASSUME NEW x \in D \ {r} PROVE \E q \in H : ItemAt(h, q) = ItemAt(u, x)
        <4>1. PICK q \in H : F(q) = x
          BY <1>6
        <4> QED
          BY <2>2, <4>1
      <3>4. ItemsIn(h) \subseteq {ItemAt(u, x) : x \in D \ {r}}
        BY <3>1, <3>2
      <3>5. {ItemAt(u, x) : x \in D \ {r}} \subseteq ItemsIn(h)
        <4> SUFFICES ASSUME NEW x \in D \ {r} PROVE ItemAt(u, x) \in ItemsIn(h)
          OBVIOUS
        <4> QED
          BY <3>1, <3>3
      <3> QED
        BY <3>4, <3>5
    <2>4. ItemAt(u, p) = ItemAt(t, r) /\ \A x \in D \ {p} : ItemAt(u, x) = ItemAt(t, x)
      BY <1>3 DEF ItemAt
    <2>5. p # r
      BY <1>1, <1>7
    <2> QED
      BY <1>1, <2>1, <2>3, <2>4, <2>5
  <1>11. \A q \in H : h[q] \in Node
    BY <1>1, <1>3, <1>4, <1>6
  <1> QED
    BY <1>a, <1>4, <1>5, <1>9, <1>10, <1>11 DEF SearchTree, h

-----------------------------------------------------------------------------
(* The dictionary a search tree stands for.                                *)

BEntries == MapOf(ItemsIn(bst))

BMap == [key \in {node.Key : node \in BST!Stored} |->
           (CHOOSE node \in BST!Stored : node.Key = key).BSTNodeCont]

BSteps == SearchTree(bst)' /\ BST!Map!Next

LEMMA BMapSeen == SearchTree(bst) => BMap = BEntries
  <1> SUFFICES ASSUME SearchTree(bst) PROVE BMap = BEntries
    OBVIOUS
  <1> DEFINE items == ItemsIn(bst)
             keys == {item.key : item \in items}
  <1>1. Single(items) /\ \A q, r \in DOMAIN bst : bst[q].Key = bst[r].Key => q = r
    BY ItemsOnce, Distinct
  <1>2. BST!Stored = {bst[q] : q \in DOMAIN bst}
    BY DEF BST!Stored
  <1>3. {node.Key : node \in BST!Stored} = keys
    <2>1. {node.Key : node \in BST!Stored} = {bst[q].Key : q \in DOMAIN bst}
      BY <1>2
    <2>2. keys = {bst[q].Key : q \in DOMAIN bst}
      <3>1. \A q : ItemAt(bst, q).key = bst[q].Key
        BY DEF ItemAt
      <3> QED
        BY <3>1 DEF ItemsIn
    <2> QED
      BY <2>1, <2>2, Zenon
  <1>4. ASSUME NEW key \in keys
        PROVE  (CHOOSE node \in BST!Stored : node.Key = key).BSTNodeCont = MapOf(items)[key]
    <2>1. PICK q \in DOMAIN bst : bst[q].Key = key
      BY DEF ItemsIn, ItemAt
    <2>2. (CHOOSE node \in BST!Stored : node.Key = key) = bst[q]
      BY <1>1, <1>2, <2>1
    <2>3. ItemAt(bst, q) \in items /\ ItemAt(bst, q).key = key /\ ItemAt(bst, q).data = bst[q].BSTNodeCont
      BY <2>1 DEF ItemsIn, ItemAt
    <2> HIDE DEF items, keys
    <2>4. MapOf(items)[key] = bst[q].BSTNodeCont
      BY <1>1, <2>3, MapValue
    <2> QED
      BY <2>2, <2>4, Zenon
  <1>5. BMap = [key \in keys |-> (CHOOSE node \in BST!Stored : node.Key = key).BSTNodeCont]
    BY <1>3, Zenon DEF BMap
  <1>6. MapOf(items) = [key \in keys |-> MapOf(items)[key]]
    BY DEF MapOf
  <1> HIDE DEF items, keys
  <1> QED
    BY <1>4, <1>5, <1>6 DEF BEntries, items

LEMMA BMapSeenNext == SearchTree(bst)' => BMap' = BEntries'
  <1> DEFINE Tree == SearchTree(bst)
             Same == BMap = BEntries
  <1>1. Tree => Same
    BY BMapSeen
  <1> HIDE DEF Tree, Same
  <1>2. Tree' => Same'
    BY <1>1, PTL
  <1> QED
    BY <1>2 DEF Tree, Same

LEMMA BBecomes ==
  ASSUME NEW u, SearchTree(u), bst' = u
  PROVE  SearchTree(bst)' /\ BMap' = MapOf(ItemsIn(u))
  <1>1. SearchTree(bst)'
    BY DEF SearchTree, Shaped, Ordered
  <1>2. BEntries' = MapOf(ItemsIn(u))
    BY DEF BEntries, MapOf, ItemsIn, ItemAt
  <1> QED
    BY <1>1, <1>2, BMapSeenNext

LEMMA BFinds ==
  ASSUME SearchTree(bst), NEW key \in Keys
  PROVE  /\ BST!Found(key) = Search(bst, key)
         /\ BST!Found(key) \in DOMAIN bst =>
              key \in DOMAIN BEntries /\ BEntries[key] = bst[BST!Found(key)].BSTNodeCont
         /\ BST!Found(key) \notin DOMAIN bst => key \notin DOMAIN BEntries
  <1>1. BST!Found(key) = Search(bst, key)
    BY DEF BST!Found, Search, KeysOf
  <1>2. PICK t, p : t = bst /\ p = Search(t, key)
    OBVIOUS
  <1>3. SearchTree(t)
    BY <1>2
  <1>4. (p \in DOMAIN t => t[p].Key = key) /\ \A q \in DOMAIN t : t[q].Key = key => p = q
    BY <1>2, <1>3, SearchEnds
  <1>5. CASE p \in DOMAIN t
    <2>1. ItemAt(t, p) \in ItemsIn(t) /\ ItemAt(t, p).key = key /\ ItemAt(t, p).data = t[p].BSTNodeCont
      BY <1>4, <1>5 DEF ItemsIn, ItemAt
    <2>2. key \in DOMAIN MapOf(ItemsIn(t)) /\ MapOf(ItemsIn(t))[key] = t[p].BSTNodeCont
      BY <1>3, <2>1, ItemsOnce, MapValue
    <2> QED
      BY <1>1, <1>2, <1>5, <2>2 DEF BEntries
  <1>6. CASE p \notin DOMAIN t
    <2>1. key \notin DOMAIN MapOf(ItemsIn(t))
      BY <1>4, <1>6 DEF MapOf, ItemsIn, ItemAt
    <2> QED
      BY <1>1, <1>2, <1>6, <2>1 DEF BEntries
  <1> QED
    BY <1>5, <1>6

LEMMA BClears ==
  ASSUME bcall' = << "clear" >>, BST!BSTDispose
  PROVE  BSteps
  <1>1. bst' = << >> /\ bres' = Done
    BY DEF BST!BSTDispose, BST!Returns
  <1>2. SearchTree(<< >>) /\ ItemsIn(<< >>) = {}
    BY FS_EmptySet DEF SearchTree, Shaped, Ordered, ItemsIn
  <1>3. SearchTree(bst)' /\ BMap' = << >>
    <2>1. PICK u : u = << >>
      OBVIOUS
    <2> QED
      BY <1>1, <1>2, <2>1, BBecomes, MapEmpty, Zenon
  <1> QED
    BY <1>1, <1>3, Zenon DEF BSteps, BMap, BST!Map!Next, BST!Map!Clear, BST!Map!Becomes

LEMMA BStays ==
  ASSUME SearchTree(bst), bst' = bst
  PROVE  SearchTree(bst)' /\ BMap = BEntries /\ BMap' = BMap
  <1>1. PICK u : u = bst
    OBVIOUS
  <1> QED
    BY <1>1, BBecomes, BMapSeen DEF BEntries

LEMMA BSearches ==
  ASSUME SearchTree(bst), NEW key \in Keys, bcall' = << "search", key >>, BST!BSTSearch(key)
  PROVE  BSteps
  <1>1. bst' = bst
    BY DEF BST!BSTSearch
  <1>2. SearchTree(bst)' /\ BMap = BEntries /\ BMap' = BMap
    BY <1>1, BStays
  <1>3. bres' = IF key \in DOMAIN BMap THEN BMap[key] ELSE None
    BY <1>2, BFinds DEF BST!BSTSearch
  <1>4. BST!Map!Search(key)
    BY <1>2, <1>3, Zenon DEF BMap, BST!Map!Search
  <1> QED
    BY <1>2, <1>4 DEF BSteps, BST!Map!Next

LEMMA BInserts ==
  ASSUME SearchTree(bst), NEW key \in Keys, NEW content \in Values,
         bcall' = << "insert", key, content >>, BST!BSTInsert(key, content)
  PROVE  BSteps
  <1>1. bres' = Done
    BY DEF BST!BSTInsert, BST!Returns
  <1>2. CASE BST!Found(key) \notin DOMAIN bst /\ bst' = bst
    <2>1. SearchTree(bst)' /\ BMap = BEntries /\ BMap' = BMap
      BY <1>2, BStays
    <2>2. key \notin DOMAIN BMap
      BY <1>2, <2>1, BFinds
    <2>3. BST!Map!Insert(key, content)
      BY <1>1, <2>1, <2>2, Zenon DEF BMap, BST!Map!Insert, BST!Map!Becomes
    <2> QED
      BY <2>1, <2>3 DEF BSteps, BST!Map!Next
  <1>3. CASE ~ (BST!Found(key) \notin DOMAIN bst /\ bst' = bst)
    <2>1. PICK t, p, node, u :
            /\ t = bst /\ p = Search(t, key) /\ node = [Key |-> key, BSTNodeCont |-> content]
            /\ u = [q \in DOMAIN t \cup {p} |-> IF q = p THEN node ELSE t[q]]
      BY Zenon
    <2>2. bst' = u
      BY <1>3, <2>1, BFinds DEF BST!BSTInsert, BST!Returns
    <2>3. node \in Node /\ node.Key = key /\ node.BSTNodeCont = content
      BY <2>1 DEF Node
    <2>4. SearchTree(t) /\ p = Search(t, node.Key)
      BY <2>1, <2>3
    <2>5. /\ SearchTree(u)
          /\ ItemsIn(u) = Without(ItemsIn(t), key) \cup {[key |-> key, data |-> content]}
      BY <2>1, <2>3, <2>4, Grown
    <2>6. SearchTree(bst)' /\ BMap' = MapOf(ItemsIn(u))
      BY <2>2, <2>5, BBecomes
    <2>7. PICK item : item = [key |-> key, data |-> content]
      BY Zenon
    <2>8. item.key = key /\ item.data = content
      BY <2>7
    <2>9. MapOf(ItemsIn(u)) = MapPlus(MapOf(ItemsIn(t)), key, content)
      <3>1. PICK items, others : items = ItemsIn(t) /\ others = ItemsIn(u)
        OBVIOUS
      <3>2. Single(items) /\ others = Without(items, item.key) \cup {item}
        BY <2>4, <2>5, <2>7, <2>8, <3>1, ItemsOnce
      <3>3. MapOf(others) = MapPlus(MapOf(items), item.key, item.data)
        BY <3>2, MapWith
      <3> QED
        BY <2>8, <3>1, <3>3
    <2>10. BMap' = [k \in DOMAIN BMap \cup {key} |-> IF k = key THEN content ELSE BMap[k]]
      <3>1. BMap = MapOf(ItemsIn(t))
        BY <2>1, BMapSeen DEF BEntries
      <3> QED
        BY <2>6, <2>9, <3>1 DEF MapPlus
    <2>11. BST!Map!Insert(key, content)
      BY <1>1, <2>10, Zenon DEF BMap, BST!Map!Insert, BST!Map!Becomes
    <2> QED
      BY <2>6, <2>11 DEF BSteps, BST!Map!Next
  <1> QED
    BY <1>2, <1>3

LEMMA BDeletes ==
  ASSUME SearchTree(bst), NEW key \in Keys, bcall' = << "delete", key >>, BST!BSTDelete(key)
  PROVE  BSteps
  <1>1. bres' = Done
    BY DEF BST!BSTDelete, BST!Returns
  <1>2. PICK t, p : t = bst /\ p = Search(t, key)
    OBVIOUS
  <1>3. SearchTree(t) /\ BST!Found(key) = p /\ p \in Spot
        /\ (p \in DOMAIN t => t[p].Key = key)
    BY <1>2, BFinds, SearchEnds
  <1>4. CASE p \notin DOMAIN t
    <2>1. bst' = bst
      BY <1>2, <1>3, <1>4 DEF BST!BSTDelete, BST!Returns
    <2>2. SearchTree(bst)' /\ BMap = BEntries /\ BMap' = BMap
      BY <2>1, BStays
    <2>3. key \notin DOMAIN BMap
      BY <1>2, <1>3, <1>4, <2>2, BFinds
    <2>4. BMap = [k \in DOMAIN BMap \ {key} |-> BMap[k]]
      BY <2>3 DEF BMap
    <2>5. BMap' = [k \in DOMAIN BMap \ {key} |-> BMap[k]]
      BY <2>2, <2>4
    <2>6. BST!Map!Delete(key)
      BY <1>1, <2>5, Zenon DEF BMap, BST!Map!Delete, BST!Map!Becomes
    <2> QED
      BY <2>2, <2>6 DEF BSteps, BST!Map!Next
  <1>5. CASE p \in DOMAIN t
    <2>1. \E u : bst' = u /\ SearchTree(u) /\ ItemsIn(u) = Without(ItemsIn(t), t[p].Key)
      <3>1. CASE Append(p, "R") \notin DOMAIN t
        <4>1. bst' = BST!Hoist(t, p, "L")
          BY <1>2, <1>3, <1>5, <3>1 DEF BST!BSTDelete, BST!Returns, BST!RPtr, BST!LPtr
        <4>2. PICK side : side = "L"
          OBVIOUS
        <4>3. side \in Sides /\ \A other \in Sides \ {side} : Append(p, other) \notin DOMAIN t
          BY <3>1, <4>2 DEF Sides
        <4> QED
          BY <1>3, <1>5, <4>1, <4>2, <4>3, Removed
      <3>2. CASE Append(p, "R") \in DOMAIN t /\ Append(p, "L") \notin DOMAIN t
        <4>1. bst' = BST!Hoist(t, p, "R")
          BY <1>2, <1>3, <1>5, <3>2 DEF BST!BSTDelete, BST!Returns, BST!RPtr, BST!LPtr
        <4>2. PICK side : side = "R"
          OBVIOUS
        <4>3. side \in Sides /\ \A other \in Sides \ {side} : Append(p, other) \notin DOMAIN t
          BY <3>2, <4>2 DEF Sides
        <4> QED
          BY <1>3, <1>5, <4>1, <4>2, <4>3, Removed
      <3>3. CASE Append(p, "R") \in DOMAIN t /\ Append(p, "L") \in DOMAIN t
        <4>1. PICK D, r, u :
                /\ D = DOMAIN t
                /\ r = CHOOSE q \in BST!DownSide(D, BST!LPtr(p), "R") : BST!RPtr(q) \notin D
                /\ u = [t EXCEPT ![p] = t[r]]
          BY Zenon
        <4>2. bst' = BST!ReplaceByRightmost(p)
          BY <1>2, <1>3, <1>5, <3>3 DEF BST!BSTDelete, BST!Returns, BST!RPtr, BST!LPtr
        <4>3. bst' = BST!Hoist(u, r, "L")
          BY <1>2, <4>1, <4>2 DEF BST!ReplaceByRightmost
        <4>4. IsRightmost(DOMAIN t, p, r)
          BY <1>3, <1>5, <3>3, <4>1, Rightmost DEF SearchTree
        <4>5. Overwritten(t, p, r, u)
          BY <4>1 DEF Overwritten
        <4>6. /\ SearchTree(BST!Hoist(u, r, "L"))
              /\ ItemsIn(BST!Hoist(u, r, "L")) = Without(ItemsIn(t), t[p].Key)
          BY ONLY <1>3, <1>5, <4>4, <4>5, Replaced
        <4> QED
          BY <4>3, <4>6
      <3> QED
        BY <3>1, <3>2, <3>3
    <2>2. PICK u : bst' = u /\ SearchTree(u) /\ ItemsIn(u) = Without(ItemsIn(t), key)
      BY <1>3, <1>5, <2>1
    <2>3. SearchTree(bst)' /\ BMap' = MapOf(ItemsIn(u))
      BY <2>2, BBecomes
    <2>4. MapOf(ItemsIn(u)) = [k \in DOMAIN MapOf(ItemsIn(t)) \ {key} |-> MapOf(ItemsIn(t))[k]]
      <3>1. PICK items : items = ItemsIn(t)
        OBVIOUS
      <3>2. Single(items)
        BY <1>3, <3>1, ItemsOnce
      <3>3. MapOf(Without(items, key)) = [k \in DOMAIN MapOf(items) \ {key} |-> MapOf(items)[k]]
        BY <3>2, MapWithout, Zenon
      <3> QED
        BY <2>2, <3>1, <3>3
    <2>5. BMap' = [k \in DOMAIN BMap \ {key} |-> BMap[k]]
      <3>1. BMap = MapOf(ItemsIn(t))
        BY <1>2, BMapSeen DEF BEntries
      <3> QED
        BY <2>3, <2>4, <3>1
    <2>6. BST!Map!Delete(key)
      BY <1>1, <2>5, Zenon DEF BMap, BST!Map!Delete, BST!Map!Becomes
    <2> QED
      BY <2>3, <2>6 DEF BSteps, BST!Map!Next
  <1> QED
    BY <1>4, <1>5

LEMMA BStep == ASSUME SearchTree(bst), BST!Next PROVE BSteps
  <1>1. CASE bcall' = << "clear" >> /\ BST!BSTDispose
    BY <1>1, BClears
  <1>2. ASSUME NEW key \in Keys, bcall' = << "search", key >>, BST!BSTSearch(key) PROVE BSteps
    BY <1>2, BSearches
  <1>3. ASSUME NEW key \in Keys, bcall' = << "delete", key >>, BST!BSTDelete(key) PROVE BSteps
    BY <1>3, BDeletes
  <1>4. ASSUME NEW key \in Keys, NEW content \in Values,
               bcall' = << "insert", key, content >>, BST!BSTInsert(key, content)
        PROVE  BSteps
    BY <1>4, BInserts
  <1> QED
    BY <1>1, <1>2, <1>3, <1>4 DEF BST!Next

LEMMA BInit == BST!Init => SearchTree(bst) /\ BST!Map!Init
  <1> SUFFICES ASSUME BST!Init PROVE SearchTree(bst) /\ BST!Map!Init
    OBVIOUS
  <1>1. bst = << >> /\ bcall = << "clear" >> /\ bres = Done
    BY DEF BST!Init
  <1>2. SearchTree(<< >>) /\ ItemsIn(<< >>) = {}
    BY FS_EmptySet DEF SearchTree, Shaped, Ordered, ItemsIn
  <1>3. SearchTree(bst) /\ ItemsIn(bst) = {}
    BY <1>1, <1>2
  <1>4. BMap = << >>
    BY <1>3, BMapSeen, MapEmpty DEF BEntries
  <1> QED
    BY <1>1, <1>3, <1>4, Zenon DEF BMap, BST!Map!Init

(* One node for a key, and no hole above a node.                           *)
BSingle == \A p, q \in DOMAIN bst : bst[p].Key = bst[q].Key => p = q
BWhole == \A p \in DOMAIN bst : p # << >> => BST!Front(p) \in DOMAIN bst

LEMMA BShape == SearchTree(bst) => BSingle /\ BWhole
  <1> SUFFICES ASSUME SearchTree(bst) PROVE BSingle /\ BWhole
    OBVIOUS
  <1>1. BSingle
    BY Distinct DEF BSingle
  <1>2. ASSUME NEW p \in DOMAIN bst, p # << >> PROVE BST!Front(p) \in DOMAIN bst
    <2>1. p \in Spot /\ Len(p) \in Nat /\ Len(p) # 0
      BY <1>2 DEF SearchTree, Shaped, Spot
    <2>2. Len(p) - 1 \in 0 .. Len(p)
      BY <2>1
    <2> DEFINE a == Upto(p, Len(p) - 1)
               b == SubSeq(p, 1, Len(p) - 1)
    <2>3. /\ a \in Spot /\ Len(a) = Len(p) - 1 /\ \A i \in 1 .. Len(p) - 1 : a[i] = p[i]
      BY <2>1, <2>2, UptoPlace
    <2>4. b \in Spot /\ Len(b) = Len(p) - 1 /\ \A i \in 1 .. Len(p) - 1 : b[i] = p[i]
      <3>1. PICK n : n = Len(p) - 1 /\ n \in Nat
        <4>1. Len(p) - 1 \in Nat
          BY <2>1
        <4> QED
          BY <4>1
      <3>2. \A i \in 1 .. n : p[i] \in Sides
        BY <2>1, <3>1 DEF Spot
      <3>3. /\ b \in Seq(Sides) /\ Len(b) = (IF 1 <= n THEN n - 1 + 1 ELSE 0)
            /\ \A i \in 1 .. n - 1 + 1 : b[i] = p[1 + i - 1]
        BY <3>1, <3>2, SubSeqProperties
      <3> HIDE DEF b
      <3>4. Len(b) = n /\ \A i \in 1 .. n : b[i] = p[i]
        BY <3>1, <3>3
      <3> QED
        BY <3>1, <3>3, <3>4 DEF Spot
    <2>5. a \in DOMAIN bst
      BY <2>2 DEF SearchTree, Shaped
    <2> HIDE DEF a, b
    <2>6. a = b
      BY <2>3, <2>4, SamePlace
    <2>7. BST!Front(p) = b
      BY DEF BST!Front, b
    <2> QED
      BY <2>5, <2>6, <2>7
  <1> QED
    BY <1>1, <1>2 DEF BWhole

(* The search tree c401 is a dictionary: whatever node a deletion takes    *)
(* away and whichever moves into its place, a search still finds every     *)
(* other key, each has one node, and no node hangs in the air.             *)
THEOREM SearchTreeIsDictionary == Structures => BST!DictionarySpec
  <1> DEFINE Tree == SearchTree(bst)
  <1>1. StructuresInit => Tree /\ BST!Map!Init
    BY BInit DEF StructuresInit
  <1>2. Tree /\ [StructuresNext]_all => Tree' /\ [BST!Map!Next]_<< BMap, bcall, bres >>
    <2>1. ASSUME Tree, UNCHANGED searchTree PROVE Tree' /\ UNCHANGED << BMap, bcall, bres >>
      BY <2>1, BStays DEF searchTree
    <2>2. ASSUME Tree, BST!Next PROVE Tree' /\ BST!Map!Next
      BY <2>2, BStep DEF BSteps
    <2>3. [StructuresNext]_all => BST!Next \/ UNCHANGED searchTree
      BY DEF StructuresNext, all
    <2> QED
      BY <2>1, <2>2, <2>3
  <1>3. Tree => BSingle /\ BWhole
    BY BShape
  <1> HIDE DEF Tree
  <1> QED
    BY <1>1, <1>2, <1>3, PTL
       DEF Structures, BST!DictionarySpec, BST!Map!Spec, BMap, BSingle, BWhole

(* The hash table and the search tree are dictionaries, for every set of   *)
(* keys whose characters have a non-negative sum (hashCode).               *)
THEOREM DictionariesImplement == Structures => DictionariesImplemented
  BY TableIsDictionary, SearchTreeIsDictionary DEF DictionariesImplemented
=============================================================================
