----------------------------- MODULE MmalProofs -----------------------------
(* Theorems about Mmal, for every page size, every place of the arenas and *)
(* every request.                                                          *)
EXTENDS Mmal, FiniteSetTheorems, TLAPS

(* A map of headers; where a block of it ends, and which is the last.      *)
EndOf(H, a) == a + HDR + H[a].size
LastOf(H, a) == \A c \in DOMAIN H : c <= a

Headers(H) ==
  /\ H \in [DOMAIN H -> [next : Nat, size : Nat \ {0}, asize : Nat]]
  /\ DOMAIN H \subseteq Nat /\ IsFiniteSet(DOMAIN H)
  /\ \A a \in DOMAIN H : H[a].asize <= H[a].size

(* The list is a circle through all headers in the order of their          *)
(* addresses, and but for the last block there is nothing between them.    *)
Adjacent(H, a) == H[a].next = EndOf(H, a) /\ \A c \in DOMAIN H : c <= a \/ EndOf(H, a) <= c
Wraps(H, a) == \A c \in DOMAIN H : H[a].next <= c /\ c <= a
Circular(H) == \A a \in DOMAIN H : H[a].next \in DOMAIN H /\ (Adjacent(H, a) \/ Wraps(H, a))

(* A block in use has hardly more room than what was asked for.            *)
Snug(H) == \A a \in DOMAIN H : H[a].asize # 0 => H[a].size <= H[a].asize + 2 * HDR

Circle(H) == Headers(H) /\ Circular(H) /\ Snug(H)

(* The headers are in the first arena, and as long as the first of them is *)
(* still there the blocks fill it.                                         *)
Inside(H) == \A a \in DOMAIN H : FirstHeader <= a
EndOfArena == first_arena + arenas[first_arena].size
Fills(H) ==
  FirstHeader \in DOMAIN H =>
    \A a \in DOMAIN H :
      EndOf(H, a) <= EndOfArena /\ (LastOf(H, a) => EndOf(H, a) = EndOfArena)

(* Once the first of them was merged away, a block reaches beyond it.      *)
Reaches(H) ==
  first_arena # NULL /\ FirstHeader \notin DOMAIN H =>
    EndOfArena \in Nat /\ \E a \in DOMAIN H : EndOf(H, a) > EndOfArena

Heap(H) == Circle(H) /\ Inside(H) /\ Fills(H) /\ Reaches(H)

(* What is known however many arenas there are.                            *)
Arenas ==
  /\ arenas \in [DOMAIN arenas -> [next : Nat, size : Nat \ {0}]]
  /\ DOMAIN arenas \subseteq Bases /\ IsFiniteSet(DOMAIN arenas)
  /\ \A b \in DOMAIN arenas : arenas[b].size % PAGE = 0
  /\ first_arena = NULL => DOMAIN arenas = {}
  /\ first_arena # NULL => first_arena \in DOMAIN arenas
  /\ call.fun \in Calls \cup {"none"} /\ call.size \in Nat
  /\ pc \in {"idle", "mmalloc", "first_fit", "place", "mfree", "hdr_get_prev", "mrealloc"}
  /\ pc \in {"mfree", "hdr_get_prev", "mrealloc"} => call.fun # "mmalloc"
  /\ status \in {"ok", "assert", "segv", "wild"}

(* The rest is known as long as the first arena is the only one.           *)
OneArena == \A b \in DOMAIN arenas : b = first_arena

Start ==
  /\ first_arena = NULL => DOMAIN hdr = {}
  /\ first_arena # NULL => arenas[first_arena].next = NULL

(* What the client holds, and what it may name in a call.                  *)
Owns(H, L) ==
  /\ L \in [DOMAIN L -> Nat \ {0}] /\ DOMAIN L \subseteq Nat
  /\ \A ptr \in DOMAIN L : ptr - HDR \in DOMAIN H /\ H[ptr - HDR].asize = L[ptr]
  /\ \A a \in DOMAIN H : H[a].asize # 0 => a + HDR \in DOMAIN L

Client ==
  /\ Owns(hdr, live)
  /\ pc # "hdr_get_prev" => call.ptr \in DOMAIN live \cup {NULL}

(* Where the walks are: first_fit has passed over blocks without room, and *)
(* hdr_get_prev looks for the block before the one just given back.        *)
Walks ==
  /\ pc = "first_fit" =>
       /\ first_arena # NULL
       /\ at \in DOMAIN hdr \cup {FirstHeader}
       /\ at \in DOMAIN hdr => \A a \in DOMAIN hdr : a < at => ~ Fits(a, call.size)
  /\ pc = "place" => h \in DOMAIN hdr /\ Fits(h, call.size)
  /\ pc = "hdr_get_prev" =>
       /\ h \in DOMAIN hdr /\ at \in DOMAIN hdr /\ hdr[h].asize = 0
       /\ second \in BOOLEAN /\ (second <=> at # h)

Reasons ==
  /\ status = "assert" => AssertionFails
  /\ status = "segv" => \A a \in DOMAIN hdr : ~ Fits(a, call.size)
  /\ status = "wild" => FirstHeaderLost

One == Heap(hdr) /\ Start /\ Client /\ Walks /\ Reasons

(* The inductive invariant.                                                *)
IInv == Arenas /\ (OneArena => One)

USE MmalAssumption

-----------------------------------------------------------------------------
(* Numbers.                                                                *)

(* The size of an arena is a multiple of a page; arena_alloc refuses it    *)
(* only when the sum with the request has wrapped around.                  *)
LEMMA ArenaSize ==
  ASSUME NEW size \in Nat
  PROVE  /\ ArenaFor(size) \in Nat /\ ArenaFor(size) % PAGE = 0
         /\ ~ TooSmall(ArenaFor(size)) =>
              ArenaFor(size) >= PAGE /\ ArenaFor(size) - ARENA - HDR \in Nat \ {0}
         /\ TooSmall(ArenaFor(size)) => size + ARENA + HDR + PAGE > SIZE_MAX + 1
  <1>1. PAGE \in Nat \ {0} /\ SIZE_MAX + 1 \in Nat \ {0} /\ PAGE > ARENA + HDR
    OBVIOUS
  <1>2. PICK W \in Nat \ {0} : W = SIZE_MAX + 1
    BY <1>1
  <1>3. PICK n \in Nat : n = (size + ARENA + HDR) % W
    BY <1>1, <1>2
  <1>4. PICK m \in Nat : m = (n + PAGE - 1) % W
    BY <1>1, <1>2
  <1>5. PICK q \in Nat : q = m \div PAGE
    BY <1>1
  <1>6. PICK a \in Nat : a = q * PAGE
    BY <1>1
  <1>7. ArenaFor(size) = a
    BY <1>2, <1>3, <1>4, <1>5, <1>6 DEF ArenaFor, allign_page, size_t
  <1>8. a % PAGE = 0
    BY <1>1, <1>6
  <1>9. a = 0 \/ a >= PAGE
    BY <1>1, <1>6
  <1>10. ASSUME size + ARENA + HDR + PAGE <= SIZE_MAX + 1 PROVE a >= PAGE
    <2>1. n = size + ARENA + HDR
      BY <1>1, <1>2, <1>3, <1>10
    <2>2. m = n + PAGE - 1
      BY <1>1, <1>2, <1>4, <1>10, <2>1
    <2>3. m >= PAGE
      BY <1>1, <2>1, <2>2
    <2>4. q >= 1
      BY <1>1, <1>5, <2>3
    <2> QED
      BY <1>1, <1>6, <2>4
  <1> QED
    BY <1>1, <1>7, <1>8, <1>9, <1>10 DEF TooSmall

-----------------------------------------------------------------------------
(* What the helpers on headers do to the circle.                           *)

(* A header is marked or unmarked; a block is taken, whole or in part.     *)
Marked(H, a, s) == [H EXCEPT ![a] = [@ EXCEPT !.asize = s]]
Divides(H, a, s) == H[a].size > s + 2 * HDR
Taken(H, a, s) == Marked(IF Divides(H, a, s) THEN hdr_split(H, a, s) ELSE H, a, s)

LEMMA Mark ==
  ASSUME NEW H, Headers(H), Circular(H), NEW a \in DOMAIN H, NEW s \in 0 .. H[a].size
  PROVE  /\ Headers(Marked(H, a, s)) /\ Circular(Marked(H, a, s))
         /\ DOMAIN Marked(H, a, s) = DOMAIN H
         /\ \A c \in DOMAIN H : /\ Marked(H, a, s)[c].next = H[c].next
                               /\ Marked(H, a, s)[c].size = H[c].size
         /\ Marked(H, a, s)[a].asize = s
         /\ \A c \in DOMAIN H \ {a} : Marked(H, a, s)[c] = H[c]
  <1> DEFINE M == Marked(H, a, s)
  <1>1. DOMAIN M = DOMAIN H
    BY DEF Marked
  <1>2. \A c \in DOMAIN H \ {a} : M[c] = H[c]
    BY DEF Marked
  <1>3. H[a] \in [next : Nat, size : Nat \ {0}, asize : Nat]
    BY DEF Headers
  <1>4. M[a] = [H[a] EXCEPT !.asize = s]
    BY DEF Marked
  <1> HIDE DEF M
  <1>5. M[a].next = H[a].next /\ M[a].size = H[a].size /\ M[a].asize = s
        /\ M[a] \in [next : Nat, size : Nat \ {0}, asize : Nat]
    BY <1>3, <1>4
  <1>6. Headers(M)
    <2>1. M \in [DOMAIN M -> [next : Nat, size : Nat \ {0}, asize : Nat]]
      <3>1. M = [c \in DOMAIN M |-> M[c]]
        BY DEF M, Marked
      <3> QED
        BY <1>1, <1>2, <1>5, <3>1 DEF Headers
    <2> QED
      BY <1>1, <1>2, <1>5, <2>1 DEF Headers
  <1>7. \A c \in DOMAIN H : M[c].next = H[c].next /\ M[c].size = H[c].size
    BY <1>2, <1>5
  <1>8. Circular(M)
    BY <1>1, <1>7 DEF Circular, Adjacent, Wraps, EndOf
  <1> QED
    BY <1>1, <1>2, <1>5, <1>6, <1>7, <1>8 DEF M

(* A block is taken whole.                                                 *)
WholeTaken(H, a, s, M) ==
  /\ Circle(M) /\ DOMAIN M = DOMAIN H
  /\ \A c \in DOMAIN H : M[c].next = H[c].next /\ M[c].size = H[c].size
  /\ M[a].asize = s
  /\ \A c \in DOMAIN H \ {a} : M[c] = H[c]

LEMMA TakeWhole ==
  ASSUME NEW H, Circle(H), NEW a \in DOMAIN H, NEW s \in Nat, s \in 1 .. H[a].size, ~ Divides(H, a, s)
  PROVE  WholeTaken(H, a, s, Marked(H, a, s))
  <1>0. PICK M : M = Marked(H, a, s)
    OBVIOUS
  <1> USE <1>0
  <1>1. Headers(H) /\ Circular(H) /\ Snug(H)
    BY DEF Circle
  <1>2. /\ Headers(M) /\ Circular(M) /\ DOMAIN M = DOMAIN H
        /\ \A c \in DOMAIN H : M[c].next = H[c].next /\ M[c].size = H[c].size
        /\ M[a].asize = s
        /\ \A c \in DOMAIN H \ {a} : M[c] = H[c]
    <2>1. s \in 0 .. H[a].size
      BY <1>1 DEF Headers
    <2> QED
      BY <1>1, <2>1, Mark
  <1>3. Snug(M)
    BY <1>1, <1>2 DEF Snug, Divides, Headers
  <1> QED
    BY <1>2, <1>3 DEF WholeTaken, Circle

(* A block is cut in two and the first part taken: there is one header     *)
(* more, of the free block between this and the next.                      *)
PartTaken(H, a, s, M) ==
  LET new == a + HDR + s IN
  /\ Circle(M)
  /\ new \in Nat \ DOMAIN H /\ DOMAIN M = DOMAIN H \cup {new}
  /\ M[a] = [next |-> new, size |-> s, asize |-> s]
  /\ M[new] = [next |-> H[a].next, size |-> H[a].size - s - HDR, asize |-> 0]
  /\ \A c \in DOMAIN H \ {a} : M[c] = H[c]

LEMMA TakePart ==
  ASSUME NEW H, Circle(H), NEW a \in DOMAIN H, NEW s \in Nat, s \in 1 .. H[a].size, Divides(H, a, s)
  PROVE  PartTaken(H, a, s, Marked(hdr_split(H, a, s), a, s))
  <1>0. PICK new, M : new = a + HDR + s /\ M = Marked(hdr_split(H, a, s), a, s)
    OBVIOUS
  <1> USE <1>0
  <1> DEFINE Header == [next : Nat, size : Nat \ {0}, asize : Nat]
  <1>1. Headers(H) /\ Circular(H) /\ Snug(H)
    BY DEF Circle
  <1>2. H[a] \in Header /\ a \in Nat /\ HDR \in Nat \ {0} /\ DOMAIN H \subseteq Nat
    BY <1>1 DEF Headers
  <1>3. new \in Nat /\ a < new /\ new < EndOf(H, a)
    BY <1>2 DEF EndOf, Divides
  <1>4. \A c \in DOMAIN H : c <= a \/ EndOf(H, a) <= c
    BY <1>1, <1>2, <1>3 DEF Circular, Adjacent, Wraps
  <1>5. new \notin DOMAIN H
    BY <1>2, <1>3, <1>4 DEF EndOf
  <1>6. DOMAIN hdr_split(H, a, s) = DOMAIN H \cup {new}
    BY DEF hdr_split, With
  <1>7. DOMAIN M = DOMAIN H \cup {new}
    BY <1>6 DEF Marked
  <1>8. hdr_split(H, a, s)[a] = [H[a] EXCEPT !.next = new, !.size = s]
    BY <1>5 DEF hdr_split, With
  <1>9. M[a] = [next |-> new, size |-> s, asize |-> s]
    BY <1>2, <1>6, <1>8 DEF Marked
  <1>10. M[new] = [next |-> H[a].next, size |-> H[a].size - s - HDR, asize |-> 0]
    BY <1>3, <1>5, <1>6 DEF hdr_split, With, Marked
  <1>11. \A c \in DOMAIN H \ {a} : M[c] = H[c]
    BY <1>5, <1>6 DEF hdr_split, With, Marked
  <1>12. H[a].size - s - HDR \in Nat \ {0}
    BY <1>2 DEF Divides
  <1>13. Headers(M)
    <2>1. \A c \in DOMAIN M : M[c] \in Header /\ M[c].asize <= M[c].size
      <3> TAKE c \in DOMAIN M
      <3>1. CASE c = a
        BY <1>3, <1>9, <3>1
      <3>2. CASE c = new
        BY <1>2, <1>10, <1>12, <3>2
      <3>3. CASE c \in DOMAIN H \ {a}
        BY <1>1, <1>11, <3>3 DEF Headers
      <3> QED
        BY <1>7, <3>1, <3>2, <3>3
    <2>2. IsFiniteSet(DOMAIN M)
      BY <1>1, <1>7, FS_AddElement DEF Headers
    <2>3. M \in [DOMAIN M -> Header]
      <3>1. M = [c \in DOMAIN M |-> M[c]]
        BY DEF Marked
      <3> QED
        BY <2>1, <3>1
    <2> QED
      BY <1>2, <1>3, <1>7, <2>1, <2>2, <2>3 DEF Headers
  <1>14. EndOf(M, a) = new /\ EndOf(M, new) = EndOf(H, a)
    BY <1>2, <1>3, <1>9, <1>10 DEF EndOf
  <1>15. Circular(M)
    <2> SUFFICES ASSUME NEW c \in DOMAIN M
                 PROVE  M[c].next \in DOMAIN M /\ (Adjacent(M, c) \/ Wraps(M, c))
      BY DEF Circular
    <2>1. CASE c = a
      <3>1. \A d \in DOMAIN M : d <= a \/ new <= d
        BY <1>2, <1>3, <1>4, <1>7 DEF EndOf
      <3> QED
        BY <1>7, <1>9, <1>14, <2>1, <3>1 DEF Adjacent
    <2>2. CASE c = new
      <3>1. M[new].next = H[a].next /\ H[a].next \in DOMAIN M
        BY <1>1, <1>7, <1>10 DEF Circular
      <3>2. CASE Adjacent(H, a)
        <4>1. \A d \in DOMAIN M : d <= new \/ EndOf(H, a) <= d
          BY <1>2, <1>3, <1>4, <1>7 DEF EndOf
        <4> QED
          BY <1>14, <2>2, <3>1, <3>2, <4>1 DEF Adjacent
      <3>3. CASE Wraps(H, a)
        <4>1. \A d \in DOMAIN M : H[a].next <= d /\ d <= new
          BY <1>2, <1>3, <1>7, <3>3 DEF Wraps
        <4> QED
          BY <2>2, <3>1, <4>1 DEF Wraps
      <3> QED
        BY <1>1, <3>2, <3>3 DEF Circular
    <2>3. CASE c \in DOMAIN H \ {a}
      <3>1. M[c] = H[c] /\ EndOf(M, c) = EndOf(H, c) /\ H[c].next \in DOMAIN M
        BY <1>1, <1>7, <1>11, <2>3 DEF EndOf, Circular
      <3>2. H[c] \in Header /\ c \in Nat
        BY <1>1, <2>3 DEF Headers
      <3>3. CASE Adjacent(H, c)
        <4>1. a <= c \/ EndOf(H, c) <= a
          BY <3>3 DEF Adjacent
        <4>2. new <= c \/ EndOf(H, c) <= new
          BY <1>2, <1>3, <1>4, <2>3, <3>2, <4>1 DEF EndOf
        <4> QED
          BY <1>7, <3>1, <3>3, <4>2 DEF Adjacent
      <3>4. CASE Wraps(H, c)
        <4>1. a < c /\ H[c].next <= a
          BY <1>2, <2>3, <3>2, <3>4 DEF Wraps
        <4>2. new <= c /\ H[c].next <= new
          BY <1>2, <1>3, <1>4, <2>3, <3>2, <4>1 DEF EndOf
        <4> QED
          BY <1>7, <3>1, <3>4, <4>2 DEF Wraps
      <3> QED
        BY <1>1, <2>3, <3>3, <3>4 DEF Circular
    <2> QED
      BY <1>7, <2>1, <2>2, <2>3
  <1>16. Snug(M)
    <2> SUFFICES ASSUME NEW c \in DOMAIN M, M[c].asize # 0
                 PROVE  M[c].size <= M[c].asize + 2 * HDR
      BY DEF Snug
    <2>1. c = a \/ c \in DOMAIN H \ {a}
      BY <1>7, <1>10
    <2> QED
      BY <1>1, <1>2, <1>9, <1>11, <2>1 DEF Snug
  <1> QED
    BY <1>3, <1>5, <1>7, <1>9, <1>10, <1>11, <1>13, <1>15, <1>16 DEF PartTaken, Circle

(* A block is no longer in use.                                            *)
GivenBack(H, a, M) ==
  /\ Heap(M) /\ DOMAIN M = DOMAIN H
  /\ M[a].next = H[a].next /\ M[a].asize = 0
  /\ \A c \in DOMAIN H \ {a} : M[c] = H[c]
  /\ \A c \in DOMAIN H : EndOf(M, c) = EndOf(H, c)

LEMMA GiveBack ==
  ASSUME NEW H, Heap(H), NEW a \in DOMAIN H
  PROVE  GivenBack(H, a, Marked(H, a, 0))
  <1>0. PICK M : M = Marked(H, a, 0)
    OBVIOUS
  <1> USE <1>0
  <1>1. Headers(H) /\ Circular(H) /\ Snug(H)
    BY DEF Circle, Heap
  <1>2. 0 \in 0 .. H[a].size
    BY <1>1 DEF Headers
  <1>3. Headers(M) /\ Circular(M)
    BY <1>1, <1>2, Mark
  <1>4. DOMAIN M = DOMAIN H
    BY <1>1, <1>2, Mark
  <1>5. M[a].asize = 0 /\ \A c \in DOMAIN H \ {a} : M[c] = H[c]
    BY <1>1, <1>2, Mark
  <1>6. \A c \in DOMAIN H : M[c].next = H[c].next /\ M[c].size = H[c].size
    BY <1>1, <1>2, Mark
  <1>7. Snug(M)
    BY <1>1, <1>4, <1>5 DEF Snug
  <1>8. \A c \in DOMAIN H : EndOf(M, c) = EndOf(H, c)
    BY <1>6 DEF EndOf
  <1>9. Inside(M) /\ Fills(M) /\ Reaches(M)
    BY <1>4, <1>8 DEF Heap, Inside, Fills, LastOf, Reaches
  <1> QED
    BY <1>3, <1>4, <1>5, <1>6, <1>7, <1>8, <1>9 DEF GivenBack, Heap, Circle

(* Two free blocks that follow each other are joined, in whichever order   *)
(* they lie: then the right one is the first of all, and the left the      *)
(* last.                                                                   *)
Merged(H, l, r, M) ==
  /\ Circle(M)
  /\ r \in DOMAIN H /\ DOMAIN M = DOMAIN H \ {r}
  /\ M[l] = [next |-> H[r].next, size |-> H[l].size + HDR + H[r].size, asize |-> 0]
  /\ \A c \in DOMAIN H \ {l, r} : M[c] = H[c]
  /\ \/ Adjacent(H, l) /\ l < r /\ EndOf(M, l) = EndOf(H, r)
     \/ Wraps(H, l) /\ r < l
  /\ \A c \in DOMAIN H \ {l} : H[c].next # r

LEMMA Merge ==
  ASSUME NEW H, Circle(H), NEW l \in DOMAIN H, NEW r \in DOMAIN H, H[l].next = r, l # r,
         H[l].asize = 0
  PROVE  Merged(H, l, r, hdr_merge(H, l, r))
  <1>0. PICK M : M = hdr_merge(H, l, r)
    OBVIOUS
  <1> USE <1>0
  <1> DEFINE Header == [next : Nat, size : Nat \ {0}, asize : Nat]
  <1>1. Headers(H) /\ Circular(H) /\ Snug(H)
    BY DEF Circle
  <1>2. HDR \in Nat \ {0} /\ DOMAIN H \subseteq Nat /\ \A c \in DOMAIN H : H[c] \in Header
    BY <1>1 DEF Headers
  <1>3. r \in DOMAIN H
    OBVIOUS
  <1>4. DOMAIN M = DOMAIN H \ {r}
    BY DEF hdr_merge, Without
  <1>5. l \in DOMAIN M
    BY <1>4
  <1>6. M[l] = [next |-> H[r].next, size |-> H[l].size + HDR + H[r].size, asize |-> 0]
    BY <1>2, <1>5 DEF hdr_merge, Without
  <1>7. \A c \in DOMAIN H \ {l, r} : M[c] = H[c]
    BY <1>4 DEF hdr_merge, Without
  <1>8. H[l].size + HDR + H[r].size \in Nat \ {0} /\ H[r].next \in Nat /\ H[l].size \in Nat \ {0} /\ H[r].size \in Nat \ {0}
    BY <1>2, <1>3
  <1>9. \/ Adjacent(H, l) /\ l < r /\ r = l + HDR + H[l].size
        \/ Wraps(H, l) /\ r < l
    <2>1. Adjacent(H, l) \/ Wraps(H, l)
      BY <1>1 DEF Circular
    <2> QED
      BY <1>2, <1>3, <1>8, <2>1 DEF Adjacent, Wraps, EndOf
  <1>10. \A c \in DOMAIN H \ {l} : H[c].next # r
    <2> SUFFICES ASSUME NEW c \in DOMAIN H \ {l}, H[c].next = r PROVE FALSE
      OBVIOUS
    <2>1. Adjacent(H, c) \/ Wraps(H, c)
      BY <1>1 DEF Circular
    <2>2. H[c].size \in Nat \ {0} /\ c \in Nat /\ l \in Nat /\ r \in Nat
      BY <1>2, <1>3
    <2> QED
      BY <1>2, <1>3, <1>8, <1>9, <2>1, <2>2 DEF Adjacent, Wraps, EndOf
  <1>11. EndOf(M, l) = l + HDR + H[l].size + HDR + H[r].size
    BY <1>2, <1>6, <1>8 DEF EndOf
  <1>12. l < r => EndOf(M, l) = EndOf(H, r)
    BY <1>2, <1>3, <1>8, <1>9, <1>11 DEF EndOf
  <1>13. Headers(M)
    <2>1. \A c \in DOMAIN M : M[c] \in Header /\ M[c].asize <= M[c].size
      BY <1>1, <1>4, <1>6, <1>7, <1>8 DEF Headers
    <2>2. IsFiniteSet(DOMAIN M)
      BY <1>1, <1>4, FS_RemoveElement DEF Headers
    <2>3. M \in [DOMAIN M -> Header]
      <3>1. M = [c \in DOMAIN M |-> M[c]]
        BY DEF hdr_merge, Without
      <3> QED
        BY <2>1, <3>1
    <2> QED
      BY <1>2, <1>4, <2>1, <2>2, <2>3 DEF Headers
  <1>14. Circular(M)
    <2> SUFFICES ASSUME NEW c \in DOMAIN M
                 PROVE  M[c].next \in DOMAIN M /\ (Adjacent(M, c) \/ Wraps(M, c))
      BY DEF Circular
    <2>1. CASE c # l
      <3>1. M[c] = H[c] /\ EndOf(M, c) = EndOf(H, c) /\ H[c].next \in DOMAIN M
        BY <1>1, <1>4, <1>7, <1>10, <2>1 DEF EndOf, Circular
      <3>2. Adjacent(H, c) \/ Wraps(H, c)
        BY <1>1, <1>4 DEF Circular
      <3> QED
        BY <1>4, <3>1, <3>2 DEF Adjacent, Wraps
    <2>2. CASE c = l
      <3>1. H[r].next \in DOMAIN H /\ (Adjacent(H, r) \/ Wraps(H, r))
        BY <1>1, <1>3 DEF Circular
      <3>2. CASE l < r /\ Adjacent(H, r)
        <4>1. H[r].next = EndOf(M, l) /\ H[r].next > r
          BY <1>2, <1>3, <1>8, <1>12, <3>2 DEF Adjacent, EndOf
        <4>2. \A d \in DOMAIN M : d <= l \/ EndOf(M, l) <= d
          <5>1. \A d \in DOMAIN M : (d <= l \/ r <= d) /\ (d <= r \/ EndOf(H, r) <= d) /\ d # r /\ d \in Nat
            BY <1>2, <1>4, <1>9, <3>2 DEF Adjacent, Wraps, EndOf
          <5> QED
            BY <1>2, <1>3, <1>12, <3>2, <5>1
        <4>3. H[r].next \in DOMAIN M
          BY <1>2, <1>3, <1>4, <3>1, <4>1
        <4> QED
          BY <1>6, <2>2, <4>1, <4>2, <4>3 DEF Adjacent
      <3>3. CASE l < r /\ Wraps(H, r)
        <4>1. \A d \in DOMAIN M : H[r].next <= d /\ d <= l
          <5>1. \A d \in DOMAIN M : (d <= l \/ r <= d) /\ H[r].next <= d /\ d <= r /\ d # r /\ d \in Nat
            BY <1>2, <1>4, <1>9, <3>3 DEF Adjacent, Wraps, EndOf
          <5> QED
            BY <1>2, <1>3, <3>3, <5>1
        <4>2. H[r].next # r
          BY <1>2, <1>3, <1>10, <2>2
        <4> QED
          BY <1>4, <1>6, <2>2, <3>1, <4>1, <4>2 DEF Wraps
      <3>4. CASE r < l
        <4>1. Wraps(H, l)
          BY <1>2, <1>3, <1>9, <3>4
        <4>2. Adjacent(H, r)
          BY <1>2, <1>3, <3>1, <3>4 DEF Wraps
        <4>3. \A d \in DOMAIN M : H[r].next <= d /\ d <= l
          <5>1. \A d \in DOMAIN M : r <= d /\ d <= l /\ (d <= r \/ H[r].next <= d) /\ d # r /\ d \in Nat
            BY <1>2, <1>4, <4>1, <4>2 DEF Adjacent, Wraps
          <5> QED
            BY <1>2, <1>3, <5>1
        <4>4. H[r].next # r
          BY <1>10, <1>3, <2>2
        <4> QED
          BY <1>4, <1>6, <2>2, <3>1, <4>3, <4>4 DEF Wraps
      <3> QED
        BY <1>2, <1>3, <3>1, <3>2, <3>3, <3>4
    <2> QED
      BY <2>1, <2>2
  <1>15. Snug(M)
    BY <1>1, <1>4, <1>6, <1>7 DEF Snug
  <1> QED
    BY <1>3, <1>4, <1>6, <1>7, <1>9, <1>10, <1>12, <1>13, <1>14, <1>15 DEF Merged, Circle

(* The blocks still fill the arena when one is taken, whole or in part.    *)
TakenFrom(H, a, s, M) ==
  /\ Heap(M) /\ DOMAIN H \subseteq DOMAIN M
  /\ M[a].asize = s
  /\ \A c \in DOMAIN H \ {a} : M[c] = H[c]
  /\ \A c \in DOMAIN M \ DOMAIN H : M[c].asize = 0

LEMMA Take ==
  ASSUME first_arena \in Nat, EndOfArena \in Nat, NEW H, Heap(H), NEW a \in DOMAIN H, NEW s \in Nat, s \in 1 .. H[a].size
  PROVE  TakenFrom(H, a, s, Taken(H, a, s))
  <1>0. PICK M : M = Taken(H, a, s)
    OBVIOUS
  <1> USE <1>0
  <1>1. Circle(H) /\ Inside(H) /\ Fills(H) /\ Reaches(H)
    BY DEF Heap
  <1>2. /\ H[a] \in [next : Nat, size : Nat \ {0}, asize : Nat] /\ HDR \in Nat \ {0}
        /\ DOMAIN H \subseteq Nat
    BY <1>1 DEF Circle, Headers
  <1>3. CASE Divides(H, a, s)
    <2> DEFINE new == a + HDR + s
               P == Marked(hdr_split(H, a, s), a, s)
    <2>1. new \in Nat
      BY <1>2
    <2>2. M = P
      BY <1>3 DEF Taken
    <2>3. /\ Circle(M)
          /\ new \in Nat \ DOMAIN H /\ DOMAIN M = DOMAIN H \cup {new}
          /\ M[a] = [next |-> new, size |-> s, asize |-> s]
          /\ M[new] = [next |-> H[a].next, size |-> H[a].size - s - HDR, asize |-> 0]
          /\ \A c \in DOMAIN H \ {a} : M[c] = H[c]
      <3>1. PartTaken(H, a, s, P)
        BY <1>1, <1>3, TakePart
      <3> HIDE DEF P
      <3> QED
        BY <2>2, <3>1 DEF PartTaken
    <2> HIDE DEF P
    <2>4. Inside(M)
      <3>1. \A c \in DOMAIN H : FirstHeader <= c
        BY <1>1 DEF Inside
      <3>2. FirstHeader <= new
        BY <1>2, <2>1, <3>1 DEF FirstHeader
      <3> QED
        BY <2>3, <3>1, <3>2 DEF Inside
    <2>5. Fills(M)
      <3> SUFFICES ASSUME FirstHeader \in DOMAIN M, NEW c \in DOMAIN M
                   PROVE  /\ EndOf(M, c) <= EndOfArena
                          /\ LastOf(M, c) => EndOf(M, c) = EndOfArena
        BY DEF Fills
      <3>1. FirstHeader \in DOMAIN H
        BY <1>1, <1>2, <2>1, <2>3 DEF Inside
      <3>2. CASE c = new
        <4>1. EndOf(M, new) = EndOf(H, a)
          BY <1>2, <1>3, <2>1, <2>3 DEF EndOf
        <4>2. LastOf(M, c) => LastOf(H, a)
          <5> HAVE LastOf(M, c)
          <5> SUFFICES ASSUME NEW d \in DOMAIN H, d > a PROVE FALSE
            BY <1>2 DEF LastOf
          <5>1. EndOf(H, a) <= d
            BY <1>1, <1>2 DEF Circle, Circular, Adjacent, Wraps
          <5>2. d <= new
            BY <2>3, <3>2 DEF LastOf
          <5> QED
            BY <1>2, <1>3, <2>1, <5>1, <5>2 DEF EndOf, Divides
        <4> QED
          BY <1>1, <3>1, <3>2, <4>1, <4>2 DEF Fills
      <3>3. CASE c = a
        <4>1. EndOf(H, a) <= EndOfArena
          BY <1>1, <3>1 DEF Fills
        <4>2. EndOf(M, a) = new
          BY <1>2, <2>3 DEF EndOf
        <4>3. new <= EndOfArena
          BY <1>2, <1>3, <2>1, <4>1 DEF EndOf, Divides
        <4>4. ~ LastOf(M, c)
          BY <1>2, <2>1, <2>3, <3>3 DEF LastOf
        <4> QED
          BY <3>3, <4>2, <4>3, <4>4
      <3>4. CASE c \in DOMAIN H \ {a}
        <4>1. (LastOf(M, c) => LastOf(H, c)) /\ EndOf(M, c) = EndOf(H, c)
          BY <2>3, <3>4 DEF LastOf, EndOf
        <4> QED
          BY <1>1, <3>1, <3>4, <4>1 DEF Fills
      <3> QED
        BY <2>3, <3>2, <3>3, <3>4
    <2>6. Reaches(M)
      <3>1. EndOf(M, new) = EndOf(H, a)
        BY <1>2, <1>3, <2>1, <2>3 DEF EndOf
      <3>2. \A c \in DOMAIN H \ {a} : EndOf(M, c) = EndOf(H, c)
        BY <2>3 DEF EndOf
      <3> QED
        BY <1>1, <2>3, <3>1, <3>2 DEF Reaches
    <2> QED
      BY <2>3, <2>4, <2>5, <2>6 DEF Heap, TakenFrom
  <1>4. CASE ~ Divides(H, a, s)
    <2>1. M = Marked(H, a, s)
      BY <1>4 DEF Taken
    <2>2. /\ Circle(M) /\ DOMAIN M = DOMAIN H
          /\ \A c \in DOMAIN H : M[c].next = H[c].next /\ M[c].size = H[c].size
          /\ M[a].asize = s
          /\ \A c \in DOMAIN H \ {a} : M[c] = H[c]
      <3>1. WholeTaken(H, a, s, M)
        BY <1>1, <1>4, <2>1, TakeWhole
      <3> QED
        BY <3>1 DEF WholeTaken
    <2>3. Inside(M) /\ Fills(M) /\ Reaches(M)
      BY <1>1, <2>2 DEF Inside, Fills, LastOf, EndOf, Reaches
    <2> QED
      BY <2>2, <2>3 DEF Heap, TakenFrom
  <1> QED
    BY <1>2, <1>3, <1>4 DEF TakenFrom

(* ... and when two blocks are joined: either in the order in which they   *)
(* lie, or the first header is gone.                                       *)
Joined(H, l, r, M) ==
  /\ Heap(M) /\ r \in DOMAIN H /\ DOMAIN M = DOMAIN H \ {r}
  /\ M[l].asize = 0
  /\ \A c \in DOMAIN H \ {l, r} : M[c] = H[c]

LEMMA Join ==
  ASSUME NEW H, Heap(H), NEW l \in DOMAIN H, NEW r \in DOMAIN H, H[l].next = r, l # r,
         H[l].asize = 0
  PROVE  Joined(H, l, r, hdr_merge(H, l, r))
  <1> DEFINE M == hdr_merge(H, l, r)
  <1>1. Circle(H) /\ Inside(H) /\ Fills(H) /\ Reaches(H)
    BY DEF Heap
  <1>2. DOMAIN H \subseteq Nat
    BY <1>1 DEF Circle, Headers
  <1>3. /\ Circle(M)
        /\ r \in DOMAIN H /\ DOMAIN M = DOMAIN H \ {r}
        /\ M[l].asize = 0
        /\ \A c \in DOMAIN H \ {l, r} : M[c] = H[c]
        /\ \/ Adjacent(H, l) /\ l < r /\ EndOf(M, l) = EndOf(H, r)
           \/ Wraps(H, l) /\ r < l
        /\ M[l].size = H[l].size + HDR + H[r].size
    <2>1. Merged(H, l, r, M)
      BY <1>1, Merge
    <2> HIDE DEF M
    <2> QED
      BY <2>1 DEF Merged
  <1> HIDE DEF M
  <1>4. Inside(M)
    BY <1>1, <1>3 DEF Inside
  <1>5. Fills(M)
    <2> SUFFICES ASSUME FirstHeader \in DOMAIN M, NEW c \in DOMAIN M
                 PROVE  /\ EndOf(M, c) <= EndOfArena
                        /\ LastOf(M, c) => EndOf(M, c) = EndOfArena
      BY DEF Fills
    <2>1. FirstHeader \in DOMAIN H /\ FirstHeader # r
      BY <1>3
    <2>2. Adjacent(H, l) /\ l < r /\ EndOf(M, l) = EndOf(H, r)
      <3>1. ~ Wraps(H, l)
        BY <1>1, <1>2, <1>3, <2>1 DEF Wraps, Inside
      <3> QED
        BY <1>3, <3>1
    <2>3. CASE c = l
      <3>1. LastOf(M, c) => LastOf(H, r)
        <4> HAVE LastOf(M, c)
        <4> SUFFICES ASSUME NEW d \in DOMAIN H, d # r PROVE d <= r
          BY <1>2, <1>3 DEF LastOf
        <4> QED
          BY <1>2, <1>3, <2>2, <2>3 DEF LastOf
      <3> QED
        BY <1>1, <1>3, <2>1, <2>2, <2>3, <3>1 DEF Fills
    <2>4. CASE c # l
      <3>1. EndOf(M, c) = EndOf(H, c)
        BY <1>3, <2>4 DEF EndOf
      <3>2. LastOf(M, c) => LastOf(H, c)
        <4> HAVE LastOf(M, c)
        <4>1. c > r
          BY <1>2, <1>3, <2>2, <2>4 DEF LastOf, Adjacent
        <4> QED
          BY <1>2, <1>3, <2>4, <4>1 DEF LastOf
      <3> QED
        BY <1>1, <1>3, <2>1, <3>1, <3>2 DEF Fills
    <2> QED
      BY <2>3, <2>4
  <1>6. Reaches(M)
    <2>1. /\ l \in Nat /\ r \in Nat /\ HDR \in Nat \ {0} /\ l \in DOMAIN M
          /\ H[l].size \in Nat \ {0} /\ H[r].size \in Nat \ {0}
      BY <1>1, <1>2, <1>3 DEF Circle, Headers
    <2>2. /\ EndOf(M, l) > EndOf(H, l) /\ EndOf(H, l) \in Nat /\ EndOf(M, l) \in Nat
          /\ EndOf(H, l) > l /\ EndOf(H, r) \in Nat
      BY <1>3, <2>1 DEF EndOf
    <2>3. \A c \in DOMAIN M \ {l} : EndOf(M, c) = EndOf(H, c)
      BY <1>3 DEF EndOf
    <2>4. SUFFICES ASSUME first_arena # NULL, FirstHeader \notin DOMAIN M
                   PROVE  EndOfArena \in Nat /\ \E a \in DOMAIN M : EndOf(M, a) > EndOfArena
      BY DEF Reaches
    <2>5. CASE FirstHeader \in DOMAIN H
      <3>1. FirstHeader = r
        BY <1>3, <2>4, <2>5
      <3>2. Wraps(H, l)
        BY <1>1, <1>3, <2>1, <3>1 DEF Inside
      <3>3. EndOf(H, l) = EndOfArena
        BY <1>1, <2>5, <3>2 DEF Fills, Wraps, LastOf
      <3> QED
        BY <2>1, <2>2, <3>3
    <2>6. CASE FirstHeader \notin DOMAIN H
      <3>1. PICK a \in DOMAIN H : EndOf(H, a) > EndOfArena
        BY <1>1, <2>4, <2>6 DEF Reaches
      <3>5. EndOfArena \in Nat
        BY <1>1, <2>4, <2>6 DEF Reaches
      <3>2. CASE a \notin {l, r}
        BY <1>3, <2>3, <3>1, <3>2, <3>5
      <3>3. CASE a = l
        BY <2>1, <2>2, <3>1, <3>3, <3>5
      <3>4. CASE a = r
        <4>1. EndOf(M, l) >= EndOf(H, r)
          BY <1>3, <2>1 DEF EndOf
        <4> QED
          BY <2>1, <2>2, <3>1, <3>4, <3>5, <4>1
      <3> QED
        BY <3>2, <3>3, <3>4
    <2> QED
      BY <2>5, <2>6
  <1> QED
    BY <1>3, <1>4, <1>5, <1>6 DEF Joined, Heap, M

(* Free blocks may be joined, whoever owns the others.                     *)
LEMMA OwnsJoined ==
  ASSUME NEW H, Heap(H), NEW L, Owns(H, L), NEW l \in DOMAIN H, NEW r \in DOMAIN H,
         H[l].asize = 0, H[r].asize = 0, NEW M, Joined(H, l, r, M)
  PROVE  Owns(M, L)
  BY DEF Owns, Joined

-----------------------------------------------------------------------------
(* A new arena: the first one, or one that is no longer alone.             *)

LEMMA NewArenaKeeps ==
  ASSUME Arenas, NEW base \in Bases, NEW size \in Nat \ {0}, size % PAGE = 0,
         NewArena(base, size)
  PROVE  /\ arenas' \in [DOMAIN arenas' -> [next : Nat, size : Nat \ {0}]]
         /\ DOMAIN arenas' \subseteq Bases /\ IsFiniteSet(DOMAIN arenas')
         /\ \A b \in DOMAIN arenas' : arenas'[b].size % PAGE = 0
         /\ first_arena' # NULL /\ first_arena' \in DOMAIN arenas'
         /\ first_arena # NULL => ~ OneArena'
         /\ first_arena = NULL =>
              first_arena' = base /\ arenas'[base] = [next |-> NULL, size |-> size]
  <1> DEFINE Arena == [next : Nat, size : Nat \ {0}]
  <1>1. PICK before : before = IF first_arena = NULL THEN arenas
                               ELSE [arenas EXCEPT ![LastArena] = [@ EXCEPT !.next = base]]
    OBVIOUS
  <1>2. base \in Nat \ {0}
    OBVIOUS
  <1>3. /\ before \in [DOMAIN before -> Arena] /\ DOMAIN before = DOMAIN arenas
        /\ \A b \in DOMAIN arenas : before[b].size = arenas[b].size
    <2>1. arenas \in [DOMAIN arenas -> Arena]
      BY DEF Arenas
    <2>2. CASE LastArena \in DOMAIN arenas /\ first_arena # NULL
      <3>1. arenas[LastArena] \in Arena
        BY <2>1, <2>2
      <3>2. before = [arenas EXCEPT ![LastArena] = [arenas[LastArena] EXCEPT !.next = base]]
        BY <1>1, <2>2
      <3>3. [arenas[LastArena] EXCEPT !.next = base] \in Arena
        BY <1>2, <3>1
      <3>4. [arenas[LastArena] EXCEPT !.next = base].size = arenas[LastArena].size
        BY <3>1
      <3> QED
        BY <2>1, <3>2, <3>3, <3>4
    <2>3. CASE ~ (LastArena \in DOMAIN arenas /\ first_arena # NULL)
      <3>1. before = arenas
        BY <1>1, <2>1, <2>3
      <3> QED
        BY <2>1, <3>1
    <2> QED
      BY <2>2, <2>3
  <1>4. arenas' = With(before, base, [next |-> NULL, size |-> size])
    BY <1>1 DEF NewArena
  <1>5. DOMAIN arenas' = DOMAIN arenas \cup {base}
    BY <1>3, <1>4 DEF With
  <1>6. \A b \in DOMAIN arenas' :
          arenas'[b] = IF b = base THEN [next |-> NULL, size |-> size] ELSE before[b]
    BY <1>3, <1>4 DEF With
  <1>7. arenas' \in [DOMAIN arenas' -> Arena]
    <2>1. \A b \in DOMAIN arenas' : arenas'[b] \in Arena
      BY <1>3, <1>5, <1>6 DEF NULL
    <2>2. arenas' = [b \in DOMAIN arenas' |-> arenas'[b]]
      BY <1>4 DEF With
    <2> QED
      BY <2>1, <2>2
  <1>8. DOMAIN arenas' \subseteq Bases /\ IsFiniteSet(DOMAIN arenas')
    <2>1. IsFiniteSet(DOMAIN arenas) /\ DOMAIN arenas \subseteq Bases
      BY DEF Arenas
    <2>2. IsFiniteSet(DOMAIN arenas \cup {base})
      BY <2>1, FS_AddElement
    <2> QED
      BY <1>5, <2>1, <2>2
  <1>9. \A b \in DOMAIN arenas' : arenas'[b].size % PAGE = 0
    BY <1>3, <1>5, <1>6 DEF Arenas
  <1>10. first_arena' # NULL /\ first_arena' \in DOMAIN arenas'
    BY <1>2, <1>5 DEF NewArena, NULL, Arenas
  <1>11. first_arena # NULL => ~ OneArena'
    <2> SUFFICES ASSUME first_arena # NULL PROVE base # first_arena'
      BY <1>5 DEF OneArena
    <2>1. first_arena' = first_arena /\ first_arena \in DOMAIN arenas
      BY DEF NewArena, Arenas
    <2>2. arenas[first_arena].size \in Nat \ {0} /\ first_arena \in Nat
      BY <2>1 DEF Arenas
    <2>3. ~ (base < first_arena + arenas[first_arena].size /\ first_arena < base + size)
      BY <2>1 DEF NewArena, Overlaps
    <2> QED
      BY <1>2, <2>1, <2>2, <2>3
  <1>12. first_arena = NULL =>
           first_arena' = base /\ arenas'[base] = [next |-> NULL, size |-> size]
    BY <1>5, <1>6 DEF NewArena
  <1> QED
    BY <1>7, <1>8, <1>9, <1>10, <1>11, <1>12

-----------------------------------------------------------------------------
(* The invariant holds in the beginning, and every step keeps it.          *)

LEMMA InitIInv == Init => IInv
  <1> SUFFICES ASSUME Init PROVE IInv
    OBVIOUS
  <1>1. DOMAIN arenas = {} /\ DOMAIN hdr = {} /\ DOMAIN live = {}
    BY DEF Init
  <1>2. Arenas
    <2>1. IsFiniteSet(DOMAIN arenas)
      BY <1>1, FS_EmptySet
    <2>2. arenas \in [DOMAIN arenas -> [next : Nat, size : Nat \ {0}]]
      BY <1>1 DEF Init
    <2> QED
      BY <1>1, <2>1, <2>2 DEF Init, Arenas, NoCall, NULL
  <1>3. Heap(hdr)
    <2>1. IsFiniteSet(DOMAIN hdr)
      BY <1>1, FS_EmptySet
    <2>2. hdr \in [DOMAIN hdr -> [next : Nat, size : Nat \ {0}, asize : Nat]]
      BY <1>1 DEF Init
    <2> QED
      BY <1>1, <2>1, <2>2 DEF Init, NULL, Heap, Circle, Headers, Circular, Snug,
         Inside, Fills, Reaches
  <1>4. Start /\ Walks /\ Reasons
    BY <1>1 DEF Init, Start, Walks, Reasons
  <1>5. Client
    <2>1. live \in [DOMAIN live -> Nat \ {0}]
      BY <1>1 DEF Init
    <2> QED
      BY <1>1, <2>1 DEF Init, Client, Owns, NoCall
  <1> QED
    BY <1>2, <1>3, <1>4, <1>5 DEF IInv, One

(* A step that leaves the heap as it is, and the client what it holds.     *)
LEMMA Quiet ==
  ASSUME IInv, OneArena, UNCHANGED << heap, live >>
  PROVE  /\ Heap(hdr)' /\ Start' /\ Owns(hdr, live)'
         /\ DOMAIN hdr' = DOMAIN hdr /\ FirstHeader' = FirstHeader
         /\ \A a \in DOMAIN hdr : Fits(a, call.size)' <=> (call.size' + hdr[a].asize < hdr[a].size)
  <1>1. UNCHANGED << hdr, arenas, first_arena, live >>
    BY DEF heap
  <1>2. Heap(hdr) /\ Start /\ Owns(hdr, live)
    BY DEF IInv, One, Client
  <1>3. Heap(hdr)'
    BY <1>1, <1>2 DEF Heap, Circle, Headers, Circular, Adjacent, Wraps, Snug, Inside, Fills,
         Reaches, EndOf, LastOf, FirstHeader, EndOfArena
  <1>4. Start' /\ Owns(hdr, live)'
    BY <1>1, <1>2 DEF Start, Owns
  <1> QED
    BY <1>1, <1>3, <1>4 DEF FirstHeader, Fits

LEMMA SameArenas ==
  ASSUME UNCHANGED << arenas, first_arena >>
  PROVE  OneArena' <=> OneArena
  BY DEF OneArena

LEMMA Numbers ==
  ASSUME Arenas, Start, DOMAIN hdr # {}
  PROVE  first_arena \in Nat /\ first_arena # NULL /\ EndOfArena \in Nat
  <1>1. first_arena # NULL /\ first_arena \in DOMAIN arenas
    BY DEF Start, Arenas
  <1>2. arenas[first_arena].size \in Nat /\ first_arena \in Nat
    BY <1>1 DEF Arenas
  <1> QED
    BY <1>1, <1>2 DEF EndOfArena

(* The client's calls.                                                     *)
LEMMA BeginIInv ==
  ASSUME IInv, NEW fun \in Calls, NEW ptr, NEW size \in Nat,
         NEW where \in {"mmalloc", "mfree", "mrealloc"}, Begin(fun, ptr, size, where),
         where \in {"mfree", "mrealloc"} => fun # "mmalloc",
         ptr \in DOMAIN live \cup {NULL}
  PROVE  IInv'
  <1>1. UNCHANGED << heap, live, arenas, first_arena, status >> /\ status = "ok" /\ pc' = where
        /\ call' = [fun |-> fun, ptr |-> ptr, size |-> size]
    BY DEF Begin, heap
  <1>2. Arenas'
    BY <1>1 DEF IInv, Arenas
  <1>3. ASSUME OneArena PROVE One'
    <2>1. Heap(hdr)' /\ Start' /\ Owns(hdr, live)'
      BY <1>1, <1>3, Quiet
    <2>2. Client'
      BY <1>1, <2>1 DEF Client
    <2>3. Walks' /\ Reasons'
      BY <1>1 DEF Walks, Reasons
    <2> QED
      BY <2>1, <2>2, <2>3 DEF One
  <1> QED
    BY <1>1, <1>2, <1>3, SameArenas DEF IInv

(* A call ends, and leaves the heap as it is.                              *)
LEMMA ReturnIInv ==
  ASSUME IInv, Return, UNCHANGED << heap, live, status >>, status = "ok"
  PROVE  IInv'
  <1>1. UNCHANGED << arenas, first_arena >> /\ pc' = "idle" /\ call' = NoCall
    BY DEF heap, Return
  <1>2. Arenas'
    BY <1>1 DEF IInv, Arenas, NoCall
  <1>3. ASSUME OneArena PROVE One'
    <2>1. Heap(hdr)' /\ Start' /\ Owns(hdr, live)'
      BY <1>3, Quiet
    <2>2. Client'
      BY <1>1, <2>1 DEF Client, NoCall
    <2>3. Walks' /\ Reasons'
      BY <1>1 DEF Walks, Reasons
    <2> QED
      BY <2>1, <2>2, <2>3 DEF One
  <1> QED
    BY <1>1, <1>2, <1>3, SameArenas DEF IInv

(* The program ends; the heap, the call and the walk stay as they are.     *)
LEMMA EndsIInv ==
  ASSUME IInv, NEW how \in {"assert", "segv", "wild"}, Ends(how),
         OneArena /\ One =>
           /\ how = "assert" => AssertionFails
           /\ how = "segv" => \A a \in DOMAIN hdr : ~ Fits(a, call.size)
           /\ how = "wild" => FirstHeaderLost
  PROVE  IInv'
  <1>1. UNCHANGED << heap, live, arenas, first_arena, hdr, pc, call, at, h, second >> /\ status' = how
    BY DEF Ends, heap, walk
  <1>2. Arenas'
    BY <1>1 DEF IInv, Arenas
  <1>3. ASSUME OneArena PROVE One'
    <2>1. Heap(hdr)' /\ Start' /\ Owns(hdr, live)'
      BY <1>1, <1>3, Quiet
    <2>2. One
      BY <1>3 DEF IInv
    <2>3. Client'
      BY <1>1, <2>1, <2>2 DEF Client, One
    <2>4. Walks'
      BY <1>1, <2>2 DEF Walks, One, Fits, FirstHeader
    <2>5. Reasons'
      BY <1>1, <1>3, <2>2 DEF Reasons, Fits, FirstHeader, Block, AssertionFails, FirstHeaderLost, End
    <2> QED
      BY <2>1, <2>3, <2>4, <2>5 DEF One
  <1> QED
    BY <1>1, <1>2, <1>3, SameArenas DEF IInv

(* mmalloc and first_fit.                                                  *)
LEMMA MmallocArenaIInv ==
  ASSUME IInv, MmallocArena
  PROVE  IInv'
  <1>1. pc = "mmalloc" /\ status = "ok" /\ first_arena = NULL /\ ~ TooSmall(ArenaFor(call.size))
    BY DEF MmallocArena, In
  <1>2. CASE Return /\ UNCHANGED << heap, live, status >>
    BY <1>1, <1>2, ReturnIInv
  <1>3. ASSUME NEW base \in Bases, NewArena(base, ArenaFor(call.size)),
               pc' = "first_fit", UNCHANGED << live, call, h, second, status >>
        PROVE  IInv'
    <2> DEFINE size == ArenaFor(call.size)
    <2>1. /\ size \in Nat \ {0} /\ size % PAGE = 0
          /\ size - ARENA - HDR \in Nat \ {0}
      <3>1. /\ size \in Nat /\ size >= PAGE /\ size % PAGE = 0
            /\ size - ARENA - HDR \in Nat \ {0}
        BY <1>1, ArenaSize DEF IInv, Arenas
      <3> HIDE DEF size
      <3> QED
        BY <3>1
    <2> HIDE DEF size
    <2>2. NewArena(base, size)
      BY <1>3 DEF size
    <2>3. /\ arenas' \in [DOMAIN arenas' -> [next : Nat, size : Nat \ {0}]]
          /\ DOMAIN arenas' \subseteq Bases /\ IsFiniteSet(DOMAIN arenas')
          /\ \A b \in DOMAIN arenas' : arenas'[b].size % PAGE = 0
          /\ first_arena' # NULL /\ first_arena' \in DOMAIN arenas'
          /\ first_arena' = base /\ arenas'[base] = [next |-> NULL, size |-> size]
      BY <1>1, <2>1, <2>2, NewArenaKeeps DEF IInv
    <2>4. Arenas'
      BY <1>3, <2>3 DEF IInv, Arenas
    <2>5. OneArena /\ One
      BY <1>1 DEF IInv, OneArena, Arenas
    <2>6. DOMAIN hdr = {} /\ DOMAIN live = {}
      BY <1>1, <2>5 DEF One, Start, Client, Owns
    <2>7. PICK new : new = base + ARENA
      OBVIOUS
    <2>8. base \in Nat /\ new \in Nat /\ HDR \in Nat
      BY <2>7
    <2>9. hdr' = With(hdr, new, [next |-> new, size |-> size - ARENA - HDR, asize |-> 0])
      BY <1>1, <2>2, <2>7 DEF NewArena
    <2>10. at' = new /\ FirstHeader' = new
      BY <2>2, <2>3, <2>7 DEF NewArena, FirstHeader
    <2>11. hdr' = [a \in {new} |-> [next |-> new, size |-> size - ARENA - HDR, asize |-> 0]]
      BY <2>6, <2>9 DEF With
    <2>12. Heap(hdr)'
      <3>1. Headers(hdr')
        <4>1. IsFiniteSet({new})
          BY FS_Singleton
        <4> QED
          BY <2>1, <2>8, <2>11, <4>1 DEF Headers
      <3>2. Circular(hdr') /\ Snug(hdr')
        BY <2>8, <2>11 DEF Circular, Wraps, Snug
      <3>3. Inside(hdr)'
        BY <2>8, <2>10, <2>11 DEF Inside
      <3>4. EndOf(hdr', new) = base + size
        BY <2>1, <2>7, <2>8, <2>11 DEF EndOf
      <3>5. Fills(hdr)'
        BY <2>1, <2>3, <2>8, <2>11, <3>4 DEF Fills, EndOfArena
      <3>6. Reaches(hdr)'
        BY <2>10, <2>11 DEF Reaches
      <3> QED
        BY <3>1, <3>2, <3>3, <3>5, <3>6 DEF Heap, Circle
    <2>13. Start'
      BY <2>3 DEF Start
    <2>14. Client'
      <3>1. hdr'[new].asize = 0 /\ DOMAIN hdr' = {new}
        BY <2>11
      <3>2. Owns(hdr', live')
        <4>1. live' = live /\ live \in [DOMAIN live -> Nat \ {0}]
          BY <1>3, <2>5 DEF One, Client, Owns
        <4> QED
          BY <2>6, <3>1, <4>1 DEF Owns
      <3>3. call.ptr \in DOMAIN live \cup {NULL}
        BY <1>1, <2>5 DEF One, Client
      <3> QED
        BY <1>3, <3>2, <3>3 DEF Client
    <2>15. Walks'
      BY <1>3, <2>3, <2>8, <2>10, <2>11 DEF Walks
    <2>16. Reasons'
      BY <1>1, <1>3 DEF Reasons
    <2> QED
      BY <2>4, <2>12, <2>13, <2>14, <2>15, <2>16 DEF IInv, One
  <1> QED
    BY <1>2, <1>3 DEF MmallocArena

LEMMA MmallocFitIInv ==
  ASSUME IInv, MmallocFit
  PROVE  IInv'
  <1>1. /\ UNCHANGED << heap, live, arenas, first_arena, hdr, call, status >>
        /\ status = "ok" /\ pc = "mmalloc" /\ pc' = "first_fit"
        /\ first_arena # NULL /\ at' = FirstHeader
    BY DEF MmallocFit, In, heap
  <1>2. Arenas'
    BY <1>1 DEF IInv, Arenas
  <1>3. ASSUME OneArena PROVE One'
    <2>1. Heap(hdr)' /\ Start' /\ Owns(hdr, live)'
      BY <1>1, <1>3, Quiet
    <2>2. One
      BY <1>3 DEF IInv
    <2>3. Client'
      BY <1>1, <2>1, <2>2 DEF Client, One
    <2>4. \A a \in DOMAIN hdr : ~ (a < FirstHeader)
      <3>1. \A a \in DOMAIN hdr : FirstHeader <= a /\ a \in Nat
        BY <2>2 DEF One, Heap, Inside, Circle, Headers
      <3>2. FirstHeader \in Nat
        BY DEF IInv, Arenas, FirstHeader, NULL
      <3> QED
        BY <3>1, <3>2
    <2>5. Walks'
      BY <1>1, <2>4 DEF Walks, FirstHeader
    <2>6. Reasons'
      BY <1>1 DEF Reasons
    <2> QED
      BY <2>1, <2>3, <2>5, <2>6 DEF One
  <1> QED
    BY <1>1, <1>2, <1>3, SameArenas DEF IInv

LEMMA FitFoundIInv ==
  ASSUME IInv, FitFound
  PROVE  IInv'
  <1>1. /\ UNCHANGED << heap, live, arenas, first_arena, hdr, call, status >>
        /\ status = "ok" /\ pc = "first_fit" /\ pc' = "place"
        /\ at \in DOMAIN hdr /\ Fits(at, call.size) /\ h' = at
    BY DEF FitFound, In, heap
  <1>2. Arenas'
    BY <1>1 DEF IInv, Arenas
  <1>3. ASSUME OneArena PROVE One'
    <2>1. Heap(hdr)' /\ Start' /\ Owns(hdr, live)'
      BY <1>1, <1>3, Quiet
    <2>2. One
      BY <1>3 DEF IInv
    <2>3. Client'
      BY <1>1, <2>1, <2>2 DEF Client, One
    <2>4. Walks' /\ Reasons'
      BY <1>1 DEF Walks, Reasons, Fits
    <2> QED
      BY <2>1, <2>3, <2>4 DEF One
  <1> QED
    BY <1>1, <1>2, <1>3, SameArenas DEF IInv

(* The headers before the next one are those up to this one.               *)
LEMMA FitNextIInv ==
  ASSUME IInv, FitNext
  PROVE  IInv'
  <1>1. /\ UNCHANGED << heap, live, arenas, first_arena, hdr, call, status, pc >>
        /\ status = "ok" /\ pc = "first_fit"
        /\ at \in DOMAIN hdr /\ ~ Fits(at, call.size) /\ at' = hdr[at].next
    BY DEF FitNext, In, heap
  <1>2. Arenas'
    BY <1>1 DEF IInv, Arenas
  <1>3. ASSUME OneArena PROVE One'
    <2>1. Heap(hdr)' /\ Start' /\ Owns(hdr, live)'
      BY <1>1, <1>3, Quiet
    <2>2. One
      BY <1>3 DEF IInv
    <2>3. Client'
      BY <1>1, <2>1, <2>2 DEF Client, One
    <2>4. /\ at' \in DOMAIN hdr
          /\ \A a \in DOMAIN hdr : a < at' => a <= at
      <3>1. Headers(hdr) /\ Circular(hdr)
        BY <2>2 DEF One, Heap, Circle
      <3>2. DOMAIN hdr \subseteq Nat /\ hdr[at].next \in DOMAIN hdr /\ HDR \in Nat /\ hdr[at].size \in Nat
        BY <1>1, <3>1 DEF Headers, Circular
      <3>3. Adjacent(hdr, at) \/ Wraps(hdr, at)
        BY <1>1, <3>1 DEF Circular
      <3> QED
        BY <1>1, <3>2, <3>3 DEF Adjacent, Wraps
    <2>5. \A a \in DOMAIN hdr : a < at => ~ Fits(a, call.size)
      BY <1>1, <2>2 DEF One, Walks
    <2>6. \A a \in DOMAIN hdr : a < at' => ~ Fits(a, call.size)
      <3>1. DOMAIN hdr \subseteq Nat
        BY <2>2 DEF One, Heap, Circle, Headers
      <3> QED
        BY <1>1, <2>4, <2>5, <3>1
    <2>7. Walks'
      BY <1>1, <2>2, <2>4, <2>6 DEF Walks, One, Fits
    <2>8. Reasons'
      BY <1>1 DEF Reasons
    <2> QED
      BY <2>1, <2>3, <2>7, <2>8 DEF One
  <1> QED
    BY <1>1, <1>2, <1>3, SameArenas DEF IInv

(* Where the walk is back at the first header, it has seen them all.       *)
LEMMA AllSeen ==
  ASSUME IInv, OneArena, pc = "first_fit", at \in DOMAIN hdr, ~ Fits(at, call.size),
         hdr[at].next = FirstHeader
  PROVE  \A a \in DOMAIN hdr : ~ Fits(a, call.size)
  <1>1. One
    BY DEF IInv
  <1>2. Headers(hdr) /\ Circular(hdr) /\ \A a \in DOMAIN hdr : FirstHeader <= a
    BY <1>1 DEF One, Heap, Circle, Inside
  <1>3. DOMAIN hdr \subseteq Nat /\ hdr[at].next \in DOMAIN hdr /\ HDR \in Nat /\ hdr[at].size \in Nat \ {0}
    BY <1>2 DEF Headers, Circular
  <1>4. Adjacent(hdr, at) \/ Wraps(hdr, at)
    BY <1>2 DEF Circular
  <1>5. ~ Adjacent(hdr, at)
    BY <1>2, <1>3 DEF Adjacent, EndOf
  <1>6. \A a \in DOMAIN hdr : a < at => ~ Fits(a, call.size)
    BY <1>1 DEF One, Walks
  <1>7. \A a \in DOMAIN hdr : a < at \/ a = at
    BY <1>3, <1>4, <1>5 DEF Wraps
  <1> QED
    BY <1>6, <1>7

(* first_fit asks for an arena only where there is one already.            *)
LEMMA SecondArena ==
  ASSUME IInv, pc = "first_fit", NEW base \in Bases,
         NewArena(base, ArenaFor(call.size))
  PROVE  /\ arenas' \in [DOMAIN arenas' -> [next : Nat, size : Nat \ {0}]]
         /\ DOMAIN arenas' \subseteq Bases /\ IsFiniteSet(DOMAIN arenas')
         /\ \A b \in DOMAIN arenas' : arenas'[b].size % PAGE = 0
         /\ first_arena' # NULL /\ first_arena' \in DOMAIN arenas'
         /\ ~ OneArena'
  <1>1. PICK size : size = ArenaFor(call.size)
    OBVIOUS
  <1>3. NewArena(base, size)
    BY <1>1
  <1>2. size \in Nat \ {0} /\ size % PAGE = 0
    <2>1. call.size \in Nat
      BY DEF IInv, Arenas
    <2>2. size \in Nat /\ size % PAGE = 0 /\ size >= PAGE
      BY <1>1, <1>3, <2>1, ArenaSize DEF NewArena
    <2> QED
      BY <2>2
  <1>4. /\ arenas' \in [DOMAIN arenas' -> [next : Nat, size : Nat \ {0}]]
        /\ DOMAIN arenas' \subseteq Bases /\ IsFiniteSet(DOMAIN arenas')
        /\ \A b \in DOMAIN arenas' : arenas'[b].size % PAGE = 0
        /\ first_arena' # NULL /\ first_arena' \in DOMAIN arenas'
        /\ first_arena # NULL => ~ OneArena'
    BY <1>2, <1>3, NewArenaKeeps DEF IInv
  <1>5. first_arena # NULL
    BY DEF IInv, One, Walks, OneArena, Arenas
  <1> QED
    BY <1>4, <1>5

LEMMA FitGrowIInv ==
  ASSUME IInv, FitGrow
  PROVE  IInv'
  <1>1. /\ pc = "first_fit" /\ status = "ok"
        /\ at \in DOMAIN hdr /\ ~ Fits(at, call.size) /\ hdr[at].next = FirstHeader
    BY DEF FitGrow, In
  <1>2. ASSUME NEW base \in Bases, NewArena(base, ArenaFor(call.size)),
               UNCHANGED << live, pc, call, h, second, status >>
        PROVE  IInv'
    <2>1. /\ arenas' \in [DOMAIN arenas' -> [next : Nat, size : Nat \ {0}]]
          /\ DOMAIN arenas' \subseteq Bases /\ IsFiniteSet(DOMAIN arenas')
          /\ \A b \in DOMAIN arenas' : arenas'[b].size % PAGE = 0
          /\ first_arena' # NULL /\ first_arena' \in DOMAIN arenas'
          /\ ~ OneArena'
      BY <1>1, <1>2, SecondArena
    <2>2. Arenas'
      BY <1>2, <2>1 DEF IInv, Arenas
    <2> QED
      BY <2>1, <2>2 DEF IInv
  <1>3. CASE call.fun = "mrealloc" /\ call.ptr # NULL /\ status' = "segv"
               /\ UNCHANGED << pc, call, walk, heap, live >>
    <2>1. Ends("segv")
      BY <1>3 DEF Ends
    <2>2. OneArena => \A a \in DOMAIN hdr : ~ Fits(a, call.size)
      BY <1>1, AllSeen
    <2> QED
      BY <2>1, <2>2, EndsIInv
  <1>4. CASE status' = status /\ Return /\ UNCHANGED << heap, live >>
    BY <1>1, <1>4, ReturnIInv
  <1> QED
    BY <1>2, <1>3, <1>4 DEF FitGrow

(* arena_alloc asserts only what a sum that wrapped around can fail.       *)
LEMMA ArenaAssertIInv ==
  ASSUME IInv, ArenaAssert
  PROVE  IInv'
  <1>1. pc \in {"mmalloc", "first_fit"} /\ TooSmall(ArenaFor(call.size)) /\ Ends("assert")
    BY DEF ArenaAssert, In
  <1>2. call.size + ARENA + HDR + PAGE > SIZE_MAX + 1
    BY <1>1, ArenaSize DEF IInv, Arenas
  <1> QED
    BY <1>1, <1>2, EndsIInv DEF AssertionFails

LEMMA FitWildIInv ==
  ASSUME IInv, FitWild
  PROVE  IInv'
  <1>1. pc = "first_fit" /\ at \notin DOMAIN hdr /\ Ends("wild")
    BY DEF FitWild, In
  <1>2. OneArena /\ One => FirstHeaderLost
    BY <1>1 DEF One, Walks, Heap, Reaches, FirstHeaderLost, EndOf, End, EndOfArena
  <1> QED
    BY <1>1, <1>2, EndsIInv

(* The rest of mmalloc.                                                    *)
LEMMA PlaceIInv ==
  ASSUME IInv, Place
  PROVE  IInv'
  <1>1. /\ pc = "place" /\ status = "ok" /\ hdr[h].asize = 0 /\ call.size > 0
        /\ live' = With(live, h + HDR, call.size)
        /\ UNCHANGED << arenas, first_arena, status >>
        /\ hdr' = Taken(hdr, h, call.size)
    BY DEF Place, In, Taken, Divides, hdr_should_split, Marked
  <1>2. \/ call.fun = "mrealloc" /\ pc' = "mfree" /\ UNCHANGED << call, h, at, second >>
        \/ pc' = "idle" /\ call' = NoCall
    BY DEF Place, Return, walk
  <1>3. Arenas'
    BY <1>1, <1>2 DEF IInv, Arenas, NoCall
  <1>4. ASSUME OneArena PROVE One'
    <2>1. One
      BY <1>4 DEF IInv
    <2>2. Heap(hdr) /\ Headers(hdr) /\ Owns(hdr, live)
      BY <2>1 DEF One, Heap, Circle, Client
    <2>3. h \in DOMAIN hdr /\ Fits(h, call.size)
      BY <1>1, <2>1 DEF One, Walks
    <2>4. h \in Nat /\ hdr[h].size \in Nat /\ call.size \in Nat /\ HDR \in Nat
      BY <2>2, <2>3 DEF Headers, IInv, Arenas
    <2>5. call.size \in 1 .. hdr[h].size
      BY <1>1, <2>3, <2>4 DEF Fits
    <2>6. first_arena \in Nat /\ EndOfArena \in Nat
      BY <2>1, <2>3, Numbers DEF One, IInv
    <2>7. TakenFrom(hdr, h, call.size, hdr')
      BY <1>1, <2>2, <2>3, <2>4, <2>5, <2>6, Take
    <2>8. Heap(hdr')
      BY <2>7 DEF TakenFrom
    <2>9. Heap(hdr)' /\ Start'
      BY <1>1, <2>1, <2>3, <2>8 DEF Heap, Inside, Fills, Reaches, EndOfArena, FirstHeader, Start, One
    <2>10. DOMAIN live' = DOMAIN live \cup {h + HDR} /\ h + HDR \in Nat
      BY <1>1, <2>4 DEF With
    <2>11. \A ptr \in DOMAIN live' : live'[ptr] = IF ptr = h + HDR THEN call.size ELSE live[ptr]
      BY <1>1, <2>10 DEF With
    <2>12. Owns(hdr', live')
      <3>1. live' \in [DOMAIN live' -> Nat \ {0}]
        <4>1. \A ptr \in DOMAIN live' : live'[ptr] \in Nat \ {0}
          BY <2>2, <2>5, <2>10, <2>11 DEF Owns
        <4>2. live' = [ptr \in DOMAIN live' |-> live'[ptr]]
          BY <1>1 DEF With
        <4> QED
          BY <4>1, <4>2
      <3>2. \A ptr \in DOMAIN live' : ptr - HDR \in DOMAIN hdr' /\ hdr'[ptr - HDR].asize = live'[ptr]
        <4> TAKE ptr \in DOMAIN live'
        <4>1. CASE ptr = h + HDR
          <5>1. ptr - HDR = h
            BY <2>4, <4>1
          <5> QED
            BY <2>3, <2>7, <2>11, <4>1, <5>1 DEF TakenFrom
        <4>2. CASE ptr # h + HDR
          <5>1. ptr \in DOMAIN live /\ ptr \in Nat
            BY <2>2, <2>10, <4>2 DEF Owns
          <5>2. ptr - HDR \in DOMAIN hdr \ {h}
            BY <2>2, <2>4, <4>2, <5>1 DEF Owns
          <5> QED
            BY <2>2, <2>7, <2>11, <4>2, <5>1, <5>2 DEF Owns, TakenFrom
        <4> QED
          BY <4>1, <4>2
      <3>3. \A a \in DOMAIN hdr' : hdr'[a].asize # 0 => a + HDR \in DOMAIN live'
        BY <2>2, <2>7, <2>10 DEF Owns, TakenFrom
      <3> QED
        BY <2>2, <2>10, <3>1, <3>2, <3>3 DEF Owns
    <2>13. Client'
      BY <1>1, <1>2, <2>1, <2>10, <2>12 DEF Client, One, NoCall
    <2>14. Walks' /\ Reasons'
      BY <1>1, <1>2 DEF Walks, Reasons
    <2> QED
      BY <2>9, <2>13, <2>14 DEF One
  <1> QED
    BY <1>1, <1>3, <1>4, SameArenas DEF IInv

(* A block in use is taken only for its slack.                             *)
LEMMA PlaceAssertIInv ==
  ASSUME IInv, PlaceAssert
  PROVE  IInv'
  <1>1. pc = "place" /\ Ends("assert") /\ (hdr[h].asize # 0 \/ call.size = 0)
    BY DEF PlaceAssert, In
  <1>2. ASSUME OneArena, One PROVE AssertionFails
    <2>1. h \in DOMAIN hdr /\ Fits(h, call.size)
      BY <1>1, <1>2 DEF One, Walks
    <2>2. hdr[h].asize # 0 => hdr[h].size <= hdr[h].asize + 2 * HDR
      BY <1>2, <2>1 DEF One, Heap, Circle, Snug
    <2>3. hdr[h].size \in Nat /\ hdr[h].asize \in Nat /\ call.size \in Nat /\ HDR \in Nat
      BY <1>2, <2>1 DEF One, Heap, Circle, Headers, IInv, Arenas
    <2> QED
      BY <1>1, <2>1, <2>2, <2>3 DEF Fits, AssertionFails
  <1> QED
    BY <1>1, <1>2, EndsIInv

-----------------------------------------------------------------------------
(* mfree and hdr_get_prev.                                                 *)

(* The block of a pointer the client holds.                                *)
LEMMA BlockOf ==
  ASSUME IInv, OneArena, pc # "hdr_get_prev", call.ptr # NULL
  PROVE  /\ call.ptr \in DOMAIN live /\ call.ptr \in Nat /\ Block \in Nat /\ Block + HDR = call.ptr
         /\ Block \in DOMAIN hdr /\ hdr[Block].asize = live[call.ptr] /\ live[call.ptr] \in Nat \ {0}
  <1>1. Headers(hdr) /\ Owns(hdr, live) /\ call.ptr \in DOMAIN live
    BY DEF IInv, One, Heap, Circle, Client
  <1>2. call.ptr \in Nat /\ Block \in DOMAIN hdr /\ HDR \in Nat
    BY <1>1 DEF Owns, Block
  <1>3. Block \in Nat
    BY <1>1, <1>2 DEF Headers
  <1>4. Block + HDR = call.ptr
    BY <1>2 DEF Block
  <1> QED
    BY <1>1, <1>2, <1>3, <1>4 DEF Owns, Block

LEMMA MfreeIInv ==
  ASSUME IInv, Mfree
  PROVE  IInv'
  <1>1. PICK H, right :
          /\ pc = "mfree" /\ status = "ok" /\ call.ptr # NULL /\ hdr[Block].next # Block
          /\ H = Marked(hdr, Block, 0) /\ right = H[Block].next
          /\ hdr' = IF H[Block].asize = 0 /\ H[right].asize = 0 THEN hdr_merge(H, Block, right) ELSE H
          /\ live' = Without(live, call.ptr)
          /\ h' = Block /\ at' = Block /\ second' = FALSE
          /\ pc' = "hdr_get_prev"
          /\ UNCHANGED << arenas, first_arena, call, status >>
    BY DEF Mfree, In, Marked, hdr_can_merge
  <1>2. Arenas'
    BY <1>1 DEF IInv, Arenas
  <1>3. ASSUME OneArena PROVE One'
    <2>1. One /\ Heap(hdr) /\ Headers(hdr) /\ Circular(hdr) /\ Owns(hdr, live)
      BY <1>3 DEF IInv, One, Heap, Circle, Client
    <2>2. /\ call.ptr \in DOMAIN live /\ Block \in Nat /\ Block + HDR = call.ptr
          /\ Block \in DOMAIN hdr
      BY <1>1, <1>3, BlockOf
    <2>3. GivenBack(hdr, Block, H)
      BY <1>1, <2>1, <2>2, GiveBack
    <2>4. /\ Heap(H) /\ DOMAIN H = DOMAIN hdr
          /\ right = hdr[Block].next /\ H[Block].asize = 0
          /\ \A c \in DOMAIN hdr \ {Block} : H[c] = hdr[c]
      BY <1>1, <2>3 DEF GivenBack
    <2>5. right \in DOMAIN H /\ right # Block /\ H[Block].next = right
      BY <1>1, <2>1, <2>2, <2>4 DEF Circular
    <2>6. Owns(H, live')
      <3>1. DOMAIN live' = DOMAIN live \ {call.ptr} /\ \A ptr \in DOMAIN live' : live'[ptr] = live[ptr]
        BY <1>1 DEF Without
      <3>2. live' \in [DOMAIN live' -> Nat \ {0}]
        <4>1. \A ptr \in DOMAIN live' : live'[ptr] \in Nat \ {0}
          BY <2>1, <3>1 DEF Owns
        <4>2. live' = [ptr \in DOMAIN live' |-> live'[ptr]]
          BY <1>1 DEF Without
        <4> QED
          BY <4>1, <4>2
      <3>3. \A ptr \in DOMAIN live' : ptr - HDR \in DOMAIN H /\ H[ptr - HDR].asize = live'[ptr]
        <4> TAKE ptr \in DOMAIN live'
        <4>1. ptr \in DOMAIN live /\ ptr \in Nat /\ ptr # call.ptr
          BY <2>1, <3>1 DEF Owns
        <4>2. ptr - HDR # Block
          BY <2>2, <4>1
        <4> QED
          BY <2>1, <2>4, <3>1, <4>1, <4>2 DEF Owns
      <3>4. \A a \in DOMAIN H : H[a].asize # 0 => a + HDR \in DOMAIN live'
        <4> TAKE a \in DOMAIN H
        <4> HAVE H[a].asize # 0
        <4>1. a # Block /\ a \in Nat /\ a + HDR \in DOMAIN live
          BY <2>1, <2>4 DEF Owns, Headers
        <4>2. a + HDR # call.ptr
          BY <2>2, <4>1
        <4> QED
          BY <3>1, <4>1, <4>2
      <3> QED
        BY <2>1, <3>1, <3>2, <3>3, <3>4 DEF Owns
    <2>7. /\ Heap(hdr') /\ Owns(hdr', live')
          /\ Block \in DOMAIN hdr' /\ hdr'[Block].asize = 0
      <3>1. CASE H[right].asize = 0
        <4>1. Joined(H, Block, right, hdr')
          <5>1. /\ Heap(H) /\ Block \in DOMAIN H /\ right \in DOMAIN H
                /\ H[Block].next = right /\ Block # right /\ H[Block].asize = 0
            BY <2>2, <2>4, <2>5
          <5>2. Joined(H, Block, right, hdr_merge(H, Block, right))
            BY <5>1, Join
          <5> QED
            BY <1>1, <2>4, <3>1, <5>2
        <4>2. Owns(hdr', live')
          BY <2>2, <2>4, <2>5, <2>6, <3>1, <4>1, OwnsJoined
        <4> QED
          BY <2>2, <2>4, <2>5, <4>1, <4>2 DEF Joined
      <3>2. CASE H[right].asize # 0
        BY <1>1, <2>2, <2>4, <2>6, <3>2
      <3> QED
        BY <3>1, <3>2
    <2>8. Heap(hdr)' /\ Start'
      BY <1>1, <2>1, <2>2, <2>7 DEF Heap, Inside, Fills, Reaches, EndOfArena, FirstHeader, Start, One
    <2>9. Client'
      BY <1>1, <2>7 DEF Client
    <2>10. Walks' /\ Reasons'
      BY <1>1, <2>7 DEF Walks, Reasons
    <2> QED
      BY <2>8, <2>9, <2>10 DEF One
  <1> QED
    BY <1>1, <1>2, <1>3, SameArenas DEF IInv

(* A block that is its own successor is the only one.                      *)
LEMMA MfreeAssertIInv ==
  ASSUME IInv, MfreeAssert
  PROVE  IInv'
  <1>1. pc = "mfree" /\ Ends("assert") /\ (call.ptr # NULL => hdr[Block].next = Block)
    BY DEF MfreeAssert, In
  <1>3. ASSUME OneArena, One, call.ptr # NULL PROVE DOMAIN hdr = {Block}
    <2>1. Headers(hdr) /\ Circular(hdr)
      BY <1>3 DEF One, Heap, Circle
    <2>2. Block \in DOMAIN hdr /\ Block \in Nat
      BY <1>1, <1>3, BlockOf
    <2>3. Adjacent(hdr, Block) \/ Wraps(hdr, Block)
      BY <2>1, <2>2 DEF Circular
    <2>4. HDR \in Nat \ {0} /\ hdr[Block].size \in Nat /\ DOMAIN hdr \subseteq Nat
      BY <2>1, <2>2 DEF Headers
    <2>5. Wraps(hdr, Block)
      BY <1>1, <1>3, <2>2, <2>3, <2>4 DEF Adjacent, EndOf
    <2>6. \A c \in DOMAIN hdr : c = Block
      BY <1>1, <1>3, <2>2, <2>4, <2>5 DEF Wraps
    <2> QED
      BY <2>2, <2>6
  <1> QED
    BY <1>1, <1>3, EndsIInv DEF AssertionFails

LEMMA PrevNextIInv ==
  ASSUME IInv, PrevNext
  PROVE  IInv'
  <1>1. /\ UNCHANGED << heap, live, arenas, first_arena, hdr, call, status, pc, h >>
        /\ status = "ok" /\ pc = "hdr_get_prev"
        /\ hdr[at].next # h /\ at' = hdr[at].next /\ second' = (second \/ at = h)
    BY DEF PrevNext, In, heap
  <1>2. Arenas'
    BY <1>1 DEF IInv, Arenas
  <1>3. ASSUME OneArena PROVE One'
    <2>1. Heap(hdr)' /\ Start' /\ Owns(hdr, live)'
      BY <1>1, <1>3, Quiet
    <2>2. One
      BY <1>3 DEF IInv
    <2>3. Client'
      BY <1>1, <2>1 DEF Client
    <2>4. /\ h \in DOMAIN hdr /\ at \in DOMAIN hdr /\ hdr[h].asize = 0
          /\ second \in BOOLEAN /\ (second <=> at # h)
      BY <1>1, <2>2 DEF One, Walks
    <2>5. hdr[at].next \in DOMAIN hdr
      BY <2>2, <2>4 DEF One, Heap, Circle, Circular
    <2>6. second' \in BOOLEAN /\ (second' <=> at' # h)
      BY <1>1, <2>4
    <2>7. Walks' /\ Reasons'
      BY <1>1, <2>4, <2>5, <2>6 DEF Walks, Reasons
    <2> QED
      BY <2>1, <2>3, <2>7 DEF One
  <1> QED
    BY <1>1, <1>2, <1>3, SameArenas DEF IInv

LEMMA PrevFoundIInv ==
  ASSUME IInv, PrevFound
  PROVE  IInv'
  <1>1. /\ UNCHANGED << live, arenas, first_arena, status >>
        /\ status = "ok" /\ pc = "hdr_get_prev" /\ pc' = "idle" /\ call' = NoCall
        /\ hdr[at].next = h \/ (at = h /\ second)
        /\ hdr' = IF at < h /\ hdr[at].asize = 0 /\ hdr[h].asize = 0 THEN hdr_merge(hdr, at, h) ELSE hdr
    BY DEF PrevFound, MergeBack, In, Return, hdr_can_merge
  <1>2. Arenas'
    BY <1>1 DEF IInv, Arenas, NoCall
  <1>3. ASSUME OneArena PROVE One'
    <2>1. One /\ Heap(hdr) /\ Owns(hdr, live)
      BY <1>3 DEF IInv, One, Client
    <2>2. h \in DOMAIN hdr /\ at \in DOMAIN hdr /\ h \in Nat
      BY <1>1, <2>1 DEF One, Walks, Heap, Circle, Headers
    <2>3. Heap(hdr') /\ Owns(hdr', live')
      <3>1. CASE at < h /\ hdr[at].asize = 0 /\ hdr[h].asize = 0
        <4>1. at # h /\ hdr[at].next = h /\ hdr' = hdr_merge(hdr, at, h)
          BY <1>1, <2>2, <3>1
        <4>2. Joined(hdr, at, h, hdr')
          <5>1. Joined(hdr, at, h, hdr_merge(hdr, at, h))
            BY <2>1, <2>2, <3>1, <4>1, Join
          <5> QED
            BY <4>1, <5>1
        <4>3. Owns(hdr', live)
          BY <2>1, <2>2, <3>1, <4>2, OwnsJoined
        <4> QED
          BY <1>1, <4>2, <4>3 DEF Joined
      <3>2. CASE ~ (at < h /\ hdr[at].asize = 0 /\ hdr[h].asize = 0)
        BY <1>1, <2>1, <3>2
      <3> QED
        BY <3>1, <3>2
    <2>4. Heap(hdr)' /\ Start'
      BY <1>1, <2>1, <2>2, <2>3 DEF Heap, Inside, Fills, Reaches, EndOfArena, FirstHeader, Start, One
    <2>5. Client'
      BY <1>1, <2>3 DEF Client, NoCall
    <2>6. Walks' /\ Reasons'
      BY <1>1 DEF Walks, Reasons
    <2> QED
      BY <2>4, <2>5, <2>6 DEF One
  <1> QED
    BY <1>1, <1>2, <1>3, SameArenas DEF IInv

-----------------------------------------------------------------------------
(* mrealloc.                                                               *)

LEMMA MreallocIInv ==
  ASSUME IInv, MreallocZero \/ MreallocGrow
  PROVE  IInv'
  <1>1. /\ UNCHANGED << heap, live, arenas, first_arena, hdr, call, status >>
        /\ status = "ok" /\ pc = "mrealloc" /\ pc' \in {"mfree", "mmalloc"}
    BY DEF MreallocZero, MreallocGrow, In, heap
  <1>2. Arenas'
    BY <1>1 DEF IInv, Arenas
  <1>3. ASSUME OneArena PROVE One'
    <2>1. Heap(hdr)' /\ Start' /\ Owns(hdr, live)'
      BY <1>1, <1>3, Quiet
    <2>2. Client'
      BY <1>1, <1>3, <2>1 DEF Client, One, IInv
    <2>3. Walks' /\ Reasons'
      BY <1>1 DEF Walks, Reasons
    <2> QED
      BY <2>1, <2>2, <2>3 DEF One
  <1> QED
    BY <1>1, <1>2, <1>3, SameArenas DEF IInv

LEMMA MreallocShrinkIInv ==
  ASSUME IInv, MreallocShrink
  PROVE  IInv'
  <1>1. /\ pc = "mrealloc" /\ status = "ok"
        /\ call.size # 0 /\ call.ptr # NULL /\ call.size <= hdr[Block].asize
        /\ hdr' = Taken(hdr, Block, call.size)
        /\ live' = [live EXCEPT ![call.ptr] = call.size]
        /\ pc' = "idle" /\ call' = NoCall
        /\ UNCHANGED << arenas, first_arena, status >>
    BY DEF MreallocShrink, In, Return, Taken, Divides, hdr_should_split, Marked
  <1>2. Arenas'
    BY <1>1 DEF IInv, Arenas, NoCall
  <1>3. ASSUME OneArena PROVE One'
    <2>1. One /\ Heap(hdr) /\ Headers(hdr) /\ Owns(hdr, live)
      BY <1>3 DEF IInv, One, Heap, Circle, Client
    <2>2. /\ call.ptr \in DOMAIN live /\ call.ptr \in Nat /\ Block \in Nat /\ Block + HDR = call.ptr
          /\ Block \in DOMAIN hdr
      BY <1>1, <1>3, BlockOf
    <2>3. call.size \in Nat /\ call.size \in 1 .. hdr[Block].size /\ HDR \in Nat
      <3>1. call.size \in Nat
        BY DEF IInv, Arenas
      <3>2. hdr[Block].size \in Nat /\ hdr[Block].asize \in Nat /\ hdr[Block].asize <= hdr[Block].size
        BY <2>1, <2>2 DEF Headers
      <3> QED
        BY <1>1, <3>1, <3>2
    <2>4. first_arena \in Nat /\ EndOfArena \in Nat
      BY <2>1, <2>2, Numbers DEF One, IInv
    <2>5. TakenFrom(hdr, Block, call.size, hdr')
      BY <1>1, <2>1, <2>2, <2>3, <2>4, Take
    <2>6. Heap(hdr')
      BY <2>5 DEF TakenFrom
    <2>7. Heap(hdr)' /\ Start'
      BY <1>1, <2>1, <2>2, <2>6 DEF Heap, Inside, Fills, Reaches, EndOfArena, FirstHeader, Start, One
    <2>8. /\ DOMAIN live' = DOMAIN live /\ live' \in [DOMAIN live' -> Nat \ {0}]
          /\ live'[call.ptr] = call.size
          /\ \A ptr \in DOMAIN live \ {call.ptr} : live'[ptr] = live[ptr]
      BY <1>1, <2>1, <2>2, <2>3 DEF Owns
    <2>9. Owns(hdr', live')
      <3>1. \A ptr \in DOMAIN live' : ptr - HDR \in DOMAIN hdr' /\ hdr'[ptr - HDR].asize = live'[ptr]
        <4> TAKE ptr \in DOMAIN live'
        <4>1. CASE ptr = call.ptr
          <5>1. ptr - HDR = Block
            BY <4>1 DEF Block
          <5> QED
            BY <2>2, <2>5, <2>8, <4>1, <5>1 DEF TakenFrom
        <4>2. CASE ptr # call.ptr
          <5>1. ptr \in DOMAIN live /\ ptr \in Nat
            BY <2>1, <2>8 DEF Owns
          <5>2. ptr - HDR \in DOMAIN hdr \ {Block}
            BY <2>1, <2>2, <2>3, <4>2, <5>1 DEF Owns
          <5> QED
            BY <2>1, <2>5, <2>8, <4>2, <5>1, <5>2 DEF Owns, TakenFrom
        <4> QED
          BY <4>1, <4>2
      <3>2. \A a \in DOMAIN hdr' : hdr'[a].asize # 0 => a + HDR \in DOMAIN live'
        <4> TAKE a \in DOMAIN hdr'
        <4> HAVE hdr'[a].asize # 0
        <4>1. CASE a = Block
          BY <2>2, <2>8, <4>1
        <4>2. CASE a # Block
          BY <2>1, <2>5, <2>8, <4>2 DEF Owns, TakenFrom
        <4> QED
          BY <4>1, <4>2
      <3> QED
        BY <2>1, <2>8, <3>1, <3>2 DEF Owns
    <2>10. Client'
      BY <1>1, <2>9 DEF Client, NoCall
    <2>11. Walks' /\ Reasons'
      BY <1>1 DEF Walks, Reasons
    <2> QED
      BY <2>7, <2>10, <2>11 DEF One
  <1> QED
    BY <1>1, <1>2, <1>3, SameArenas DEF IInv

-----------------------------------------------------------------------------
LEMMA NextIInv == IInv /\ [Next]_vars => IInv'
  <1> SUFFICES ASSUME IInv, [Next]_vars PROVE IInv'
    OBVIOUS
  <1>1. CASE CallMmalloc
    <2>1. PICK size \in Sizes : Begin("mmalloc", NULL, size, "mmalloc")
      BY <1>1 DEF CallMmalloc
    <2>2. "mmalloc" \in Calls /\ size \in Nat
      BY <2>1 DEF Begin
    <2> QED
      BY <2>1, <2>2, BeginIInv
  <1>2. CASE CallMfree
    <2>1. PICK ptr \in DOMAIN live : Begin("mfree", ptr, 0, "mfree")
      BY <1>2 DEF CallMfree
    <2>2. "mfree" \in Calls
      BY <2>1 DEF Begin
    <2> QED
      BY <2>1, <2>2, BeginIInv
  <1>3. CASE CallMrealloc
    <2>1. PICK ptr \in DOMAIN live \cup {NULL}, size \in Sizes : Begin("mrealloc", ptr, size, "mrealloc")
      BY <1>3 DEF CallMrealloc
    <2>2. "mrealloc" \in Calls /\ size \in Nat
      BY <2>1 DEF Begin
    <2> QED
      BY <2>1, <2>2, BeginIInv
  <1>4. CASE Step
    BY <1>4, MmallocArenaIInv, MmallocFitIInv, FitFoundIInv, FitNextIInv, FitGrowIInv,
       ArenaAssertIInv, FitWildIInv, PlaceIInv, PlaceAssertIInv, MfreeIInv, MfreeAssertIInv, PrevNextIInv,
       PrevFoundIInv, MreallocIInv, MreallocShrinkIInv DEF Step
  <1>5. CASE UNCHANGED vars
    <2>1. UNCHANGED << heap, arenas, first_arena, hdr, live, pc, call, h, at, second, status >>
      BY <1>5 DEF vars, heap, walk
    <2>2. Arenas'
      BY <2>1 DEF IInv, Arenas
    <2>3. ASSUME OneArena PROVE One'
      <3>1. Heap(hdr)' /\ Start' /\ Owns(hdr, live)'
        BY <2>1, <2>3, Quiet
      <3>2. One
        BY <2>3 DEF IInv
      <3>3. Client' /\ Walks' /\ Reasons'
        BY <2>1, <3>1, <3>2 DEF Client, Walks, Reasons, One, Fits, FirstHeader, Block,
            AssertionFails, FirstHeaderLost, End
      <3> QED
        BY <3>1, <3>3 DEF One
    <2> QED
      BY <2>1, <2>2, <2>3, SameArenas DEF IInv
  <1> QED
    BY <1>1, <1>2, <1>3, <1>4, <1>5 DEF Next, Over

(* A set of arenas that has at most one element is that of one arena.      *)
LEMMA AtMostOne ==
  ASSUME Arenas, Cardinality(DOMAIN arenas) <= 1
  PROVE  OneArena
  <1> SUFFICES ASSUME NEW b \in DOMAIN arenas PROVE b = first_arena
    BY DEF OneArena
  <1>1. first_arena \in DOMAIN arenas /\ IsFiniteSet(DOMAIN arenas)
    BY DEF Arenas
  <1>2. Cardinality(DOMAIN arenas) \in Nat /\ Cardinality(DOMAIN arenas) # 0
    BY <1>1, FS_CardinalityType, FS_EmptySet
  <1>3. Cardinality(DOMAIN arenas) = 1
    BY <1>2
  <1>4. PICK x : DOMAIN arenas = {x}
    BY <1>1, <1>3, FS_Singleton
  <1> QED
    BY <1>1, <1>4

LEMMA AtMostOneLater ==
  ASSUME Arenas', Cardinality(DOMAIN arenas') <= 1
  PROVE  OneArena'
  <1> SUFFICES ASSUME NEW b \in DOMAIN arenas' PROVE b = first_arena'
    BY DEF OneArena
  <1>1. first_arena' \in DOMAIN arenas' /\ IsFiniteSet(DOMAIN arenas')
    BY DEF Arenas
  <1>2. Cardinality(DOMAIN arenas') \in Nat /\ Cardinality(DOMAIN arenas') # 0
    BY <1>1, FS_CardinalityType, FS_EmptySet
  <1>3. Cardinality(DOMAIN arenas') = 1
    BY <1>2
  <1>4. PICK x : DOMAIN arenas' = {x}
    BY <1>1, <1>3, FS_Singleton
  <1> QED
    BY <1>1, <1>4

(* Whatever the client asks for, wherever mmap puts the arena and whether  *)
(* it gives another or not: a program with one arena ends for one of the   *)
(* reasons ExitReasons names, and no other.                                *)
THEOREM ExitReasonsInvariant == Spec => []ExitReasons
  <1>1. IInv => ExitReasons
    <2> SUFFICES ASSUME IInv, Cardinality(DOMAIN arenas) <= 1 PROVE Reasons
      BY DEF ExitReasons, Reasons, FirstHeaderLost
    <2>1. OneArena
      BY AtMostOne DEF IInv
    <2> QED
      BY <2>1 DEF IInv, One
  <1> QED
    BY <1>1, InitIInv, NextIInv, PTL DEF Spec

-----------------------------------------------------------------------------
(* The blocks and who owns them.                                           *)

(* As long as the first header is there, the invariant says what the       *)
(* client and the program rely on.                                         *)
LEMMA SoundWhileFirst ==
  ASSUME IInv, OneArena, first_arena # NULL => FirstHeader \in DOMAIN hdr
  PROVE  Sound
  <1>1. Arenas /\ One /\ Heap(hdr) /\ Headers(hdr) /\ Circular(hdr) /\ Start /\ Owns(hdr, live)
    BY DEF IInv, One, Heap, Circle, Client
  <1>2. TypeOK
    <2>1. \A a \in DOMAIN hdr : hdr[a].size \in Nat \ {0} /\ hdr[a].asize \in 0 .. hdr[a].size
      BY <1>1 DEF Headers
    <2>2. \A b \in DOMAIN arenas : arenas[b].next \in DOMAIN arenas \cup {NULL}
      BY <1>1 DEF OneArena, Start, Arenas
    <2>3. \A ptr \in DOMAIN live : live[ptr] \in Nat
      BY <1>1 DEF Owns
    <2> QED
      BY <1>1, <2>1, <2>2, <2>3 DEF TypeOK, Arenas
  <1>3. Ownership
    BY <1>1 DEF Owns, Ownership
  <1>4. ASSUME NEW b \in DOMAIN arenas PROVE b + ARENA \in DOMAIN hdr
    <2>1. b = first_arena /\ first_arena # NULL
      BY <1>1 DEF OneArena, Arenas
    <2> QED
      BY <2>1 DEF FirstHeader
  <1>6. ASSUME NEW a \in DOMAIN hdr, NEW c \in DOMAIN hdr PROVE c <= a \/ End(a) <= c
    BY <1>1 DEF Circular, Adjacent, Wraps, End, EndOf
  <1>5. ASSUME NEW a \in DOMAIN hdr
        PROVE  /\ first_arena \in DOMAIN arenas /\ first_arena + ARENA <= a
               /\ \/ /\ End(a) \in DOMAIN hdr /\ End(a) < first_arena + arenas[first_arena].size
                     /\ hdr[a].next = End(a)
                  \/ /\ End(a) = first_arena + arenas[first_arena].size
                     /\ hdr[a].next = FirstHeader /\ arenas[first_arena].next = NULL
    <2>1. /\ first_arena \in Nat /\ first_arena # NULL /\ EndOfArena \in Nat
          /\ arenas[first_arena].next = NULL
      BY <1>1, Numbers DEF Start
    <2>2. \A c \in DOMAIN hdr : /\ FirstHeader <= c /\ EndOf(hdr, c) <= EndOfArena
                                /\ LastOf(hdr, c) => EndOf(hdr, c) = EndOfArena
      BY <1>1, <2>1 DEF Heap, Inside, Fills
    <2>3. /\ \A c \in DOMAIN hdr : c \in Nat /\ c < EndOf(hdr, c) /\ EndOf(hdr, c) \in Nat
          /\ FirstHeader \in Nat /\ first_arena < FirstHeader
      BY <1>1, <2>1 DEF Headers, EndOf, FirstHeader
    <2>4. first_arena \in DOMAIN arenas /\ first_arena + ARENA <= a
      BY <1>1, <2>1, <2>2 DEF Arenas, FirstHeader
    <2>5. End(a) = EndOf(hdr, a) /\ hdr[a].next \in DOMAIN hdr
      BY <1>1 DEF End, EndOf, Circular
    <2>6. CASE Adjacent(hdr, a)
      <3>1. End(a) \in DOMAIN hdr /\ hdr[a].next = End(a)
        BY <2>5, <2>6 DEF Adjacent
      <3>2. End(a) < EndOfArena
        BY <2>1, <2>2, <2>3, <3>1
      <3> QED
        BY <2>4, <3>1, <3>2 DEF EndOfArena
    <2>7. CASE Wraps(hdr, a)
      <3>1. End(a) = EndOfArena
        BY <2>2, <2>5, <2>7 DEF Wraps, LastOf
      <3>2. hdr[a].next <= FirstHeader /\ FirstHeader <= hdr[a].next
        BY <2>1, <2>2, <2>5, <2>7 DEF Wraps
      <3>3. hdr[a].next = FirstHeader
        BY <2>3, <2>5, <3>2
      <3> QED
        BY <2>1, <2>4, <3>1, <3>3 DEF EndOfArena
    <2> QED
      BY <1>1, <2>6, <2>7 DEF Circular
  <1> QED
    BY <1>2, <1>3, <1>4, <1>5, <1>6 DEF Sound, Tiling

(* Whatever is asked for and given back, in whatever order: as long as the *)
(* only arena has its first header, its blocks tile it and each of them    *)
(* belongs to the client or is free.                                       *)
THEOREM SoundWhileFirstHeader ==
  Spec => []((/\ Cardinality(DOMAIN arenas) <= 1
              /\ first_arena # NULL => FirstHeader \in DOMAIN hdr) => Sound)
  <1>1. IInv => ((/\ Cardinality(DOMAIN arenas) <= 1
                  /\ first_arena # NULL => FirstHeader \in DOMAIN hdr) => Sound)
    BY AtMostOne, SoundWhileFirst DEF IInv
  <1> QED
    BY <1>1, InitIInv, NextIInv, PTL DEF Spec

(* What the client holds is its own even after that: no block of a program *)
(* with one arena has two owners.                                          *)
THEOREM OwnershipInvariant == Spec => [](Cardinality(DOMAIN arenas) <= 1 => Ownership)
  <1>1. IInv => (Cardinality(DOMAIN arenas) <= 1 => Ownership)
    BY AtMostOne DEF IInv, One, Client, Owns, Ownership
  <1> QED
    BY <1>1, InitIInv, NextIInv, PTL DEF Spec

-----------------------------------------------------------------------------
(* When one arena is enough for all that is ever asked for, the last block *)
(* is free and has room for what may still come, so that no other arena is *)
(* needed, and the first header is never joined with the last.             *)
LastFree(H, n) == \A a \in DOMAIN H : LastOf(H, a) => H[a].asize = 0 /\ H[a].size >= n

(* A call takes memory at most once; before it has, it is not counted.     *)
Before == pc \in {"mmalloc", "first_fit", "place", "mrealloc"}
Spent == IF Before THEN calls - 1 ELSE calls
Spare(K) == PAGE - ARENA - HDR - Spent * (K + HDR)

Room(K) ==
  /\ calls \in 0 .. MaxCalls /\ call.size <= K
  /\ Before => calls >= 1
  /\ first_arena # NULL => FirstHeader \in DOMAIN hdr /\ OneArena /\ LastFree(hdr, Spare(K))

RInv(K) == IInv /\ Room(K)

Enough(K) ==
  /\ \A s \in Sizes : s <= K
  /\ PAGE > ARENA + 2 * HDR + MaxCalls * (K + HDR)

LEMMA Budget ==
  ASSUME NEW c \in Nat, NEW W \in Nat
  PROVE  c * W \in Nat /\ (c + 1) * W = c * W + W
  OBVIOUS

LEMMA BudgetUpTo ==
  ASSUME NEW W \in Nat, NEW m \in Nat, NEW c \in Nat, c <= m
  PROVE  c * W <= m * W
  OBVIOUS

(* There is room for the call that has not yet taken its memory.           *)
LEMMA Plenty ==
  ASSUME NEW K \in Nat, Enough(K), RInv(K)
  PROVE  /\ Spent \in Nat /\ Spare(K) \in Int
         /\ Before => Spare(K) > call.size + 2 * HDR /\ Spent + 1 = calls
  <1>1. HDR \in Nat /\ ARENA \in Nat /\ PAGE \in Nat /\ MaxCalls \in Nat /\ calls \in Nat /\ calls <= MaxCalls
        /\ call.size \in Nat /\ call.size <= K
    BY DEF RInv, Room, IInv, Arenas
  <1>2. Spent \in Nat /\ (Before => Spent + 1 = calls)
    BY <1>1 DEF Spent, RInv, Room
  <1>3. PICK W \in Nat : W = K + HDR
    BY <1>1
  <1>4. Spent * W \in Nat /\ (Spent + 1) * W = Spent * W + W
    BY <1>2, <1>3, Budget
  <1>5. Spare(K) = PAGE - ARENA - HDR - Spent * W
    BY <1>3 DEF Spare
  <1>6. calls * W <= MaxCalls * W /\ MaxCalls * W \in Nat
    BY <1>1, <1>3, BudgetUpTo, Budget
  <1>7. Before => Spent * W + W <= MaxCalls * W
    BY <1>2, <1>4, <1>6
  <1>8. PAGE > ARENA + 2 * HDR + MaxCalls * W
    BY <1>3 DEF Enough
  <1> QED
    BY <1>1, <1>2, <1>3, <1>4, <1>5, <1>6, <1>7, <1>8

(* What the helpers do to the last block.                                  *)
LEMMA LastFreeLess ==
  ASSUME NEW H, Headers(H), NEW n \in Int, NEW m \in Int, m <= n, LastFree(H, n)
  PROVE  LastFree(H, m)
  BY DEF LastFree, Headers

LEMMA LastFreeTake ==
  ASSUME NEW H, Circle(H), NEW a \in DOMAIN H, NEW s \in Nat, s \in 1 .. H[a].size,
         NEW n \in Int, n > s + 2 * HDR, LastFree(H, n)
  PROVE  LastFree(Taken(H, a, s), n - s - HDR)
  <1>0. PICK M : M = Taken(H, a, s)
    OBVIOUS
  <1> USE <1>0
  <1>1. /\ Circular(H) /\ DOMAIN H \subseteq Nat /\ HDR \in Nat \ {0}
        /\ \A c \in DOMAIN H : H[c].size \in Nat
    BY DEF Circle, Headers
  <1> SUFFICES ASSUME NEW c \in DOMAIN M, LastOf(M, c)
               PROVE  M[c].asize = 0 /\ M[c].size >= n - s - HDR
    BY DEF LastFree
  <1>2. LastOf(H, a) => Divides(H, a, s)
    BY <1>1 DEF LastFree, Divides
  <1>3. CASE Divides(H, a, s)
    <2>1. PICK new : new = a + HDR + s
      OBVIOUS
    <2>2. M = Marked(hdr_split(H, a, s), a, s)
      BY <1>3 DEF Taken
    <2>3. /\ new \in Nat \ DOMAIN H /\ DOMAIN M = DOMAIN H \cup {new}
          /\ M[new] = [next |-> H[a].next, size |-> H[a].size - s - HDR, asize |-> 0]
          /\ \A d \in DOMAIN H \ {a} : M[d] = H[d]
      <3>1. PartTaken(H, a, s, Marked(hdr_split(H, a, s), a, s))
        BY <1>3, TakePart
      <3>2. PartTaken(H, a, s, M)
        BY <2>2, <3>1
      <3> QED
        BY <2>1, <3>2 DEF PartTaken
    <2>4. c # a
      BY <1>1, <2>1, <2>3 DEF LastOf
    <2>5. CASE c = new
      <3>1. LastOf(H, a)
        <4> SUFFICES ASSUME NEW d \in DOMAIN H, d > a PROVE FALSE
          BY <1>1 DEF LastOf
        <4>1. EndOf(H, a) <= d
          BY <1>1 DEF Circular, Adjacent, Wraps
        <4>2. d <= new
          BY <2>3, <2>5 DEF LastOf
        <4> QED
          BY <1>1, <1>3, <2>1, <4>1, <4>2 DEF EndOf, Divides
      <3>2. H[a].size >= n
        BY <3>1 DEF LastFree
      <3> QED
        BY <1>1, <2>3, <2>5, <3>2
    <2>6. CASE c \in DOMAIN H \ {a}
      <3>1. LastOf(H, c)
        BY <2>3 DEF LastOf
      <3>2. H[c].asize = 0 /\ H[c].size >= n
        BY <2>6, <3>1 DEF LastFree
      <3> QED
        BY <1>1, <2>3, <2>6, <3>2
    <2> QED
      BY <2>3, <2>4, <2>5, <2>6
  <1>4. CASE ~ Divides(H, a, s)
    <2>1. M = Marked(H, a, s)
      BY <1>4 DEF Taken
    <2>2. DOMAIN M = DOMAIN H /\ \A d \in DOMAIN H \ {a} : M[d] = H[d]
      <3>1. WholeTaken(H, a, s, Marked(H, a, s))
        BY <1>4, TakeWhole
      <3>2. WholeTaken(H, a, s, M)
        BY <2>1, <3>1
      <3> QED
        BY <3>2 DEF WholeTaken
    <2>3. LastOf(H, c)
      BY <2>2 DEF LastOf
    <2>4. c # a
      BY <1>2, <1>4, <2>3
    <2>5. H[c].asize = 0 /\ H[c].size >= n
      BY <2>2, <2>3 DEF LastFree
    <2> QED
      BY <1>1, <2>2, <2>4, <2>5
  <1> QED
    BY <1>3, <1>4

LEMMA LastFreeMerge ==
  ASSUME NEW H, Circle(H), NEW l \in DOMAIN H, NEW r \in DOMAIN H, H[l].next = r, l < r,
         H[l].asize = 0, NEW n \in Int, LastFree(H, n)
  PROVE  LastFree(hdr_merge(H, l, r), n)
  <1>0. PICK M : M = hdr_merge(H, l, r)
    OBVIOUS
  <1> USE <1>0
  <1>1. /\ DOMAIN H \subseteq Nat /\ HDR \in Nat \ {0} /\ l # r
        /\ \A c \in DOMAIN H : H[c].size \in Nat
    BY DEF Circle, Headers
  <1>2. /\ DOMAIN M = DOMAIN H \ {r}
        /\ M[l] = [next |-> H[r].next, size |-> H[l].size + HDR + H[r].size, asize |-> 0]
        /\ \A c \in DOMAIN H \ {l, r} : M[c] = H[c]
        /\ Adjacent(H, l)
    <2>1. Merged(H, l, r, hdr_merge(H, l, r))
      BY <1>1, Merge
    <2>2. Merged(H, l, r, M)
      BY <2>1
    <2> QED
      BY <1>1, <2>2 DEF Merged
  <1> SUFFICES ASSUME NEW c \in DOMAIN M, LastOf(M, c)
               PROVE  M[c].asize = 0 /\ M[c].size >= n
    BY DEF LastFree
  <1>3. CASE c = l
    <2>1. LastOf(H, r)
      BY <1>1, <1>2, <1>3 DEF LastOf
    <2>2. H[r].size >= n
      BY <2>1 DEF LastFree
    <2> QED
      BY <1>1, <1>2, <1>3, <2>2
  <1>4. CASE c # l
    <2>1. c \in DOMAIN H /\ c # r
      BY <1>2
    <2>2. l <= c /\ l \in Nat /\ c \in Nat
      BY <1>1, <1>2, <2>1 DEF LastOf
    <2>3. r <= c
      BY <1>1, <1>2, <1>4, <2>1, <2>2 DEF Adjacent
    <2>4. LastOf(H, c)
      BY <1>1, <1>2, <2>1, <2>3 DEF LastOf
    <2> QED
      BY <1>2, <1>4, <2>1, <2>4 DEF LastFree
  <1> QED
    BY <1>3, <1>4

(* A block in use is not the last, and loses nothing by being given back.  *)
LEMMA LastFreeGiveBack ==
  ASSUME NEW H, NEW a \in DOMAIN H, H[a].asize # 0, NEW M, GivenBack(H, a, M),
         NEW n, LastFree(H, n)
  PROVE  LastFree(M, n)
  BY DEF LastFree, LastOf, GivenBack

(* A step that leaves the heap as it is.                                   *)
LEMMA RoomQuiet ==
  ASSUME NEW K \in Nat, Enough(K), RInv(K), UNCHANGED << arenas, first_arena, hdr >>,
         calls' \in 0 .. MaxCalls, call'.size <= K, Before' => calls' >= 1,
         Spent' = Spent \/ Spent' = Spent + 1
  PROVE  Room(K)'
  <1>1. Spent \in Nat /\ Spare(K) \in Int
    BY Plenty
  <1>2. PICK W \in Nat : W = K + HDR
    OBVIOUS
  <1>3. Spent * W \in Nat /\ (Spent + 1) * W = Spent * W + W
    BY <1>1, <1>2, Budget
  <1>4. Spare(K)' \in Int /\ Spare(K)' <= Spare(K)
    BY <1>1, <1>2, <1>3 DEF Spare
  <1>5. ASSUME first_arena # NULL PROVE LastFree(hdr, Spare(K)')
    <2>1. Headers(hdr) /\ LastFree(hdr, Spare(K))
      BY <1>5 DEF RInv, Room, IInv, One, Heap, Circle
    <2> QED
      BY <1>1, <1>4, <2>1, LastFreeLess
  <1>6. LastFree(hdr, Spare(K))' <=> LastFree(hdr, Spare(K)')
    BY DEF LastFree, LastOf
  <1> QED
    BY <1>5, <1>6, SameArenas DEF Room, RInv, FirstHeader

(* The blocks there are have changed, and no call is counted.              *)
LEMMA RoomChanged ==
  ASSUME NEW K \in Nat, Enough(K), RInv(K), UNCHANGED << arenas, first_arena, calls >>,
         first_arena # NULL, FirstHeader \in DOMAIN hdr', call'.size <= K, ~ Before',
         NEW n \in Int, LastFree(hdr', n), Headers(hdr'),
         IF Before THEN n = Spare(K) - K - HDR ELSE n = Spare(K)
  PROVE  Room(K)'
  <1>1. Spent \in Nat /\ Spare(K) \in Int /\ (Before => Spent + 1 = calls)
    BY Plenty
  <1>2. PICK W \in Nat : W = K + HDR
    OBVIOUS
  <1>3. Spent * W \in Nat /\ (Spent + 1) * W = Spent * W + W
    BY <1>1, <1>2, Budget
  <1>4. Spent' = calls
    BY DEF Spent
  <1>5. Spare(K)' = n
    <2>1. CASE Before
      <3>1. Spent' = Spent + 1
        BY <1>1, <1>4, <2>1
      <3> QED
        BY <1>1, <1>2, <1>3, <2>1, <3>1 DEF Spare
    <2>2. CASE ~ Before
      <3>1. Spent' = Spent
        BY <1>4, <2>2 DEF Spent
      <3> QED
        BY <2>2, <3>1 DEF Spare
    <2> QED
      BY <2>1, <2>2
  <1>6. LastFree(hdr, Spare(K))'
    BY <1>5 DEF LastFree, LastOf
  <1>7. OneArena'
    BY SameArenas DEF RInv, Room
  <1> QED
    BY <1>6, <1>7 DEF Room, RInv, FirstHeader

(* The steps that change no header.                                        *)
LEMMA QuietRoom ==
  ASSUME NEW K \in Nat, Enough(K), RInv(K),
         \/ CallMmalloc \/ CallMfree \/ CallMrealloc
         \/ MmallocFit \/ FitFound \/ FitNext \/ ArenaAssert \/ FitWild \/ PlaceAssert \/ MfreeAssert
         \/ PrevNext \/ MreallocZero \/ MreallocGrow \/ UNCHANGED vars
  PROVE  Room(K)'
  <1>1. /\ calls \in 0 .. MaxCalls /\ call.size <= K /\ (Before => calls >= 1)
        /\ MaxCalls \in Nat /\ (pc = "idle" => ~ Before)
    BY DEF RInv, Room, Before
  <1>2. ASSUME NEW fun, NEW ptr, NEW size \in Nat, size <= K,
               NEW where \in {"mmalloc", "mfree", "mrealloc"}, Begin(fun, ptr, size, where)
        PROVE  Room(K)'
    <2>1. /\ UNCHANGED << arenas, first_arena, hdr >> /\ ~ Before
          /\ calls < MaxCalls /\ calls' = calls + 1 /\ call'.size = size
      BY <1>1, <1>2 DEF Begin, heap
    <2>2. Spent' = Spent \/ Spent' = Spent + 1
      BY <1>1, <2>1 DEF Spent
    <2> QED
      BY <1>1, <1>2, <2>1, <2>2, RoomQuiet
  <1>3. CASE CallMmalloc
    BY <1>2, <1>3 DEF CallMmalloc, Enough
  <1>4. CASE CallMfree
    BY <1>2, <1>4 DEF CallMfree
  <1>5. CASE CallMrealloc
    BY <1>2, <1>5 DEF CallMrealloc, Enough
  <1>6. ASSUME UNCHANGED << arenas, first_arena, hdr, calls, call >>,
               Before' => Before
        PROVE  Room(K)'
    <2>1. Spent' = Spent \/ Spent' = Spent + 1
      BY <1>1, <1>6 DEF Spent
    <2> QED
      BY <1>1, <1>6, <2>1, RoomQuiet
  <1>7. CASE MmallocFit \/ FitFound \/ FitNext \/ ArenaAssert \/ FitWild
    BY <1>6, <1>7 DEF MmallocFit, FitFound, FitNext, ArenaAssert, FitWild, Ends, In, heap, Before
  <1>8. CASE PlaceAssert \/ MfreeAssert \/ PrevNext \/ MreallocZero \/ MreallocGrow
    BY <1>6, <1>8 DEF PlaceAssert, MfreeAssert, PrevNext, MreallocZero, MreallocGrow, Ends, In,
       heap, Before
  <1>9. CASE UNCHANGED vars
    BY <1>6, <1>9 DEF vars, heap, Before
  <1> QED
    BY <1>3, <1>4, <1>5, <1>7, <1>8, <1>9

(* The first arena: one block, which is all of a page at least.            *)
LEMMA MmallocArenaRoom ==
  ASSUME NEW K \in Nat, Enough(K), RInv(K), MmallocArena
  PROVE  Room(K)'
  <1>1. /\ pc = "mmalloc" /\ first_arena = NULL /\ calls' = calls
        /\ calls \in 0 .. MaxCalls /\ call.size <= K /\ calls >= 1 /\ Before
    BY DEF MmallocArena, In, RInv, Room, Before
  <1>2. CASE Return /\ UNCHANGED heap
    <2>1. Spent' = Spent + 1 /\ UNCHANGED << arenas, first_arena, hdr >> /\ ~ Before' /\ call'.size = 0
      BY <1>1, <1>2 DEF Return, heap, NoCall, Before, Spent
    <2> QED
      BY <1>1, <2>1, RoomQuiet
  <1>3. ASSUME NEW base \in Bases, NewArena(base, ArenaFor(call.size)),
               pc' = "first_fit", call' = call
        PROVE  Room(K)'
    <2>1. PICK size : size = ArenaFor(call.size)
      OBVIOUS
    <2>2. size \in Nat \ {0} /\ size >= PAGE /\ size % PAGE = 0
      <3>1. call.size \in Nat
        BY DEF RInv, IInv, Arenas
      <3>2. size \in Nat /\ size >= PAGE /\ size % PAGE = 0
        BY <1>3, <2>1, <3>1, ArenaSize DEF NewArena
      <3> QED
        BY <3>2
    <2>3. NewArena(base, size)
      BY <1>3, <2>1
    <2>4. DOMAIN hdr = {}
      BY <1>1 DEF RInv, IInv, OneArena, Arenas, One, Start
    <2>5. PICK new : new = base + ARENA
      OBVIOUS
    <2>6. hdr' = With(hdr, new, [next |-> new, size |-> size - ARENA - HDR, asize |-> 0])
      BY <1>1, <2>3, <2>5 DEF NewArena
    <2>7. DOMAIN hdr' = {new} /\ hdr'[new].asize = 0 /\ hdr'[new].size = size - ARENA - HDR
      BY <2>4, <2>6 DEF With
    <2>8. first_arena' = base /\ FirstHeader' = new
      BY <1>1, <2>3, <2>5 DEF NewArena, FirstHeader
    <2>9. OneArena'
      BY <1>1, <2>3, <2>8 DEF NewArena, With, OneArena, RInv, IInv, Arenas
    <2>10. Spent' = Spent /\ Before' /\ Spare(K)' <= PAGE - ARENA - HDR
      <3>1. Spent' = Spent /\ Before' /\ Spent \in Nat
        BY <1>1, <1>3, Plenty DEF Spent, Before
      <3>2. PICK W \in Nat : W = K + HDR
        OBVIOUS
      <3>3. Spent * W \in Nat
        BY <3>1, <3>2, Budget
      <3> QED
        BY <3>1, <3>2, <3>3 DEF Spare
    <2>11. LastFree(hdr, Spare(K))'
      <3>1. Spare(K)' \in Int
        BY <2>10, Plenty DEF Spare
      <3> QED
        BY <2>2, <2>7, <2>10, <3>1 DEF LastFree
    <2> QED
      BY <1>1, <1>3, <2>7, <2>8, <2>9, <2>11 DEF Room
  <1> QED
    BY <1>2, <1>3 DEF MmallocArena

(* The walk has come to the last block, and there is room in it.           *)
LEMMA NoGrowth ==
  ASSUME NEW K \in Nat, Enough(K), RInv(K), FitGrow
  PROVE  FALSE
  <1>1. /\ pc = "first_fit" /\ at \in DOMAIN hdr /\ ~ Fits(at, call.size)
        /\ hdr[at].next = FirstHeader
    BY DEF FitGrow, In
  <1>2. OneArena /\ One /\ LastFree(hdr, Spare(K))
    BY <1>1 DEF RInv, IInv, Room, Arenas, OneArena, One, Start
  <1>3. Headers(hdr) /\ Circular(hdr) /\ \A a \in DOMAIN hdr : FirstHeader <= a
    BY <1>2 DEF One, Heap, Circle, Inside
  <1>4. DOMAIN hdr \subseteq Nat /\ hdr[at].size \in Nat \ {0} /\ HDR \in Nat /\ FirstHeader \in DOMAIN hdr
    BY <1>1, <1>3 DEF Headers, Circular
  <1>5. ~ Adjacent(hdr, at)
    BY <1>1, <1>3, <1>4 DEF Adjacent, EndOf
  <1>6. LastOf(hdr, at)
    BY <1>1, <1>3, <1>5 DEF Circular, Wraps, LastOf
  <1>7. hdr[at].asize = 0 /\ hdr[at].size >= Spare(K)
    BY <1>1, <1>2, <1>6 DEF LastFree
  <1>8. Spare(K) \in Int /\ Spare(K) > call.size + 2 * HDR /\ call.size \in Nat
    BY <1>1, Plenty DEF Before, RInv, IInv, Arenas
  <1> QED
    BY <1>1, <1>4, <1>7, <1>8 DEF Fits

(* A block is taken for a call that had not yet taken its memory.          *)
LEMMA TakeRoom ==
  ASSUME NEW K \in Nat, Enough(K), RInv(K), UNCHANGED << arenas, first_arena, calls >>,
         Before, ~ Before', call'.size <= K, OneArena, One,
         NEW a \in DOMAIN hdr, call.size \in 1 .. hdr[a].size,
         hdr' = Taken(hdr, a, call.size)
  PROVE  Room(K)'
  <1>1. Heap(hdr) /\ Circle(hdr) /\ Headers(hdr) /\ call.size \in Nat /\ call.size <= K /\ HDR \in Nat
    BY DEF One, Heap, Circle, RInv, IInv, Arenas, Room
  <1>2. first_arena \in Nat /\ first_arena # NULL /\ EndOfArena \in Nat
    BY Numbers DEF One, RInv, IInv
  <1>3. FirstHeader \in DOMAIN hdr /\ LastFree(hdr, Spare(K))
    BY <1>2 DEF RInv, Room
  <1>4. Spare(K) \in Int /\ Spare(K) > call.size + 2 * HDR
    BY Plenty
  <1>5. PICK s \in Nat, n \in Int : s = call.size /\ n = Spare(K)
    BY <1>1, <1>4
  <1>6. n > s + 2 * HDR /\ LastFree(hdr, n) /\ s \in 1 .. hdr[a].size /\ hdr' = Taken(hdr, a, s)
    BY <1>3, <1>4, <1>5
  <1>7. Heap(hdr') /\ DOMAIN hdr \subseteq DOMAIN hdr'
    <2>1. TakenFrom(hdr, a, s, Taken(hdr, a, s))
      BY <1>1, <1>2, <1>6, Take
    <2>2. TakenFrom(hdr, a, s, hdr')
      BY <1>6, <2>1
    <2> QED
      BY <2>2 DEF TakenFrom
  <1>8. Headers(hdr')
    BY <1>7 DEF Heap, Circle
  <1>9. LastFree(hdr', n - s - HDR)
    <2>1. LastFree(Taken(hdr, a, s), n - s - HDR)
      BY <1>1, <1>6, LastFreeTake
    <2> QED
      BY <1>6, <2>1
  <1>10. LastFree(hdr', n - K - HDR)
    <2>1. n - s - HDR \in Int /\ n - K - HDR \in Int /\ n - K - HDR <= n - s - HDR
      BY <1>1, <1>5
    <2> QED
      BY <1>8, <1>9, <2>1, LastFreeLess
  <1>11. n - K - HDR \in Int
    BY <1>1
  <1> QED
    BY <1>2, <1>3, <1>5, <1>7, <1>8, <1>10, <1>11, RoomChanged

LEMMA PlaceRoom ==
  ASSUME NEW K \in Nat, Enough(K), RInv(K), Place
  PROVE  Room(K)'
  <1>1. /\ pc = "place" /\ call.size > 0
        /\ UNCHANGED << arenas, first_arena, calls >>
        /\ hdr' = Taken(hdr, h, call.size)
    BY DEF Place, In, Taken, Divides, hdr_should_split, Marked
  <1>2. pc' \in {"mfree", "idle"} /\ (call' = call \/ call' = NoCall)
    BY DEF Place, Return
  <1>3. Before /\ ~ Before' /\ call'.size <= K
    BY <1>1, <1>2 DEF Before, NoCall, RInv, Room
  <1>4. OneArena /\ One
    BY <1>1 DEF RInv, IInv, Room, Arenas, OneArena, One
  <1>5. h \in DOMAIN hdr /\ Fits(h, call.size)
    BY <1>1, <1>4 DEF One, Walks
  <1>6. hdr[h].size \in Nat /\ hdr[h].asize \in Nat /\ call.size \in Nat
    BY <1>4, <1>5 DEF One, Heap, Circle, Headers, RInv, IInv, Arenas
  <1>7. call.size \in 1 .. hdr[h].size
    BY <1>1, <1>5, <1>6 DEF Fits
  <1> QED
    BY <1>1, <1>3, <1>4, <1>5, <1>7, TakeRoom

LEMMA MreallocShrinkRoom ==
  ASSUME NEW K \in Nat, Enough(K), RInv(K), MreallocShrink
  PROVE  Room(K)'
  <1>1. /\ pc = "mrealloc" /\ call.size # 0 /\ call.ptr # NULL /\ call.size <= hdr[Block].asize
        /\ UNCHANGED << arenas, first_arena, calls >>
        /\ hdr' = Taken(hdr, Block, call.size)
        /\ pc' = "idle" /\ call' = NoCall
    BY DEF MreallocShrink, In, Return, Taken, Divides, hdr_should_split, Marked
  <1>2. Before /\ ~ Before' /\ call'.size <= K
    BY <1>1 DEF Before, NoCall
  <1>3. OneArena /\ One
    BY <1>1 DEF RInv, IInv, Room, Arenas, OneArena, One
  <1>4. Block \in DOMAIN hdr
    BY <1>1, <1>3, BlockOf DEF RInv
  <1>5. /\ hdr[Block].size \in Nat /\ hdr[Block].asize \in Nat /\ call.size \in Nat
        /\ hdr[Block].asize <= hdr[Block].size
    BY <1>3, <1>4 DEF One, Heap, Circle, Headers, RInv, IInv, Arenas
  <1>6. call.size \in 1 .. hdr[Block].size
    BY <1>1, <1>5
  <1> QED
    BY <1>1, <1>2, <1>3, <1>4, <1>6, TakeRoom

(* Two free blocks are joined in the order in which they lie.              *)
LEMMA JoinRoom ==
  ASSUME NEW H, Heap(H), NEW l \in DOMAIN H, NEW r \in DOMAIN H, H[l].next = r, l < r,
         H[l].asize = 0, FirstHeader \in DOMAIN H, NEW n \in Int, LastFree(H, n)
  PROVE  /\ Headers(hdr_merge(H, l, r)) /\ FirstHeader \in DOMAIN hdr_merge(H, l, r)
         /\ LastFree(hdr_merge(H, l, r), n)
  <1>0. PICK M : M = hdr_merge(H, l, r)
    OBVIOUS
  <1>1. /\ Circle(H) /\ \A a \in DOMAIN H : FirstHeader <= a
        /\ l \in Nat /\ r \in Nat /\ l # r /\ DOMAIN H \subseteq Nat
    BY DEF Heap, Inside, Circle, Headers
  <1>2. Heap(M) /\ DOMAIN M = DOMAIN H \ {r}
    <2>1. Joined(H, l, r, hdr_merge(H, l, r))
      BY <1>1, Join
    <2>2. Joined(H, l, r, M)
      BY <1>0, <2>1
    <2> QED
      BY <2>2 DEF Joined
  <1>3. FirstHeader # r
    BY <1>1
  <1>4. LastFree(hdr_merge(H, l, r), n)
    BY <1>1, LastFreeMerge
  <1> QED
    BY <1>0, <1>2, <1>3, <1>4 DEF Heap, Circle

LEMMA MfreeRoom ==
  ASSUME NEW K \in Nat, Enough(K), RInv(K), Mfree
  PROVE  Room(K)'
  <1>1. PICK H, right :
          /\ pc = "mfree" /\ call.ptr # NULL /\ hdr[Block].next # Block
          /\ H = Marked(hdr, Block, 0) /\ right = H[Block].next
          /\ hdr' = IF H[Block].asize = 0 /\ H[right].asize = 0 THEN hdr_merge(H, Block, right) ELSE H
          /\ pc' = "hdr_get_prev"
          /\ UNCHANGED << arenas, first_arena, calls, call >>
    BY DEF Mfree, In, Marked, hdr_can_merge
  <1>2. ~ Before /\ ~ Before' /\ call'.size <= K
    BY <1>1 DEF Before, RInv, Room
  <1>3. OneArena /\ One /\ Heap(hdr) /\ Headers(hdr) /\ Circular(hdr)
    BY <1>1 DEF RInv, IInv, Room, Arenas, OneArena, One, Heap, Circle
  <1>4. Block \in DOMAIN hdr /\ hdr[Block].asize # 0
    BY <1>1, <1>3, BlockOf DEF RInv
  <1>5. first_arena # NULL /\ FirstHeader \in DOMAIN hdr /\ LastFree(hdr, Spare(K))
    BY <1>3, <1>4, Numbers DEF One, RInv, IInv, Room
  <1>6. PICK n \in Int : n = Spare(K)
    BY Plenty
  <1>7. GivenBack(hdr, Block, H)
    BY <1>1, <1>3, <1>4, GiveBack
  <1>8. /\ Heap(H) /\ DOMAIN H = DOMAIN hdr /\ right = hdr[Block].next /\ H[Block].asize = 0
    BY <1>1, <1>7 DEF GivenBack
  <1>9. LastFree(H, n)
    BY <1>4, <1>5, <1>6, <1>7, LastFreeGiveBack
  <1>10. right \in DOMAIN H /\ H[Block].next = right /\ Block < right
    <2>1. right \in DOMAIN hdr /\ (Adjacent(hdr, Block) \/ Wraps(hdr, Block))
      BY <1>3, <1>4, <1>8 DEF Circular
    <2>2. ~ LastOf(hdr, Block)
      BY <1>4, <1>5 DEF LastFree
    <2>3. Adjacent(hdr, Block)
      BY <2>1, <2>2 DEF Wraps, LastOf
    <2>4. hdr[Block].size \in Nat /\ Block \in Nat /\ HDR \in Nat \ {0}
      BY <1>3, <1>4 DEF Headers
    <2> QED
      BY <1>1, <1>8, <2>1, <2>3, <2>4 DEF Adjacent, EndOf
  <1>11. Headers(hdr') /\ FirstHeader \in DOMAIN hdr' /\ LastFree(hdr', n)
    <2>1. CASE H[right].asize = 0
      <3>1. hdr' = hdr_merge(H, Block, right)
        BY <1>1, <1>8, <2>1
      <3> QED
        BY <1>4, <1>5, <1>8, <1>9, <1>10, <3>1, JoinRoom
    <2>2. CASE H[right].asize # 0
      BY <1>1, <1>5, <1>8, <1>9, <2>2 DEF Heap, Circle
    <2> QED
      BY <2>1, <2>2
  <1> QED
    BY <1>1, <1>2, <1>5, <1>6, <1>11, RoomChanged

LEMMA PrevFoundRoom ==
  ASSUME NEW K \in Nat, Enough(K), RInv(K), PrevFound
  PROVE  Room(K)'
  <1>1. /\ UNCHANGED << arenas, first_arena, calls >>
        /\ pc = "hdr_get_prev" /\ pc' = "idle" /\ call' = NoCall
        /\ hdr[at].next = h \/ (at = h /\ second)
        /\ hdr' = IF at < h /\ hdr[at].asize = 0 /\ hdr[h].asize = 0 THEN hdr_merge(hdr, at, h) ELSE hdr
    BY DEF PrevFound, MergeBack, In, Return, hdr_can_merge
  <1>2. ~ Before /\ ~ Before' /\ call'.size <= K
    BY <1>1 DEF Before, NoCall
  <1>3. OneArena /\ One /\ Heap(hdr) /\ Headers(hdr)
    BY <1>1 DEF RInv, IInv, Room, Arenas, OneArena, One, Heap, Circle
  <1>4. h \in DOMAIN hdr /\ at \in DOMAIN hdr /\ h \in Nat /\ at \in Nat
    BY <1>1, <1>3 DEF One, Walks, Headers
  <1>5. first_arena # NULL /\ FirstHeader \in DOMAIN hdr /\ LastFree(hdr, Spare(K))
    BY <1>3, <1>4, Numbers DEF One, RInv, IInv, Room
  <1>6. PICK n \in Int : n = Spare(K)
    BY Plenty
  <1>7. Headers(hdr') /\ FirstHeader \in DOMAIN hdr' /\ LastFree(hdr', n)
    <2>1. CASE at < h /\ hdr[at].asize = 0 /\ hdr[h].asize = 0
      <3>1. hdr' = hdr_merge(hdr, at, h) /\ hdr[at].next = h
        BY <1>1, <1>4, <2>1
      <3> QED
        BY <1>3, <1>4, <1>5, <1>6, <2>1, <3>1, JoinRoom
    <2>2. CASE ~ (at < h /\ hdr[at].asize = 0 /\ hdr[h].asize = 0)
      BY <1>1, <1>3, <1>5, <1>6, <2>2
    <2> QED
      BY <2>1, <2>2
  <1> QED
    BY <1>1, <1>2, <1>5, <1>6, <1>7, RoomChanged

LEMMA NextRInv ==
  ASSUME NEW K \in Nat, Enough(K), RInv(K), [Next]_vars
  PROVE  RInv(K)'
  <1>1. IInv'
    BY NextIInv DEF RInv
  <1>2. Room(K)'
    BY QuietRoom, MmallocArenaRoom, NoGrowth, PlaceRoom, MfreeRoom, PrevFoundRoom,
       MreallocShrinkRoom DEF Next, Step, Over
  <1> QED
    BY <1>1, <1>2 DEF RInv

(* When all that may ever be asked for, with a header each, has room in a  *)
(* page: whatever the client asks for, gives back and resizes, in whatever *)
(* order, the blocks tile the arena, every one belongs to the client or is *)
(* free, and what the client asked for is marked on it.                    *)
THEOREM SoundInvariant ==
  ASSUME NEW K \in Nat, \A s \in Sizes : s <= K,
         PAGE > ARENA + 2 * HDR + MaxCalls * (K + HDR)
  PROVE  Spec => []Sound
  <1>1. Enough(K)
    BY DEF Enough
  <1>2. Init => RInv(K)
    BY InitIInv DEF Init, RInv, Room, Before, NoCall
  <1>3. RInv(K) /\ [Next]_vars => RInv(K)'
    BY <1>1, NextRInv
  <1>4. RInv(K) => Sound
    <2> SUFFICES ASSUME RInv(K) PROVE Sound
      OBVIOUS
    <2>1. OneArena /\ (first_arena # NULL => FirstHeader \in DOMAIN hdr)
      BY DEF RInv, Room, IInv, Arenas, OneArena
    <2> QED
      BY <2>1, SoundWhileFirst DEF RInv
  <1> QED
    BY <1>2, <1>3, <1>4, PTL DEF Spec

-----------------------------------------------------------------------------
(* Free blocks side by side, but for those before the header x.            *)
Pairs(H, x) ==
  {a \in DOMAIN H :
     /\ EndOf(H, a) \in DOMAIN H
     /\ H[a].asize = 0 /\ H[EndOf(H, a)].asize = 0
     /\ EndOf(H, a) # x}

Nowhere == -1
GivenBackNow == IF pc = "hdr_get_prev" THEN h ELSE Nowhere

(* Two sets of which the second has at most one element for another of the *)
(* first.                                                                  *)
LEMMA Exchange ==
  ASSUME NEW S, IsFiniteSet(S), NEW x, NEW y, NEW T, T \subseteq (S \ {x}) \cup {y},
         y \in T => x \in S
  PROVE  Cardinality(T) <= Cardinality(S)
  <1>1. CASE y \in T
    <2>1. PICK R : R = S \ {x}
      OBVIOUS
    <2>2. IsFiniteSet(R) /\ Cardinality(R) = Cardinality(S) - 1
      BY <1>1, <2>1, FS_RemoveElement
    <2>3. Cardinality(R) \in Nat /\ Cardinality(S) \in Nat
      BY <2>2, FS_CardinalityType
    <2>4. IsFiniteSet(R \cup {y}) /\ Cardinality(R \cup {y}) \in {Cardinality(R), Cardinality(R) + 1}
      BY <2>2, FS_AddElement
    <2>5. Cardinality(T) \in Nat /\ Cardinality(T) <= Cardinality(R \cup {y})
      BY <2>1, <2>4, FS_Subset, FS_CardinalityType
    <2> QED
      BY <2>2, <2>3, <2>4, <2>5
  <1>2. CASE y \notin T
    <2>1. T \subseteq S
      BY <1>2
    <2> QED
      BY <2>1, FS_Subset
  <1> QED
    BY <1>1, <1>2

LEMMA PairsFinite ==
  ASSUME NEW H, Headers(H), NEW x
  PROVE  IsFiniteSet(Pairs(H, x))
  <1>1. Pairs(H, x) \subseteq DOMAIN H /\ IsFiniteSet(DOMAIN H)
    BY DEF Pairs, Headers
  <1> QED
    BY <1>1, FS_Subset

(* A header that begins where a block ends is the next, and no other block *)
(* ends there.                                                             *)
LEMMA EndNext ==
  ASSUME NEW H, Headers(H), Circular(H), NEW a \in DOMAIN H, EndOf(H, a) \in DOMAIN H
  PROVE  /\ H[a].next = EndOf(H, a) /\ a < EndOf(H, a)
         /\ \A c \in DOMAIN H : EndOf(H, c) = EndOf(H, a) => c = a
  <1>1. /\ DOMAIN H \subseteq Nat /\ HDR \in Nat \ {0}
        /\ \A c \in DOMAIN H : H[c].size \in Nat
    BY DEF Headers
  <1>2. \A c \in DOMAIN H : c < EndOf(H, c)
    BY <1>1 DEF EndOf
  <1>3. ASSUME NEW c \in DOMAIN H, EndOf(H, c) \in DOMAIN H PROVE Adjacent(H, c)
    BY <1>1, <1>2, <1>3 DEF Circular, Wraps
  <1>4. ASSUME NEW c \in DOMAIN H, EndOf(H, c) = EndOf(H, a) PROVE c = a
    <2>1. Adjacent(H, a) /\ Adjacent(H, c)
      BY <1>3, <1>4
    <2>2. (c <= a \/ EndOf(H, a) <= c) /\ (a <= c \/ EndOf(H, a) <= a)
      BY <1>4, <2>1 DEF Adjacent
    <2>3. c < EndOf(H, a) /\ a < EndOf(H, a)
      BY <1>2, <1>4
    <2> QED
      BY <1>1, <2>2, <2>3
  <1> QED
    BY <1>2, <1>3, <1>4 DEF Adjacent

(* A free block that is taken leaves at most the pair of what is left of it. *)
LEMMA PairsTake ==
  ASSUME NEW H, Circle(H), NEW a \in DOMAIN H, H[a].asize = 0,
         NEW s \in Nat, s \in 1 .. H[a].size
  PROVE  Cardinality(Pairs(Taken(H, a, s), Nowhere)) <= Cardinality(Pairs(H, Nowhere))
  <1>0. PICK M : M = Taken(H, a, s)
    OBVIOUS
  <1> USE <1>0
  <1>1. /\ Headers(H) /\ Circular(H) /\ DOMAIN H \subseteq Nat /\ HDR \in Nat \ {0}
        /\ \A c \in DOMAIN H : H[c].size \in Nat
    BY DEF Circle, Headers
  <1>2. IsFiniteSet(Pairs(H, Nowhere))
    BY <1>1, PairsFinite
  <1>3. CASE Divides(H, a, s)
    <2>1. PICK new : new = a + HDR + s
      OBVIOUS
    <2>2. M = Marked(hdr_split(H, a, s), a, s)
      BY <1>3 DEF Taken
    <2>3. /\ Circle(M)
          /\ new \in Nat \ DOMAIN H /\ DOMAIN M = DOMAIN H \cup {new}
          /\ M[a] = [next |-> new, size |-> s, asize |-> s]
          /\ M[new] = [next |-> H[a].next, size |-> H[a].size - s - HDR, asize |-> 0]
          /\ \A d \in DOMAIN H \ {a} : M[d] = H[d]
      <3>1. PartTaken(H, a, s, Marked(hdr_split(H, a, s), a, s))
        BY <1>3, TakePart
      <3>2. PartTaken(H, a, s, M)
        BY <2>2, <3>1
      <3> QED
        BY <2>1, <3>2 DEF PartTaken
    <2>4. Headers(M) /\ Circular(M)
      BY <2>3 DEF Circle
    <2>5. EndOf(M, a) = new /\ EndOf(M, new) = EndOf(H, a) /\ a < new
      BY <1>1, <1>3, <2>1, <2>3 DEF EndOf, Divides
    <2>6. ASSUME NEW c \in Pairs(M, Nowhere), c # new PROVE c \in Pairs(H, Nowhere) \ {a}
      <3>1. c \in DOMAIN M /\ EndOf(M, c) \in DOMAIN M /\ M[c].asize = 0 /\ M[EndOf(M, c)].asize = 0
        BY DEF Pairs
      <3>2. c \in DOMAIN H \ {a} /\ M[c] = H[c]
        BY <2>3, <2>6, <3>1
      <3>3. EndOf(M, c) = EndOf(H, c)
        BY <3>2 DEF EndOf
      <3>4. EndOf(M, c) # new
        BY <2>3, <2>4, <2>5, <3>1, <3>2, EndNext
      <3>5. EndOf(M, c) # a
        BY <2>3, <3>1
      <3>6. EndOf(H, c) \in DOMAIN H \ {a}
        BY <2>3, <3>1, <3>3, <3>4, <3>5
      <3>7. H[EndOf(H, c)].asize = 0 /\ EndOf(H, c) # Nowhere
        BY <1>1, <2>3, <3>1, <3>3, <3>6 DEF Nowhere
      <3> QED
        BY <3>1, <3>2, <3>6, <3>7 DEF Pairs
    <2>7. ASSUME new \in Pairs(M, Nowhere) PROVE a \in Pairs(H, Nowhere)
      <3>1. EndOf(H, a) \in DOMAIN M /\ M[EndOf(H, a)].asize = 0
        BY <2>5, <2>7 DEF Pairs
      <3>2. EndOf(H, a) \in Nat /\ new < EndOf(H, a)
        BY <1>1, <1>3, <2>1 DEF EndOf, Divides
      <3>3. EndOf(H, a) \in DOMAIN H \ {a}
        BY <1>1, <2>3, <2>5, <3>1, <3>2
      <3>4. H[EndOf(H, a)].asize = 0 /\ EndOf(H, a) # Nowhere
        BY <2>3, <3>1, <3>2, <3>3 DEF Nowhere
      <3> QED
        BY <3>3, <3>4 DEF Pairs
    <2>8. Pairs(M, Nowhere) \subseteq (Pairs(H, Nowhere) \ {a}) \cup {new}
      BY <2>6
    <2> QED
      BY <1>2, <2>7, <2>8, Exchange
  <1>4. CASE ~ Divides(H, a, s)
    <2>1. M = Marked(H, a, s)
      BY <1>4 DEF Taken
    <2>2. /\ DOMAIN M = DOMAIN H /\ M[a].asize = s
          /\ \A c \in DOMAIN H \ {a} : M[c] = H[c]
      <3>1. WholeTaken(H, a, s, Marked(H, a, s))
        BY <1>4, TakeWhole
      <3>2. WholeTaken(H, a, s, M)
        BY <2>1, <3>1
      <3> QED
        BY <3>2 DEF WholeTaken
    <2>3. ASSUME NEW c \in Pairs(M, Nowhere) PROVE c \in Pairs(H, Nowhere)
      <3>1. c \in DOMAIN M /\ EndOf(M, c) \in DOMAIN M /\ M[c].asize = 0 /\ M[EndOf(M, c)].asize = 0
            /\ EndOf(M, c) # Nowhere
        BY DEF Pairs
      <3>2. c \in DOMAIN H \ {a} /\ M[c] = H[c] /\ EndOf(M, c) \in DOMAIN H \ {a}
        BY <2>2, <3>1
      <3>3. EndOf(M, c) = EndOf(H, c)
        BY <3>2 DEF EndOf
      <3> QED
        BY <2>2, <3>1, <3>2, <3>3 DEF Pairs
    <2> QED
      BY <1>2, <2>3, FS_Subset
  <1> QED
    BY <1>3, <1>4

(* When two free blocks are joined, a pair is one of before, or that of    *)
(* the joined block, which was that of the right one.                      *)
PairsJoined(H, l, r, M, y) ==
  \A c \in Pairs(M, y) :
    \/ c = l /\ EndOf(H, r) \in DOMAIN H \ {l, r} /\ H[EndOf(H, r)].asize = 0
    \/ c \in Pairs(H, y) \ {l, r} /\ EndOf(H, c) # r

LEMMA PairsMerge ==
  ASSUME NEW H, Circle(H), NEW l \in DOMAIN H, NEW r \in DOMAIN H, H[l].next = r, l # r,
         H[l].asize = 0, NEW y
  PROVE  PairsJoined(H, l, r, hdr_merge(H, l, r), y)
  <1>0. PICK M : M = hdr_merge(H, l, r)
    OBVIOUS
  <1> USE <1>0
  <1>1. /\ Headers(H) /\ Circular(H) /\ DOMAIN H \subseteq Nat /\ HDR \in Nat \ {0}
        /\ \A c \in DOMAIN H : H[c].size \in Nat
    BY DEF Circle, Headers
  <1>2. /\ DOMAIN M = DOMAIN H \ {r}
        /\ M[l] = [next |-> H[r].next, size |-> H[l].size + HDR + H[r].size, asize |-> 0]
        /\ \A c \in DOMAIN H \ {l, r} : M[c] = H[c]
        /\ \/ Adjacent(H, l) /\ l < r /\ EndOf(M, l) = EndOf(H, r)
           \/ Wraps(H, l) /\ r < l
    <2>1. Merged(H, l, r, hdr_merge(H, l, r))
      BY Merge
    <2>2. Merged(H, l, r, M)
      BY <2>1
    <2> QED
      BY <2>2 DEF Merged
  <1> SUFFICES ASSUME NEW c \in Pairs(M, y)
               PROVE  \/ c = l /\ EndOf(H, r) \in DOMAIN H \ {l, r} /\ H[EndOf(H, r)].asize = 0
                      \/ c \in Pairs(H, y) \ {l, r} /\ EndOf(H, c) # r
    BY DEF PairsJoined
  <1>3. /\ c \in DOMAIN H \ {r} /\ EndOf(M, c) \in DOMAIN H \ {r} /\ M[c].asize = 0
        /\ M[EndOf(M, c)].asize = 0 /\ EndOf(M, c) # y
    BY <1>2 DEF Pairs
  <1>4. CASE c = l
    <2>1. EndOf(M, l) > l
      BY <1>1, <1>2 DEF EndOf
    <2>2. EndOf(M, l) = EndOf(H, r)
      BY <1>1, <1>2, <1>3, <1>4, <2>1 DEF Wraps
    <2>3. EndOf(H, r) # l
      BY <1>1, <2>1, <2>2
    <2> QED
      BY <1>2, <1>3, <1>4, <2>2, <2>3
  <1>5. CASE c # l
    <2>1. M[c] = H[c] /\ EndOf(M, c) = EndOf(H, c)
      BY <1>2, <1>3, <1>5 DEF EndOf
    <2>2. H[EndOf(H, c)].asize = 0
      BY <1>2, <1>3, <2>1
    <2> QED
      BY <1>3, <1>5, <2>1, <2>2 DEF Pairs
  <1> QED
    BY <1>4, <1>5

LEMMA UnjoinedPairs ==
  ASSUME Headers(hdr), Headers(hdr')
  PROVE  Unjoined = Pairs(hdr, GivenBackNow) /\ Unjoined' = Pairs(hdr', GivenBackNow')
  <1>1. /\ \A a \in DOMAIN hdr : EndOf(hdr, a) = End(a)
        /\ \A a \in DOMAIN hdr' : EndOf(hdr', a) = End(a)'
    BY DEF EndOf, End
  <1>2. DOMAIN hdr \subseteq Nat /\ DOMAIN hdr' \subseteq Nat
    BY DEF Headers
  <1>3. Unjoined = Pairs(hdr, GivenBackNow)
    BY <1>1, <1>2 DEF Unjoined, Pairs, GivenBackNow, Nowhere
  <1>4. Unjoined' = Pairs(hdr', GivenBackNow')
    BY <1>1, <1>2 DEF Unjoined, Pairs, GivenBackNow, Nowhere
  <1> QED
    BY <1>3, <1>4

(* The steps that change no header.                                        *)
LEMMA QuietJoins ==
  ASSUME Headers(hdr), hdr' = hdr, GivenBackNow' = GivenBackNow
  PROVE  Cardinality(Unjoined') <= Cardinality(Unjoined)
  <1>1. Unjoined' = Unjoined
    BY UnjoinedPairs
  <1>2. IsFiniteSet(Unjoined)
    BY UnjoinedPairs, PairsFinite
  <1> QED
    BY <1>1, <1>2, FS_CardinalityType

LEMMA MmallocArenaJoins ==
  ASSUME IInv, MmallocArena, Headers(hdr), Headers(hdr')
  PROVE  Cardinality(Unjoined') <= Cardinality(Unjoined)
  <1>1. pc = "mmalloc" /\ first_arena = NULL
    BY DEF MmallocArena, In
  <1>2. CASE Return /\ UNCHANGED << heap >>
    BY <1>1, <1>2, QuietJoins DEF Return, heap, GivenBackNow
  <1>3. CASE \E base \in Bases : NewArena(base, ArenaFor(call.size))
    <2>1. DOMAIN hdr = {}
      BY <1>1 DEF IInv, OneArena, Arenas, One, Start
    <2>2. PICK new : DOMAIN hdr' = {new}
      <3>1. PICK base \in Bases : \E v : hdr' = With(hdr, base + ARENA, v)
        BY <1>1, <1>3 DEF NewArena
      <3> QED
        BY <2>1, <3>1 DEF With
    <2>3. EndOf(hdr', new) \notin DOMAIN hdr'
      BY <2>2 DEF EndOf, Headers
    <2>4. Unjoined' = {}
      BY <2>2, <2>3, UnjoinedPairs DEF Pairs
    <2>5. IsFiniteSet(Unjoined)
      BY UnjoinedPairs, PairsFinite
    <2> QED
      BY <2>4, <2>5, FS_EmptySet, FS_CardinalityType
  <1> QED
    BY <1>2, <1>3 DEF MmallocArena

LEMMA PlaceJoins ==
  ASSUME IInv, OneArena, Place, Headers(hdr), Headers(hdr')
  PROVE  Cardinality(Unjoined') <= Cardinality(Unjoined)
  <1>1. /\ pc = "place" /\ hdr[h].asize = 0 /\ call.size > 0
        /\ hdr' = Taken(hdr, h, call.size) /\ pc' \in {"mfree", "idle"}
    BY DEF Place, In, Taken, Divides, hdr_should_split, Marked, Return
  <1>2. Circle(hdr) /\ h \in DOMAIN hdr /\ Fits(h, call.size)
    BY <1>1 DEF IInv, One, Walks, Heap
  <1>3. hdr[h].size \in Nat /\ call.size \in Nat
    BY <1>2 DEF Headers, IInv, Arenas
  <1>4. PICK s \in Nat : s = call.size
    BY <1>3
  <1>5. s \in 1 .. hdr[h].size
    BY <1>1, <1>2, <1>3, <1>4 DEF Fits
  <1>6. Unjoined = Pairs(hdr, Nowhere) /\ Unjoined' = Pairs(hdr', Nowhere)
    BY <1>1, UnjoinedPairs DEF GivenBackNow
  <1>7. Cardinality(Pairs(Taken(hdr, h, s), Nowhere)) <= Cardinality(Pairs(hdr, Nowhere))
    BY <1>1, <1>2, <1>5, PairsTake
  <1> QED
    BY <1>1, <1>4, <1>6, <1>7

(* The pair of the block given back and the one before it is not counted:  *)
(* hdr_get_prev has still to find it.                                      *)
LEMMA MfreeJoins ==
  ASSUME IInv, OneArena, Mfree, Headers(hdr), Headers(hdr')
  PROVE  Cardinality(Unjoined') <= Cardinality(Unjoined)
  <1>1. PICK H, right :
          /\ pc = "mfree" /\ call.ptr # NULL /\ hdr[Block].next # Block
          /\ H = Marked(hdr, Block, 0) /\ right = H[Block].next
          /\ hdr' = IF H[Block].asize = 0 /\ H[right].asize = 0 THEN hdr_merge(H, Block, right) ELSE H
          /\ pc' = "hdr_get_prev" /\ h' = Block
    BY DEF Mfree, In, Marked, hdr_can_merge
  <1>2. PICK b : b = Block
    OBVIOUS
  <1>3. Heap(hdr) /\ Circular(hdr) /\ b \in DOMAIN hdr /\ hdr[b].asize # 0
    BY <1>1, <1>2, BlockOf DEF IInv, One, Heap, Circle
  <1>4. Unjoined = Pairs(hdr, Nowhere) /\ Unjoined' = Pairs(hdr', b)
    BY <1>1, <1>2, UnjoinedPairs DEF GivenBackNow
  <1>5. GivenBack(hdr, b, H)
    BY <1>1, <1>2, <1>3, GiveBack
  <1>6. /\ Heap(H) /\ DOMAIN H = DOMAIN hdr /\ right = hdr[b].next /\ H[b].asize = 0
        /\ \A c \in DOMAIN hdr \ {b} : H[c] = hdr[c]
        /\ \A c \in DOMAIN hdr : EndOf(H, c) = EndOf(hdr, c)
    BY <1>1, <1>2, <1>5 DEF GivenBack
  <1>7. right \in DOMAIN H /\ H[b].next = right /\ b # right /\ Circle(H) /\ Headers(H) /\ Circular(H)
    BY <1>1, <1>2, <1>3, <1>6 DEF Circular, Heap, Circle
  <1>8. \A c \in DOMAIN H : EndOf(H, c) # Nowhere
    BY <1>7 DEF Headers, EndOf, Nowhere
  <1>9. ASSUME NEW c \in Pairs(H, b) \ {b} PROVE c \in Pairs(hdr, Nowhere)
    <2>1. c \in DOMAIN H /\ EndOf(H, c) \in DOMAIN H \ {b} /\ H[c].asize = 0 /\ H[EndOf(H, c)].asize = 0
      BY DEF Pairs
    <2> QED
      BY <1>6, <1>8, <1>9, <2>1 DEF Pairs
  <1>10. IsFiniteSet(Pairs(hdr, Nowhere))
    BY PairsFinite
  <1>11. CASE H[right].asize = 0
    <2>1. hdr' = hdr_merge(H, b, right)
      BY <1>1, <1>2, <1>6, <1>11
    <2>2. PairsJoined(H, b, right, hdr_merge(H, b, right), b)
      BY <1>3, <1>6, <1>7, PairsMerge
    <2>3. \A c \in Pairs(hdr', b) :
            \/ c = b /\ EndOf(H, right) \in DOMAIN H \ {b, right} /\ H[EndOf(H, right)].asize = 0
            \/ c \in Pairs(H, b) \ {b, right}
      BY <2>1, <2>2 DEF PairsJoined
    <2>4. ASSUME b \in Pairs(hdr', b) PROVE right \in Pairs(hdr, Nowhere)
      <3>1. EndOf(H, right) \in DOMAIN H \ {b, right} /\ H[EndOf(H, right)].asize = 0
        BY <2>3, <2>4
      <3>2. right \in Pairs(H, b)
        BY <1>7, <1>11, <3>1 DEF Pairs
      <3> QED
        BY <1>7, <1>9, <3>2
    <2>5. Pairs(hdr', b) \subseteq (Pairs(hdr, Nowhere) \ {right}) \cup {b}
      BY <1>9, <2>3
    <2> QED
      BY <1>4, <1>10, <2>4, <2>5, Exchange
  <1>12. CASE H[right].asize # 0
    <2>1. hdr' = H
      BY <1>1, <1>12
    <2>2. b \notin Pairs(H, b)
      <3>1. EndOf(H, b) \in DOMAIN H => EndOf(H, b) = right
        BY <1>3, <1>6, <1>7, EndNext
      <3> QED
        BY <1>12, <3>1 DEF Pairs
    <2>3. Pairs(hdr', b) \subseteq Pairs(hdr, Nowhere)
      BY <1>9, <2>1, <2>2
    <2> QED
      BY <1>4, <1>10, <2>3, FS_Subset
  <1> QED
    BY <1>11, <1>12

(* hdr_get_prev has found the block before it: if it is free the two are   *)
(* joined, and otherwise there was no pair.                                *)
LEMMA PrevFoundJoins ==
  ASSUME IInv, OneArena, PrevFound, Headers(hdr), Headers(hdr')
  PROVE  Cardinality(Unjoined') <= Cardinality(Unjoined)
  <1>1. /\ pc = "hdr_get_prev" /\ pc' = "idle"
        /\ hdr[at].next = h \/ (at = h /\ second)
        /\ hdr' = IF at < h /\ hdr[at].asize = 0 /\ hdr[h].asize = 0 THEN hdr_merge(hdr, at, h) ELSE hdr
    BY DEF PrevFound, MergeBack, In, Return, hdr_can_merge
  <1>2. /\ Circle(hdr) /\ Circular(hdr) /\ DOMAIN hdr \subseteq Nat
        /\ h \in DOMAIN hdr /\ at \in DOMAIN hdr /\ hdr[h].asize = 0 /\ hdr[at].next = h
    BY <1>1 DEF IInv, One, Walks, Heap, Circle, Headers
  <1>3. Unjoined = Pairs(hdr, h) /\ Unjoined' = Pairs(hdr', Nowhere)
    BY <1>1, UnjoinedPairs DEF GivenBackNow
  <1>4. IsFiniteSet(Pairs(hdr, h))
    BY PairsFinite
  <1>5. ASSUME NEW c \in Pairs(hdr, Nowhere), EndOf(hdr, c) # h PROVE c \in Pairs(hdr, h)
    BY <1>5 DEF Pairs
  <1>6. CASE at < h /\ hdr[at].asize = 0
    <2>1. hdr' = hdr_merge(hdr, at, h) /\ at # h
      BY <1>1, <1>2, <1>6
    <2>2. PairsJoined(hdr, at, h, hdr_merge(hdr, at, h), Nowhere)
      BY <1>2, <1>6, <2>1, PairsMerge
    <2>3. \A c \in Pairs(hdr', Nowhere) :
            \/ c = at /\ EndOf(hdr, h) \in DOMAIN hdr \ {at, h} /\ hdr[EndOf(hdr, h)].asize = 0
            \/ c \in Pairs(hdr, Nowhere) \ {at, h} /\ EndOf(hdr, c) # h
      BY <2>1, <2>2 DEF PairsJoined
    <2>4. at \in Pairs(hdr', Nowhere) => h \in Pairs(hdr, h)
      BY <1>2, <2>3 DEF Pairs
    <2>5. Pairs(hdr', Nowhere) \subseteq (Pairs(hdr, h) \ {h}) \cup {at}
      BY <1>5, <2>3
    <2> QED
      BY <1>3, <1>4, <2>4, <2>5, Exchange
  <1>7. CASE ~ (at < h /\ hdr[at].asize = 0)
    <2>1. hdr' = hdr
      BY <1>1, <1>7
    <2>2. ASSUME NEW c \in Pairs(hdr, Nowhere), EndOf(hdr, c) = h PROVE FALSE
      <3>1. c \in DOMAIN hdr /\ hdr[c].asize = 0
        BY DEF Pairs
      <3>2. hdr[c].next = h /\ c < h /\ c # h
        BY <1>2, <2>2, <3>1, EndNext
      <3>3. Merged(hdr, c, h, hdr_merge(hdr, c, h))
        BY <1>2, <3>1, <3>2, Merge
      <3>4. at = c
        BY <1>2, <3>3 DEF Merged
      <3> QED
        BY <1>7, <3>1, <3>2, <3>4
    <2>3. Pairs(hdr', Nowhere) \subseteq Pairs(hdr, h)
      BY <1>5, <2>1, <2>2
    <2> QED
      BY <1>3, <1>4, <2>3, FS_Subset
  <1> QED
    BY <1>6, <1>7

LEMMA NextJoins ==
  ASSUME IInv, IInv', OneArena, OneArena', pc # "mrealloc", [Next]_vars
  PROVE  Cardinality(Unjoined') <= Cardinality(Unjoined)
  <1>1. Headers(hdr) /\ Headers(hdr')
    BY DEF IInv, One, Heap, Circle
  <1>2. CASE CallMmalloc \/ CallMfree \/ CallMrealloc
    BY <1>1, <1>2, QuietJoins DEF CallMmalloc, CallMfree, CallMrealloc, Begin, heap, GivenBackNow
  <1>3. CASE MmallocFit \/ FitFound \/ FitNext \/ ArenaAssert \/ FitWild \/ PlaceAssert \/ MfreeAssert \/ PrevNext
    BY <1>1, <1>3, QuietJoins DEF MmallocFit, FitFound, FitNext, ArenaAssert, FitWild, PlaceAssert, MfreeAssert,
       PrevNext, Ends, In, heap, walk, GivenBackNow
  <1>4. CASE FitGrow
    <2>1. pc = "first_fit"
      BY <1>4 DEF FitGrow, In
    <2>2. UNCHANGED hdr /\ pc' \in {"first_fit", "idle"}
      <3>1. CASE \E base \in Bases : NewArena(base, ArenaFor(call.size))
        BY <2>1, <3>1, SecondArena
      <3> QED
        BY <1>4, <2>1, <3>1 DEF FitGrow, heap, Return
    <2> QED
      BY <1>1, <2>1, <2>2, QuietJoins DEF GivenBackNow
  <1>5. CASE UNCHANGED vars
    BY <1>1, <1>5, QuietJoins DEF vars, heap, walk, GivenBackNow
  <1> QED
    BY <1>1, <1>2, <1>3, <1>4, <1>5, MmallocArenaJoins, PlaceJoins, MfreeJoins, PrevFoundJoins
    DEF Next, Step, Over, MreallocZero, MreallocGrow, MreallocShrink, In

(* No step but those of mrealloc makes more free blocks lie side by side,  *)
(* as long as there is one arena.                                          *)
THEOREM FreeJoinsOneArena ==
  Spec => [][Cardinality(DOMAIN arenas) <= 1 /\ Cardinality(DOMAIN arenas') <= 1 /\ pc # "mrealloc"
             => Cardinality(Unjoined') <= Cardinality(Unjoined)]_vars
  <1>1. IInv /\ [Next]_vars =>
          [Cardinality(DOMAIN arenas) <= 1 /\ Cardinality(DOMAIN arenas') <= 1 /\ pc # "mrealloc"
             => Cardinality(Unjoined') <= Cardinality(Unjoined)]_vars
    <2> SUFFICES ASSUME IInv, [Next]_vars, pc # "mrealloc",
                        Cardinality(DOMAIN arenas) <= 1, Cardinality(DOMAIN arenas') <= 1
                 PROVE  Cardinality(Unjoined') <= Cardinality(Unjoined)
      OBVIOUS
    <2>1. IInv' /\ OneArena
      BY NextIInv, AtMostOne DEF IInv
    <2>2. OneArena'
      <3>1. Arenas'
        BY <2>1 DEF IInv
      <3> QED
        BY <3>1, AtMostOneLater
    <2> QED
      BY <2>1, <2>2, NextJoins
  <1> QED
    BY <1>1, InitIInv, NextIInv, PTL DEF Spec

(* When all that may ever be asked for has room in a page, memory that is  *)
(* given back is always joined with the free memory on both sides.         *)
THEOREM FreeJoinsHolds ==
  ASSUME NEW K \in Nat, \A s \in Sizes : s <= K,
         PAGE > ARENA + 2 * HDR + MaxCalls * (K + HDR)
  PROVE  Spec => FreeJoins
  <1>1. Enough(K)
    BY DEF Enough
  <1>2. Init => RInv(K)
    BY InitIInv DEF Init, RInv, Room, Before, NoCall
  <1>3. RInv(K) /\ [Next]_vars => RInv(K)'
    BY <1>1, NextRInv
  <1>4. RInv(K) /\ [Next]_vars =>
          [pc # "mrealloc" => Cardinality(Unjoined') <= Cardinality(Unjoined)]_vars
    <2> SUFFICES ASSUME RInv(K), [Next]_vars, pc # "mrealloc"
                 PROVE  Cardinality(Unjoined') <= Cardinality(Unjoined)
      OBVIOUS
    <2>1. RInv(K)'
      BY <1>3
    <2>2. IInv /\ OneArena
      BY DEF RInv, Room, IInv, Arenas, OneArena
    <2>3. IInv' /\ OneArena'
      BY <2>1 DEF RInv, Room, IInv, Arenas, OneArena
    <2> QED
      BY <2>2, <2>3, NextJoins
  <1> QED
    BY <1>2, <1>3, <1>4, PTL DEF Spec, FreeJoins

-----------------------------------------------------------------------------
(* Any number of arenas.                                                   *)

(* The arenas lie apart, and their list leads from the first to the last.  *)
Listed(A, f) ==
  /\ \A b, c \in DOMAIN A : b # c => b + A[b].size <= c \/ c + A[c].size <= b
  /\ \A b \in DOMAIN A : A[b].next \in DOMAIN A \cup {NULL} /\ A[b].next # f
  /\ \A b, c \in DOMAIN A : A[b].next = A[c].next => b = c
  /\ f # NULL => \E b \in DOMAIN A : A[b].next = NULL

(* Whatever became of the blocks, there are three fields to a header.      *)
Shaped(H) ==
  /\ DOMAIN H \subseteq Int
  /\ H = [a \in DOMAIN H |-> [next |-> H[a].next, size |-> H[a].size, asize |-> H[a].asize]]

Shapes ==
  /\ Shaped(hdr)
  /\ DOMAIN live \subseteq Int
  /\ pc = "mrealloc" => call.ptr \in DOMAIN live \cup {NULL}
  /\ pc = "place" => h \in DOMAIN hdr /\ Fits(h, call.size)

SInv == IInv /\ Listed(arenas, first_arena) /\ Shapes

LEMMA ShapedHeader ==
  ASSUME NEW H, DOMAIN H \subseteq Int, H = [a \in DOMAIN H |-> H[a]],
         \A a \in DOMAIN H : \E n, s, l : H[a] = [next |-> n, size |-> s, asize |-> l]
  PROVE  Shaped(H)
  <1>1. \A a \in DOMAIN H : H[a] = [next |-> H[a].next, size |-> H[a].size, asize |-> H[a].asize]
    <2> TAKE a \in DOMAIN H
    <2>1. PICK n, s, l : H[a] = [next |-> n, size |-> s, asize |-> l]
      OBVIOUS
    <2> QED
      BY <2>1
  <1>2. PICK F : F = [a \in DOMAIN H |-> [next |-> H[a].next, size |-> H[a].size, asize |-> H[a].asize]]
    OBVIOUS
  <1>3. DOMAIN F = DOMAIN H /\ F = [a \in DOMAIN F |-> F[a]] /\ \A a \in DOMAIN H : F[a] = H[a]
    BY <1>1, <1>2
  <1>4. H = F
    BY <1>3
  <1> QED
    BY <1>2, <1>4 DEF Shaped

(* A map of headers in which the one at a is replaced, if there is one.    *)
Replaced(H, M, a, n, s, l) ==
  /\ Shaped(M) /\ DOMAIN M = DOMAIN H
  /\ a \in DOMAIN H => M[a] = [next |-> n, size |-> s, asize |-> l]
  /\ \A c \in DOMAIN H \ {a} : M[c] = H[c]

LEMMA Replace ==
  ASSUME NEW H, Shaped(H), NEW a, NEW M, NEW n, NEW s, NEW l,
         DOMAIN M = DOMAIN H, M = [c \in DOMAIN M |-> M[c]],
         \A c \in DOMAIN H \ {a} : M[c] = H[c],
         a \in DOMAIN H => M[a] = [next |-> n, size |-> s, asize |-> l]
  PROVE  Replaced(H, M, a, n, s, l)
  <1>1. ASSUME NEW c \in DOMAIN M PROVE \E m, z, k : M[c] = [next |-> m, size |-> z, asize |-> k]
    <2>1. CASE c = a
      BY <1>1, <2>1
    <2>2. CASE c # a
      <3>1. M[c] = H[c] /\ H[c] = [next |-> H[c].next, size |-> H[c].size, asize |-> H[c].asize]
        BY <1>1, <2>2 DEF Shaped
      <3> QED
        BY <3>1
    <2> QED
      BY <2>1, <2>2
  <1>2. Shaped(M)
    BY <1>1, ShapedHeader DEF Shaped
  <1> QED
    BY <1>2 DEF Replaced

LEMMA ShapedMark ==
  ASSUME NEW H, Shaped(H), NEW a, NEW s
  PROVE  Replaced(H, Marked(H, a, s), a, H[a].next, H[a].size, s)
  <1>1. PICK M : M = Marked(H, a, s)
    OBVIOUS
  <1>2. DOMAIN M = DOMAIN H /\ M = [c \in DOMAIN M |-> M[c]]
        /\ \A c \in DOMAIN H \ {a} : M[c] = H[c]
    BY <1>1 DEF Marked
  <1>3. ASSUME a \in DOMAIN H PROVE M[a] = [next |-> H[a].next, size |-> H[a].size, asize |-> s]
    <2>1. H[a] = [next |-> H[a].next, size |-> H[a].size, asize |-> H[a].asize]
      BY <1>3 DEF Shaped
    <2>2. M[a] = [H[a] EXCEPT !.asize = s]
      BY <1>1, <1>3 DEF Marked
    <2> QED
      BY <2>1, <2>2
  <1>4. Replaced(H, M, a, H[a].next, H[a].size, s)
    BY <1>2, <1>3, Replace
  <1> QED
    BY <1>1, <1>4

(* The header at a, and the next and size of another, are new.             *)
Linked(H, a, n, s) == [H EXCEPT ![a] = [@ EXCEPT !.next = n, !.size = s]]

LEMMA ShapedLink ==
  ASSUME NEW H, Shaped(H), NEW a, NEW n, NEW s
  PROVE  Replaced(H, Linked(H, a, n, s), a, n, s, H[a].asize)
  <1>1. PICK M : M = Linked(H, a, n, s)
    OBVIOUS
  <1>2. DOMAIN M = DOMAIN H /\ M = [c \in DOMAIN M |-> M[c]]
        /\ \A c \in DOMAIN H \ {a} : M[c] = H[c]
    BY <1>1 DEF Linked
  <1>3. ASSUME a \in DOMAIN H PROVE M[a] = [next |-> n, size |-> s, asize |-> H[a].asize]
    <2>1. H[a] = [next |-> H[a].next, size |-> H[a].size, asize |-> H[a].asize]
      BY <1>3 DEF Shaped
    <2>2. M[a] = [H[a] EXCEPT !.next = n, !.size = s]
      BY <1>1, <1>3 DEF Linked
    <2> QED
      BY <2>1, <2>2
  <1>4. Replaced(H, M, a, n, s, H[a].asize)
    BY <1>2, <1>3, Replace
  <1> QED
    BY <1>1, <1>4

LEMMA ShapedNext ==
  ASSUME NEW H, Shaped(H), NEW a, NEW n
  PROVE  Replaced(H, [H EXCEPT ![a] = [@ EXCEPT !.next = n]], a, n, H[a].size, H[a].asize)
  <1>1. PICK M : M = [H EXCEPT ![a] = [@ EXCEPT !.next = n]]
    OBVIOUS
  <1>2. DOMAIN M = DOMAIN H /\ M = [c \in DOMAIN M |-> M[c]]
        /\ \A c \in DOMAIN H \ {a} : M[c] = H[c]
    BY <1>1
  <1>3. ASSUME a \in DOMAIN H PROVE M[a] = [next |-> n, size |-> H[a].size, asize |-> H[a].asize]
    <2>1. H[a] = [next |-> H[a].next, size |-> H[a].size, asize |-> H[a].asize]
      BY <1>3 DEF Shaped
    <2>2. M[a] = [H[a] EXCEPT !.next = n]
      BY <1>1, <1>3
    <2> QED
      BY <2>1, <2>2
  <1>4. Replaced(H, M, a, n, H[a].size, H[a].asize)
    BY <1>2, <1>3, Replace
  <1> QED
    BY <1>1, <1>4

Added(H, M, a, n, s, l) ==
  /\ Shaped(M) /\ DOMAIN M = DOMAIN H \cup {a}
  /\ M[a] = [next |-> n, size |-> s, asize |-> l]
  /\ \A c \in DOMAIN H \ {a} : M[c] = H[c]

LEMMA ShapedWith ==
  ASSUME NEW H, Shaped(H), NEW a \in Int, NEW n, NEW s, NEW l
  PROVE  Added(H, With(H, a, [next |-> n, size |-> s, asize |-> l]), a, n, s, l)
  <1>1. PICK M : M = With(H, a, [next |-> n, size |-> s, asize |-> l])
    OBVIOUS
  <1>2. DOMAIN M = DOMAIN H \cup {a} /\ M = [c \in DOMAIN M |-> M[c]]
        /\ M[a] = [next |-> n, size |-> s, asize |-> l]
        /\ \A c \in DOMAIN H \ {a} : M[c] = H[c]
    BY <1>1 DEF With
  <1>3. ASSUME NEW c \in DOMAIN M PROVE \E m, z, k : M[c] = [next |-> m, size |-> z, asize |-> k]
    <2>1. CASE c = a
      BY <1>2, <2>1
    <2>2. CASE c # a
      <3>1. M[c] = H[c] /\ H[c] = [next |-> H[c].next, size |-> H[c].size, asize |-> H[c].asize]
        BY <1>2, <1>3, <2>2 DEF Shaped
      <3> QED
        BY <3>1
    <2> QED
      BY <2>1, <2>2
  <1>4. Shaped(M)
    BY <1>2, <1>3, ShapedHeader DEF Shaped
  <1> QED
    BY <1>1, <1>2, <1>4 DEF Added

LEMMA ShapedWithout ==
  ASSUME NEW H, Shaped(H), NEW a
  PROVE  Shaped(Without(H, a))
  <1>1. PICK M : M = Without(H, a)
    OBVIOUS
  <1>2. DOMAIN M = DOMAIN H \ {a} /\ M = [c \in DOMAIN M |-> M[c]] /\ \A c \in DOMAIN M : M[c] = H[c]
    BY <1>1 DEF Without
  <1>3. ASSUME NEW c \in DOMAIN M PROVE \E m, z, l : M[c] = [next |-> m, size |-> z, asize |-> l]
    <2>1. M[c] = H[c] /\ H[c] = [next |-> H[c].next, size |-> H[c].size, asize |-> H[c].asize]
      BY <1>2, <1>3 DEF Shaped
    <2> QED
      BY <2>1
  <1> QED
    BY <1>1, <1>2, <1>3, ShapedHeader DEF Shaped

LEMMA ShapedMerge ==
  ASSUME NEW H, Shaped(H), NEW l, NEW r
  PROVE  Shaped(hdr_merge(H, l, r))
  <1>1. PICK n, s, M : n = H[r].next /\ s = H[l].size + HDR + H[r].size /\ M = Linked(H, l, n, s)
    OBVIOUS
  <1>2. hdr_merge(H, l, r) = Without(M, r)
    BY <1>1 DEF hdr_merge, Linked
  <1>3. Shaped(M)
    BY <1>1, ShapedLink DEF Replaced
  <1> QED
    BY <1>2, <1>3, ShapedWithout

(* A block is taken, whole or in part.                                     *)
TakenOf(H, M, a, s, new) ==
  /\ Shaped(M)
  /\ DOMAIN M = DOMAIN H \cup IF Divides(H, a, s) THEN {new} ELSE {}
  /\ \A c \in DOMAIN H \ {a, new} : M[c] = H[c]
  /\ a \in DOMAIN H /\ ~ Divides(H, a, s) =>
       /\ M[a] = [next |-> H[a].next, size |-> H[a].size, asize |-> s]
       /\ \A c \in DOMAIN H \ {a} : M[c] = H[c]
  /\ a \in DOMAIN H /\ Divides(H, a, s) /\ new # a =>
       /\ M[a] = [next |-> new, size |-> s, asize |-> s]
       /\ M[new] = [next |-> H[a].next, size |-> H[a].size - s - HDR, asize |-> 0]

LEMMA ShapedTake ==
  ASSUME NEW H, Shaped(H), NEW a \in Int, NEW s \in Int
  PROVE  TakenOf(H, Taken(H, a, s), a, s, a + HDR + s)
  <1>1. PICK new, M : new = a + HDR + s /\ M = Taken(H, a, s)
    OBVIOUS
  <1>2. ASSUME ~ Divides(H, a, s) PROVE TakenOf(H, M, a, s, new)
    <2>1. M = Marked(H, a, s)
      BY <1>1, <1>2 DEF Taken
    <2>2. Replaced(H, M, a, H[a].next, H[a].size, s)
      BY <2>1, ShapedMark
    <2> QED
      BY <1>2, <2>2 DEF TakenOf, Replaced
  <1>3. ASSUME Divides(H, a, s) PROVE TakenOf(H, M, a, s, new)
    <2>1. PICK n, z, L : n = H[a].next /\ z = H[a].size - s - HDR /\ L = Linked(H, a, new, s)
      OBVIOUS
    <2>2. Replaced(H, L, a, new, s, H[a].asize)
      BY <2>1, ShapedLink
    <2>3. PICK S : S = With(L, new, [next |-> n, size |-> z, asize |-> 0])
      OBVIOUS
    <2>4. Added(L, S, new, n, z, 0)
      <3>1. new \in Int /\ Shaped(L)
        BY <1>1, <2>2 DEF Replaced
      <3> QED
        BY <2>3, <3>1, ShapedWith
    <2>5. S = hdr_split(H, a, s)
      BY <1>1, <2>1, <2>3 DEF hdr_split, Linked
    <2>6. M = Marked(S, a, s)
      BY <1>1, <1>3, <2>5 DEF Taken
    <2>7. Replaced(S, M, a, S[a].next, S[a].size, s)
      BY <2>4, <2>6, ShapedMark DEF Added
    <2>8. ASSUME NEW c \in DOMAIN H \ {a, new} PROVE M[c] = H[c]
      BY <2>2, <2>4, <2>7 DEF Replaced, Added
    <2>9. ASSUME a \in DOMAIN H, new # a
          PROVE  /\ M[a] = [next |-> new, size |-> s, asize |-> s]
                 /\ M[new] = [next |-> n, size |-> z, asize |-> 0]
      <3>1. S[a] = [next |-> new, size |-> s, asize |-> H[a].asize]
        BY <2>2, <2>4, <2>9 DEF Replaced, Added
      <3>2. M[a] = [next |-> new, size |-> s, asize |-> s]
        BY <2>2, <2>4, <2>7, <2>9, <3>1 DEF Replaced, Added
      <3> QED
        BY <2>4, <2>7, <2>9, <3>2 DEF Replaced, Added
    <2>10. Shaped(M) /\ DOMAIN M = DOMAIN H \cup {new}
      BY <2>2, <2>4, <2>7 DEF Replaced, Added
    <2> QED
      BY <1>3, <2>1, <2>8, <2>9, <2>10 DEF TakenOf
  <1> QED
    BY <1>1, <1>2, <1>3
-----------------------------------------------------------------------------
(* What is known of a map of arenas and the first of them.                 *)
ArenaMap(A, f) ==
  /\ A \in [DOMAIN A -> [next : Nat, size : Nat \ {0}]]
  /\ DOMAIN A \subseteq Nat \ {0}
  /\ f = NULL => DOMAIN A = {}
  /\ f # NULL => f \in DOMAIN A

LEMMA ArenasMap ==
  ASSUME Arenas
  PROVE  ArenaMap(arenas, first_arena)
  BY DEF Arenas, ArenaMap

(* B has an arena more than A, at the end of its list.                     *)
Appended(A, f, B, g, base, size) ==
  /\ DOMAIN B = DOMAIN A \cup {base}
  /\ \A b \in DOMAIN A : b + A[b].size <= base \/ base + size <= b
  /\ \A b \in DOMAIN A :
       B[b].size = A[b].size /\ B[b].next = IF A[b].next = NULL THEN base ELSE A[b].next
  /\ B[base].next = NULL /\ B[base].size = size
  /\ g = IF f = NULL THEN base ELSE f

LEMMA NewArenaAppends ==
  ASSUME Arenas, Listed(arenas, first_arena), NEW base \in Bases, NEW size \in Nat \ {0},
         NewArena(base, size)
  PROVE  Appended(arenas, first_arena, arenas', first_arena', base, size)
  <1>1. ArenaMap(arenas, first_arena) /\ base \in Nat \ {0}
    BY ArenasMap
  <1>2. \A b \in DOMAIN arenas : b + arenas[b].size <= base \/ base + size <= b
    <2> TAKE b \in DOMAIN arenas
    <2>1. ~ (base < b + arenas[b].size /\ b < base + size)
      BY DEF NewArena, Overlaps
    <2>2. b \in Nat /\ arenas[b].size \in Nat
      BY <1>1 DEF ArenaMap
    <2> QED
      BY <1>1, <2>1, <2>2
  <1>3. first_arena' = IF first_arena = NULL THEN base ELSE first_arena
    BY DEF NewArena
  <1>4. PICK before : before = IF first_arena = NULL THEN arenas
                               ELSE [arenas EXCEPT ![LastArena] = [@ EXCEPT !.next = base]]
    OBVIOUS
  <1>5. arenas' = With(before, base, [next |-> NULL, size |-> size])
    BY <1>4 DEF NewArena
  <1>6. base \notin DOMAIN arenas
    <2> SUFFICES ASSUME base \in DOMAIN arenas PROVE FALSE
      OBVIOUS
    <2>1. arenas[base].size \in Nat \ {0}
      BY <1>1 DEF ArenaMap
    <2> QED
      BY <1>1, <1>2, <2>1
  <1>7. /\ DOMAIN before = DOMAIN arenas
        /\ \A b \in DOMAIN arenas :
             /\ before[b].size = arenas[b].size
             /\ before[b].next = IF arenas[b].next = NULL THEN base ELSE arenas[b].next
    <2>1. CASE first_arena = NULL
      BY <1>1, <1>4, <2>1 DEF ArenaMap
    <2>2. CASE first_arena # NULL
      <3>1. PICK l \in DOMAIN arenas : arenas[l].next = NULL
        BY <2>2 DEF Listed
      <3>2. LastArena = l
        BY <3>1 DEF LastArena, Listed
      <3>3. before = [arenas EXCEPT ![l] = [arenas[l] EXCEPT !.next = base]]
        BY <1>4, <2>2, <3>1, <3>2
      <3>4. arenas[l] \in [next : Nat, size : Nat \ {0}]
        BY <1>1, <3>1 DEF ArenaMap
      <3>5. before[l].size = arenas[l].size /\ before[l].next = base
        BY <3>1, <3>3, <3>4
      <3>6. \A b \in DOMAIN arenas : b # l => before[b] = arenas[b] /\ arenas[b].next # NULL
        BY <3>1, <3>3 DEF Listed
      <3> QED
        BY <3>1, <3>3, <3>5, <3>6
    <2> QED
      BY <2>1, <2>2
  <1>8. DOMAIN arenas' = DOMAIN arenas \cup {base}
    BY <1>5, <1>7 DEF With
  <1>9. \A b \in DOMAIN arenas : arenas'[b] = before[b]
    BY <1>5, <1>6, <1>7 DEF With
  <1>10. arenas'[base] = [next |-> NULL, size |-> size]
    BY <1>5 DEF With
  <1> QED
    BY <1>2, <1>3, <1>7, <1>8, <1>9, <1>10 DEF Appended

LEMMA AppendedListed ==
  ASSUME NEW A, NEW f, ArenaMap(A, f), Listed(A, f), NEW base \in Nat \ {0}, NEW size \in Nat \ {0},
         NEW B, NEW g, Appended(A, f, B, g, base, size)
  PROVE  Listed(B, g) /\ base \notin DOMAIN A
  <1>1. /\ DOMAIN B = DOMAIN A \cup {base}
        /\ \A b \in DOMAIN A : b + A[b].size <= base \/ base + size <= b
        /\ \A b \in DOMAIN A : B[b].size = A[b].size
                             /\ B[b].next = IF A[b].next = NULL THEN base ELSE A[b].next
        /\ B[base].next = NULL /\ B[base].size = size
        /\ g = IF f = NULL THEN base ELSE f
    BY DEF Appended
  <1>2. \A b \in DOMAIN A : b \in Nat \ {0} /\ A[b].size \in Nat \ {0}
    BY DEF ArenaMap
  <1>3. base \notin DOMAIN A
    BY <1>1, <1>2
  <1>4. ASSUME NEW b \in DOMAIN B, NEW c \in DOMAIN B, b # c
        PROVE  b + B[b].size <= c \/ c + B[c].size <= b
    BY <1>1, <1>2, <1>4 DEF Listed
  <1>5. ASSUME NEW b \in DOMAIN B PROVE B[b].next \in DOMAIN B \cup {NULL} /\ B[b].next # g
    <2>1. CASE b = base
      BY <1>1, <2>1 DEF ArenaMap, NULL
    <2>2. CASE b # base
      <3>1. b \in DOMAIN A /\ f # NULL /\ f \in DOMAIN A
        BY <1>1, <2>2 DEF ArenaMap
      <3> QED
        BY <1>1, <1>3, <3>1 DEF Listed
    <2> QED
      BY <2>1, <2>2
  <1>6. ASSUME NEW b \in DOMAIN B, NEW c \in DOMAIN B, B[b].next = B[c].next PROVE b = c
    BY <1>1, <1>3, <1>6 DEF Listed, NULL
  <1>7. \E b \in DOMAIN B : B[b].next = NULL
    BY <1>1
  <1> QED
    BY <1>3, <1>4, <1>5, <1>6, <1>7 DEF Listed

-----------------------------------------------------------------------------
(* What Sound says of the arenas, the headers and the client.              *)
Tiles(A, f, H) ==
  /\ \A a \in DOMAIN H : H[a].size \in Nat \ {0} /\ H[a].asize \in 0 .. H[a].size
  /\ \A b \in DOMAIN A : b + ARENA \in DOMAIN H
  /\ \A a, c \in DOMAIN H : c <= a \/ EndOf(H, a) <= c
  /\ \A a \in DOMAIN H : \E b \in DOMAIN A :
       /\ b + ARENA <= a
       /\ \/ EndOf(H, a) \in DOMAIN H /\ EndOf(H, a) < b + A[b].size /\ H[a].next = EndOf(H, a)
          \/ /\ EndOf(H, a) = b + A[b].size
             /\ H[a].next = IF A[b].next = NULL THEN f + ARENA ELSE A[b].next + ARENA

Held(H, L) ==
  /\ \A ptr \in DOMAIN L : L[ptr] \in Nat /\ ptr - HDR \in DOMAIN H /\ H[ptr - HDR].asize = L[ptr]
  /\ \A a \in DOMAIN H : H[a].asize # 0 => a + HDR \in DOMAIN L

LEMMA SoundNow ==
  ASSUME Sound
  PROVE  Tiles(arenas, first_arena, hdr) /\ Held(hdr, live)
  BY DEF Sound, Tiling, Ownership, TypeOK, Tiles, Held, End, EndOf, FirstHeader

LEMMA SoundLater ==
  ASSUME Arenas', Listed(arenas', first_arena'), Tiles(arenas', first_arena', hdr'), Held(hdr', live')
  PROVE  Sound'
  <1>1. TypeOK'
    BY DEF TypeOK, Arenas, Listed, Tiles, Held
  <1>2. Tiling'
    BY <1>1 DEF Tiling, Tiles, End, EndOf, FirstHeader
  <1> QED
    BY <1>2 DEF Sound, Ownership, Held

-----------------------------------------------------------------------------
(* What is known of a block from the tiling.                               *)
LEMMA InTiles ==
  ASSUME NEW A, NEW f, ArenaMap(A, f), NEW H, Shaped(H), Tiles(A, f, H), NEW a \in DOMAIN H
  PROVE  /\ a \in Int /\ H[a].size \in Nat \ {0} /\ H[a].asize \in 0 .. H[a].size
         /\ EndOf(H, a) \in Int /\ a + HDR < EndOf(H, a)
         /\ \E b \in DOMAIN A : b + ARENA <= a /\ EndOf(H, a) <= b + A[b].size
  <1>1. a \in Int /\ H[a].size \in Nat \ {0} /\ H[a].asize \in 0 .. H[a].size
    BY DEF Shaped, Tiles
  <1>2. EndOf(H, a) \in Int /\ a + HDR < EndOf(H, a)
    BY <1>1 DEF EndOf
  <1>3. PICK b \in DOMAIN A :
       /\ b + ARENA <= a
       /\ \/ EndOf(H, a) \in DOMAIN H /\ EndOf(H, a) < b + A[b].size /\ H[a].next = EndOf(H, a)
          \/ /\ EndOf(H, a) = b + A[b].size
             /\ H[a].next = IF A[b].next = NULL THEN f + ARENA ELSE A[b].next + ARENA
    BY DEF Tiles
  <1>4. b \in Nat /\ A[b].size \in Nat
    BY <1>3 DEF ArenaMap
  <1>5. EndOf(H, a) <= b + A[b].size
    BY <1>2, <1>3, <1>4
  <1> QED
    BY <1>1, <1>2, <1>3, <1>5

(* A block that is taken, whole or in part, is tiled by its parts.         *)
LEMMA TakeTiles ==
  ASSUME NEW A, NEW f, ArenaMap(A, f), NEW H, Shaped(H), Tiles(A, f, H),
         NEW a \in DOMAIN H, NEW s \in Nat, s \in 1 .. H[a].size
  PROVE  /\ Tiles(A, f, Taken(H, a, s))
         /\ DOMAIN H \subseteq DOMAIN Taken(H, a, s)
         /\ Taken(H, a, s)[a].asize = s
         /\ \A c \in DOMAIN H \ {a} : Taken(H, a, s)[c].asize = H[c].asize
         /\ \A c \in DOMAIN Taken(H, a, s) \ DOMAIN H : Taken(H, a, s)[c].asize = 0
  <1>1. PICK M, new : M = Taken(H, a, s) /\ new = a + HDR + s
    OBVIOUS
  <1>2. a \in Int /\ H[a].size \in Nat \ {0} /\ HDR \in Nat \ {0}
    BY InTiles
  <1>3. TakenOf(H, M, a, s, new)
    BY <1>1, <1>2, ShapedTake
  <1>4. CASE ~ Divides(H, a, s)
    <2>1. DOMAIN M = DOMAIN H
      BY <1>3, <1>4 DEF TakenOf
    <2>2. \A c \in DOMAIN H : M[c].next = H[c].next /\ M[c].size = H[c].size
      BY <1>3, <1>4 DEF TakenOf
    <2>3. M[a].asize = s /\ \A c \in DOMAIN H \ {a} : M[c].asize = H[c].asize
      BY <1>3, <1>4 DEF TakenOf
    <2>4. \A c \in DOMAIN H : EndOf(M, c) = EndOf(H, c)
      BY <2>2 DEF EndOf
    <2>5. \A c \in DOMAIN M : M[c].size \in Nat \ {0} /\ M[c].asize \in 0 .. M[c].size
      BY <2>1, <2>2, <2>3 DEF Tiles
    <2>6. Tiles(A, f, M)
      BY <2>1, <2>2, <2>4, <2>5 DEF Tiles
    <2> QED
      BY <1>1, <2>1, <2>3, <2>6
  <1>5. CASE Divides(H, a, s)
    <2>1. new \in Int /\ a < new /\ new < EndOf(H, a) /\ H[a].size - s - HDR \in Nat \ {0}
      BY <1>1, <1>2, <1>5 DEF Divides, EndOf
    <2>2. new \notin DOMAIN H /\ new # a
      <3> SUFFICES ASSUME new \in DOMAIN H PROVE FALSE
        OBVIOUS
      <3>1. new <= a \/ EndOf(H, a) <= new
        BY DEF Tiles
      <3> QED
        BY <1>2, <2>1, <3>1, InTiles
    <2>3. /\ DOMAIN M = DOMAIN H \cup {new}
          /\ M[a] = [next |-> new, size |-> s, asize |-> s]
          /\ M[new] = [next |-> H[a].next, size |-> H[a].size - s - HDR, asize |-> 0]
          /\ \A c \in DOMAIN H \ {a} : M[c] = H[c]
      BY <1>3, <1>5, <2>2 DEF TakenOf
    <2>4. /\ EndOf(M, a) = new /\ EndOf(M, new) = EndOf(H, a)
          /\ \A c \in DOMAIN H \ {a} : EndOf(M, c) = EndOf(H, c)
      BY <1>1, <1>2, <2>1, <2>3 DEF EndOf
    <2>5. \A c \in DOMAIN M : M[c].size \in Nat \ {0} /\ M[c].asize \in 0 .. M[c].size
      BY <2>1, <2>3 DEF Tiles
    <2>6. ASSUME NEW c \in DOMAIN M, NEW d \in DOMAIN M PROVE d <= c \/ EndOf(M, c) <= d
      <3>1. \A x \in DOMAIN H : x \in Int /\ EndOf(H, x) \in Int /\ x < EndOf(H, x)
        BY InTiles, <1>2
      <3>2. \A x, y \in DOMAIN H : y <= x \/ EndOf(H, x) <= y
        BY DEF Tiles
      <3>3. CASE c = a
        BY <2>1, <2>3, <2>4, <3>1, <3>2, <3>3
      <3>4. CASE c = new
        <4>1. CASE d = new
          BY <2>1, <3>4, <4>1
        <4>2. CASE d \in DOMAIN H
          <5>1. d <= a \/ EndOf(H, a) <= d
            BY <3>2, <4>2
          <5> QED
            BY <1>2, <2>1, <2>4, <3>1, <3>4, <4>2, <5>1
        <4> QED
          BY <2>3, <4>1, <4>2
      <3>5. CASE c \in DOMAIN H \ {a}
        <4>1. CASE d = new
          <5>1. (a <= c \/ EndOf(H, c) <= a) /\ (c <= a \/ EndOf(H, a) <= c)
            BY <3>2, <3>5
          <5>2. c \in Int /\ EndOf(H, c) \in Int /\ c # a
            BY <3>1, <3>5
          <5> QED
            BY <1>2, <2>1, <2>4, <3>1, <3>5, <4>1, <5>1, <5>2
        <4>2. CASE d \in DOMAIN H
          BY <2>4, <3>2, <3>5, <4>2
        <4> QED
          BY <2>3, <4>1, <4>2
      <3> QED
        BY <2>3, <3>3, <3>4, <3>5
    <2>7. PICK b \in DOMAIN A :
       /\ b + ARENA <= a
       /\ \/ EndOf(H, a) \in DOMAIN H /\ EndOf(H, a) < b + A[b].size /\ H[a].next = EndOf(H, a)
          \/ /\ EndOf(H, a) = b + A[b].size
             /\ H[a].next = IF A[b].next = NULL THEN f + ARENA ELSE A[b].next + ARENA
      BY DEF Tiles
    <2>8. b \in Nat /\ A[b].size \in Nat
      BY DEF ArenaMap
    <2>9. EndOf(H, a) \in Int
      BY InTiles
    <2>10. ASSUME NEW c \in DOMAIN M
           PROVE  \E x \in DOMAIN A :
       /\ x + ARENA <= c
       /\ \/ EndOf(M, c) \in DOMAIN M /\ EndOf(M, c) < x + A[x].size /\ M[c].next = EndOf(M, c)
          \/ /\ EndOf(M, c) = x + A[x].size
             /\ M[c].next = IF A[x].next = NULL THEN f + ARENA ELSE A[x].next + ARENA
      <3>1. CASE c = a
        <4>1. new < b + A[b].size
          BY <2>1, <2>7, <2>8, <2>9
        <4> QED
          BY <2>3, <2>4, <2>7, <3>1, <4>1
      <3>2. CASE c = new
        <4>1. b + ARENA <= new
          BY <1>2, <2>1, <2>7, <2>8
        <4> QED
          BY <2>3, <2>4, <2>7, <3>2, <4>1
      <3>3. CASE c \in DOMAIN H \ {a}
        BY <2>3, <2>4, <3>3 DEF Tiles
      <3> QED
        BY <2>3, <3>1, <3>2, <3>3
    <2>11. \A x \in DOMAIN A : x + ARENA \in DOMAIN M
      BY <2>3 DEF Tiles
    <2>12. Tiles(A, f, M)
      BY <2>5, <2>6, <2>10, <2>11 DEF Tiles
    <2> QED
      BY <1>1, <2>2, <2>3, <2>12
  <1> QED
    BY <1>4, <1>5

(* The first arena: one block, that leads to itself.                       *)
LEMMA FirstTiles ==
  ASSUME NEW A, ArenaMap(A, NULL), NEW H, Tiles(A, NULL, H),
         NEW base \in Nat \ {0}, NEW size \in Nat, size > ARENA + HDR,
         NEW B, NEW g, Appended(A, NULL, B, g, base, size),
         NEW M, Added(H, M, base + ARENA, base + ARENA, size - ARENA - HDR, 0)
  PROVE  Tiles(B, g, M) /\ DOMAIN H = {}
  <1>1. DOMAIN A = {}
    BY DEF ArenaMap
  <1>2. DOMAIN H = {}
    BY <1>1 DEF Tiles
  <1>3. PICK new : new = base + ARENA
    OBVIOUS
  <1>4. /\ DOMAIN B = {base} /\ B[base].next = NULL /\ B[base].size = size /\ g = base
    BY <1>1 DEF Appended
  <1>5. DOMAIN M = {new} /\ M[new] = [next |-> new, size |-> size - ARENA - HDR, asize |-> 0]
    BY <1>2, <1>3 DEF Added
  <1>6. size - ARENA - HDR \in Nat \ {0} /\ EndOf(M, new) = base + size /\ new \in Nat
    BY <1>3, <1>5 DEF EndOf
  <1>7. M[new].size \in Nat \ {0} /\ M[new].asize \in 0 .. M[new].size
    BY <1>5, <1>6
  <1>8. base + ARENA <= new /\ M[new].next = g + ARENA /\ new <= new
    BY <1>3, <1>4, <1>5, <1>6
  <1> QED
    BY <1>2, <1>3, <1>4, <1>5, <1>6, <1>7, <1>8 DEF Tiles

(* The block that led back to the first header is the last of the last     *)
(* arena.                                                                  *)
LEMMA LastOfAll ==
  ASSUME NEW A, NEW f \in DOMAIN A, ArenaMap(A, f), Listed(A, f), NEW H, Shaped(H), Tiles(A, f, H),
         NEW a \in DOMAIN H, H[a].next = f + ARENA
  PROVE  \E b \in DOMAIN A : b + ARENA <= a /\ EndOf(H, a) = b + A[b].size /\ A[b].next = NULL
  <1>1. PICK b \in DOMAIN A :
       /\ b + ARENA <= a
       /\ \/ EndOf(H, a) \in DOMAIN H /\ EndOf(H, a) < b + A[b].size /\ H[a].next = EndOf(H, a)
          \/ /\ EndOf(H, a) = b + A[b].size
             /\ H[a].next = IF A[b].next = NULL THEN f + ARENA ELSE A[b].next + ARENA
    BY DEF Tiles
  <1>2. /\ \A c \in DOMAIN A : c \in Nat /\ A[c].size \in Nat /\ A[c].next \in Nat
        /\ a \in Int /\ EndOf(H, a) \in Int /\ a + HDR < EndOf(H, a) /\ H[a].size \in Nat \ {0}
    BY InTiles DEF ArenaMap
  <1>3. CASE EndOf(H, a) < b + A[b].size /\ H[a].next = EndOf(H, a)
    <2>1. EndOf(H, a) = f + ARENA
      BY <1>3
    <2>2. b < f /\ f < b + A[b].size
      BY <1>1, <1>2, <1>3, <2>1
    <2>3. b + A[b].size <= f \/ f + A[f].size <= b
      BY <1>2, <2>2 DEF Listed
    <2>4. A[f].size \in Nat
      BY <1>2
    <2> QED
      BY <1>2, <2>2, <2>3, <2>4
  <1>4. CASE EndOf(H, a) = b + A[b].size /\ A[b].next # NULL /\ H[a].next = A[b].next + ARENA
    <2>1. A[b].next = f
      <3>1. A[b].next \in Nat /\ f \in Nat
        BY <1>2
      <3> QED
        BY <1>4, <3>1
    <2> QED
      BY <2>1 DEF Listed
  <1> QED
    BY <1>1, <1>3, <1>4

(* A further arena: the last block leads to its one block, and this back   *)
(* to the first.                                                           *)
Whole(A, f, H) ==
  f # NULL /\ f \in DOMAIN A /\ ArenaMap(A, f) /\ Listed(A, f) /\ Shaped(H) /\ Tiles(A, f, H)

Further(A, f, H, base, size, B, g, M, a, L) ==
  /\ base \in Nat \ {0} /\ size \in Nat /\ size > ARENA + HDR
  /\ Appended(A, f, B, g, base, size)
  /\ a \in DOMAIN H /\ H[a].next = f + ARENA
  /\ Replaced(H, L, a, base + ARENA, H[a].size, H[a].asize)
  /\ Added(L, M, base + ARENA, f + ARENA, size - ARENA - HDR, 0)

Furthered(H, base, B, g, M) ==
  /\ Tiles(B, g, M) /\ base + ARENA \notin DOMAIN H
  /\ DOMAIN M = DOMAIN H \cup {base + ARENA} /\ M[base + ARENA].asize = 0
  /\ \A c \in DOMAIN H : M[c].asize = H[c].asize

LEMMA FurtherTiles ==
  ASSUME NEW A, NEW f, NEW H, Whole(A, f, H),
         NEW base, NEW size, NEW B, NEW g, NEW M, NEW a, NEW L,
         Further(A, f, H, base, size, B, g, M, a, L)
  PROVE  Furthered(H, base, B, g, M)
  <1>0. /\ f # NULL /\ f \in DOMAIN A /\ ArenaMap(A, f) /\ Listed(A, f)
        /\ Shaped(H) /\ Tiles(A, f, H)
        /\ base \in Nat \ {0} /\ size \in Nat /\ size > ARENA + HDR
        /\ Appended(A, f, B, g, base, size)
        /\ a \in DOMAIN H /\ H[a].next = f + ARENA
        /\ Replaced(H, L, a, base + ARENA, H[a].size, H[a].asize)
        /\ Added(L, M, base + ARENA, f + ARENA, size - ARENA - HDR, 0)
    BY DEF Whole, Further
  <1> USE <1>0
  <1>1. PICK new : new = base + ARENA
    OBVIOUS
  <1>2. /\ DOMAIN B = DOMAIN A \cup {base} /\ g = f
        /\ \A b \in DOMAIN A : b + A[b].size <= base \/ base + size <= b
        /\ \A b \in DOMAIN A : B[b].size = A[b].size
                             /\ B[b].next = IF A[b].next = NULL THEN base ELSE A[b].next
        /\ B[base].next = NULL /\ B[base].size = size
    BY DEF Appended
  <1>20. \A b \in DOMAIN A : b \in Nat /\ A[b].size \in Nat /\ A[b].next \in Nat
    BY DEF ArenaMap
  <1>21. \A c \in DOMAIN H : c \in Int /\ EndOf(H, c) \in Int /\ c + HDR < EndOf(H, c)
                            /\ H[c].size \in Nat \ {0}
    BY InTiles
  <1>22. new \in Nat /\ ARENA \in Nat \ {0} /\ HDR \in Nat
    BY <1>1
  <1>3. /\ \A b \in DOMAIN A : b \in Nat /\ A[b].size \in Nat /\ A[b].next \in Nat
        /\ \A c \in DOMAIN H : c \in Int /\ EndOf(H, c) \in Int /\ c + HDR < EndOf(H, c)
                              /\ H[c].size \in Nat \ {0}
        /\ new \in Nat /\ ARENA \in Nat \ {0} /\ HDR \in Nat
    BY <1>20, <1>21, <1>22
  <1>4. ASSUME NEW c \in DOMAIN H
        PROVE  (EndOf(H, c) <= base \/ base + size <= c) /\ c # new
    <2>1. PICK b \in DOMAIN A : b + ARENA <= c /\ EndOf(H, c) <= b + A[b].size
      BY InTiles
    <2>2. b + A[b].size <= base \/ base + size <= b
      BY <1>2
    <2> QED
      BY <1>1, <1>3, <2>1, <2>2
  <1>5. /\ DOMAIN M = DOMAIN H \cup {new}
        /\ M[new] = [next |-> f + ARENA, size |-> size - ARENA - HDR, asize |-> 0]
        /\ M[a] = [next |-> new, size |-> H[a].size, asize |-> H[a].asize]
        /\ \A c \in DOMAIN H \ {a} : M[c] = H[c]
    BY <1>1, <1>4 DEF Replaced, Added
  <1>6. size - ARENA - HDR \in Nat \ {0} /\ EndOf(M, new) = base + size
    BY <1>1, <1>5 DEF EndOf
  <1>7. \A c \in DOMAIN H : M[c].size = H[c].size /\ M[c].asize = H[c].asize /\ EndOf(M, c) = EndOf(H, c)
    BY <1>5 DEF EndOf
  <1>8. \A c \in DOMAIN M : M[c].size \in Nat \ {0} /\ M[c].asize \in 0 .. M[c].size
    BY <1>5, <1>6, <1>7 DEF Tiles
  <1>9. \A b \in DOMAIN B : b + ARENA \in DOMAIN M
    BY <1>1, <1>2, <1>5 DEF Tiles
  <1>10. ASSUME NEW c \in DOMAIN M, NEW d \in DOMAIN M PROVE d <= c \/ EndOf(M, c) <= d
    <2>1. CASE c = new /\ d = new
      BY <1>3, <2>1
    <2>2. CASE c = new /\ d \in DOMAIN H
      <3>1. EndOf(H, d) <= base \/ base + size <= d
        BY <1>4, <2>2
      <3> QED
        BY <1>1, <1>3, <1>6, <2>2, <3>1
    <2>3. CASE c \in DOMAIN H /\ d = new
      <3>1. EndOf(H, c) <= base \/ base + size <= c
        BY <1>4, <2>3
      <3> QED
        BY <1>1, <1>3, <1>7, <2>3, <3>1
    <2>4. CASE c \in DOMAIN H /\ d \in DOMAIN H
      BY <1>7, <2>4 DEF Tiles
    <2> QED
      BY <1>5, <2>1, <2>2, <2>3, <2>4
  <1>11. PICK l \in DOMAIN A : l + ARENA <= a /\ EndOf(H, a) = l + A[l].size /\ A[l].next = NULL
    BY LastOfAll
  <1>12. ASSUME NEW c \in DOMAIN M
         PROVE  \E b \in DOMAIN B :
       /\ b + ARENA <= c
       /\ \/ EndOf(M, c) \in DOMAIN M /\ EndOf(M, c) < b + B[b].size /\ M[c].next = EndOf(M, c)
          \/ /\ EndOf(M, c) = b + B[b].size
             /\ M[c].next = IF B[b].next = NULL THEN g + ARENA ELSE B[b].next + ARENA
    <2>1. CASE c = new
      <3>1. base + ARENA <= new
        BY <1>1, <1>3
      <3> QED
        BY <1>2, <1>5, <1>6, <2>1, <3>1
    <2>2. CASE c = a
      <3>1. B[l].next = base /\ B[l].next # NULL /\ B[l].size = A[l].size
        BY <1>2, <1>11 DEF NULL
      <3> QED
        BY <1>1, <1>2, <1>5, <1>7, <1>11, <2>2, <3>1
    <2>3. CASE c \in DOMAIN H \ {a}
      <3>1. PICK b \in DOMAIN A :
       /\ b + ARENA <= c
       /\ \/ EndOf(H, c) \in DOMAIN H /\ EndOf(H, c) < b + A[b].size /\ H[c].next = EndOf(H, c)
          \/ /\ EndOf(H, c) = b + A[b].size
             /\ H[c].next = IF A[b].next = NULL THEN f + ARENA ELSE A[b].next + ARENA
        BY <2>3 DEF Tiles
      <3>2. M[c].next = H[c].next /\ EndOf(M, c) = EndOf(H, c)
        BY <1>5, <1>7, <2>3
      <3>3. CASE EndOf(H, c) \in DOMAIN H /\ EndOf(H, c) < b + A[b].size /\ H[c].next = EndOf(H, c)
        BY <1>2, <1>5, <3>1, <3>2, <3>3
      <3>4. CASE EndOf(H, c) = b + A[b].size /\ A[b].next # NULL
        <4>1. b \in DOMAIN B /\ B[b].next = A[b].next /\ B[b].size = A[b].size
          BY <1>2, <3>1, <3>4
        <4>2. M[c].next = B[b].next + ARENA /\ EndOf(M, c) = b + B[b].size /\ B[b].next # NULL
          BY <3>1, <3>2, <3>4, <4>1, <1>3
        <4> QED
          BY <3>1, <4>1, <4>2
      <3>5. CASE EndOf(H, c) = b + A[b].size /\ A[b].next = NULL
        <4>1. b = l
          BY <1>11, <3>5 DEF Listed
        <4>2. EndOf(H, c) = EndOf(H, a)
          BY <1>11, <3>5, <4>1
        <4>3. (c <= a \/ EndOf(H, a) <= c) /\ (a <= c \/ EndOf(H, c) <= a)
          BY <2>3 DEF Tiles
        <4>4. c = a
          BY <1>3, <2>3, <4>2, <4>3
        <4> QED
          BY <2>3, <4>4
      <3> QED
        BY <3>1, <3>3, <3>4, <3>5
    <2> QED
      BY <1>5, <2>1, <2>2, <2>3
  <1>13. Tiles(B, g, M)
    BY <1>8, <1>9, <1>10, <1>12 DEF Tiles
  <1> QED
    BY <1>1, <1>4, <1>5, <1>7, <1>13 DEF Furthered

-----------------------------------------------------------------------------
(* What a new arena does to the headers and to the arenas.                 *)
LEMMA NewArenaHeaders ==
  ASSUME Shaped(hdr), NEW base \in Bases, NEW size \in Nat \ {0}, NewArena(base, size)
  PROVE  \E L :
           /\ IF first_arena = NULL THEN L = hdr
              ELSE Replaced(hdr, L, at, base + ARENA, hdr[at].size, hdr[at].asize)
           /\ Added(L, hdr', base + ARENA,
                    IF first_arena = NULL THEN base + ARENA ELSE first_arena + ARENA,
                    size - ARENA - HDR, 0)
  <1>1. PICK new, next, z, L :
          /\ new = base + ARENA /\ z = size - ARENA - HDR
          /\ next = IF first_arena = NULL THEN new ELSE first_arena + ARENA
          /\ L = IF first_arena = NULL THEN hdr ELSE [hdr EXCEPT ![at] = [@ EXCEPT !.next = new]]
    OBVIOUS
  <1>2. new \in Int
    BY <1>1
  <1>3. hdr' = With(L, new, [next |-> next, size |-> z, asize |-> 0])
    BY <1>1 DEF NewArena, FirstHeader
  <1>4. IF first_arena = NULL THEN L = hdr
        ELSE Replaced(hdr, L, at, new, hdr[at].size, hdr[at].asize)
    BY <1>1, ShapedNext
  <1>5. Shaped(L)
    BY <1>4 DEF Replaced
  <1>6. Added(L, hdr', new, next, z, 0)
    BY <1>2, <1>3, <1>5, ShapedWith
  <1> QED
    BY <1>1, <1>4, <1>6

LEMMA NewArenaListed ==
  ASSUME SInv, NEW base \in Bases, NEW size \in Nat \ {0}, NewArena(base, size)
  PROVE  Listed(arenas', first_arena') /\ Shaped(hdr')
  <1>1. Appended(arenas, first_arena, arenas', first_arena', base, size)
    BY NewArenaAppends DEF SInv, IInv
  <1>2. ArenaMap(arenas, first_arena) /\ base \in Nat \ {0}
    BY ArenasMap DEF SInv, IInv
  <1>3. PICK A, f, B, g : A = arenas /\ f = first_arena /\ B = arenas' /\ g = first_arena'
    OBVIOUS
  <1>4. Listed(B, g)
    BY <1>1, <1>2, <1>3, AppendedListed DEF SInv
  <1>5. Shaped(hdr')
    BY NewArenaHeaders DEF SInv, Shapes, Added
  <1> QED
    BY <1>3, <1>4, <1>5

(* The size of an arena for a request of so many bytes.                    *)
LEMMA NewArenaSize ==
  ASSUME Arenas, NEW base, NewArena(base, ArenaFor(call.size))
  PROVE  ArenaFor(call.size) \in Nat \ {0} /\ ArenaFor(call.size) > ARENA + HDR
  <1>1. ArenaFor(call.size) \in Nat /\ ~ TooSmall(ArenaFor(call.size))
    BY ArenaSize DEF Arenas, NewArena
  <1>2. PICK n : n = ArenaFor(call.size)
    OBVIOUS
  <1> QED
    BY <1>1, <1>2 DEF TooSmall

(* A step that changes neither the heap nor what the client holds.         *)
LEMMA SInvQuiet ==
  ASSUME SInv, IInv', UNCHANGED << heap, live >>,
         pc' = "mrealloc" => call'.ptr \in DOMAIN live \cup {NULL},
         pc' = "place" => h' \in DOMAIN hdr /\ call'.size + hdr[h'].asize < hdr[h'].size
  PROVE  SInv'
  <1>1. UNCHANGED << arenas, first_arena, hdr, live >>
    BY DEF heap
  <1>2. Listed(arenas', first_arena')
    BY <1>1 DEF SInv
  <1>3. Shapes'
    BY <1>1 DEF SInv, Shapes, Fits
  <1> QED
    BY <1>2, <1>3 DEF SInv

LEMMA MmallocArenaSInv ==
  ASSUME SInv, IInv', MmallocArena
  PROVE  SInv'
  <1>1. CASE Return /\ UNCHANGED << heap, live, status >>
    BY <1>1, SInvQuiet DEF Return
  <1>2. ASSUME NEW base \in Bases, NewArena(base, ArenaFor(call.size)),
               pc' = "first_fit", UNCHANGED << live, call, h, second, status >>
        PROVE  SInv'
    <2>1. PICK size \in Nat \ {0} : size = ArenaFor(call.size)
      BY <1>2, NewArenaSize DEF SInv, IInv
    <2>2. Listed(arenas', first_arena') /\ Shaped(hdr')
      BY <1>2, <2>1, NewArenaListed
    <2>3. Shapes'
      BY <1>2, <2>2 DEF SInv, Shapes
    <2> QED
      BY <2>2, <2>3 DEF SInv
  <1> QED
    BY <1>1, <1>2 DEF MmallocArena

LEMMA FitGrowSInv ==
  ASSUME SInv, IInv', FitGrow
  PROVE  SInv'
  <1>0. pc = "first_fit"
    BY DEF FitGrow, In
  <1>1. CASE UNCHANGED << heap, live >> /\ (pc' = pc \/ pc' = "idle")
    BY <1>0, <1>1, SInvQuiet
  <1>2. ASSUME NEW base \in Bases, NewArena(base, ArenaFor(call.size)),
               UNCHANGED << live, pc, call, h, second, status >>
        PROVE  SInv'
    <2>1. PICK size \in Nat \ {0} : size = ArenaFor(call.size)
      BY <1>2, NewArenaSize DEF SInv, IInv
    <2>2. Listed(arenas', first_arena') /\ Shaped(hdr')
      BY <1>2, <2>1, NewArenaListed
    <2>3. Shapes'
      BY <1>0, <1>2, <2>2 DEF SInv, Shapes
    <2> QED
      BY <2>2, <2>3 DEF SInv
  <1> QED
    BY <1>1, <1>2 DEF FitGrow, Return

LEMMA PlaceSInv ==
  ASSUME SInv, IInv', Place
  PROVE  SInv'
  <1>1. /\ pc = "place" /\ hdr' = Taken(hdr, h, call.size)
        /\ live' = With(live, h + HDR, call.size)
        /\ UNCHANGED << arenas, first_arena >> /\ pc' \in {"mfree", "idle"}
    BY DEF Place, In, Taken, Divides, hdr_should_split, Marked, Return
  <1>2. Shaped(hdr) /\ h \in Int /\ call.size \in Int /\ h + HDR \in Int
    BY <1>1 DEF SInv, IInv, Arenas, Shapes, Shaped
  <1>3. PICK H, a, s : H = hdr /\ a = h /\ s = call.size
    OBVIOUS
  <1>4. TakenOf(H, Taken(H, a, s), a, s, a + HDR + s)
    BY <1>2, <1>3, ShapedTake
  <1>5. Shaped(hdr')
    BY <1>1, <1>3, <1>4 DEF TakenOf
  <1>6. DOMAIN live' \subseteq Int
    BY <1>1, <1>2 DEF With, SInv, Shapes
  <1>7. Listed(arenas', first_arena')
    BY <1>1 DEF SInv
  <1> QED
    BY <1>1, <1>5, <1>6, <1>7 DEF SInv, Shapes

LEMMA MreallocShrinkSInv ==
  ASSUME SInv, IInv', MreallocShrink
  PROVE  SInv'
  <1>1. /\ pc = "mrealloc" /\ hdr' = Taken(hdr, Block, call.size) /\ call.ptr # NULL
        /\ live' = [live EXCEPT ![call.ptr] = call.size]
        /\ UNCHANGED << arenas, first_arena >> /\ pc' = "idle"
    BY DEF MreallocShrink, In, Taken, Divides, hdr_should_split, Marked, Return
  <1>2. Shaped(hdr) /\ call.size \in Int /\ Block \in Int
    BY <1>1 DEF SInv, IInv, Arenas, Shapes, Shaped, Block
  <1>3. PICK H, a, s : H = hdr /\ a = Block /\ s = call.size
    OBVIOUS
  <1>4. TakenOf(H, Taken(H, a, s), a, s, a + HDR + s)
    BY <1>2, <1>3, ShapedTake
  <1>5. Shaped(hdr')
    BY <1>1, <1>3, <1>4 DEF TakenOf
  <1>6. DOMAIN live' \subseteq Int
    BY <1>1 DEF SInv, Shapes
  <1>7. Listed(arenas', first_arena')
    BY <1>1 DEF SInv
  <1> QED
    BY <1>1, <1>5, <1>6, <1>7 DEF SInv, Shapes

LEMMA MfreeSInv ==
  ASSUME SInv, IInv', Mfree
  PROVE  SInv'
  <1>1. PICK a, H, r : a = Block /\ H = Marked(hdr, a, 0) /\ r = H[a].next
    OBVIOUS
  <1>2. /\ hdr' = IF hdr_can_merge(H, a, r) THEN hdr_merge(H, a, r) ELSE H
        /\ live' = Without(live, call.ptr)
        /\ UNCHANGED << arenas, first_arena >> /\ pc' = "hdr_get_prev"
    BY <1>1 DEF Mfree, Marked
  <1>3. Shaped(H)
    BY <1>1, ShapedMark DEF SInv, Shapes, Replaced
  <1>4. Shaped(hdr')
    BY <1>2, <1>3, ShapedMerge
  <1>5. DOMAIN live' \subseteq Int
    BY <1>2 DEF Without, SInv, Shapes
  <1>6. Listed(arenas', first_arena')
    BY <1>2 DEF SInv
  <1> QED
    BY <1>2, <1>4, <1>5, <1>6 DEF SInv, Shapes

LEMMA PrevFoundSInv ==
  ASSUME SInv, IInv', PrevFound
  PROVE  SInv'
  <1>1. /\ hdr' = IF at < h /\ hdr_can_merge(hdr, at, h) THEN hdr_merge(hdr, at, h) ELSE hdr
        /\ UNCHANGED << arenas, first_arena, live >> /\ pc' = "idle"
    BY DEF PrevFound, MergeBack, Return
  <1>2. PICK l, r : l = at /\ r = h
    OBVIOUS
  <1>3. Shaped(hdr')
    BY <1>1, <1>2, ShapedMerge DEF SInv, Shapes
  <1>4. Listed(arenas', first_arena')
    BY <1>1 DEF SInv
  <1> QED
    BY <1>1, <1>3, <1>4 DEF SInv, Shapes

LEMMA NextSInv == SInv /\ [Next]_vars => SInv'
  <1> SUFFICES ASSUME SInv, [Next]_vars PROVE SInv'
    OBVIOUS
  <1>1. IInv'
    BY NextIInv DEF SInv
  <1>2. CASE CallMmalloc \/ CallMfree \/ CallMrealloc
    <2>1. PICK ptr, size, fun, where :
            /\ Begin(fun, ptr, size, where) /\ where \in {"mmalloc", "mfree", "mrealloc"}
            /\ where = "mrealloc" => ptr \in DOMAIN live \cup {NULL}
      BY <1>2 DEF CallMmalloc, CallMfree, CallMrealloc
    <2>2. UNCHANGED << heap, live >> /\ pc' = where /\ call'.ptr = ptr
      BY <2>1 DEF Begin
    <2> QED
      BY <1>1, <2>1, <2>2, SInvQuiet
  <1>3. CASE MmallocFit \/ FitNext \/ PrevNext
    BY <1>1, <1>3, SInvQuiet DEF MmallocFit, FitNext, PrevNext, In
  <1>4. CASE FitFound
    <2>1. UNCHANGED << heap, live, call >> /\ pc' = "place" /\ h' = at /\ at \in DOMAIN hdr
          /\ call.size + hdr[at].asize < hdr[at].size
      BY <1>4 DEF FitFound, Fits
    <2> QED
      BY <1>1, <2>1, SInvQuiet
  <1>5. CASE ArenaAssert \/ FitWild \/ PlaceAssert \/ MfreeAssert \/ UNCHANGED vars
    <2>1. UNCHANGED << heap, live, pc, call, h >>
      BY <1>5 DEF ArenaAssert, FitWild, PlaceAssert, MfreeAssert, Ends, vars, walk
    <2> QED
      BY <1>1, <2>1, SInvQuiet DEF SInv, Shapes, Fits
  <1>6. CASE MreallocZero \/ MreallocGrow
    BY <1>1, <1>6, SInvQuiet DEF MreallocZero, MreallocGrow, In
  <1> QED
    BY <1>1, <1>2, <1>3, <1>4, <1>5, <1>6, MmallocArenaSInv, FitGrowSInv, PlaceSInv,
       MreallocShrinkSInv, MfreeSInv, PrevFoundSInv DEF Next, Step, Over

LEMMA InitSInv == Init => SInv
  <1> SUFFICES ASSUME Init PROVE SInv
    OBVIOUS
  <1>1. DOMAIN hdr = {} /\ DOMAIN arenas = {} /\ DOMAIN live = {} /\ first_arena = NULL
        /\ pc = "idle" /\ hdr = [a \in {} |-> 0]
    BY DEF Init
  <1>2. Listed(arenas, first_arena)
    BY <1>1 DEF Listed
  <1>3. Shaped(hdr)
    BY <1>1 DEF Shaped
  <1> QED
    BY <1>1, <1>2, <1>3, InitIInv DEF SInv, Shapes

-----------------------------------------------------------------------------
(* A taken block is handed to the client, or stays with it.                *)
LEMMA TakeHeld ==
  ASSUME NEW H, NEW L, Held(H, L), Shaped(H), DOMAIN L \subseteq Int,
         NEW a \in DOMAIN H, NEW s \in Nat,
         NEW M, DOMAIN H \subseteq DOMAIN M, M[a].asize = s,
         \A c \in DOMAIN H \ {a} : M[c].asize = H[c].asize,
         \A c \in DOMAIN M \ DOMAIN H : M[c].asize = 0,
         NEW P, DOMAIN P = DOMAIN L \cup {a + HDR}, P[a + HDR] = s,
         \A ptr \in DOMAIN L \ {a + HDR} : P[ptr] = L[ptr]
  PROVE  Held(M, P)
  <1>1. a \in Int /\ HDR \in Int /\ (a + HDR) - HDR = a
    BY DEF Shaped
  <1>2. \A ptr \in DOMAIN P : P[ptr] \in Nat /\ ptr - HDR \in DOMAIN M /\ M[ptr - HDR].asize = P[ptr]
    <2> TAKE ptr \in DOMAIN P
    <2>1. CASE ptr = a + HDR
      BY <1>1, <2>1
    <2>2. CASE ptr # a + HDR
      <3>1. ptr \in DOMAIN L /\ ptr \in Int /\ P[ptr] = L[ptr]
        BY <2>2
      <3>2. L[ptr] \in Nat /\ ptr - HDR \in DOMAIN H /\ H[ptr - HDR].asize = L[ptr]
        BY <3>1 DEF Held
      <3>3. ptr - HDR # a
        BY <1>1, <2>2, <3>1
      <3> QED
        BY <3>1, <3>2, <3>3
    <2> QED
      BY <2>1, <2>2
  <1>3. \A c \in DOMAIN M : M[c].asize # 0 => c + HDR \in DOMAIN P
    BY DEF Held
  <1> QED
    BY <1>2, <1>3 DEF Held

(* More free blocks change nothing for the client.                         *)
LEMMA MoreHeld ==
  ASSUME NEW H, NEW L, Held(H, L), NEW M, DOMAIN H \subseteq DOMAIN M,
         \A c \in DOMAIN H : M[c].asize = H[c].asize,
         \A c \in DOMAIN M \ DOMAIN H : M[c].asize = 0
  PROVE  Held(M, L)
  BY DEF Held

(* What is sound stays so if nothing of it changes.                        *)
LEMMA SoundQuiet ==
  ASSUME Sound, SInv', UNCHANGED << heap, live >>
  PROVE  Sound'
  <1>1. UNCHANGED << arenas, first_arena, hdr, live >>
    BY DEF heap
  <1>2. Tiles(arenas', first_arena', hdr') /\ Held(hdr', live')
    BY <1>1, SoundNow
  <1> QED
    BY <1>2, SoundLater DEF SInv, IInv

(* A new arena.                                                            *)
LEMMA NewArenaSound ==
  ASSUME SInv, Sound, SInv', NEW base \in Bases, NEW size \in Nat \ {0}, size > ARENA + HDR,
         NewArena(base, size), live' = live,
         first_arena # NULL => at \in DOMAIN hdr /\ hdr[at].next = FirstHeader
  PROVE  Sound'
  <1>1. PICK A, f, B, g, H, M, a :
          /\ A = arenas /\ f = first_arena /\ B = arenas' /\ g = first_arena'
          /\ H = hdr /\ M = hdr' /\ a = at
    OBVIOUS
  <1>2. /\ ArenaMap(A, f) /\ Listed(A, f) /\ Shaped(H) /\ base \in Nat \ {0} /\ size \in Nat
        /\ Tiles(A, f, H) /\ Held(H, live)
    BY <1>1, ArenasMap, SoundNow DEF SInv, IInv, Shapes
  <1>3. Appended(A, f, B, g, base, size)
    BY <1>1, NewArenaAppends DEF SInv, IInv
  <1>4. PICK L :
           /\ IF f = NULL THEN L = H
              ELSE Replaced(H, L, a, base + ARENA, H[a].size, H[a].asize)
           /\ Added(L, M, base + ARENA, IF f = NULL THEN base + ARENA ELSE f + ARENA,
                    size - ARENA - HDR, 0)
    BY <1>1, <1>2, NewArenaHeaders
  <1>5. CASE f = NULL
    <2>1. ArenaMap(A, NULL) /\ Tiles(A, NULL, H) /\ Appended(A, NULL, B, g, base, size)
          /\ Added(H, M, base + ARENA, base + ARENA, size - ARENA - HDR, 0)
      BY <1>2, <1>3, <1>4, <1>5
    <2>2. Tiles(B, g, M) /\ DOMAIN H = {}
      BY <1>2, <2>1, FirstTiles
    <2>3. DOMAIN M = {base + ARENA} /\ M[base + ARENA].asize = 0
      BY <2>1, <2>2 DEF Added
    <2>4. Held(M, live)
      BY <1>2, <2>2, <2>3, MoreHeld
    <2> QED
      BY <1>1, <2>2, <2>4, SoundLater DEF SInv, IInv
  <1>6. CASE f # NULL
    <2>1. f \in DOMAIN A /\ a \in DOMAIN H /\ H[a].next = f + ARENA
      BY <1>1, <1>2, <1>6 DEF ArenaMap, FirstHeader
    <2>2. Replaced(H, L, a, base + ARENA, H[a].size, H[a].asize)
          /\ Added(L, M, base + ARENA, f + ARENA, size - ARENA - HDR, 0)
      BY <1>4, <1>6
    <2>3. Furthered(H, base, B, g, M)
      <3>1. Whole(A, f, H)
        BY <1>2, <1>6, <2>1 DEF Whole
      <3>2. Further(A, f, H, base, size, B, g, M, a, L)
        BY <1>2, <1>3, <2>1, <2>2 DEF Further
      <3> QED
        BY <3>1, <3>2, FurtherTiles
    <2>4. Held(M, live)
      BY <1>2, <2>3, MoreHeld DEF Furthered
    <2> QED
      BY <1>1, <2>3, <2>4, SoundLater DEF SInv, IInv, Furthered
  <1> QED
    BY <1>5, <1>6

(* A block that is taken for the client.                                   *)
LEMMA TakeSound ==
  ASSUME SInv, Sound, SInv', NEW a \in DOMAIN hdr, NEW s \in Nat, s \in 1 .. hdr[a].size,
         hdr' = Taken(hdr, a, s), UNCHANGED << arenas, first_arena >>,
         DOMAIN live' = DOMAIN live \cup {a + HDR}, live'[a + HDR] = s,
         \A ptr \in DOMAIN live \ {a + HDR} : live'[ptr] = live[ptr]
  PROVE  Sound'
  <1>1. PICK A, f, H, M, L, P, b, t :
          /\ A = arenas /\ f = first_arena /\ H = hdr /\ M = hdr' /\ L = live /\ P = live'
          /\ b = a /\ t = s
    OBVIOUS
  <1>2. /\ ArenaMap(A, f) /\ Shaped(H) /\ Tiles(A, f, H) /\ Held(H, L) /\ DOMAIN L \subseteq Int
    BY <1>1, ArenasMap, SoundNow DEF SInv, IInv, Shapes
  <1>3. /\ Tiles(A, f, M)
        /\ DOMAIN H \subseteq DOMAIN M
        /\ M[b].asize = t
        /\ \A c \in DOMAIN H \ {b} : M[c].asize = H[c].asize
        /\ \A c \in DOMAIN M \ DOMAIN H : M[c].asize = 0
    BY <1>1, <1>2, TakeTiles
  <1>4. /\ DOMAIN P = DOMAIN L \cup {b + HDR} /\ P[b + HDR] = t
        /\ \A ptr \in DOMAIN L \ {b + HDR} : P[ptr] = L[ptr]
        /\ b \in DOMAIN H /\ t \in Nat
    BY <1>1
  <1>5. Held(M, P)
    BY <1>2, <1>3, <1>4, TakeHeld
  <1> QED
    BY <1>1, <1>3, <1>5, SoundLater DEF SInv, IInv

LEMMA PlaceSound ==
  ASSUME SInv, Sound, SInv', Place
  PROVE  Sound'
  <1>1. /\ pc = "place" /\ hdr[h].asize = 0 /\ call.size > 0
        /\ live' = With(live, h + HDR, call.size)
        /\ UNCHANGED << arenas, first_arena >>
        /\ hdr' = Taken(hdr, h, call.size)
    BY DEF Place, In, Taken, Divides, hdr_should_split, Marked
  <1>2. h \in DOMAIN hdr /\ Fits(h, call.size) /\ call.size \in Nat
    BY <1>1 DEF SInv, Shapes, IInv, Arenas
  <1>3. hdr[h].size \in Nat
    BY <1>2, SoundNow DEF Tiles
  <1>4. call.size \in 1 .. hdr[h].size
    BY <1>1, <1>2, <1>3 DEF Fits
  <1>5. /\ DOMAIN live' = DOMAIN live \cup {h + HDR} /\ live'[h + HDR] = call.size
        /\ \A ptr \in DOMAIN live \ {h + HDR} : live'[ptr] = live[ptr]
    BY <1>1 DEF With
  <1>6. PICK a, s : a = h /\ s = call.size
    OBVIOUS
  <1> QED
    BY <1>1, <1>2, <1>4, <1>5, <1>6, TakeSound

LEMMA MreallocShrinkSound ==
  ASSUME SInv, Sound, SInv', MreallocShrink
  PROVE  Sound'
  <1>1. /\ pc = "mrealloc" /\ call.size # 0 /\ call.ptr # NULL /\ call.size <= hdr[Block].asize
        /\ hdr' = Taken(hdr, Block, call.size)
        /\ live' = [live EXCEPT ![call.ptr] = call.size]
        /\ UNCHANGED << arenas, first_arena >>
    BY DEF MreallocShrink, In, Return, Taken, Divides, hdr_should_split, Marked
  <1>2. call.ptr \in DOMAIN live /\ call.ptr \in Int /\ call.size \in Nat
    BY <1>1 DEF SInv, Shapes, IInv, Arenas
  <1>3. Block \in DOMAIN hdr /\ Block + HDR = call.ptr
    BY <1>2, SoundNow DEF Held, Block
  <1>4. hdr[Block].size \in Nat /\ hdr[Block].asize \in 0 .. hdr[Block].size
    BY <1>3, SoundNow DEF Tiles
  <1>5. call.size \in 1 .. hdr[Block].size
    BY <1>1, <1>2, <1>4
  <1>6. /\ DOMAIN live' = DOMAIN live \cup {Block + HDR} /\ live'[Block + HDR] = call.size
        /\ \A ptr \in DOMAIN live \ {Block + HDR} : live'[ptr] = live[ptr]
    BY <1>1, <1>2, <1>3
  <1>7. PICK a, s : a = Block /\ s = call.size
    OBVIOUS
  <1> QED
    BY <1>1, <1>2, <1>3, <1>5, <1>6, <1>7, TakeSound

LEMMA NextSound ==
  ASSUME SInv, SInv', [Next]_vars, Sound, pc \notin {"mfree", "hdr_get_prev"}
  PROVE  Sound'
  <1>1. CASE UNCHANGED << heap, live >>
    BY <1>1, SoundQuiet
  <1>2. CASE CallMmalloc \/ CallMfree \/ CallMrealloc \/ Over \/ UNCHANGED vars
    BY <1>1, <1>2 DEF CallMmalloc, CallMfree, CallMrealloc, Begin, Over, vars, heap
  <1>3. CASE MmallocFit \/ FitFound \/ FitNext \/ ArenaAssert \/ FitWild \/ PlaceAssert \/ MfreeAssert
              \/ MreallocZero \/ MreallocGrow
    BY <1>1, <1>3 DEF MmallocFit, FitFound, FitNext, ArenaAssert, FitWild, PlaceAssert, MfreeAssert,
       MreallocZero, MreallocGrow, Ends
  <1>4. CASE Mfree \/ PrevNext \/ PrevFound
    BY <1>4 DEF Mfree, PrevNext, PrevFound, MergeBack, In
  <1>5. CASE MmallocArena
    <2>1. ASSUME NEW base \in Bases, NewArena(base, ArenaFor(call.size)), live' = live,
                 first_arena = NULL
          PROVE  Sound'
      <3>1. PICK size \in Nat \ {0} : size = ArenaFor(call.size) /\ size > ARENA + HDR
        BY <2>1, NewArenaSize DEF SInv, IInv
      <3> QED
        BY <2>1, <3>1, NewArenaSound
    <2> QED
      BY <1>1, <1>5, <2>1 DEF MmallocArena
  <1>6. CASE FitGrow
    <2>1. at \in DOMAIN hdr /\ hdr[at].next = FirstHeader
      BY <1>6 DEF FitGrow
    <2>2. ASSUME NEW base \in Bases, NewArena(base, ArenaFor(call.size)), live' = live
          PROVE  Sound'
      <3>1. PICK size \in Nat \ {0} : size = ArenaFor(call.size) /\ size > ARENA + HDR
        BY <2>2, NewArenaSize DEF SInv, IInv
      <3> QED
        BY <2>1, <2>2, <3>1, NewArenaSound
    <2> QED
      BY <1>1, <1>6, <2>2 DEF FitGrow
  <1> QED
    BY <1>2, <1>3, <1>4, <1>5, <1>6, PlaceSound, MreallocShrinkSound DEF Next, Step

(* Wherever mmap puts the arenas, however many there are, and whatever was *)
(* merged before: the steps outside mfree leave a sound heap sound.        *)
THEOREM SoundSurvives == Spec => SoundKept
  <1> DEFINE Free == pc \notin {"mfree", "hdr_get_prev"}
  <1>1. SInv /\ SInv' /\ [Next]_vars => [Sound /\ Free => Sound']_vars
    BY NextSound
  <1>2. Init => SInv
    BY InitSInv
  <1>3. SInv /\ [Next]_vars => SInv'
    BY NextSInv
  <1> QED
    BY <1>1, <1>2, <1>3, PTL DEF Spec, SoundKept

=============================================================================
