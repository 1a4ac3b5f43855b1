-------------------------------- MODULE Mmal --------------------------------
(***************************************************************************)
(* The allocator of sem_3/ips/proj_2/mmal.c, as its Makefile builds it:    *)
(* with assertions.  Arenas come from mmap; all blocks of all arenas form  *)
(* one circular list of headers.                                           *)
(*                                                                         *)
(* One call at a time; the two walks over the list (first_fit and          *)
(* hdr_get_prev) take one step per header, since whether they end depends  *)
(* on the list.  Addresses are numbers, 0 is NULL, and the sizes of the    *)
(* structures and of a page, and the largest size_t, are scaled down by    *)
(* the CONSTANTS.  A sum that a request can carry beyond SIZE_MAX wraps    *)
(* around; no other can, since mmap has no memory beyond TOP and so blocks *)
(* are much smaller.  A header exists from the time it is written until it *)
(* is merged away.  Links only lead to headers; first_fit, which begins at *)
(* a fixed address, may find none there, and is then "wild" (it reads what *)
(* is left of it).                                                         *)
(*                                                                         *)
(* An operator with a suffixed name (hdr_mergeShort, ...) is a slip the    *)
(* properties must notice.                                                 *)
(***************************************************************************)
EXTENDS Integers, FiniteSets

CONSTANTS
  HDR, ARENA, PAGE,  \* sizeof(Header), sizeof(Arena), PAGE_SIZE
  SIZE_MAX,          \* the largest size_t
  TOP,               \* the end of the memory that mmap can give
  Bases,             \* where mmap may put an arena
  Sizes,             \* the sizes the client asks for
  Calls,             \* the functions the client calls
  MaxLive,           \* how many blocks the client holds at most
  MaxCalls,          \* how many calls it makes at most
  MaxArenas          \* after so many arenas mmap has no memory left

ASSUME MmalAssumption ==
  /\ HDR \in Nat \ {0} /\ ARENA \in Nat \ {0} /\ PAGE \in Nat /\ PAGE > HDR + ARENA
  /\ SIZE_MAX \in Nat /\ TOP \in Nat /\ TOP + 2 * HDR <= SIZE_MAX
  /\ Bases \subseteq Nat \ {0} /\ Sizes \subseteq 0 .. SIZE_MAX
  /\ MaxCalls \in Nat /\ MaxLive \in Nat /\ MaxArenas \in Nat
  /\ Calls \subseteq {"mmalloc", "mfree", "mrealloc"}

VARIABLES
  arenas,   \* the arenas: base |-> their next and size
  first_arena,
  hdr,      \* the headers: address |-> their next, size and asize
  calls,    \* how many calls the client has made
  live,     \* what the client holds: pointer |-> the size it asked for
  pc,       \* "idle", or where in the call the program is
  call,     \* the call: the function, its ptr and its size
  h,        \* the header the call is about
  at,       \* the header a walk has come to
  second,   \* secondloop of hdr_get_prev
  status    \* "ok", or how the program ended

heap == << arenas, first_arena, hdr >>
walk == << h, at, second >>
vars == << heap, live, calls, pc, call, walk, status >>

NULL == 0
NoCall == [fun |-> "none", ptr |-> NULL, size |-> 0]
FirstHeader == first_arena + ARENA

(* What a size_t keeps of a sum, and the size of the arena for a request.  *)
size_t(n) == n % (SIZE_MAX + 1)
allign_pageDown(size) == (size_t(size) \div PAGE) * PAGE
allign_page(size) == (size_t(size + PAGE - 1) \div PAGE) * PAGE
ArenaFor(size) == allign_page(size_t(size + ARENA + HDR))

Init ==
  /\ arenas = << >> /\ first_arena = NULL /\ hdr = << >> /\ live = << >> /\ calls = 0
  /\ pc = "idle" /\ call = NoCall
  /\ h = NULL /\ at = NULL /\ second = FALSE
  /\ status = "ok"

With(f, x, v) == [y \in DOMAIN f \cup {x} |-> IF y = x THEN v ELSE f[y]]
Without(f, x) == [y \in DOMAIN f \ {x} |-> f[y]]

-----------------------------------------------------------------------------
(* The helpers on headers, as functions of the header map.                 *)

Fits(a, size) == size + hdr[a].asize < hdr[a].size

hdr_should_split(a, size) == hdr[a].size > size + 2 * HDR

hdr_split(H, a, size) ==
  LET new == a + HDR + size IN
  With([H EXCEPT ![a] = [@ EXCEPT !.next = new, !.size = size]],
       new, [next |-> H[a].next, size |-> H[a].size - size - HDR, asize |-> 0])

hdr_can_mergeLeft(H, left, right) == H[left].asize = 0

hdr_can_merge(H, left, right) == H[left].asize = 0 /\ H[right].asize = 0

hdr_mergeShort(H, left, right) ==
  Without([H EXCEPT ![left] = [@ EXCEPT !.next = H[right].next,
                                        !.size = H[left].size + H[right].size]], right)

hdr_merge(H, left, right) ==
  Without([H EXCEPT ![left] = [@ EXCEPT !.next = H[right].next,
                                        !.size = H[left].size + HDR + H[right].size]], right)

(* arena_alloc, past its assertion, and arena_append: a new arena where    *)
(* mmap finds room, at the end of the list of arenas; its one header leads *)
(* to the first of all.                                                    *)
TooSmall(size) == size <= ARENA + HDR

Overlaps(base, size) ==
  \E b \in DOMAIN arenas : base < b + arenas[b].size /\ b < base + size

LastArena == CHOOSE b \in DOMAIN arenas : arenas[b].next = NULL

NewArenaAlone(base, size) ==
  LET new == base + ARENA IN
  /\ ~ TooSmall(size)
  /\ ~ Overlaps(base, size) /\ base + size <= TOP
  /\ Cardinality(DOMAIN arenas) < MaxArenas
  /\ arenas' = With(IF first_arena = NULL THEN arenas
                    ELSE [arenas EXCEPT ![LastArena] = [@ EXCEPT !.next = base]],
                    base, [next |-> NULL, size |-> size])
  /\ first_arena' = IF first_arena = NULL THEN base ELSE first_arena
  /\ at' = new
  /\ hdr' = With(IF first_arena = NULL THEN hdr ELSE [hdr EXCEPT ![at] = [@ EXCEPT !.next = new]],
                 new, [next |-> new, size |-> size - ARENA - HDR, asize |-> 0])

NewArena(base, size) ==
  LET new == base + ARENA IN
  /\ ~ TooSmall(size)
  /\ ~ Overlaps(base, size) /\ base + size <= TOP
  /\ Cardinality(DOMAIN arenas) < MaxArenas
  /\ arenas' = With(IF first_arena = NULL THEN arenas
                    ELSE [arenas EXCEPT ![LastArena] = [@ EXCEPT !.next = base]],
                    base, [next |-> NULL, size |-> size])
  /\ first_arena' = IF first_arena = NULL THEN base ELSE first_arena
  /\ at' = new
  /\ hdr' = With(IF first_arena = NULL THEN hdr ELSE [hdr EXCEPT ![at] = [@ EXCEPT !.next = new]],
                 new, [next |-> IF first_arena = NULL THEN new ELSE FirstHeader,
                       size |-> size - ARENA - HDR, asize |-> 0])

-----------------------------------------------------------------------------
(* The client, and how a call ends.                                        *)

Begin(fun, ptr, size, where) ==
  /\ pc = "idle" /\ status = "ok"
  /\ fun \in Calls /\ calls < MaxCalls
  /\ calls' = calls + 1
  /\ call' = [fun |-> fun, ptr |-> ptr, size |-> size]
  /\ pc' = where
  /\ UNCHANGED << heap, live, walk, status >>

CallMmalloc == \E size \in Sizes :
  Cardinality(DOMAIN live) < MaxLive /\ Begin("mmalloc", NULL, size, "mmalloc")

CallMfree == \E ptr \in DOMAIN live : Begin("mfree", ptr, 0, "mfree")

CallMrealloc == \E ptr \in DOMAIN live \cup {NULL}, size \in Sizes :
  /\ ptr = NULL => Cardinality(DOMAIN live) < MaxLive
  /\ Begin("mrealloc", ptr, size, "mrealloc")

Return == pc' = "idle" /\ call' = NoCall /\ h' = NULL /\ at' = NULL /\ second' = FALSE

Ends(how) ==
  /\ status' = how
  /\ UNCHANGED << heap, live, pc, call, walk >>

-----------------------------------------------------------------------------
(* mmalloc(), and first_fit().                                             *)

In(where) == pc = where /\ status = "ok" /\ UNCHANGED calls

MmallocArena ==
  /\ In("mmalloc")
  /\ first_arena = NULL
  /\ ~ TooSmall(ArenaFor(call.size))
  /\ \/ \E base \in Bases : NewArena(base, ArenaFor(call.size))
        /\ pc' = "first_fit"
        /\ UNCHANGED << live, call, h, second, status >>
     \/ Return /\ UNCHANGED << heap, live, status >>

MmallocFit ==
  /\ In("mmalloc")
  /\ first_arena # NULL
  /\ at' = FirstHeader
  /\ pc' = "first_fit"
  /\ UNCHANGED << heap, live, call, h, second, status >>

FitFound ==
  /\ In("first_fit")
  /\ at \in DOMAIN hdr
  /\ Fits(at, call.size)
  /\ h' = at
  /\ pc' = "place"
  /\ UNCHANGED << heap, live, call, at, second, status >>

FitNext ==
  /\ In("first_fit")
  /\ at \in DOMAIN hdr
  /\ ~ Fits(at, call.size) /\ hdr[at].next # FirstHeader
  /\ at' = hdr[at].next
  /\ UNCHANGED << heap, live, pc, call, h, second, status >>

(* The walk is back at the first header: a new arena, or no memory.        *)
FitGrow ==
  /\ In("first_fit")
  /\ at \in DOMAIN hdr
  /\ ~ Fits(at, call.size) /\ hdr[at].next = FirstHeader
  /\ ~ TooSmall(ArenaFor(call.size))
  /\ \/ \E base \in Bases : NewArena(base, ArenaFor(call.size))
        /\ UNCHANGED << live, pc, call, h, second, status >>
     \/ /\ IF call.fun = "mrealloc" /\ call.ptr # NULL
             THEN status' = "segv" /\ UNCHANGED << pc, call, walk >>  \* memcpy to NULL
             ELSE status' = status /\ Return
        /\ UNCHANGED << heap, live >>

(* The assertion of arena_alloc, for the first arena or for a further one. *)
ArenaAssert ==
  /\ \/ In("mmalloc") /\ first_arena = NULL
     \/ /\ In("first_fit")
        /\ at \in DOMAIN hdr
        /\ ~ Fits(at, call.size) /\ hdr[at].next = FirstHeader
  /\ TooSmall(ArenaFor(call.size))
  /\ Ends("assert")

FitWild == In("first_fit") /\ at \notin DOMAIN hdr /\ Ends("wild")

(* The rest of mmalloc; mrealloc then copies, and frees the old block.     *)
Place ==
  /\ In("place")
  /\ hdr[h].asize = 0 /\ call.size > 0
  /\ LET H == IF hdr_should_split(h, call.size) THEN hdr_split(hdr, h, call.size) ELSE hdr
     IN  hdr' = [H EXCEPT ![h] = [@ EXCEPT !.asize = call.size]]
  /\ live' = With(live, h + HDR, call.size)
  /\ IF call.fun = "mrealloc" /\ call.ptr # NULL
       THEN pc' = "mfree" /\ UNCHANGED << call, walk >>
       ELSE Return
  /\ UNCHANGED << arenas, first_arena, status >>

(* The assertions of hdr_should_split.                                     *)
PlaceAssert ==
  /\ In("place")
  /\ hdr[h].asize # 0 \/ call.size = 0
  /\ Ends("assert")

-----------------------------------------------------------------------------
(* mfree(), and hdr_get_prev(): a merge forward, then one backward.        *)

Block == call.ptr - HDR

Mfree ==
  /\ In("mfree")
  /\ call.ptr # NULL
  /\ hdr[Block].next # Block
  /\ LET H == [hdr EXCEPT ![Block] = [@ EXCEPT !.asize = 0]]
         right == H[Block].next
     IN  hdr' = IF hdr_can_merge(H, Block, right) THEN hdr_merge(H, Block, right) ELSE H
  /\ live' = Without(live, call.ptr)
  /\ h' = Block /\ at' = Block /\ second' = FALSE
  /\ pc' = "hdr_get_prev"
  /\ UNCHANGED << arenas, first_arena, call, status >>

(* The assertions of mfree and of hdr_can_merge (left != right).           *)
MfreeAssert ==
  /\ In("mfree")
  /\ call.ptr # NULL => hdr[Block].next = Block
  /\ Ends("assert")

PrevNextEndless ==
  /\ In("hdr_get_prev")
  /\ second' = (second \/ at = h)
  /\ at' = hdr[at].next
  /\ UNCHANGED << heap, live, pc, call, h, status >>

PrevNext ==
  /\ In("hdr_get_prev")
  /\ hdr[at].next # h /\ ~ (at = h /\ second)
  /\ second' = (second \/ at = h)
  /\ at' = hdr[at].next
  /\ UNCHANGED << heap, live, pc, call, h, status >>

MergeBack(merge) ==
  /\ In("hdr_get_prev")
  /\ hdr[at].next = h \/ (at = h /\ second)
  /\ hdr' = IF merge /\ at < h /\ hdr_can_merge(hdr, at, h) THEN hdr_merge(hdr, at, h) ELSE hdr
  /\ Return
  /\ UNCHANGED << arenas, first_arena, live, status >>

PrevFoundOnly == MergeBack(FALSE)

PrevFound == MergeBack(TRUE)

-----------------------------------------------------------------------------
(* mrealloc()                                                              *)

MreallocZero ==
  /\ In("mrealloc")
  /\ call.size = 0
  /\ pc' = "mfree"
  /\ UNCHANGED << heap, live, call, walk, status >>

MreallocShrinkUnsplit ==
  /\ In("mrealloc")
  /\ call.size # 0 /\ call.ptr # NULL /\ call.size <= hdr[Block].asize
  /\ hdr' = [hdr EXCEPT ![Block] = [@ EXCEPT !.asize = 0]]
  /\ live' = [live EXCEPT ![call.ptr] = call.size]
  /\ Return
  /\ UNCHANGED << arenas, first_arena, status >>

MreallocShrink ==
  /\ In("mrealloc")
  /\ call.size # 0 /\ call.ptr # NULL /\ call.size <= hdr[Block].asize
  /\ LET H == IF hdr_should_split(Block, call.size) THEN hdr_split(hdr, Block, call.size) ELSE hdr
     IN  hdr' = [H EXCEPT ![Block] = [@ EXCEPT !.asize = call.size]]
  /\ live' = [live EXCEPT ![call.ptr] = call.size]
  /\ Return
  /\ UNCHANGED << arenas, first_arena, status >>

MreallocGrow ==
  /\ In("mrealloc")
  /\ call.size # 0
  /\ call.ptr # NULL => call.size > hdr[Block].asize
  /\ pc' = "mmalloc"
  /\ UNCHANGED << heap, live, call, walk, status >>

-----------------------------------------------------------------------------
Step ==
  \/ MmallocArena \/ MmallocFit \/ FitFound \/ FitNext \/ FitGrow \/ ArenaAssert \/ FitWild
  \/ Place \/ PlaceAssert
  \/ Mfree \/ MfreeAssert \/ PrevNext \/ PrevFound
  \/ MreallocZero \/ MreallocShrink \/ MreallocGrow

(* The program was aborted or got lost, or the client calls no more.       *)
Over == (status # "ok" \/ pc = "idle") /\ UNCHANGED vars

Next == CallMmalloc \/ CallMfree \/ CallMrealloc \/ Step \/ Over

Spec == Init /\ [][Next]_vars
FairSpec == Spec /\ WF_vars(Step)

-----------------------------------------------------------------------------
TypeOK ==
  /\ first_arena \in DOMAIN arenas \cup {NULL}
  /\ \A b \in DOMAIN arenas : /\ b \in Bases
                              /\ arenas[b].next \in DOMAIN arenas \cup {NULL}
                              /\ arenas[b].size % PAGE = 0
  /\ \A a \in DOMAIN hdr : hdr[a].size \in Nat \ {0} /\ hdr[a].asize \in 0 .. hdr[a].size
  /\ \A ptr \in DOMAIN live : live[ptr] \in Nat
  /\ pc \in {"idle", "mmalloc", "first_fit", "place", "mfree", "hdr_get_prev", "mrealloc"}
  /\ call.fun \in Calls \cup {"none"}
  /\ status \in {"ok", "assert", "segv", "wild"}

(* Where the block at header a ends, and the arena it is in.               *)
End(a) == a + HDR + hdr[a].size
ArenaOf(a) == CHOOSE b \in DOMAIN arenas : b < a /\ a < b + arenas[b].size

(* The blocks tile the arenas: the block after a block begins where it     *)
(* ends, none begins within it, and the last one of an arena, which ends   *)
(* where the arena does, leads to the first one of the next arena, or back *)
(* to the very first.  (TypeOK says that no block is marked with more than *)
(* its size.)                                                              *)
Tiling ==
  /\ TypeOK
  /\ \A b \in DOMAIN arenas : b + ARENA \in DOMAIN hdr
  /\ \A a, c \in DOMAIN hdr : c <= a \/ End(a) <= c
  /\ \A a \in DOMAIN hdr : \E b \in DOMAIN arenas :
       /\ b + ARENA <= a
       /\ \/ End(a) \in DOMAIN hdr /\ End(a) < b + arenas[b].size /\ hdr[a].next = End(a)
          \/ /\ End(a) = b + arenas[b].size
             /\ hdr[a].next = IF arenas[b].next = NULL THEN FirstHeader ELSE arenas[b].next + ARENA

(* The client owns what it was given, and only that is in use: each of its *)
(* pointers is the data of a block marked with the size it asked for, and  *)
(* every block that is marked is one of its own.  With Tiling, no two of   *)
(* its areas overlap.                                                      *)
Ownership ==
  /\ \A ptr \in DOMAIN live :
       ptr - HDR \in DOMAIN hdr /\ hdr[ptr - HDR].asize = live[ptr]
  /\ \A a \in DOMAIN hdr : hdr[a].asize # 0 => a + HDR \in DOMAIN live

(* The two together: no byte belongs to two owners, and none to nobody.    *)
Sound == Tiling /\ Ownership

(* Wherever mmap puts an arena, and whatever was given back before, only   *)
(* the merges of mfree can put an end to that: it survives every new       *)
(* arena, every split and every walk.                                      *)
SoundKept == [][Sound /\ pc \notin {"mfree", "hdr_get_prev"} => Sound']_vars

(* The free blocks that another free block follows, but for the one just   *)
(* given back, which mfree has still to join with the block before it.     *)
Unjoined ==
  {a \in DOMAIN hdr :
     /\ End(a) \in DOMAIN hdr
     /\ hdr[a].asize = 0 /\ hdr[End(a)].asize = 0
     /\ ~ (pc = "hdr_get_prev" /\ End(a) = h)}

(* Memory that is given back is joined with the free memory on both sides: *)
(* no step of mmalloc or mfree makes more free blocks lie side by side.    *)
(* Only mrealloc does, which does not join the rest of a block it shrinks. *)
FreeJoins == [][pc # "mrealloc" => Cardinality(Unjoined') <= Cardinality(Unjoined)]_vars

AssertionFails ==
  \/ pc = "place" /\ call.size = 0
  \/ pc = "place" /\ call.size <= 2 * HDR /\ hdr[h].asize # 0
  \/ pc \in {"mmalloc", "first_fit"} /\ call.size + ARENA + HDR + PAGE > SIZE_MAX + 1
  \/ pc = "mfree" /\ call.ptr = NULL
  \/ pc = "mfree" /\ DOMAIN hdr = {Block}

FirstHeaderLost ==
  /\ FirstHeader \notin DOMAIN hdr
  /\ \E a \in DOMAIN hdr : End(a) > first_arena + arenas[first_arena].size

(* Why a program with one arena ends.  An assertion fails for a request of *)
(* 0 bytes, for one so small that first_fit takes a block in use with that *)
(* much to spare, for one so large that the size of its arena wraps around *)
(* to nothing, when NULL is given back, or when the only block there is.   *)
(* memcpy writes to NULL only when mrealloc cannot get the memory.  And    *)
(* the list loses its first header only by a merge with the last block,    *)
(* behind which there is none: that block now reaches beyond the arena.    *)
ExitReasons ==
  Cardinality(DOMAIN arenas) <= 1 =>
    /\ status = "assert" => AssertionFails
    /\ status = "segv" => \A a \in DOMAIN hdr : ~ Fits(a, call.size)
    /\ status = "wild" => FirstHeaderLost

(* Blocks are merged when they are "free and adjacent in the same arena"   *)
(* (mmal.c:220): no block reaches beyond its arena.                        *)
InsideArena ==
  \A a \in DOMAIN hdr : End(a) <= ArenaOf(a) + arenas[ArenaOf(a)].size

(* Every call returns.                                                     *)
Returns == pc # "idle" ~> pc = "idle"
=============================================================================
