# Verification of the school projects

The repository is a collection of programs written for university courses (FIT VUT). They share no
code, no state and no messages; each is a system of its own. This directory models those with a
core logic worth checking: TLA+ modules written from their sources, TLC configurations that check
them on small instances, and proofs, checked by TLAPS, of what matters most about most of them:
the bus simulation, psed, mmal, the DHCPv6 relay, the DNS over HTTP server, the data structures,
wordcount with its table, the sieve with its programs and ipk-sniffer.

Contents: [inventory](#inventory) · [modules](#modules) · [runs](#runs) ·
[components one by one](#components) · [fairness](#fairness) · [proofs](#proofs) ·
[where the code departs from its documents](#where-the-code-departs-from-its-documents) ·
[not modelled](#not-modelled) · [plan](#plan)

`tlc -config X.cfg M` runs a configuration of the table below on its module; `tlapm M.tla` checks a
module of proofs. Everything is listed in `PROJECT.json`: which lines of the source every
definition stands for, the hazards of the code and the properties aimed at each, the theorems, and
for every property a slip in the model (a dropped guard, an off-by-one) that it is known to notice.

## Inventory

| component | state it keeps | operations and interaction | what is hard | what makes it correct |
|---|---|---|---|---|
| **bus simulation** `sem_2/ios/proj_2/proj2.c` | five POSIX semaphores, four counters in shared memory, `n` and `i` of the bus | main forks the bus and a generator, which forks the riders; they meet only at semaphores | interleavings, counters read without their lock, forks that fail, termination | nobody joins during boarding, exactly min(queue, C) board, as many are let go, all are carried |
| **its resources** same file, `set_resources`, `clean_resources` | semaphore names and memory segments, which outlive the process | runs of the program meet at the names | a run killed half way, two runs at once | private semaphores, nothing left behind |
| **psed** `sem_3/ips/proj_1/psed.c` | a mutex per thread used as a semaphore, two real ones, `threadIdDone`, `line` | main hands a line to all threads; they print in turn by spinning on `threadIdDone` | mutexes unlocked by threads that do not own them, a line freed by main, the empty input | the output is the sequential one, `line` is not freed while in use, the end |
| **mmal** `sem_3/ips/proj_2/mmal.c` | arenas from `mmap`, a circular list of block headers | `mmalloc`, `mfree`, `mrealloc` | walks over a list that merges change, boundary sizes, several arenas | blocks tile the arenas, the client owns what it got, walks end |
| **d6r** `sem_5/isa/proj/d6r.cpp` | a map of client addresses, raw sockets | a sniffing thread per interface, a thread for the server's answers; the map is shared without a lock | reordering, duplicates, restarts, races, leaked descriptors | answers reach the client they are for, the log tells the truth |
| **DNS over HTTP** `sem_6/ipk/proj1/src/*.java` | per connection a handler, its request and response | accept loop, a thread per connection, resolution | bodies in pieces, clients that leave, exceptions | right statuses, one answer per query in order, one client cannot block another |
| **wordcount** `sem_2/ijc/proj_2` | a hash table of linked items | `get_word`, and the calls of `htab.h`, of which the program uses some | ends of the input, words too long, items relinked while they are walked over | the counts, a sound table, the end |
| **queue** `sem_3/ial/proj_1/c203` | an array, two indices | 5 calls | wrap-around, full and empty | a FIFO |
| **lists** `sem_3/ial/proj_1/c201`, `c206` | linked elements, an active one | 11 and 18 calls | empty and one-element lists, failing `malloc` | a sequence with a cursor |
| **hash table** `sem_3/ial/proj_2/c016` | chains | 6 calls | deletion in a chain | a dictionary |
| **trees** `sem_3/ial/proj_2/c401`, `c402` | linked nodes; for c402 two bounded stacks | search tree; traversals without recursion | deletion of inner nodes, stacks at their limit | a dictionary; each node once, in order |
| **tail** `sem_2/ijc/proj_2/tail.c`, `tail2.cc` | a ring of lines | one pass over the input, character by character | rows reused in the ring, lines too long, input without a last newline | the last lines of the input, the end |
| **bit array, sieve, ppm** `sem_2/ijc/proj_1` | an array of bits, a picture in memory | set and read a bit, sieve; print primes, decode a message | sizes at their limits, places behind the picture | just the primes stay, the message comes out |
| **ipk-sniffer** `sem_6/ipk/proj2` | the filter and a counter of packets | a callback of libpcap | what counts, what is shown, a counter that wraps | the packets asked for are shown, as many as asked for |
| **wedi, disk exercises, web pages** | none, or a log file | shell scripts and presentation | text processing, I/O | not modelled |

## Modules

| module | extends or instantiates | what it is |
|---|---|---|
| `Bus` | `BusStop` | the processes of the bus simulation |
| `BusStop` | | abstract: what the bus stop promises its riders |
| `BusProofs` | `Bus` | the proofs about it |
| `BusRuns` | | the runs of the program `BusResources` is about, as constants |
| `BusResources` | `BusRuns` | names and segments of several runs of the same program |
| `BusResourcesProofs` | `BusResources` | the proofs about it |
| `Psed` | `PsedOutput` | the threads of psed |
| `PsedOutput` | | abstract: the sequential output |
| `PsedProofs` | `Psed` | the proofs about it |
| `Mmal` | | the allocator |
| `MmalProofs` | `Mmal` | the proofs about it |
| `Relay` | | the DHCPv6 relay with its clients, the network and restarts |
| `RelayProofs` | `Relay` | the proofs about it |
| `Answer` | | what the relay reads in one answer after another, option by option |
| `Http` | | the DNS over HTTP server with its clients |
| `HttpProofs` | `Http` | the proofs about it |
| `Htab` | | the hash table of wordcount as operators on sequences |
| `Wordcount` | `Htab` | the program that uses it |
| `HtabItems` | `Htab` | the same table as items linked by pointers, call by call |
| `LastLines` | | tail.c, and what tail2.cc prints of the same input |
| `Primes` | | bit array, sieve, primes, ppm and steg-decode |
| `Sniffer` | | the filter and the callback of ipk-sniffer |
| `Fifo`, `CursorList`, `Dictionary` | | abstract: what the data structures promise |
| `Queue` | `Fifo` | c203 |
| `DList`, `SList` | `CursorList` | c206 and c201, pointer by pointer |
| `HashTable`, `Bst` | `Dictionary` | c016 and c401 |
| `Bt`, `Trees` | | c402; paths in trees |
| `StructuresProofs` | `MCStructures` | the proofs about the lists, the hash table and the search tree, as they are put together there, and the queue |
| `ProgramsProofs` | `MCPrograms` | the proofs about wordcount, about the sieve with its two programs and about ipk-sniffer |
| `MC*` | | instances for TLC. Most put several specifications side by side in one run, and a variable `which`, chosen at the start, says whose steps a behaviour has; the others stay as they are initialised. `MCBusRuns` has `Bus` and `BusResources`, `MCProcesses` `Bus` and `Psed` with their fairness, `MCMmalRuns` two instances of `Mmal`, `MCRelay` `Relay` and `Answer`, `MCStructures` all data structures of sem_3/ial, `MCPrograms` the programs that run alone |

Conventions. Variables and actions have the names of the source where TLA+ allows it. An operator
named after an action with a suffix (`RiderCountUnlocked`, `BusLetGoShort`) is the action with a
plausible slip in it. No action of the specifications uses one: it documents what the properties
would notice, and stands before the right form. The header of each module says what it abstracts.

## Runs

| run | module | bounds | distinct states | what it shows |
|---|---|---|---|---|
| `Bus` | `MCBusRuns` | 3 riders, capacity 2; 2 runs of the program | 233 950 | `TypeOK`, `Exclusion`, `Handshake`, `Counters`, `Tickets`, `BusFinishes`, that `Bus` implements `BusStop` (`StopSpec`); `PrivateSemaphores`, `Erased` |
| `Processes` | `MCProcesses` | 3 threads, inputs of at most 3 lines; 2 riders, capacity 1 | 7 372 | of psed `LineStable`, `MutexUse`, `OutputInOrder` (`Psed` implements `PsedOutput`), `PsedEnds`; of the bus `BusEnds`, `NobodyStranded` |
| `Mmal` | `MCMmalRuns` | 6 calls, 4 live blocks, 3 sizes, 1 arena; 5 calls, 7 sizes from 0 to the largest but one, 3 places for arenas | 616 143 | `RoomySound`, `RoomyFreeJoins`, `RoomyReturns`; `ExitReasons`, `SoundKept` |
| `Relay` | `MCRelay` | 2 interfaces, 3 clients, 2 messages, 2 answers, 2 descriptors, 2 starts; of `Answer` 2 answers with 1 or 2 of 8 options | 310 952 | `Delivery`, `LogTruth`, `EndReasons`, `Understood`, `Forwarded` |
| `Http` | `MCHttp` | 2 connections, about 40 requests | 570 348 | `Accepted`, `Fulfilled`, `Answers`, `Unanswered`, `Served` |
| `Programs` | `MCPrograms` | inputs of 8 characters for wordcount and 6 for tail; 3 items in 2 or 4 buckets; sieves of up to 50, pictures of 1 to 6 points; 6 packets, 4 of them captured | 337 037 | `Counts`, `LastLinesPrinted`, `SieveRight`, `PacketsShown`, `TableImplemented`, `ProgramsEnd` |
| `Structures` | `MCStructures` | an array of 4, 3 elements, 4 keys in 3 chains, trees of 5 nodes, a stack of 4 | 12 550 | `FifoSpec`, `ListsImplemented`, `DictionariesImplemented`, `TraversalsRight` |
| `PsedEmpty` | `MCPsed` | 2 threads, at most 1 line | violation | `QuietEnd` fails: on an empty input a wild pointer is freed |
| `MmalArenas` | `MCMmal` | 4 calls, 2 arenas side by side | violation | `InsideArena` fails: blocks of different arenas are merged |
| `BusSegments` | `MCBusResources` | 2 runs of the program | violation | `SegmentsRemoved` fails: clean_resources leaves the segment of counter |
| `HtabMove` | `MCPrograms` | as `Programs` | violation | `AllMoved` fails: htab_move leaves items behind |
| `SnifferDisplayed` | `MCPrograms` | as `Programs` | violation | `Displayed` fails: packets that are not shown count for -n |

Some properties contain the type invariant of their module as their first conjunct (`Delivery`,
`Understood`, `MutexUse`, `Answers`, `Counts`, `LastLinesPrinted`, `SieveRight`, `PacketsShown`, `Sound`,
`PrivateSemaphores`), and some join what belongs together: `Exclusion` is `LogExclusion` and
`StopExclusion`, `Erased` what `clean_resources` takes away, `RoomySound` is
`Sound` of the roomy instance of `Mmal`, that is `Tiling` and `Ownership`, `MutexUse` `UnlocksLocked` and `DeletesUnused`. Deadlock is checked except in `Relay`, `Http`,
`Programs` (and the two runs with its bounds) and `Structures`: there the bounds on messages and calls, or the end of the program,
stop the system for good. In `Bus`, `Psed`, `Mmal` and `BusResources` the end is an action of its
own (`Exited`, `Ended`, `Over`), so that any other standstill is an error.

## Components

### Bus (`proj2.c`)

Program points: `main`, `gen`, `bus` and `rider[r]` are where each process is; the local variables
`n`, `i` and the shared `waiting`, `ridCounter`, `transported` and the semaphores keep their names.
`logging` is the set of processes inside a `sem_mutex2` section. Every `sem_wait` is a step of its
own (`BusAcquire`, `LogEnter`, `RiderStop`, `RiderCount`, `RiderWaitBus`, ...); what lies between
two semaphore operations is one step, which is sound because the variables touched there are
private for that time: `Exclusion` says so, `StopExclusion` for the stop and `LogExclusion` for the
log. `transported` is read by the bus without its lock (line 280); the module reads it in one step,
as an `int` is read. `fork` may fail at each of its three places. Left out: `usleep`, the texts of
the log, and `*counter`, which is only a line number used inside `sem_mutex2`.

- `Counters`: `waiting` is the length of the queue plus those who boarded on this trip, which the
  bus subtracts all at once at the end (lines 313-325); `n`, computed on arrival, is not stale when
  used; `transported` counts those who said so.
- `Tickets`: permissions to finish are conserved. They carry no name: a rider of one trip may take
  the one meant for a rider of the trip before (line 370), so only their number is right, and that
  is why `BusStop!Leave` lets any rider aboard use any of them.
- `BusFinishes`: the loop `while (R > *transported)` ends only when all are carried, although the
  last riders of a trip report (line 366) without the bus waiting for them: it makes empty trips
  until they have.
- `StopSpec`: all of it together implements `BusStop`, in which there are no semaphores.
- `Termination` (in the run, `BusEnds`) excepts failed forks: then the bus, which counts on R riders, loops for ever. The
  clean-up after a failed fork only unlinks names; the processes that run keep their semaphores. `NobodyStranded` holds even so:
  a rider that was started finishes.

Bounds: with three riders and room for two there are full, partial and empty trips, a rider that
comes while the door is open, and permissions of two trips at once; every further rider repeats a
role. The theorems hold for any number of riders and any capacity.

`BusResources` models what `Bus` takes for granted: `set_resources` (188-248) goes through the five
names and four segments one by one, and may fail at each; `clean_resources` (250-274) unlinks all
names, whoever made them. A run may be killed anywhere. Two runs are enough for every conflict,
which is between a run and the name another has made or unlinked; symmetric in the runs. `Erased` claims of the
segments that those of waiting, transported and ridCounter go; that of counter is the matter of `SegmentsRemoved`,
which fails.

### Psed (`psed.c`)

`main` and `j` are the main thread; `pc[t]` the threads. `zamky` is the set of locked mutexes of
that array, `threadIdMutex` and `stdOutMutex` name their holder. `line` is a number, `live` the
lines whose memory is allocated, `result[t]` what that pointer is worth, `out` the pairs of line
and thread that were printed. `lock()` is a step; what is done under a mutex up to `unlock()`
another. A bad regular expression ends the process (`fate = "badRegex"`).

The threads do not own the mutexes they unlock, which POSIX leaves undefined; the module takes them
for what pthread implements, binary semaphores, and `UnlocksLocked` (in `MutexUse`) shows that no
unlock meets a free one. `LineStable` says that no thread uses `line` while main frees or replaces
it, though no lock protects it; `OutputInOrder` that the whole is sequential. Three threads and
three lines have a first, a middle and a last thread and line; the theorems hold for all.

### Mmal (`mmal.c`)

Addresses are numbers; a header is at its address in `hdr` from the time it is written until it is
merged away. One call at a time, but `first_fit` and `hdr_get_prev` take one step per header
(`FitNext`, `PrevNext`), since whether they end depends on the list. `HDR`, `ARENA` and `PAGE` scale
the sizes: 3 : 2 for the 24 and 16 bytes of the structures. A request is any `size_t` up to `SIZE_MAX`, and the sums that
add headers and slack to it wrap around as in the code (:84, :267, :320): an arena may come out too small for the
request, so that another is asked for, or of no size, which the assertion of :103 meets. `mmap` gives memory below `TOP` only, so the sizes of
blocks are far from wrapping. Three instances:

- `roomy` (in `MCMmalRuns`): the regime the allocator is made for, one arena and requests of at least two
  headers. All orders of six calls on at most four blocks, which is enough for a free block on
  either side of the one given back and on both, and for `mrealloc` to shrink, grow and move.
  `mrealloc` leaves the rest of a shrunk block unjoined; `FreeJoins` makes that its only exception.
- the edges (in `MCMmalRuns`): requests of 0 and 1 byte, exact fits, requests whose arena wraps around to a page and to
  nothing, arenas placed next to each other, before and apart. Here assertions fail and lists lose their head: `ExitReasons` says exactly when, for one
  arena. After a merge across arenas memory is corrupted, which is not modelled further:
  `SoundKept` has `Sound` as a premise and leaves out the steps of `mfree`.
- `MmalArenas`: two arenas, the finding.

### Relay (`d6r.cpp`)

A client message is its number in `sent`; `captured[i]` holds the packets the thread of interface i
has still to see, `toServer` and `delivered` what left the relay. The network loses, duplicates and
reorders: `toServer` is a set that only grows, and an answer to anything in it may come at any time
and any number of times. The handler of a packet takes four steps (`Insert`, `Inserted`, `Socket`,
`Forward`), the one of an answer up to four (`Find`, `Found`, `ServiceSocket`, `Send`). `std::map` has no
atomic operation: when an insert overlaps another access, `raced` is set, and from then on the map
may lose entries or have two of one key, crash, or hold the thread that inserts or finds for ever (`hung`). `ether_ntoa` (362) writes into one static buffer, `asc`: when two threads convert
an address at the same time, one may copy the text of the other's, or a mixture. `Restart` loses the map and the descriptors, never the messages on the network.

`LogTruth` says whom a logged hardware address may be: a client that has the address the answer is for and was
heard since the start (which one of several is open, as insert does not overwrite), or a client whose message was
converted at the same moment as that client's. `met` records just these pairs of messages, so a client of another
link is no excuse by itself. Nobody is named only after such a meeting, after a race in the map, or for an address
none of whose messages was forwarded since the start. `EndReasons`: the relay crashes by the unchecked
`find()->second` (line 481) only after a restart or a race, and a thread hangs only after a race. `Forwarded` excepts
the messages of a link whose thread hangs, and no others; it is checked of the last start, which may follow the one
before at once and so does all that a start can do. One descriptor is lost for each client message (line 366).
Two links, with a link-local address in use on both and another one, are all that `Delivery`
distinguishes.

### DNS over HTTP (`Server.java`, `Handler.java`, `Request.java`, `DnsRequest.java`, `Response.java`)

A client sends a sequence of tokens (request line, header lines, empty line, texts and newlines of
the body) of which `arrived[c]` have come; `handler[c].filled` are those its `BufferedReader` took
over and `read` those consumed. A client may stop, close or reset anywhere. Resolution may find a
name or not. `MCHttp` enumerates requests with each part present, absent or wrong: methods, paths,
each parameter missing, valueless, repeated or foreign, lengths too small, too large, repeated or no
number, bodies with texts and newlines at every edge. A Content-Length for which there is no memory (`Spare`
tokens are always there) ends the thread by an error that is not caught (Request.java:94, Handler.java:49), and an
exception of `accept()` ends the accept loop for good (`AcceptFails`), at any time: `Served` then claims nothing of
those who wait to be accepted, and all of those who were. `line` is the place of the next line of the body
in `processPost`, `answers` what was found so far. Handlers share nothing, so one arbitrary and
one good client are enough for `Served`.

### Answer (`d6r.cpp`, `process_msg_from_server`)

`buffer` maps each offset at which a field of a message begins to the field; where none begins, the
code may read anything (`OptionRead`). `recvfrom` overwrites only the beginning, so that fields of
an earlier answer may follow those of the present one. Each turn of the three loops (399, 426, 456)
is a step, with the pointers as offsets (0 for NULL). The format is that of RFC 8415, laid out by
`RelayReply` from the messages a server may answer: the interface name before or behind the message,
or missing; associations of addresses, temporary addresses and prefixes, with and without a status,
with and without an address; another option. Two options are one before and one behind the
association that counts, and two answers a stale one and a present one.

`Understood`: what is sent on, over which interface, and the address that is logged are those of the
present answer. The exception is an association without an address, as in a refusal: the walk goes
on behind it, to an option that is not its own, or to the end, where `inet_ntop` dereferences NULL
(477). `Relay` has that end as "no address"; an answer as a whole is a step there, and `Answer` says
what the step takes from it.

### Wordcount (`wordcount.c`, `io.c`, `htab_*.c`)

One step per character. `Htab` has the table as operators: a record of size and chains. The hash is
taken modulo the number of buckets at every step, which is the same index as in the code, whose
arithmetic is modulo 2^32, since the number of buckets (2048) is a power of two. Eight characters
hold two words too long, or a word that occurs three times, and every arrangement of blanks around
them; with two buckets the words collide.

`HtabItems` is the same table in memory: `mem` maps the addresses of items to them, `t.ptr` the
buckets to the first ones. Every call of `htab.h` is a step, but for `htab_move`, which takes one per
item because it need not return. `TableImplemented` compares each with the operator of `Htab` on the
chains. Of `htab_move` it claims, when it returns, the size, the first item of each bucket, and nothing that was not
there. That all items get into the new table is `AllMoved`, which fails: the `next` of an item has been
changed when the walk goes on to it (24, 29); when two of the first items meet in one list the walk goes in a circle. Three
items, of which two share one of two buckets and none one of four, are a first, a last and a lone one.

### Tail (`tail.c`, `tail2.cc`)

`buffer` is the ring with the two extra columns of its rows, `before` the byte in front of it, which
line 105 reads. Both programs are compared with `Ending`, the longest end of the text that has no
more lines than wanted. With rows for two characters and six characters of input there are lines
that are shorter, exact and too long, more lines than the ring has rows, and input that ends anywhere.
An input that ends within a line, or a newline in front of the buffer, is left out of the claim about
what tail.c prints; `ProgramsEnd` excepts the first when that line is too long.

### Primes (`bit_array.h`, `eratosthenes.c`, `primes.c`, `ppm.c`, `steg-decode.c`)

A word is the set of its bits that are 1. A turn of the outer loop of the sieve, and of the loops of
the programs, is a step. The sizes go from nothing to fifty, with words of four bits: below, at and
above the limits of a word, of the squares and of `sizeof`. A byte of a picture is its lowest bit and
whether it is white; pictures have a byte too few or too many, begin with a white one, or
are so large that their size does not fit. `SieveRight` compares with the definition of a prime; of what primes
prints it says which numbers, not in which order.
With these sizes a message is a character of two bits, and its end another one.

### Sniffer (`ipk-sniffer.cpp`)

A filter is the sequence of its alternatives, protocol and port; what libpcap makes of it is `Passes`.
`captured` are the packets the callback got, `shown` the positions of those it printed, with the
addresses and the port it read. With `INT_MAX = 2` the counter wraps within four packets. `PacketsShown` says what
holds of any counter: what is shown are packets asked for, in their order and each once; none of the first num
that pass is left out, and no more than num are shown before the counter wraps; what a line says of an IPv4
packet is its port and no address but its two, and of an IPv6 packet its addresses. Which of its addresses an
IPv4 line has where, and the port of an IPv6 line, are left open. That as many are displayed as `-n` says is
`Displayed`, which fails.

### Structures of `sem_3/ial`

Each module has one action per function of its header, a variable `call` with the last call and
`res` with its answer; the abstract modules have the same two, so that an implementation cannot
pass off a lost item as a call that empties the structure. `DList` and `SList` work on pointers into
`mem`, in which `malloc` may fail; `ListSpec` also demands, for c206, that both chains agree.
`Bt` runs the traversals of c402 one turn of their loops per step with their bounded stacks, and the
disposal node by node; `Traversals` holds at each step: it claims the stacks to hold for trees lower than they are
long, and nothing of higher ones. `MCStructures` checks all of them in one
run: `which` chooses the structure a behaviour is about. Three elements give first, middle, last;
five numbers all shapes of trees a stack of four can just, and just not, take.

## Fairness

| module | assumed | justified by |
|---|---|---|
| `Bus` | strong for taking `sem_mutex` and `sem_mutex2`, weak for everything else | processes are scheduled; a semaphore that is posted again and again does not pass over one waiter for ever. The other semaphores are not contended in a way that needs more |
| `Psed` | strong for taking `threadIdMutex`, weak for everything else | the threads spin by taking it and giving it back; mutexes of glibc are not queues, but do not starve a waiter for ever. `MCProcesses` has the fairness of both; an action of one shares its conjunct with one of the other, which is the same, since only one of them has steps in a behaviour |
| `Mmal` | weak for the steps of a call (of the roomy instance) | it is a sequential program; the client need not call |
| `Http` | weak for `accept`, as long as its loop runs, and for each handler | threads are scheduled; nothing is assumed of the clients |
| `Relay` | weak for the thread of each interface, and for the thread of the server once it has an answer | threads are scheduled, and none waits for another (one that hangs in the map is not fair to anybody and excepted); nothing is assumed of clients, server and operator |
| `Programs` | weak for wordcount, tail and the programs of the sieve, and for the steps of `htab_move` | sequential; the input is given. Nothing makes anybody call the table, or packets come |

`BusResources` and `Structures`, and `Answer` and `Sniffer` within their runs, have safety properties only.

## Proofs

TLC checks the small instances, TLAPS every value of the constants. What is proved:

| theorem | module | property |
|---|---|---|
| `TypeCorrect`, `StopExclusive`, `HandshakeHolds`, `CountersCorrect`, `TicketsConserved`, `BusFinishesLast` | `BusProofs` | the invariants of the run `Bus` about the simulation |
| `CapacityRespected` | `BusProofs` | `Capacity`: never more than C riders aboard; a consequence of the above, not checked by a run of its own |
| `BusImplementsStop` | `BusProofs` | `StopSpec` |
| `SemaphoresArePrivate`, `ErasedInvariant` | `BusResourcesProofs` | `PrivateSemaphores`, `Erased` |
| `TypeCorrect`, `LineIsStable`, `UnlocksAreMatched`, `DeletionIsSafe`, `MutexesWellUsed` | `PsedProofs` | the invariants of the run `Processes` about psed |
| `PsedPrintsInOrder` | `PsedProofs` | `OutputInOrder` |
| `DeliveryInvariant` | `RelayProofs` | `Delivery` |
| `LogTruthInvariant`, `EndReasonsInvariant` | `RelayProofs` | `LogTruth`, `EndReasons` |
| `SoundInvariant`, `FreeJoinsHolds` | `MmalProofs` | `Sound`, `FreeJoins`, when all that may be asked for has room in a page |
| `ExitReasonsInvariant` | `MmalProofs` | `ExitReasons` |
| `SoundSurvives` | `MmalProofs` | `SoundKept`, with any number of arenas |
| `SoundWhileFirstHeader`, `OwnershipInvariant`, `FreeJoinsOneArena` | `MmalProofs` | what is left of `Sound` and `FreeJoins` for requests of any size, as long as there is one arena |
| `AcceptedInvariant`, `FulfilledInvariant`, `AnswersInvariant`, `UnansweredInvariant` | `HttpProofs` | the invariants of the run `Http` |
| `TypeCorrect`, `QueueIsFifo` | `StructuresProofs` | c203 implements `Fifo` |
| `DoublyLinked`, `SinglyLinked`, `ListsImplement` | `StructuresProofs` | `ListsImplemented`: c206 and c201 implement `CursorList` |
| `TableIsDictionary`, `SearchTreeIsDictionary`, `DictionariesImplement` | `StructuresProofs` | `DictionariesImplemented`: c016 and c401 implement `Dictionary` |
| `SieveRightInvariant` | `ProgramsProofs` | `SieveRight`: the sieve, primes and steg-decode |
| `CountsInvariant` | `ProgramsProofs` | `Counts`: wordcount with its hash table |
| `TableImplementedHolds` | `ProgramsProofs` | `TableImplemented`: every call of `htab.h` on items in memory does what the operator of `Htab` does |
| `PacketsShownInvariant` | `ProgramsProofs` | `PacketsShown`: ipk-sniffer |

**Bus.** Assumed (`BusAssumption`): finitely many riders, the bus is not one of them, C > 0 (which
`get_arg` enforces). None of the properties is inductive alone: that the stop has one holder needs the
value of its semaphore, the counters need the handshake (a rider between `sem_bus` and `sem_boarded`
has left the queue but is not yet counted by `i`), the end needs all of them. The invariant is

    IInv == TypeOK /\ LogExclusion /\ StopExclusion /\ Handshake /\ StopCount /\ TransportedCount
              /\ Tickets /\ MainOrder /\ LoopExit

where `MainOrder` relates main to the processes it waits for and `LoopExit` says that the bus leaves
its loop only with `transported = R`. One lemma per conjunct shows that `Next` preserves it, one step
per action. Cardinalities of the riders at certain points are handled by two lemmas: a rider that
moves changes the count by at most one (`OneMoves`), and the others change nothing (`SameCounts`). For the
refinement, each action is a step of `BusStop` (a rider's entry is `Join`, `BusStartBoarding` is
`OpenDoor`, ...) or leaves the mapped variables as they are.

**Bus resources.** Assumed (`ResourcesAssumption`): nothing but that `None` is not a run; there may be
infinitely many. The invariant says of every run which semaphores it has opened (`Made`) and which of
its segments are in the system (`Memory`), that who made a name has still to unlink it or is dead
(`Owned`), and that names which a run that is alone has unlinked stay free (`Recovers`): whoever
could make them again would be alive.

**Psed.** Assumed (`PsedAssumption`): at least one thread, some bound on the input. `IInv` is `TypeOK` with four more parts:
which mutex is held by whom at each program point (`Mutexes`), where the threads are in relation to
`threadIdDone` and to main's loop (`Places`, `Progress`), and how long `out` is (`Printed`).
One lemma per action.

**Queue.** Assumed (`QueueAssumption`): `QUEUE_SIZE` is at least 1, values are not the answers. `TypeOK`
is inductive. The refinement maps the array to the sequence of its items from `f_index` on; two
lemmas say that raising `b_index` appends and raising `f_index` takes the tail, modulo the size.

**Lists.** Assumed (`ListsAssumption`): the addresses are finitely many, as many as one likes; `NULL` is none of
them; no value and no answer is the mark of the crash. The invariant (`DListed`, `SListed`) is that the elements
are those of some row, a sequence of addresses without repetition, each linked to its neighbours there,
with the active element one of them. In c206 every allocated element is in the row, in c201 some may be
lost, and after the crash the active pointer dangles. The steps need only two things, an element
put into a row (`Put`) and one cut out of it (`Cut`): lemmas about sequences say what becomes of the neighbours,
of the place of the active element and of the data, and that the abstract list's `With` and `Without` do the
same. One lemma per call shows that its assignments to pointers amount to this; allocations may fail in any of
them. `Chain`, which the refinement reads the list with, is a recursive function, and that it gives the row back
(`DRead`, `SRead`) follows from two functions that agree at 0 and take the same steps (`SameSteps`), by the least
place where they would differ.

**Dictionaries.** Assumed: the table has a chain, the sum of a key's characters is a natural number
(`TableAssumption`), keys are integers (`BstAssumption`); there may be infinitely many. Both stand for
a set of items, and what a dictionary is of such a set (`MapOf`) and how an item more or less changes it are
lemmas about sets. Of the table it is invariant (`Table`) that an item is in the chain of its key, and no key
twice in a chain; calls change one chain (`ChainBecomes`). Of the tree (`SearchTree`): finitely
many nodes, all places above a node in use, and every key on its side of each key above it.
That a search ends at the key if it is there (`SearchEnds`) rests on the depth of a tree, less than its
number of nodes (`Depth`), because `Where` takes as many steps as there are nodes; that this recursive
function exists at all is shown by the least number of steps for which it would not (`SomeDown`). For deletion,
`From` says from where in the old tree the node at a place has come: no two from one place, and each step down to
a step down on the same side (`FromAbove`), so order and shape are kept. When the rightmost node of the
left subtree (`Rightmost`) takes a place, its key is greater than those of the subtree (`Greatest`).

**Relay.** Assumed (`RelayAssumption`): every client has an address and a link, and the bounds are
numbers, of any size. Three invariants, each resting on the one before:

- `IInv` follows a message from the client to the server and back: a thread handles only what was
  heard on its interface (`Heads`, `Handled`), so what is at the server carries the link of its sender
  (`Forwards`), and so does every answer to it (`Replies`). The threads share nothing that `Delivery`
  depends on; that is why it survives their races and restarts.
- `LInv` follows the text of a hardware address through the buffer of `ether_ntoa` (`Buffer`, `Copies`),
  the map (`Entries`) and the log (`Lines`). The text of a message is that of its client, or of one
  whose message met it in the buffer (`Names`): each thread that converts is recorded with all that are between
  their conversion and their copy. `Known` says that whom an answer is for is in the map, as long as the relay is in its
  first start and no two threads have met in it.
- `EInv` counts descriptors: `Counted` says that there is a set of messages, none of them still to be
  handled, as large as the number of descriptors open, one less while an answer is sent. Each message is
  handled once, since it is heard on one link (`TakesHeard`, `Single`).

**Mmal.** Assumed (`MmalAssumption`): a page has room for the arena's header and one block's, which is
what `sizeof` and 128 KiB are in the code; calls, live blocks and arenas are bounded by any numbers. The
list of headers is a circle in the order of their addresses (`Circular`), in which each block ends where the
next begins; what splitting, marking, appending and merging do to such a circle are lemmas about maps of
headers, not about states. `IInv` says so of the heap, that it stays in the first arena and fills it
while its first header is there (`Fills`), that the client holds just the blocks in use (`Client`), and
where the two walks are: `first_fit` has passed over blocks without room, `hdr_get_prev` looks for a
header that is in the circle (`Walks`). All of it needs a single arena (`OneArena`), because
`hdr_can_merge` does not compare arenas: with two, the run `MmalArenas` shows it false.
`Sound` has no such premise, so `SoundInvariant` needs that no second arena is ever made and the
first header never merged away. It assumes what the roomy instance has by its sizes, that all calls together
ask for less than a page with headers and slack, and adds `Room` to the invariant: the last block is
free, with room for every call still to come, so `first_fit` always ends at it.
With several arenas `SoundSurvives` shows that only `mfree` can spoil the heap. Its invariant `SInv` holds whatever
was merged before: the arenas lie apart and their list leads from the first to the last (`Listed`), headers have
their three fields (`Shapes`). `TakeTiles` and `FurtherTiles` are its two ideas: the parts of a block tile what the
block did, and the block that led back to the first header is the last of the last arena (`LastOfAll`), so
a new arena is put behind it. Sizes that wrap around end in the assertion, or make an arena that is too small for the request and
is filled like any other. `Returns` stays model-checked.

**Http.** Assumed (`HttpAssumption`): requests have the form clients can send; null, a number that is
none, names and texts differ. Requests of any length, of any number of clients. Handlers share nothing, so that
`IInv` is a conjunction over the connections of one predicate on the values each has (`Connection`), and
a lemma (`ConnectionStep`) says that a step of one leaves the others alone. It follows a
handler through the request: which headers were read, and that the length kept is that of the last
Content-Length among them (`HeadersRead`); that a body in reading is not yet as far as promised
(`InHeadOf`), and one read whole is what was promised, trimmed (`InBodyOf`); that the
lines before the present one are good (`GoodBefore`) and the answers so far are theirs in order
(`Answering`). What is true of an ended connection (`Ended`) is the four properties, and stays true
because a client does not leave a connection that has ended. `Fulfilled` rests on counting: a good request
is refused only before `read` has reached `Needed`. One lemma per action.

**Sieve.** Assumed (`PrimesAssumption`): sizes of words, chars and results are positive, the message starts
below the limit, a picture is a sequence of bytes. Any widths and limits. The array is at each step of the
outer loop what `Sifted` says, the numbers with a divisor below the present one. Three facts about numbers carry it:
quotient and remainder are unique (`Euclid`, `EuclidUnique`), so that setting a bit sets no other
(`BitsSet`) and every bit below the size has its word (`WordsEnough`); a divisor of a divisor divides, so the loop may
pass over numbers already marked (`SiftedMore`); and who has a divisor has one whose square is no greater, so the loop
may end at the root (`SmallDivisor`, `SiftedAll`). `Collected` and `Printed` say what primes has so far.
`Decoding` relates the decoder to the number of primes passed (`Rank`, which goes up by one at a prime): so many chars
whole, so many bits of the next, none of the chars zero. While a zero is still to come, the place is
within the picture (`DecodingInside`), so the decoder reads no byte that is not there.

**Sniffer.** Assumed (`SnifferAssumption`): arguments are as `getopt` leaves them, only IP packets have a
transport; any number of packets, so that the counter may wrap any number of times. What passes
the filter that is built is what the arguments ask for (`FilterRight`); the counter is the number of
packets captured until it wraps (`Counter`); what is shown is due by it, in order and with what is its own
(`ShownOf`).

**Wordcount.** Assumed (`WordcountAssumption`, `HtabAssumption`): codes are natural numbers, there is a bucket, a word
may have a character. Any codes, numbers of buckets and limits. The table is `Filled`: the items of a chain
have the hash of the chain, and no two the same key; so an item is found in one chain or in none (`Found`), a
call of `htab_lookup_add` counts one key once more and leaves the others (`Added`), and the chains one behind
the other have no key twice (`ForEach`). The hash and that concatenation are recursive functions: that they
have values is shown by the least place where they would not (`LeastNatural`, `SomeHash`, `SomeFlat`).
`WordsCounted` relates the program to its input: what is in `s` begins a word that goes on to `pos`
(`InWord`, `Begun`), and the table has the words a blank has `Ended`, each with how often (`Tallied`). A blank
ends one word at most (`OneWord`), so one key is counted once more (`TalliedMore`). The lines printed are as many as
there are different words because each has one item (`LinesRight`). For inputs with superfluous blanks only the
shape is kept (`WordsShape`), which needs that no word is counted more often than characters were read.

**The table in memory.** Assumed (`HtabItemsAssumption`): finitely many addresses, NULL is not one of them, a
key is a sequence of characters that have codes, sizes are positive (and need not be powers of two). Between calls
the table `Stands`: there are `lists` of items, one per bucket, such that each item points to the next one of its
list, the last one to NULL, and each bucket to its first (`Row`, `InMemory`); keys have the hash of their bucket and
differ in a list; and `size` is at least the number of items (`Big`, counted with the places of a list, `PlacesIn`,
because `htab_move` leaves it too large). The lists are then what a walk along `next` meets (`ChainIs`), whose length is
bounded because no key, and so no item, occurs twice in a list (`RowLength`). A call changes one list (`OneRow`):
appending (`AppendedRow`), taking one out (`RemovedRow`) and counting keep it a `Row` and the others untouched, and its
entries become what `Htab` says (`OperatorsAt`, `OperatorsNone`). While `htab_move` is on its way (`OnTheWay`, with the
items as they were) either it is stuck for ever, going round a bucket of the new table, or the first items of the
buckets passed are alone in their new buckets and nothing else is there (`Steady`, `PlacedTo`); so when it returns, it is
with those (`EndKept`).

Only model-checked: liveness (and anything with `ENABLED`), which is out of the prover's reach; what
recursive definitions compute along a walk (`Understood` and `TraversalsRight` compare walks with such definitions,
`LastLinesPrinted` a program with the splitting of its input).

## Where the code departs from its documents

Five of these are runs that TLC must find violated:

- `PsedEmpty`: a thread that is woken with `line == NULL` before it handled any line frees `result`,
  which has no value yet (psed.c:53, declared at 45). On an empty input every thread does.
- `MmalArenas`: `hdr_can_merge` (mmal.c:229) does not compare the arenas, though its comment says
  "adjacent in the same arena" (:220).
- `BusSegments`: `clean_resources` removes `waitingId` twice and `counterId` never (proj2.c:258, 262), though its
  comment says "function to erase semaphores and shared memmory" (:64). Every run leaves a segment.
- `HtabMove`: `htab_move`, "move one hash table to another with different size" (htab.h:42), goes on at the `next` of an
  item it has already linked elsewhere (htab_move.c:24) and returns with the first items of the buckets only.
- `SnifferDisplayed`: "-n number of displayed packets" (sem_6/ipk/proj2/README.md:21) counts the packets that pass the
  filter, shown or not (ipk-sniffer.cpp:148, 151).

The following are part of what the models do; properties have them as exceptions or claim nothing of them,
or they were noted while reading:

- **bus.** The second removal of the segment of waiting succeeds, since the run is still attached. `shmat`
  fails with -1, not NULL. "depart" is logged after the stop was given back when nobody waits.
- **mmal.** `mmalloc(0)` fails an assertion (:177), the comment at 316 promises NULL. `first_fit` takes
  a block in use that has enough room to spare (:263; the comment at 249 says free), and its strict
  comparison passes over a block that fits exactly and asks for new arenas until there is no memory
  (:263, against :251). `mfree` of the only block fails an assertion (:352). A request near the largest `size_t` wraps around: an assertion
  (:103) ends the program for some, where the comment promises NULL; for others one arena after the other is made
  that is too small, until there is no memory. `ExitReasons` lists these.
- **d6r.** The manual swaps -d and -l (d6r.1:24,28; d6r.cpp:482-485), and promises all interfaces, of
  which the code takes those with an IPv6 address (:215). An association without an address, as a
  server answers that has none to give, ends the relay or logs an address of another answer
  (`Understood`). The loop over IPv6 extension headers never turns: the filter "udp port 547" lets
  only packets pass whose next header is UDP.
- **DNS over HTTP.** The readme promises 400 for malformed requests; a parameter without a value, an
  end within the head, a length that is no number and one for which there is no memory get no answer (`Unanswered`). A name without a
  value is resolved for PTR (`Accepted`). A good POST that arrives in parts may get 400
  (Request.java:95, `Fulfilled`). The last newline is looked for one character early (:97).
- **wordcount.** The first letter after more than one blank counts twice; the last word is lost unless
  a blank follows; the program does not end when its input does within a word too long
  (`Counts` is about inputs without superfluous blanks, `ProgramsEnd` excepts the last).
- **htab.** `htab_move` may not return (`ProgramsEnd` excepts it when two first items meet). `htab_clear` reads
  `tmp->next` after `free(tmp)` (htab_clear.c:15-17); the model takes the memory to be untouched, as
  it is where `free` writes only to the first two words of an item (`next` is the third).
- **tail.** tail.c does not end when its input does within a line too long (:91), and looks for the
  newline at index -1 (:105), so that what it prints may depend on the byte in front of its buffer. It
  prints zeros for the lines there are not.
- **primes, steg-decode.** The comment of primes.c (:8) promises descending order, the last loop (:27)
  prints in ascending order; `SieveRight` leaves the order open. The space behind 255 in the format of ppm.c (:20) passes over white bytes of the
  picture, which is then refused or read from the wrong byte. `bit_array_create` takes a word for
  each bit, but for a rest. steg-decode reads behind pictures of less than LIMIT bytes.
- **ipk-sniffer.** The ports of
  IPv6 packets are read 1600 octets behind the header (:203, :211). An IPv4 packet is shown with the
  same address twice, since `inet_ntoa` is called twice in one `printf` (:175, :183). The text of the last row of a
  packet is never printed (:222-240).
- **c016, c201, c402.** A key with characters beyond ASCII has a negative index. `DisposeList` of c201
  dereferences NULL for a list of one element and does not free the last one of a longer list
  (c201.c:87-96, `ListsImplemented` with that exception). c402.h:24 says of `MAXSTACK` that it is the
  number of elements of the stack, and c402.c:86-88 means to report an overflow, but the test comes one push too
  late: the push that makes `top` MAXSTACK writes behind the array, where `top` is. Postorder comes to it on
  trees of that height. `Traversals` claims nothing of these.

## Not modelled

- The headers of the packets d6r captures, its arguments and the start of its interfaces.
- The arguments of tail, steg-decode and ipk-sniffer, and files that cannot be opened; the header of a
  picture; `ppm_write`, which no program calls; the rows of octets ipk-sniffer prints.
- The check of the port (`Main.java`), and why the socket of the server fails; a reset on closing with unread input.
- `mcalloc` of mmal: declared, defined nowhere.
- The contents of blocks and lines, texts of logs and errors, sleeping.
- wedi, disk exercises, web pages: input, output and presentation without state that could go wrong
  between steps.

## Plan

Order, most important first; all is done.

1. `Bus`, `BusStop`, with their proofs: the concurrent core, for every number of riders.
2. `BusResources`: crashes and several runs.
3. `Psed`, `PsedOutput`, with their proofs.
4. `Mmal`: the allocator in its regime, at its edges, and with several arenas.
5. `Relay`: two threads, a shared map, an unreliable network.
6. `Http`: threads, partial input, clients that leave.
7. `Htab`, `Wordcount`, with proofs.
8. The structures of `sem_3/ial` with their abstract specifications; the proofs of the queue, the table
   and the search tree.
9. Proofs: `Delivery`, `LogTruth` and `EndReasons` of `Relay` for any number of clients and
   interfaces; `PrivateSemaphores` and `Erased` of `BusResources` for any number of runs;
   `Accepted`, `Fulfilled`, `Answers` and `Unanswered` of `Http` for every request.
10. Proofs: `Sound` of `Mmal` for every size; c206 and c201 implement
    `CursorList`.
11. `Answer`: the walks of d6r over options, beside the format they are meant for.
12. `HtabItems`: the table of wordcount on the level of pointers, with every call, and the
    proof that it does what `Htab` says.
13. `LastLines`, `Primes` and `Sniffer` against what they are meant to print, the last two with proofs.
