-------------------------------- MODULE Primes ------------------------------
(***************************************************************************)
(* The sieve of sem_2/ijc/proj_1 in its array of bits (bit_array.h,        *)
(* eratosthenes.c) and the two programs that use it: primes prints the     *)
(* last primes below a limit, steg-decode reads a message from the lowest  *)
(* bits of a picture (ppm.c) at the places that are primes.                *)
(*                                                                         *)
(* An operator with a suffixed name (MultiplesFromOne) is a slip the       *)
(* properties must notice.                                                 *)
(***************************************************************************)
EXTENDS Integers, Sequences, FiniteSets, FiniteSetsExt

CONSTANTS
  SIZEOF, CHAR_BIT,  \* of unsigned long, in chars, and of a char, in bits
  Limits,            \* LIMIT of primes.c
  COUNT,             \* how many primes it prints
  LIMIT,             \* of steg-decode.c
  START,             \* where the message begins
  Files,             \* pictures: a size and bytes, of which bit is the lowest
  UINT_MAX,
  None

(* Assumed of the constants, by the module that instantiates this one.    *)
PrimesAssumption ==
  /\ Limits \subseteq Nat /\ {SIZEOF, CHAR_BIT, COUNT, LIMIT, START, UINT_MAX} \subseteq Nat \ {0}
  /\ START < LIMIT /\ None \notin Files
  /\ \A f \in Files :
       {f.xsize, f.ysize} \subseteq Nat /\ f.data \in Seq([bit : {0, 1}, white : BOOLEAN])

VARIABLES
  file,     \* the picture of steg-decode, None in primes
  data,     \* image->data
  size,     \* bitArray[0]
  bits,     \* the words after it, each the set of its bits that are 1
  i, bitCount, result,
  out, warning,
  pc

vars == << file, data, size, bits, i, bitCount, result, out, warning, pc >>

-----------------------------------------------------------------------------
(* bit_array.h.                                                            *)

Word == SIZEOF * CHAR_BIT
Words(velikost) ==
  (velikost \div SIZEOF) * CHAR_BIT + IF (velikost % SIZEOF) * CHAR_BIT # 0 THEN 1 ELSE 0

bit_array_getbit(array, index) == index % Word \in array[index \div Word + 1]

(* Setting bits to 1; bit_array_setbit(.., 0) would change nothing.        *)
SetBits(array, indices) ==
  [w \in DOMAIN array |-> array[w] \cup {n % Word : n \in {k \in indices : k \div Word + 1 = w}}]

Init ==
  /\ \/ pc = "sieve" /\ file = None /\ size \in Limits
     \/ pc = "read" /\ file \in Files /\ size = LIMIT
  /\ data = << >>
  /\ bits = [w \in 1 .. Words(size) |-> {}]
  /\ i = 0 /\ bitCount = 0 /\ result = {}
  /\ out = << >> /\ warning = FALSE

Goes(to) == pc' = to /\ UNCHANGED << file, size >>
Exits(how) == Goes(how) /\ UNCHANGED << data, bits, i, bitCount, result, out, warning >>

-----------------------------------------------------------------------------
(* ppm_read().  The space after 255 in the format stands for any number of *)
(* white characters, the first bytes of the picture among them.            *)

WhiteBytes(bytes) == Min({k \in DOMAIN bytes : ~ bytes[k].white} \cup {Len(bytes) + 1}) - 1
memory == (3 * file.xsize * file.ysize) % (UINT_MAX + 1)

Read ==
  LET rest == SubSeq(file.data, WhiteBytes(file.data) + 1, Len(file.data)) IN
  /\ pc = "read"
  /\ \/ Len(rest) >= memory /\ Goes("sieve") /\ data' = SubSeq(rest, 1, memory)
        /\ UNCHANGED << bits, i, bitCount, result, out, warning >>
     \/ Len(rest) < memory /\ Exits("refused")

-----------------------------------------------------------------------------
(* Eratosthenes(): a step of the outer loop is one here.                   *)

MultiplesFromOne(n) == {k \in 1 .. size - 1 : k % n = 0}

Multiples(n) == {k \in 2 * n .. size - 1 : k % n = 0}

(* Zero and one, which must be below the size.                             *)
ZeroAndOne ==
  /\ pc = "sieve" /\ i = 0
  /\ \/ size < 2 /\ Exits("error")
     \/ /\ size >= 2 /\ Goes("sieve")
        /\ bits' = SetBits(bits, {0, 1}) /\ i' = 2
        /\ UNCHANGED << data, bitCount, result, out, warning >>

InSieve == (i - 1) * (i - 1) < size  \* i < sqrt(velikost) + 1

Sieve ==
  /\ pc = "sieve" /\ i >= 2 /\ InSieve
  /\ \/ i >= size /\ Exits("error")
     \/ /\ i < size /\ Goes("sieve")
        /\ bits' = IF bit_array_getbit(bits, i) THEN bits ELSE SetBits(bits, Multiples(i))
        /\ i' = i + 1
        /\ UNCHANGED << data, bitCount, result, out, warning >>

Sieved ==
  /\ pc = "sieve" /\ i >= 2 /\ ~ InSieve
  /\ Goes(IF file = None THEN "print" ELSE "decode")
  /\ i' = IF file = None THEN size - 1 ELSE START
  /\ UNCHANGED << data, bits, bitCount, result, out, warning >>

-----------------------------------------------------------------------------
(* The loops of primes.c: out is the array, then what is printed of it.    *)

Collect ==
  /\ pc = "print" /\ i > 0 /\ Len(out) < COUNT
  /\ out' = IF bit_array_getbit(bits, i) THEN out ELSE << i >> \o out
  /\ i' = i - 1
  /\ Goes("print") /\ UNCHANGED << data, bits, bitCount, result, warning >>

Printed ==
  /\ pc = "print" /\ (i = 0 \/ Len(out) = COUNT)
  /\ out' = [k \in 1 .. COUNT - Len(out) |-> 0] \o out
  /\ Goes("done") /\ UNCHANGED << data, bits, i, bitCount, result, warning >>

(* The loop of steg-decode.c.  A place behind the picture may hold         *)
(* anything.                                                               *)
Decode == pc = "decode" /\ \E bit \in IF i < Len(data) THEN {data[i + 1].bit} ELSE {0, 1} :
  LET taken == ~ bit_array_getbit(bits, i)
      char == IF bit = 1 THEN result \cup {bitCount} ELSE result
      full == taken /\ bitCount + 1 = CHAR_BIT
      ends == full /\ char = {}
  IN
  /\ bitCount' = IF full THEN 0 ELSE IF taken THEN bitCount + 1 ELSE bitCount
  /\ result' = IF full THEN {} ELSE IF taken THEN char ELSE result
  /\ out' = IF full THEN Append(out, char) ELSE out
  /\ warning' = (i = LIMIT - 1 /\ ~ ends)
  /\ i' = i + 1
  /\ Goes(IF ends \/ i' = LIMIT THEN "done" ELSE "decode")
  /\ UNCHANGED << data, bits >>

Next == Read \/ ZeroAndOne \/ Sieve \/ Sieved \/ Collect \/ Printed \/ Decode

Spec == Init /\ [][Next]_vars
FairSpec == Spec /\ WF_vars(Next)

-----------------------------------------------------------------------------
IsPrime(n) == n > 1 /\ \A k \in 2 .. n - 1 : n % k # 0
PrimesFrom(first, end) == {n \in first .. end - 1 : IsPrime(n)}

TypeOK ==
  /\ pc \in {"read", "refused", "sieve", "error", "print", "decode", "done"}
  /\ i \in 0 .. size + 1 /\ bitCount \in 0 .. CHAR_BIT - 1 /\ result \subseteq 0 .. CHAR_BIT - 1

(* What primes prints: the last primes, each once and in whichever order,  *)
(* and zeros when there are too few; a prime that is missing is smaller    *)
(* than everything printed.                                                *)
LastPrimes ==
  /\ DOMAIN out = 1 .. COUNT
  /\ \A k \in 1 .. COUNT : out[k] \in {0} \cup PrimesFrom(2, size)
  /\ \A j, k \in 1 .. COUNT : j # k /\ out[j] = out[k] => out[k] = 0
  /\ \A p \in PrimesFrom(2, size) :
       (\E k \in 1 .. COUNT : out[k] = p) \/ \A k \in 1 .. COUNT : p < out[k]

(* What the picture says: its bits at the primes, a char each CHAR_BIT, up *)
(* to and with the first that is zero.                                     *)
Rank(p) == Cardinality(PrimesFrom(START, p))
Places == PrimesFrom(START, Min({LIMIT, memory}))
CharAt(n) ==
  {b \in 0 .. CHAR_BIT - 1 :
     \E p \in Places : Rank(p) = CHAR_BIT * (n - 1) + b /\ file.data[p + 1].bit = 1}
Chars == 1 .. Cardinality(Places) \div CHAR_BIT
Ends == {n \in Chars : CharAt(n) = {}}

(* A picture that begins with a byte that is not white, has all its bytes, *)
(* and not too many of them to be counted.                                 *)
Usual ==
  /\ 3 * file.xsize * file.ysize <= UINT_MAX
  /\ Len(file.data) >= memory /\ ~ file.data[1].white

(* The sieve never touches a word that is not there nor marks a prime, and *)
(* leaves just the primes, for every size above two (smaller ones are      *)
(* errors).  primes prints the last ones, and zeros if they are too few.   *)
(* steg-decode accepts a usual picture, and if the message ends in it,     *)
(* decodes it and does not warn.                                           *)
SieveRight ==
  /\ TypeOK
  /\ size > 0 => (size - 1) \div Word + 1 \in DOMAIN bits
  /\ \A n \in 2 .. size - 1 : IsPrime(n) => ~ bit_array_getbit(bits, n)
  /\ pc \in {"print", "decode", "done"} =>
       size > 2 /\ \A n \in 0 .. size - 1 : IsPrime(n) <=> ~ bit_array_getbit(bits, n)
  /\ pc = "error" => size <= 2
  /\ pc = "done" /\ file = None => LastPrimes
  /\ file # None /\ Usual =>
       /\ pc # "refused"
       /\ pc = "done" /\ Ends # {} => out = [n \in 1 .. Min(Ends) |-> CharAt(n)] /\ ~ warning

(* Both programs end.                                                      *)
Termination == <>(pc \in {"refused", "error", "done"})
=============================================================================
