----------------------------- MODULE MCPrograms -----------------------------
(* The programs of sem_2/ijc and sem_6/ipk/proj2 that run alone, and the   *)
(* hash table on its own: which says whose steps a behaviour has, and the  *)
(* others stay as they are initialised.                                    *)
EXTENDS Wordcount, TLC

CONSTANTS
  NL, NUL, MaxText, MaxLines,
  Items, NULL, Keys, Sizes, MaxData,
  SIZEOF, CHAR_BIT, Limits, COUNT, LIMIT, START, Files, UINT_MAX,
  Packets, Arguments, INT_MAX, MaxCaptured, None,
  eth0, port, other, h1, h2

(* Two letters and a blank.                                                *)
MCCode == "a" :> 97 @@ "b" :> 98 @@ " " :> 32

(* Keys of which two meet in two buckets, and none in four.                *)
MCKeys == {<< "a" >>, << "b" >>, << "b", "a" >>}

(* Pictures whose first byte may be white, with a byte more or less than   *)
(* they should have, and one whose size is counted modulo UINT_MAX + 1.    *)
Byte(bit, white) == [bit |-> bit, white |-> white]
Plain == {Byte(0, FALSE), Byte(1, FALSE)}
Pictures(x, n) ==
  {[xsize |-> x, ysize |-> 1, data |-> << first >> \o rest] :
     first \in Plain \cup {Byte(0, TRUE)}, rest \in [1 .. n - 1 -> Plain]}
MCFiles == Pictures(3, 9) \cup Pictures(3, 10) \cup Pictures(1, 2) \cup Pictures(1, 3) \cup Pictures(6, 3)

Packet(net, transport, at) ==
  [net |-> net, transport |-> transport, src |-> h1, dst |-> h2, port |-> at]
MCPackets ==
  { Packet("ip", "tcp", port), Packet("ip", "udp", other), Packet("ip6", "tcp", other),
    Packet("ip6", "udp", port), Packet("ip", "sctp", port), Packet("arp", None, None) }
MCArguments ==
  [interface : {None, eth0}, num : {None, 1, 2}, port : {None, port}, isTcp : BOOLEAN, isUdp : BOOLEAN]

VARIABLES
  which,
  text, read, numberOfLines, ahead, buffer, row, charsCount, overlong, tailPc, lines,
  mem, t, moved, bucket, tmp, itemsPc, call, res, before,
  file, data, size, bits, i, bitCount, result, out, unended, primesPc,
  args_cli, filter, captured, packet_counter, shown, snifferPc

tail == INSTANCE LastLines WITH
  Letters <- {"a", "b"}, MaxInput <- MaxText, input <- text, pos <- read, before <- ahead,
  i <- row, warning <- overlong, pc <- tailPc, out <- lines
table == INSTANCE HtabItems WITH htab <- moved, i <- bucket, pc <- itemsPc
primes == INSTANCE Primes WITH warning <- unended, pc <- primesPc
sniffer == INSTANCE Sniffer WITH pc <- snifferPc

ASSUME TailAndTable == tail!LastLinesAssumption /\ table!HtabItemsAssumption
ASSUME PrimesAssumption == primes!PrimesAssumption
ASSUME SnifferAssumption == sniffer!SnifferAssumption

tailVars == << text, read, numberOfLines, ahead, buffer, row, charsCount, overlong, tailPc, lines >>
tableVars == << mem, t, moved, bucket, tmp, itemsPc, call, res, before >>
primesVars == << file, data, size, bits, i, bitCount, result, out, unended, primesPc >>
snifferVars == << args_cli, filter, captured, packet_counter, shown, snifferPc >>
all == << which, vars, tailVars, tableVars, primesVars, snifferVars >>

ProgramsInit ==
  /\ which \in {"wordcount", "tail", "table", "primes", "sniffer"}
  /\ which # "wordcount" => input = << >>
  /\ which # "tail" => text = << >> /\ numberOfLines = 0 /\ ahead = NUL
  /\ which # "table" => t = table!Empty(CHOOSE n \in Sizes : TRUE)
  /\ which # "primes" => file = None /\ size = 0 /\ primesPc = "sieve"
  /\ which # "sniffer" => args_cli = CHOOSE a \in Arguments : TRUE
  /\ Init /\ tail!Init /\ table!Init /\ primes!Init /\ sniffer!Init

Wordcounts == which = "wordcount" /\ Next /\ UNCHANGED << which, tailVars, tableVars, primesVars, snifferVars >>
Tails == which = "tail" /\ tail!Next /\ UNCHANGED << which, vars, tableVars, primesVars, snifferVars >>
Tables(step) == which = "table" /\ step /\ UNCHANGED << which, vars, tailVars, primesVars, snifferVars >>
Sieves == which = "primes" /\ primes!Next /\ UNCHANGED << which, vars, tailVars, tableVars, snifferVars >>
Sniffs == which = "sniffer" /\ sniffer!Next /\ UNCHANGED << which, vars, tailVars, tableVars, primesVars >>

ProgramsNext == Wordcounts \/ Tails \/ Tables(table!Next) \/ Sieves \/ Sniffs

(* A program goes on when it can, and so does htab_move; the calls of the  *)
(* table are made or not, and packets come or not.                         *)
Programs ==
  /\ ProgramsInit /\ [][ProgramsNext]_all
  /\ WF_all(Wordcounts) /\ WF_all(Tails) /\ WF_all(Sieves)
  /\ WF_all(Tables(table!MoveItem \/ table!MoveBucket))

-----------------------------------------------------------------------------
LastLinesPrinted == tail!LastLinesPrinted
TableImplemented == table!TableImplemented
AllMoved == table!AllMoved
SieveRight == primes!SieveRight
PacketsShown == sniffer!PacketsShown
Displayed == sniffer!Displayed

(* Every program ends, and every call of the table returns, unless ...     *)
ProgramsEnd ==
  /\ which = "wordcount" => Termination
  /\ which = "tail" => tail!Termination
  /\ which = "primes" => primes!Termination
  /\ table!Returns
=============================================================================
