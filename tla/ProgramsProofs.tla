--------------------------- MODULE ProgramsProofs ---------------------------
(* Theorems about the programs that run alone, each for every value of its *)
(* constants.                                                              *)
EXTENDS MCPrograms, SequenceTheorems, FiniteSetTheorems, WellFoundedInduction, NaturalsInduction, TLAPS

(* Two sequences of one element make one of two.                           *)
LEMMA TwoElements ==
  ASSUME NEW u, NEW v
  PROVE  Append(<< u >>, v) = << u, v >> /\ << u >> \o << v >> = << u, v >>
  <1>1. PICK S : S = Append(<< u >>, v)
    OBVIOUS
  <1>2. << u >> \in Seq({u, v}) /\ << v >> \in Seq({u, v}) /\ << u, v >> \in Seq({u, v})
    OBVIOUS
  <1>3. S \in Seq({u, v}) /\ Len(S) = 2
    BY <1>1, <1>2
  <1>4. S[1] = u /\ S[2] = v
    BY <1>1, <1>2
  <1>5. \A k \in 1 .. 2 : S[k] = << u, v >>[k]
    BY <1>4
  <1>6. S = << u, v >>
    BY <1>2, <1>3, <1>5, SeqEqual
  <1>7. << u >> \o << v >> = Append(<< u >>, v)
    BY <1>2, AppendIsConcat
  <1> QED
    BY <1>1, <1>6, <1>7

-----------------------------------------------------------------------------
(* ipk-sniffer: the filter is what the arguments ask for, the counter      *)
(* follows the packets captured, and what is shown follows the counter.    *)

Options(a) ==
  /\ DOMAIN a = {"interface", "num", "port", "isTcp", "isUdp"}
  /\ a.num = None \/ a.num \in 1 .. INT_MAX

Asked(a, p) ==
  /\ a.isTcp \/ a.isUdp =>
       (a.isTcp /\ p.transport = "tcp") \/ (a.isUdp /\ p.transport = "udp")
  /\ a.port \in {None, p.port}

(* What is built of the arguments: no more than two alternatives.          *)
One(proto, number) == [proto |-> proto, port |-> number]

Built(a, F) ==
  \/ a.isUdp /\ a.isTcp /\ F = << One("udp", a.port), One("tcp", a.port) >>
  \/ a.isUdp /\ ~ a.isTcp /\ F = << One("udp", a.port) >>
  \/ ~ a.isUdp /\ a.isTcp /\ F = << One("tcp", a.port) >>
  \/ ~ a.isUdp /\ ~ a.isTcp /\ a.port = None /\ F = << >>
  \/ ~ a.isUdp /\ ~ a.isTcp /\ a.port # None /\ F = << One(None, a.port) >>

(* An alternative gets its port when it has become the last one.           *)
LEMMA PortAdded ==
  ASSUME NEW a, NEW F, NEW proto,
         F = << >> \/ \E x, y : F = << One(x, y) >>
  PROVE  sniffer!add_port_if_needed(a, F \o sniffer!Alternative(proto)) = Append(F, One(proto, a.port))
  <1>1. PICK G : G = F \o sniffer!Alternative(proto)
    OBVIOUS
  <1>2. CASE F = << >>
    <2>1. G = << One(proto, None) >>
      BY <1>1, <1>2 DEF sniffer!Alternative, One
    <2>2. [G EXCEPT ![Len(G)].port = a.port] = << One(proto, a.port) >>
      BY <2>1 DEF One
    <2> QED
      BY <1>1, <1>2, <2>1, <2>2 DEF sniffer!add_port_if_needed, sniffer!Ported, One
  <1>3. ASSUME NEW x, NEW y, F = << One(x, y) >>
        PROVE  sniffer!add_port_if_needed(a, G) = Append(F, One(proto, a.port))
    <2>1. G = << One(x, y), One(proto, None) >>
      <3>1. PICK u, v : u = One(x, y) /\ v = One(proto, None)
        OBVIOUS
      <3>2. F = << u >> /\ sniffer!Alternative(proto) = << v >>
        BY <1>3, <3>1 DEF sniffer!Alternative, One
      <3>3. << u >> \o << v >> = << u, v >>
        BY TwoElements
      <3> QED
        BY <1>1, <3>1, <3>2, <3>3
    <2>2. [G EXCEPT ![Len(G)].port = a.port] = << One(x, y), One(proto, a.port) >>
      <3>1. Len(G) = 2 /\ G[2] = One(proto, None) /\ G # << >>
        BY <2>1
      <3>2. [One(proto, None) EXCEPT !.port = a.port] = One(proto, a.port)
        BY DEF One
      <3>3. [G EXCEPT ![Len(G)].port = a.port] = [G EXCEPT ![2] = One(proto, a.port)]
        BY <3>1, <3>2
      <3> QED
        BY <2>1, <3>3
    <2> QED
      BY <1>1, <1>3, <2>1, <2>2 DEF sniffer!add_port_if_needed, sniffer!Ported, One
  <1> QED
    BY <1>1, <1>2, <1>3

LEMMA FilterBuilt ==
  ASSUME NEW a
  PROVE  Built(a, sniffer!build_filter(a))
  <1>1. PICK udp, tcp : udp = "udp" /\ tcp = "tcp"
    OBVIOUS
  <1>2. PICK U, B : U = sniffer!add_udp_if_needed(a, << >>) /\ B = sniffer!add_tcp_if_needed(a, U)
    OBVIOUS
  <1>3. U = IF a.isUdp THEN << One(udp, a.port) >> ELSE << >>
    <2>1. sniffer!add_port_if_needed(a, << >> \o sniffer!Alternative(udp)) = Append(<< >>, One(udp, a.port))
      BY PortAdded
    <2> QED
      BY <1>1, <1>2, <2>1 DEF sniffer!add_udp_if_needed
  <1>4. B = IF a.isTcp THEN Append(U, One(tcp, a.port)) ELSE U
    <2>1. sniffer!add_port_if_needed(a, U \o sniffer!Alternative(tcp)) = Append(U, One(tcp, a.port))
      BY <1>3, PortAdded
    <2> QED
      BY <1>1, <1>2, <2>1 DEF sniffer!add_tcp_if_needed
  <1>5. sniffer!build_filter(a) = IF ~ a.isTcp /\ ~ a.isUdp THEN sniffer!add_port_if_needed(a, B) ELSE B
    BY <1>2 DEF sniffer!build_filter
  <1>6. CASE ~ a.isTcp /\ ~ a.isUdp
    <2>1. B = << >>
      BY <1>3, <1>4, <1>6
    <2>2. sniffer!add_port_if_needed(a, B) = IF a.port # None THEN << One(None, a.port) >> ELSE << >>
      BY <2>1 DEF sniffer!add_port_if_needed, sniffer!Ported, One
    <2> QED
      BY <1>5, <1>6, <2>2 DEF Built
  <1>7. CASE a.isTcp \/ a.isUdp
    <2>1. sniffer!build_filter(a) = B
      BY <1>5, <1>7
    <2>2. PICK u, v : u = One("udp", a.port) /\ v = One("tcp", a.port)
      OBVIOUS
    <2>3. Append(<< >>, v) = << v >>
      OBVIOUS
    <2>6. Append(<< u >>, v) = << u, v >>
      BY TwoElements
    <2>4. U = IF a.isUdp THEN << u >> ELSE << >>
      BY <1>1, <1>3, <2>2
    <2>5. B = IF a.isTcp THEN Append(U, v) ELSE U
      BY <1>1, <1>4, <2>2
    <2> QED
      BY <1>7, <2>1, <2>2, <2>3, <2>4, <2>5, <2>6 DEF Built
  <1> QED
    BY <1>6, <1>7

LEMMA FilterRight ==
  ASSUME NEW a, NEW p, sniffer!Known(p)
  PROVE  sniffer!Passes(p, sniffer!build_filter(a)) <=> Asked(a, p)
  <1>1. PICK F : F = sniffer!build_filter(a)
    OBVIOUS
  <1>2. Built(a, F)
    BY <1>1, FilterBuilt
  <1>3. p.transport \in {"tcp", "udp"} /\ p.transport # None
    BY SnifferAssumption DEF sniffer!Known, sniffer!SnifferAssumption
  <1>4. ASSUME NEW x, NEW y, F = << x, y >>
        PROVE  sniffer!Passes(p, F) <=>
                 \/ x.proto \in {None, p.transport} /\ x.port \in {None, p.port}
                 \/ y.proto \in {None, p.transport} /\ y.port \in {None, p.port}
    <2>1. DOMAIN F = {1, 2} /\ F[1] = x /\ F[2] = y /\ F # << >>
      BY <1>4
    <2>2. (\E k \in DOMAIN F : F[k].proto \in {None, p.transport} /\ F[k].port \in {None, p.port}) <=>
                \/ x.proto \in {None, p.transport} /\ x.port \in {None, p.port}
                \/ y.proto \in {None, p.transport} /\ y.port \in {None, p.port}
      BY <2>1
    <2>3. sniffer!Passes(p, F) <=> \E k \in DOMAIN F : F[k].proto \in {None, p.transport} /\ F[k].port \in {None, p.port}
      BY <1>3, <2>1, Zenon DEF sniffer!Passes
    <2> QED
      BY <2>2, <2>3, Zenon
  <1>5. ASSUME NEW x, F = << x >>
        PROVE  sniffer!Passes(p, F) <=> x.proto \in {None, p.transport} /\ x.port \in {None, p.port}
    <2>1. DOMAIN F = {1} /\ F[1] = x /\ F # << >>
      BY <1>5
    <2> QED
      BY <1>3, <2>1 DEF sniffer!Passes
  <1>6. F = << >> => sniffer!Passes(p, F)
    BY DEF sniffer!Passes
  <1>7. "tcp" # None /\ "udp" # None
    BY SnifferAssumption DEF sniffer!SnifferAssumption
  <1>8. CASE a.isUdp /\ a.isTcp /\ F = << One("udp", a.port), One("tcp", a.port) >>
    BY <1>3, <1>4, <1>7, <1>8, <1>1 DEF Asked, One
  <1>9. CASE a.isUdp /\ ~ a.isTcp /\ F = << One("udp", a.port) >>
    BY <1>3, <1>5, <1>7, <1>9, <1>1 DEF Asked, One
  <1>10. CASE ~ a.isUdp /\ a.isTcp /\ F = << One("tcp", a.port) >>
    BY <1>3, <1>5, <1>7, <1>10, <1>1 DEF Asked, One
  <1>11. CASE ~ a.isUdp /\ ~ a.isTcp /\ a.port = None /\ F = << >>
    BY <1>6, <1>11, <1>1 DEF Asked
  <1>12. CASE ~ a.isUdp /\ ~ a.isTcp /\ a.port # None /\ F = << One(None, a.port) >>
    BY <1>3, <1>5, <1>12, <1>1 DEF Asked, One
  <1> QED
    BY <1>2, <1>8, <1>9, <1>10, <1>11, <1>12 DEF Built

(* The lines of the output.                                                *)
Lines == [at : Nat, hosts : UNION {sniffer!Addresses(p) : p \in Packets}, port : {p.port : p \in Packets}]

(* What is shown of the packets that were captured.                        *)
ShownOf(seen, num, rows) ==
  /\ rows \in Seq(Lines)
  /\ \A k, l \in DOMAIN rows : k < l => rows[k].at < rows[l].at
  /\ \A k \in DOMAIN rows :
       /\ rows[k].at \in DOMAIN seen /\ sniffer!Known(seen[rows[k].at])
       /\ sniffer!Truthful(rows[k], seen[rows[k].at])
  /\ \A j \in DOMAIN seen :
       sniffer!Known(seen[j]) /\ j <= num => \E k \in DOMAIN rows : rows[k].at = j
  /\ Len(rows) <= Len(seen)
  /\ Len(seen) <= INT_MAX => Len(rows) <= num

SnifferInv ==
  /\ snifferPc \in {"start", "listed", "pcap_loop"}
  /\ captured \in Seq(Packets) /\ Len(captured) <= MaxCaptured
  /\ packet_counter \in - INT_MAX - 1 .. INT_MAX
  /\ Len(captured) <= INT_MAX => packet_counter = Len(captured)
  /\ Options(args_cli)
  /\ snifferPc = "start" => captured = << >> /\ shown = << >>
  /\ snifferPc # "start" => args_cli.num \in 1 .. INT_MAX /\ ShownOf(captured, args_cli.num, shown)
  /\ snifferPc = "pcap_loop" => filter = sniffer!build_filter(args_cli)

LEMMA SnifferNumbers ==
  /\ INT_MAX \in Nat \ {0} /\ MaxCaptured \in Nat
  /\ \A p \in Packets : sniffer!Known(p) => p.net \in {"ip", "ip6"}
  BY SnifferAssumption DEF sniffer!SnifferAssumption, sniffer!Known

LEMMA SnifferInit == sniffer!Init => SnifferInv
  <1> SUFFICES ASSUME sniffer!Init PROVE SnifferInv
    OBVIOUS
  <1>1. captured = << >> /\ shown = << >> /\ snifferPc = "start" /\ packet_counter = 0 /\ args_cli \in Arguments
    BY DEF sniffer!Init
  <1>2. Options(args_cli)
    BY <1>1, SnifferAssumption DEF sniffer!SnifferAssumption, Options
  <1>3. Len(captured) = 0 /\ Len(captured) <= MaxCaptured /\ captured \in Seq(Packets)
    BY <1>1, SnifferNumbers
  <1>4. packet_counter \in - INT_MAX - 1 .. INT_MAX
    BY <1>1, SnifferNumbers
  <1> QED
    BY <1>1, <1>2, <1>3, <1>4 DEF SnifferInv

LEMMA StartSniffer ==
  ASSUME SnifferInv, sniffer!Start
  PROVE  SnifferInv'
  <1>1. /\ snifferPc = "start" /\ captured = << >> /\ UNCHANGED << captured, packet_counter, shown >>
        /\ args_cli' = [args_cli EXCEPT !.num = IF args_cli.num = None THEN 1 ELSE args_cli.num]
    BY DEF sniffer!Start, SnifferInv
  <1>2. /\ DOMAIN args_cli' = DOMAIN args_cli
        /\ args_cli'.num = IF args_cli.num = None THEN 1 ELSE args_cli.num
        /\ args_cli'.isTcp = args_cli.isTcp /\ args_cli'.isUdp = args_cli.isUdp
        /\ args_cli'.port = args_cli.port
    BY <1>1 DEF SnifferInv, Options
  <1>3. args_cli'.num \in 1 .. INT_MAX
    BY <1>2, SnifferNumbers DEF SnifferInv, Options
  <1>4. Options(args_cli')
    BY <1>2, <1>3 DEF SnifferInv, Options
  <1>5. sniffer!build_filter(args_cli) = sniffer!build_filter(args_cli')
    BY <1>2 DEF sniffer!build_filter, sniffer!add_tcp_if_needed, sniffer!add_udp_if_needed,
         sniffer!add_port_if_needed
  <1>6. \/ snifferPc' = "listed"
        \/ snifferPc' = "pcap_loop" /\ filter' = sniffer!build_filter(args_cli')
    BY <1>5 DEF sniffer!Start
  <1>7. captured' = << >> /\ shown' = << >>
    BY <1>1 DEF SnifferInv
  <1>8. ShownOf(captured', args_cli'.num, shown')
    BY <1>3, <1>7 DEF ShownOf
  <1> QED
    BY <1>1, <1>3, <1>4, <1>6, <1>7, <1>8 DEF SnifferInv

(* One line more, for the packet captured last.                            *)
LEMMA ShowsLast ==
  ASSUME NEW seen \in Seq(Packets), NEW num \in 1 .. INT_MAX, NEW rows, ShownOf(seen, num, rows),
         NEW p \in Packets, NEW line \in Lines, line.at = Len(seen) + 1, sniffer!Truthful(line, p),
         sniffer!Known(p), Len(seen) + 1 <= num \/ Len(seen) + 1 > INT_MAX
  PROVE  ShownOf(Append(seen, p), num, Append(rows, line))
  <1>0. Len(seen) \in Nat /\ Len(rows) \in Nat
    BY DEF ShownOf
  <1>1. PICK n, m, S, R :
          /\ n = Len(seen) /\ m = Len(rows) /\ S = Append(seen, p) /\ R = Append(rows, line)
          /\ n \in Nat /\ m \in Nat
    BY <1>0
  <1>2. /\ DOMAIN S = 1 .. n + 1 /\ DOMAIN seen = 1 .. n /\ S[n + 1] = p /\ Len(S) = n + 1
        /\ \A k \in 1 .. n : S[k] = seen[k]
    BY <1>1
  <1>3. /\ DOMAIN R = 1 .. m + 1 /\ DOMAIN rows = 1 .. m /\ R[m + 1] = line /\ Len(R) = m + 1
        /\ \A k \in 1 .. m : R[k] = rows[k]
        /\ R \in Seq(Lines)
    BY <1>1 DEF ShownOf
  <1>4. \A k \in 1 .. m :
          /\ rows[k].at \in 1 .. n /\ sniffer!Known(seen[rows[k].at])
          /\ sniffer!Truthful(rows[k], seen[rows[k].at])
    BY <1>2, <1>3 DEF ShownOf
  <1>5. \A k \in DOMAIN R : k = m + 1 \/ k \in 1 .. m
    BY <1>1, <1>3
  <1>6. \A k, l \in DOMAIN R : k < l => R[k].at < R[l].at
    <2> TAKE k, l \in DOMAIN R
    <2> HAVE k < l
    <2>1. k \in 1 .. m /\ R[k] = rows[k]
      BY <1>1, <1>3
    <2>2. CASE l = m + 1
      BY <1>1, <1>3, <1>4, <2>1, <2>2
    <2>3. CASE l \in 1 .. m
      BY <1>3, <2>1, <2>3 DEF ShownOf
    <2> QED
      BY <1>5, <2>2, <2>3
  <1>7. ASSUME NEW k \in DOMAIN R
        PROVE  /\ R[k].at \in DOMAIN S /\ sniffer!Known(S[R[k].at])
               /\ sniffer!Truthful(R[k], S[R[k].at])
    <2>1. CASE k = m + 1
      <3>1. R[k] = line /\ R[k].at = n + 1
        BY <1>1, <1>3, <2>1
      <3>2. n + 1 \in DOMAIN S /\ S[n + 1] = p
        BY <1>1, <1>2
      <3>3. R[k].at \in DOMAIN S /\ S[R[k].at] = p
        BY <3>1, <3>2
      <3> QED
        BY <3>1, <3>3
    <2>2. CASE k \in 1 .. m
      <3>1. R[k] = rows[k] /\ rows[k].at \in 1 .. n
        BY <1>3, <1>4, <2>2
      <3>2. R[k].at \in DOMAIN S /\ S[R[k].at] = seen[rows[k].at]
        BY <1>1, <1>2, <3>1
      <3> QED
        BY <1>4, <2>2, <3>1, <3>2
    <2> QED
      BY <1>5, <2>1, <2>2
  <1>8. ASSUME NEW j \in DOMAIN S, sniffer!Known(S[j]), j <= num
        PROVE  \E k \in DOMAIN R : R[k].at = j
    <2>1. CASE j = n + 1
      <3>1. m + 1 \in DOMAIN R /\ R[m + 1].at = j
        BY <1>1, <1>3, <2>1
      <3> QED
        BY <3>1
    <2>2. CASE j \in 1 .. n
      <3>1. PICK k \in DOMAIN rows : rows[k].at = j
        BY <1>2, <1>8, <2>2 DEF ShownOf
      <3> QED
        BY <1>1, <1>3, <3>1
    <2> QED
      BY <1>1, <1>2, <2>1, <2>2
  <1>9. m <= n
    BY <1>1 DEF ShownOf
  <1>10. Len(R) <= Len(S) /\ (Len(S) <= INT_MAX => Len(R) <= num)
    BY <1>1, <1>2, <1>3, <1>9, SnifferNumbers
  <1> QED
    BY <1>1, <1>3, <1>6, <1>7, <1>8, <1>10 DEF ShownOf

(* No line for the packet captured last.                                   *)
LEMMA ShowsNone ==
  ASSUME NEW seen \in Seq(Packets), NEW num \in 1 .. INT_MAX, NEW rows, ShownOf(seen, num, rows),
         NEW p \in Packets, ~ (sniffer!Known(p) /\ Len(seen) + 1 <= num)
  PROVE  ShownOf(Append(seen, p), num, rows)
  <1>0. Len(seen) \in Nat /\ Len(rows) \in Nat
    BY DEF ShownOf
  <1>1. PICK n, m, S : n = Len(seen) /\ m = Len(rows) /\ S = Append(seen, p) /\ n \in Nat /\ m \in Nat
    BY <1>0
  <1>2. /\ DOMAIN S = 1 .. n + 1 /\ DOMAIN seen = 1 .. n /\ S[n + 1] = p /\ Len(S) = n + 1
        /\ \A k \in 1 .. n : S[k] = seen[k]
    BY <1>1
  <1>3. ASSUME NEW k \in DOMAIN rows
        PROVE  /\ rows[k].at \in DOMAIN S /\ sniffer!Known(S[rows[k].at])
               /\ sniffer!Truthful(rows[k], S[rows[k].at])
    <2>1. /\ rows[k].at \in 1 .. n /\ sniffer!Known(seen[rows[k].at])
          /\ sniffer!Truthful(rows[k], seen[rows[k].at])
      BY <1>2 DEF ShownOf
    <2> QED
      BY <1>1, <1>2, <2>1
  <1>4. ASSUME NEW j \in DOMAIN S, sniffer!Known(S[j]), j <= num
        PROVE  \E k \in DOMAIN rows : rows[k].at = j
    <2>1. j \in 1 .. n
      BY <1>1, <1>2, <1>4
    <2> QED
      BY <1>2, <1>4, <2>1 DEF ShownOf
  <1>5. m <= n /\ (n <= INT_MAX => m <= num)
    BY <1>1 DEF ShownOf
  <1>6. Len(rows) <= Len(S) /\ (Len(S) <= INT_MAX => Len(rows) <= num)
    BY <1>1, <1>2, <1>5, SnifferNumbers
  <1>7. ShownOf(S, num, rows)
    BY <1>3, <1>4, <1>6 DEF ShownOf
  <1> QED
    BY <1>1, <1>7

LEMMA CaptureSniffer ==
  ASSUME SnifferInv, NEW p \in Packets, snifferPc = "pcap_loop", Len(captured) < MaxCaptured,
         captured' = Append(captured, p), sniffer!packet_handler(p),
         UNCHANGED << args_cli, filter, snifferPc >>
  PROVE  SnifferInv'
  <1>1. PICK n \in Nat, num \in 1 .. INT_MAX : n = Len(captured) /\ num = args_cli.num
    BY DEF SnifferInv
  <1>2. captured \in Seq(Packets) /\ captured' \in Seq(Packets) /\ Len(captured') = n + 1
    BY <1>1 DEF SnifferInv
  <1>3. n < MaxCaptured /\ n + 1 <= MaxCaptured
    BY <1>1, SnifferNumbers
  <1>4. /\ packet_counter' \in - INT_MAX - 1 .. INT_MAX
        /\ n + 1 <= INT_MAX => packet_counter' = n + 1
    <2>1. packet_counter' = IF packet_counter = INT_MAX THEN - INT_MAX - 1 ELSE packet_counter + 1
      BY DEF sniffer!packet_handler, sniffer!Incremented
    <2>2. packet_counter \in - INT_MAX - 1 .. INT_MAX /\ (n <= INT_MAX => packet_counter = n)
      BY <1>1 DEF SnifferInv
    <2> QED
      BY <2>1, <2>2, SnifferNumbers
  <1>5. /\ num >= packet_counter' => n + 1 <= num \/ n + 1 > INT_MAX
        /\ n + 1 <= num => num >= packet_counter'
    BY <1>4, SnifferNumbers
  <1>6. ShownOf(captured', num, shown')
    <2>1. CASE num >= packet_counter' /\ p.net \in {"ip", "ip6"} /\ sniffer!Known(p)
      <3>1. PICK port1 \in sniffer!PortRead(p), hosts \in sniffer!Addresses(p) :
              shown' = Append(shown, [at |-> Len(captured'), hosts |-> hosts, port |-> port1])
        BY <1>1, <2>1 DEF sniffer!packet_handler, sniffer!Known
      <3>2. PICK line : line = [at |-> n + 1, hosts |-> hosts, port |-> port1]
        OBVIOUS
      <3>3. line \in Lines /\ line.at = n + 1
        BY <3>1, <3>2 DEF Lines, sniffer!PortRead
      <3>4. sniffer!Truthful(line, p)
        BY <2>1, <3>1, <3>2 DEF sniffer!Truthful, sniffer!PortRead, sniffer!Addresses
      <3>5. ShownOf(captured, num, shown)
        BY <1>1 DEF SnifferInv
      <3>6. ShownOf(Append(captured, p), num, Append(shown, line))
        <4>1. PICK seen, rows : seen = captured /\ rows = shown
          OBVIOUS
        <4>2. ShownOf(Append(seen, p), num, Append(rows, line))
          BY <1>1, <1>2, <1>5, <2>1, <3>3, <3>4, <3>5, <4>1, ShowsLast
        <4> QED
          BY <4>1, <4>2
      <3> QED
        BY <1>2, <3>1, <3>2, <3>6
    <2>2. CASE ~ (num >= packet_counter' /\ p.net \in {"ip", "ip6"} /\ sniffer!Known(p))
      <3>1. shown' = shown
        BY <1>1, <2>2 DEF sniffer!packet_handler, sniffer!Known
      <3>2. ~ (sniffer!Known(p) /\ n + 1 <= num)
        BY <1>5, <2>2, SnifferNumbers
      <3>3. ShownOf(captured, num, shown)
        BY <1>1 DEF SnifferInv
      <3>4. PICK seen, rows : seen = captured /\ rows = shown
        OBVIOUS
      <3>5. ShownOf(Append(seen, p), num, rows)
        BY <1>1, <1>2, <3>2, <3>3, <3>4, ShowsNone
      <3> QED
        BY <3>1, <3>4, <3>5
    <2> QED
      BY <2>1, <2>2
  <1> QED
    BY <1>1, <1>2, <1>3, <1>4, <1>6 DEF SnifferInv

LEMMA NextSniffer == SnifferInv /\ [sniffer!Next]_snifferVars => SnifferInv'
  <1> SUFFICES ASSUME SnifferInv, [sniffer!Next]_snifferVars PROVE SnifferInv'
    OBVIOUS
  <1>1. CASE sniffer!Start
    BY <1>1, StartSniffer
  <1>2. CASE sniffer!Capture
    <2>1. PICK p \in Packets :
            /\ snifferPc = "pcap_loop" /\ Len(captured) < MaxCaptured
            /\ captured' = Append(captured, p) /\ sniffer!packet_handler(p)
            /\ UNCHANGED << args_cli, filter, snifferPc >>
      BY <1>2 DEF sniffer!Capture
    <2> QED
      BY <2>1, CaptureSniffer
  <1>3. CASE UNCHANGED snifferVars
    BY <1>3 DEF snifferVars, SnifferInv
  <1> QED
    BY <1>1, <1>2, <1>3 DEF sniffer!Next

LEMMA SnifferShows == SnifferInv => PacketsShown
  <1> SUFFICES ASSUME SnifferInv PROVE PacketsShown
    OBVIOUS
  <1>1. sniffer!TypeOK
    <2>1. Len(shown) <= Len(captured)
      BY DEF SnifferInv, ShownOf
    <2> QED
      BY <2>1 DEF SnifferInv, sniffer!TypeOK
  <1>2. ASSUME snifferPc = "pcap_loop", NEW p \in Packets, sniffer!Known(p)
        PROVE  sniffer!Passes(p, filter) <=> sniffer!Wanted(p)
    <2>1. PICK a : a = args_cli
      OBVIOUS
    <2>2. filter = sniffer!build_filter(a)
      BY <1>2, <2>1 DEF SnifferInv
    <2>3. sniffer!Passes(p, sniffer!build_filter(a)) <=> Asked(a, p)
      BY <1>2, FilterRight
    <2> QED
      BY <2>1, <2>2, <2>3 DEF Asked, sniffer!Wanted
  <1>3. snifferPc = "pcap_loop" => ShownOf(captured, args_cli.num, shown)
    BY DEF SnifferInv
  <1> QED
    BY <1>1, <1>2, <1>3 DEF PacketsShown, sniffer!PacketsShown, ShownOf

(* ipk-sniffer shows only packets its arguments ask for, each once and in  *)
(* order with what is theirs, none of the first num left out, whatever the *)
(* arguments, the packets on the interface and their number are.           *)
THEOREM PacketsShownInvariant == Programs => []PacketsShown
  <1>1. ProgramsInit => SnifferInv
    BY SnifferInit DEF ProgramsInit
  <1>2. SnifferInv /\ [ProgramsNext]_all => SnifferInv'
    <2>1. [ProgramsNext]_all => [sniffer!Next]_snifferVars
      BY DEF ProgramsNext, Wordcounts, Tails, Tables, Sieves, Sniffs, all
    <2> QED
      BY <2>1, NextSniffer
  <1> QED
    BY <1>1, <1>2, SnifferShows, PTL DEF Programs

-----------------------------------------------------------------------------
(* Natural numbers: quotient, remainder and divisors.                      *)

LEMMA ProductOrder ==
  ASSUME NEW a \in Nat, NEW b \in Nat, NEW w \in Nat, a <= b
  PROVE  w * a <= w * b /\ w * a \in Nat /\ w * b \in Nat
  <1>1. b - a \in Nat /\ b = a + (b - a)
    OBVIOUS
  <1>2. \A x, y \in Nat : x * y \in Nat /\ w * (x + y) = w * x + w * y
    OBVIOUS
  <1>3. w * b = w * a + w * (b - a) /\ w * (b - a) \in Nat /\ w * a \in Nat
    BY <1>1, <1>2
  <1> QED
    BY <1>2, <1>3

LEMMA Euclid ==
  ASSUME NEW n \in Nat, NEW w \in Nat \ {0}
  PROVE  \E a \in Nat : \E b \in 0 .. w - 1 : a = n \div w /\ b = n % w /\ n = w * a + b
  <1>1. PICK a, b : a = n \div w /\ b = n % w
    OBVIOUS
  <1>2. a \in Nat /\ b \in 0 .. w - 1
    BY <1>1
  <1>3. n = w * a + b
    BY <1>1, <1>2
  <1> QED
    BY ONLY <1>1, <1>2, <1>3

LEMMA EuclidUnique ==
  ASSUME NEW w \in Nat \ {0}, NEW m \in Nat, NEW n \in Nat,
         NEW a \in 0 .. w - 1, NEW b \in 0 .. w - 1, w * m + a = w * n + b
  PROVE  m = n /\ a = b
  <1>1. \A x \in Nat : w * x \in Nat /\ w * (x + 1) = w * x + w
    OBVIOUS
  <1>2. ASSUME NEW x \in Nat, NEW y \in Nat, x < y PROVE w * x + w <= w * y
    <2>1. w * (x + 1) <= w * y
      BY <1>2, ProductOrder
    <2> QED
      BY <1>1, <2>1
  <1>3. ~ (m < n)
    BY <1>1, <1>2
  <1>4. ~ (n < m)
    BY <1>1, <1>2
  <1>5. m = n
    BY <1>3, <1>4
  <1> QED
    BY <1>1, <1>5

LEMMA QuotientBelow ==
  ASSUME NEW k \in Nat, NEW n \in Nat, NEW w \in Nat \ {0}, k < w * n
  PROVE  k \div w < n
  <1>1. PICK a \in Nat : a = k \div w /\ \E b \in 0 .. w - 1 : k = w * a + b
    BY Euclid
  <1>2. w * a \in Nat /\ w * a <= k
    BY <1>1
  <1>3. n <= a => w * n <= w * a
    BY <1>1, ProductOrder
  <1> QED
    BY <1>1, <1>2, <1>3

LEMMA Divisor ==
  ASSUME NEW k \in Nat, NEW d \in Nat \ {0}
  PROVE  k % d = 0 <=> \E q \in Nat : k = d * q
  <1>1. PICK a \in Nat, b \in 0 .. d - 1 : b = k % d /\ k = d * a + b
    BY Euclid
  <1>2. ASSUME NEW q \in Nat, k = d * q PROVE k % d = 0
    <2>1. PICK e : e = d * q
      OBVIOUS
    <2>2. e \in Nat /\ e + 0 = e
      BY <2>1
    <2>3. d * q + 0 = d * a + b
      BY ONLY <2>1, <2>2, <1>1, <1>2
    <2> QED
      BY <1>1, <2>3, EuclidUnique
  <1>3. k % d = 0 => k = d * a
    BY <1>1
  <1> QED
    BY <1>1, <1>2, <1>3

(* A divisor of a divisor divides.                                         *)
LEMMA DivisorOfDivisor ==
  ASSUME NEW k \in Nat, NEW n \in Nat \ {0}, NEW d \in Nat \ {0}, k % n = 0, n % d = 0
  PROVE  k % d = 0
  <1>1. PICK x \in Nat : k = n * x
    BY Divisor
  <1>2. PICK y \in Nat : n = d * y
    BY Divisor
  <1>3. k = d * (y * x) /\ y * x \in Nat
    BY <1>1, <1>2
  <1> QED
    BY <1>3, Divisor

(* A number with a divisor has one whose square is no greater.             *)
LEMMA SmallDivisor ==
  ASSUME NEW k \in Nat, NEW n \in Nat \ {0, 1}, k < n * n,
         NEW d \in 2 .. k - 1, k % d = 0
  PROVE  \E q \in 2 .. n - 1 : q < k /\ k % q = 0
  <1>1. CASE d < n
    <2>1. d \in 2 .. n - 1 /\ d < k
      BY <1>1
    <2> QED
      BY <2>1
  <1>2. CASE d >= n
    <2>1. PICK q \in Nat : k = d * q
      BY Divisor
    <2>2. k = q * d /\ d \in Nat \ {0}
      BY <2>1
    <2>3. q # 0 /\ q # 1
      BY <2>2
    <2>4. q < n
      <3>1. SUFFICES ASSUME n <= q PROVE FALSE
        BY <2>1
      <3>2. n * n <= n * q
        BY <3>1, <2>1, ProductOrder
      <3>3. q * n <= q * d
        BY <1>2, <2>1, ProductOrder
      <3>4. n * q = q * n
        BY <2>1
      <3> QED
        BY <2>2, <3>2, <3>3, <3>4
    <2>5. q < k
      <3>1. q * 2 <= q * d
        BY <2>1, ProductOrder
      <3> QED
        BY <2>2, <2>3, <3>1, <2>1
    <2>6. k % q = 0
      BY <2>1, <2>2, <2>3, Divisor
    <2>7. q \in 2 .. n - 1
      BY <2>1, <2>3, <2>4
    <2> QED
      BY <2>5, <2>6, <2>7
  <1> QED
    BY <1>1, <1>2

-----------------------------------------------------------------------------
(* The array of bits: of SIZEOF chars a word, and a word for every bit.    *)

LEMMA PrimesNumbers ==
  /\ SIZEOF \in Nat \ {0} /\ CHAR_BIT \in Nat \ {0} /\ COUNT \in Nat \ {0} /\ UINT_MAX \in Nat \ {0}
  /\ LIMIT \in Nat \ {0} /\ START \in Nat \ {0} /\ START < LIMIT
  /\ Limits \subseteq Nat /\ None \notin Files
  /\ \A f \in Files : /\ f.xsize \in Nat /\ f.ysize \in Nat
                      /\ f.data \in Seq([bit : {0, 1}, white : BOOLEAN])
  BY PrimesAssumption DEF primes!PrimesAssumption

LEMMA WordSize == primes!Word \in Nat \ {0}
  BY PrimesNumbers DEF primes!Word

(* Bits are set, and no others.                                            *)
LEMMA BitsSet ==
  ASSUME NEW array, NEW indices \in SUBSET Nat, NEW k \in Nat,
         k \div primes!Word + 1 \in DOMAIN array
  PROVE  primes!bit_array_getbit(primes!SetBits(array, indices), k) <=>
           primes!bit_array_getbit(array, k) \/ k \in indices
  <1>1. PICK W \in Nat \ {0} : W = primes!Word
    BY WordSize
  <1>2. PICK v \in Nat, b \in 0 .. W - 1 : v = k \div W /\ b = k % W /\ k = W * v + b
    BY Euclid
  <1>3. primes!SetBits(array, indices)[v + 1] =
          array[v + 1] \cup {n % W : n \in {j \in indices : j \div W + 1 = v + 1}}
    BY <1>1, <1>2 DEF primes!SetBits
  <1>4. b \in {n % W : n \in {j \in indices : j \div W + 1 = v + 1}} <=> k \in indices
    <2>1. ASSUME NEW n \in indices, n \div W + 1 = v + 1, n % W = b PROVE n = k
      <3>1. PICK x \in Nat, y \in 0 .. W - 1 : x = n \div W /\ y = n % W /\ n = W * x + y
        BY Euclid
      <3>2. x = v /\ y = b
        BY <2>1, <3>1
      <3> QED
        BY ONLY <1>2, <3>1, <3>2
    <2>2. k \in indices => k \div W + 1 = v + 1 /\ k % W = b
      BY <1>2
    <2> QED
      BY <2>1, <2>2, Zenon
  <1> QED
    BY <1>1, <1>2, <1>3, <1>4 DEF primes!bit_array_getbit

(* Every bit below the size has a word.                                    *)
LEMMA WordsEnough ==
  ASSUME NEW n \in Nat, NEW k \in Nat, k < n
  PROVE  k \div primes!Word + 1 \in 1 .. primes!Words(n) /\ primes!Words(n) \in Nat
  <1>1. PICK S \in Nat \ {0}, C \in Nat \ {0} : S = SIZEOF /\ C = CHAR_BIT
    BY PrimesNumbers
  <1>2. PICK q \in Nat, r \in 0 .. S - 1 : q = n \div S /\ r = n % S /\ n = S * q + r
    BY Euclid
  <1>3. PICK m : m = primes!Words(n)
    OBVIOUS
  <1>4. m = q * C + IF r * C # 0 THEN 1 ELSE 0
    BY <1>1, <1>2, <1>3 DEF primes!Words
  <1>5. r # 0 => r * C # 0
    BY <1>2
  <1>6. m \in Nat /\ (q <= m /\ (r # 0 => q + 1 <= m))
    <2>1. q * C \in Nat /\ q * 1 <= q * C
      BY ProductOrder
    <2> QED
      BY <1>2, <1>4, <1>5, <2>1
  <1>7. n <= S * m
    <2>1. CASE r = 0
      <3>1. S * q <= S * m
        BY <1>6, ProductOrder
      <3> QED
        BY <1>2, <1>6, <2>1, <3>1
    <2>2. CASE r # 0
      <3>1. S * (q + 1) <= S * m
        BY <1>6, <2>2, ProductOrder
      <3>2. S * (q + 1) = S * q + S
        OBVIOUS
      <3> QED
        BY <1>2, <1>6, <3>1, <3>2
    <2> QED
      BY <2>1, <2>2
  <1>8. k < (S * C) * m /\ S * C \in Nat \ {0}
    <2>1. S * m \in Nat
      BY <1>6
    <2>2. (S * m) * 1 <= (S * m) * C
      BY <2>1, ProductOrder
    <2>3. (S * m) * C = (S * C) * m /\ (S * m) * 1 = S * m
      BY <1>6
    <2>4. k < S * m
      BY <1>7, <2>1
    <2>5. S * C \in Nat /\ S * C # 0
      OBVIOUS
    <2>6. PICK x, y : x = (S * m) * C /\ y = S * m
      OBVIOUS
    <2>7. x \in Nat /\ y \in Nat /\ y <= x /\ k < y
      BY <1>6, <2>1, <2>2, <2>3, <2>4, <2>6
    <2> QED
      BY <2>3, <2>5, <2>6, <2>7
  <1>9. k \div (S * C) < m /\ k \div (S * C) \in Nat
    BY <1>6, <1>8, QuotientBelow, Euclid
  <1> QED
    BY <1>1, <1>3, <1>6, <1>9 DEF primes!Word

-----------------------------------------------------------------------------
(* The sieve, the printing and the decoding, on values.                    *)

Divided(k, n) == \E d \in 2 .. n - 1 : d < k /\ k % d = 0

(* The array when all multiples of the numbers below n are set.            *)
Sifted(array, z, n) ==
  \A k \in 0 .. z - 1 : primes!bit_array_getbit(array, k) <=> k < 2 \/ Divided(k, n)

LEMMA SiftedMore ==
  ASSUME NEW z \in Nat, NEW array, DOMAIN array = 1 .. primes!Words(z),
         NEW n \in 2 .. z - 1, Sifted(array, z, n), NEW new,
         new = IF primes!bit_array_getbit(array, n) THEN array
               ELSE primes!SetBits(array, {k \in 2 * n .. z - 1 : k % n = 0})
  PROVE  Sifted(new, z, n + 1)
  <1> SUFFICES ASSUME NEW k \in 0 .. z - 1
               PROVE  primes!bit_array_getbit(new, k) <=> k < 2 \/ Divided(k, n + 1)
    BY DEF Sifted
  <1>1. primes!bit_array_getbit(array, k) <=> k < 2 \/ Divided(k, n)
    BY DEF Sifted
  <1>0. k \in Nat /\ n \in Nat \ {0} /\ z \in Nat
    OBVIOUS
  <1>2. Divided(k, n + 1) <=> Divided(k, n) \/ (n < k /\ k % n = 0)
    <2>1. \A d : d \in 2 .. (n + 1) - 1 <=> d \in 2 .. n - 1 \/ d = n
      OBVIOUS
    <2> QED
      BY ONLY <2>1, Zenon DEF Divided
  <1>3. CASE primes!bit_array_getbit(array, n)
    <2>1. Divided(n, n)
      BY <1>3 DEF Sifted
    <2>2. PICK d \in 2 .. n - 1 : n % d = 0
      BY <2>1 DEF Divided
    <2>3. ASSUME n < k, k % n = 0 PROVE d < k /\ k % d = 0
      <3>1. d \in Nat \ {0} /\ d < k
        BY <1>0, <2>3
      <3> QED
        BY <1>0, <2>2, <2>3, <3>1, DivisorOfDivisor
    <2>4. n < k /\ k % n = 0 => Divided(k, n)
      BY <2>3 DEF Divided
    <2> QED
      BY <1>1, <1>2, <1>3, <2>4
  <1>4. CASE ~ primes!bit_array_getbit(array, n)
    <2>1. PICK indices : indices = {j \in 2 * n .. z - 1 : j % n = 0}
      OBVIOUS
    <2>2. indices \in SUBSET Nat
      BY <2>1
    <2>3. k \div primes!Word + 1 \in DOMAIN array
      BY WordsEnough
    <2>4. primes!bit_array_getbit(primes!SetBits(array, indices), k) <=>
            primes!bit_array_getbit(array, k) \/ k \in indices
      BY <1>0, <2>2, <2>3, BitsSet, Zenon
    <2>5. k \in indices <=> n < k /\ k % n = 0
      <3>1. k \in indices => n < k
        BY <2>1
      <3>2. ASSUME n < k, k % n = 0 PROVE 2 * n <= k
        <4>1. PICK q \in Nat : k = n * q
          BY <1>0, <3>2, Divisor, Zenon
        <4>2. q # 0 /\ q # 1
          BY <3>2, <4>1
        <4>3. n * 2 <= n * q
          BY <4>2, ProductOrder
        <4> QED
          BY <4>1, <4>3
      <3> QED
        BY <2>1, <3>1, <3>2
    <2>6. new = primes!SetBits(array, indices)
      BY <1>4, <2>1
    <2> QED
      BY <1>1, <1>2, <2>4, <2>5, <2>6
  <1> QED
    BY <1>3, <1>4

(* It is done when the square of the last number has reached the size.     *)
LEMMA SiftedAll ==
  ASSUME NEW z \in Nat, NEW array, NEW n \in Nat \ {0, 1}, Sifted(array, z, n),
         ~ ((n - 1) * (n - 1) < z), NEW k \in 0 .. z - 1
  PROVE  primes!IsPrime(k) <=> ~ primes!bit_array_getbit(array, k)
  <1>1. primes!bit_array_getbit(array, k) <=> k < 2 \/ Divided(k, n)
    BY DEF Sifted
  <1>2. k < 2 => ~ primes!IsPrime(k)
    BY DEF primes!IsPrime
  <1>3. ASSUME Divided(k, n) PROVE ~ primes!IsPrime(k)
    <2>1. PICK d \in 2 .. n - 1 : d < k /\ k % d = 0
      BY <1>3 DEF Divided
    <2>2. d \in 2 .. k - 1
      BY <2>1
    <2> QED
      BY <2>1, <2>2, Zenon DEF primes!IsPrime
  <1>4. k < n * n
    <2>1. PICK m \in Nat : m = n - 1
      OBVIOUS
    <2>2. m * m <= m * n /\ n * m <= n * n /\ m * n = n * m
      BY <2>1, ProductOrder
    <2>3. PICK x, y, v : x = m * m /\ y = m * n /\ v = n * n /\ x \in Nat /\ y \in Nat /\ v \in Nat
      BY <2>1
    <2>4. ~ (x < z) /\ x <= y /\ y <= v
      BY <2>1, <2>2, <2>3
    <2> QED
      BY <2>3, <2>4
  <1>5. ASSUME ~ (k < 2), ~ primes!IsPrime(k) PROVE Divided(k, n)
    <2>0. k > 1 /\ k \in Nat
      BY <1>5
    <2>1. PICK d \in 2 .. k - 1 : k % d = 0
      BY <1>5, <2>0, Zenon DEF primes!IsPrime
    <2>2. \E q \in 2 .. n - 1 : q < k /\ k % q = 0
      BY <1>4, <2>0, <2>1, SmallDivisor, Zenon
    <2> QED
      BY <2>2 DEF Divided
  <1> QED
    BY <1>1, <1>2, <1>3, <1>5

(* The primes collected from the greatest down.                            *)
Collected(z, n, seen) ==
  /\ seen \in Seq(Nat)
  /\ \A p \in Nat : (\E k \in 1 .. Len(seen) : seen[k] = p) <=> p \in n + 1 .. z - 1 /\ primes!IsPrime(p)
  /\ \A j, k \in 1 .. Len(seen) : j < k => seen[j] < seen[k]

LEMMA CollectedMore ==
  ASSUME NEW z \in Nat, NEW n \in 1 .. z - 1, NEW had, Collected(z, n, had),
         NEW has, has = IF primes!IsPrime(n) THEN << n >> \o had ELSE had
  PROVE  /\ Collected(z, n - 1, has)
         /\ Len(has) \in Nat /\ Len(has) <= Len(had) + 1
  <1>1. PICK m \in Nat : m = Len(had)
    BY DEF Collected
  <1>2. CASE ~ primes!IsPrime(n)
    <2>1. has = had
      BY <1>2
    <2>2. \A p \in Nat : p \in n + 1 .. z - 1 /\ primes!IsPrime(p) <=> p \in (n - 1) + 1 .. z - 1 /\ primes!IsPrime(p)
      BY <1>2
    <2> QED
      BY <1>1, <2>1, <2>2 DEF Collected
  <1>3. CASE primes!IsPrime(n)
    <2>1. had \in Seq(Nat) /\ << n >> \in Seq(Nat) /\ has = << n >> \o had
      BY <1>3 DEF Collected
    <2>2. /\ has \in Seq(Nat) /\ Len(has) = m + 1 /\ has[1] = n
          /\ \A k \in 1 .. m : has[k + 1] = had[k]
      BY <1>1, <2>1
    <2>3. \A k \in 1 .. m + 1 : (k = 1 /\ has[k] = n) \/ (k > 1 /\ k - 1 \in 1 .. m /\ has[k] = had[k - 1])
      <3> TAKE k \in 1 .. m + 1
      <3>1. CASE k = 1
        <4>1. has[1] = n
          BY <2>2
        <4> QED
          BY ONLY <3>1, <4>1
      <3>2. CASE k > 1
        <4>1. k - 1 \in 1 .. m /\ (k - 1) + 1 = k
          BY <1>1, <3>2
        <4> QED
          BY <2>2, <3>2, <4>1
      <3> QED
        BY ONLY <1>1, <3>1, <3>2
    <2>4. \A k \in 1 .. m : had[k] \in Nat /\ had[k] > n
      BY <1>1, <2>1 DEF Collected
    <2>5. ASSUME NEW p \in Nat
          PROVE  (\E k \in 1 .. Len(has) : has[k] = p) <=> p \in (n - 1) + 1 .. z - 1 /\ primes!IsPrime(p)
      <3>1. (\E k \in 1 .. m + 1 : has[k] = p) <=> p = n \/ \E k \in 1 .. m : had[k] = p
        <4>1. 1 \in 1 .. m + 1 /\ \A k \in 1 .. m : k + 1 \in 1 .. m + 1
          BY <1>1
        <4>2. ASSUME NEW k \in 1 .. m + 1, has[k] = p PROVE p = n \/ \E j \in 1 .. m : had[j] = p
          BY <2>3, <4>2, Zenon
        <4>3. has[1] = n /\ \A k \in 1 .. m : has[k + 1] = had[k]
          BY <2>2
        <4> QED
          BY ONLY <4>1, <4>2, <4>3, Zenon
      <3>2. (\E k \in 1 .. m : had[k] = p) <=> p \in n + 1 .. z - 1 /\ primes!IsPrime(p)
        BY <1>1 DEF Collected
      <3> QED
        BY <1>3, <2>2, <3>1, <3>2
    <2>6. \A j, k \in 1 .. Len(has) : j < k => has[j] < has[k]
      <3> SUFFICES ASSUME NEW j \in 1 .. m + 1, NEW k \in 1 .. m + 1, j < k PROVE has[j] < has[k]
        BY <2>2
      <3>0. j \in Int /\ k \in Int /\ k > 1 /\ k # 1
        OBVIOUS
      <3>1. k - 1 \in 1 .. m /\ has[k] = had[k - 1]
        BY <2>3, <3>0, Zenon
      <3>2. CASE j = 1
        BY <2>2, <2>4, <3>1, <3>2
      <3>3. CASE j > 1
        <4>1. j - 1 < k - 1 /\ j # 1
          BY <3>0, <3>3
        <4>2. j - 1 \in 1 .. m /\ has[j] = had[j - 1]
          BY <2>3, <3>3, <4>1, Zenon
        <4> QED
          BY <1>1, <3>1, <4>1, <4>2 DEF Collected
      <3> QED
        BY ONLY <1>1, <3>2, <3>3
    <2>7. Collected(z, n - 1, has)
      BY <2>2, <2>5, <2>6, Zenon DEF Collected
    <2> QED
      BY <1>1, <2>2, <2>7
  <1> QED
    BY <1>2, <1>3

(* What is printed: zeros, and the primes collected.                       *)
Printed(z, seen) ==
  /\ DOMAIN seen = 1 .. COUNT
  /\ \A k \in 1 .. COUNT : seen[k] \in {0} \cup primes!PrimesFrom(2, z)
  /\ \A j, k \in 1 .. COUNT : j < k => seen[j] = 0 \/ seen[j] < seen[k]
  /\ \A p \in primes!PrimesFrom(2, z) : p < seen[1] \/ \E k \in 1 .. COUNT : seen[k] = p

LEMMA PrintedLast ==
  ASSUME NEW z \in Nat, NEW n \in Nat, NEW had, Collected(z, n, had), Len(had) <= COUNT,
         n = 0 \/ Len(had) = COUNT
  PROVE  Printed(z, [k \in 1 .. COUNT - Len(had) |-> 0] \o had)
  <1>1. PICK m \in Nat, w \in Nat : m = Len(had) /\ w = COUNT - m /\ m + w = COUNT /\ COUNT >= 1
    BY PrimesNumbers DEF Collected
  <1>2. PICK Z : Z = [k \in 1 .. w |-> 0]
    OBVIOUS
  <1>3. Z \in Seq(Nat) /\ Len(Z) = w /\ \A k \in 1 .. w : Z[k] = 0
    BY <1>2
  <1>4. had \in Seq(Nat) /\ \A k \in 1 .. m : had[k] \in Nat
    BY <1>1 DEF Collected
  <1>5. PICK P : P = Z \o had
    OBVIOUS
  <1>6. /\ P \in Seq(Nat) /\ Len(P) = COUNT
        /\ \A k \in 1 .. COUNT : P[k] = IF k <= w THEN 0 ELSE had[k - w]
    <2>1. /\ P \in Seq(Nat) /\ Len(P) = Len(Z) + Len(had)
          /\ \A k \in 1 .. Len(Z) + Len(had) : P[k] = IF k <= Len(Z) THEN Z[k] ELSE had[k - Len(Z)]
      BY ONLY <1>3, <1>4, <1>5, ConcatProperties, Zenon
    <2>2. Len(Z) + Len(had) = COUNT /\ Len(Z) = w
      BY <1>1, <1>3
    <2>3. \A k \in 1 .. COUNT : P[k] = IF k <= w THEN Z[k] ELSE had[k - w]
      BY ONLY <2>1, <2>2, Zenon
    <2>4. \A k \in 1 .. COUNT : k <= w => k \in 1 .. w
      BY <1>1
    <2> QED
      BY ONLY <1>3, <2>1, <2>2, <2>3, <2>4, Zenon
  <1>7. \A p \in Nat : p \in primes!PrimesFrom(2, z) <=> p \in 1 .. z - 1 /\ primes!IsPrime(p)
    <2>1. \A p \in Nat : primes!IsPrime(p) => p > 1
      BY DEF primes!IsPrime
    <2> QED
      BY <2>1 DEF primes!PrimesFrom
  <1>8. \A k \in 1 .. COUNT : (k <= w /\ P[k] = 0) \/ (k > w /\ k - w \in 1 .. m /\ P[k] = had[k - w])
    <2> TAKE k \in 1 .. COUNT
    <2>1. P[k] = IF k <= w THEN 0 ELSE had[k - w]
      BY <1>6
    <2>2. k > w => k - w \in 1 .. m
      BY <1>1
    <2>3. k <= w \/ k > w
      BY <1>1
    <2>4. k > w => ~ (k <= w)
      BY <1>1
    <2>5. CASE k <= w
      BY ONLY <2>1, <2>5
    <2>6. CASE k > w
      BY ONLY <2>1, <2>2, <2>4, <2>6
    <2> QED
      BY ONLY <2>3, <2>5, <2>6
  <1>9. \A k \in 1 .. m : had[k] \in primes!PrimesFrom(2, z) /\ had[k] > n
    BY <1>1, <1>4, <1>7 DEF Collected
  <1>10. \A k \in 1 .. COUNT : P[k] \in {0} \cup primes!PrimesFrom(2, z)
    BY <1>8, <1>9
  <1>11. ASSUME NEW j \in 1 .. COUNT, NEW k \in 1 .. COUNT, j < k PROVE P[j] = 0 \/ P[j] < P[k]
    <2>1. CASE j <= w
      BY <1>6, <2>1
    <2>2. CASE j > w
      <3>1. j - w \in 1 .. m /\ k - w \in 1 .. m /\ j - w < k - w /\ P[j] = had[j - w] /\ P[k] = had[k - w]
        <4>1. k > w /\ ~ (j <= w) /\ ~ (k <= w) /\ j - w < k - w
          BY <1>1, <1>11, <2>2
        <4> QED
          BY <1>8, <4>1, Zenon
      <3> QED
        BY <1>1, <3>1 DEF Collected
    <2> QED
      BY <1>1, <2>1, <2>2
  <1>12. ASSUME NEW p \in primes!PrimesFrom(2, z) PROVE p < P[1] \/ \E k \in 1 .. COUNT : P[k] = p
    <2>1. p \in 1 .. z - 1 /\ primes!IsPrime(p)
      BY DEF primes!PrimesFrom, primes!IsPrime
    <2>2. CASE p <= n
      <3>1. m = COUNT /\ w = 0
        BY <1>1, <2>1, <2>2
      <3>2. P[1] = had[1] /\ had[1] > n /\ had[1] \in Nat
        BY <1>1, <1>4, <1>8, <1>9, <3>1
      <3> QED
        BY <2>1, <2>2, <3>2
    <2>3. CASE p > n
      <3>1. PICK k \in 1 .. m : had[k] = p
        BY <1>1, <2>1, <2>3 DEF Collected
      <3>2. k + w \in 1 .. COUNT /\ k + w > w /\ (k + w) - w = k
        BY <1>1
      <3>3. P[k + w] = p
        BY <1>8, <3>1, <3>2
      <3> QED
        BY <3>2, <3>3
    <2> QED
      BY <2>1, <2>2, <2>3
  <1>13. DOMAIN P = 1 .. COUNT
    BY <1>6
  <1>14. Printed(z, P)
    BY <1>10, <1>11, <1>12, <1>13 DEF Printed
  <1> QED
    BY <1>1, <1>2, <1>5, <1>14

(* How many primes from START on are below a number.                       *)
LEMMA Ranks ==
  ASSUME NEW p \in Nat
  PROVE  /\ primes!PrimesFrom(START, p) = {n \in START .. p - 1 : primes!IsPrime(n)}
         /\ IsFiniteSet(primes!PrimesFrom(START, p))
         /\ primes!Rank(p) = Cardinality(primes!PrimesFrom(START, p)) /\ primes!Rank(p) \in Nat
  <1>1. PICK S : S = primes!PrimesFrom(START, p)
    OBVIOUS
  <1>2. S = {n \in START .. p - 1 : primes!IsPrime(n)}
    BY <1>1 DEF primes!PrimesFrom
  <1>3. IsFiniteSet(START .. p - 1) /\ S \subseteq START .. p - 1
    BY <1>2, PrimesNumbers, FS_Interval
  <1>4. IsFiniteSet(S) /\ Cardinality(S) \in Nat
    BY <1>3, FS_Subset, FS_CardinalityType
  <1>5. primes!Cardinality(S) = Cardinality(S)
    BY DEF primes!Cardinality, Cardinality
  <1>6. primes!Rank(p) = Cardinality(S)
    BY <1>1, <1>5 DEF primes!Rank
  <1> QED
    BY <1>1, <1>2, <1>4, <1>6

LEMMA RankOrder ==
  ASSUME NEW p \in Nat, NEW q \in Nat, p <= q
  PROVE  primes!Rank(p) <= primes!Rank(q)
  <1>1. PICK S, T : S = primes!PrimesFrom(START, p) /\ T = primes!PrimesFrom(START, q)
    OBVIOUS
  <1>2. IsFiniteSet(T) /\ primes!Rank(p) = Cardinality(S) /\ primes!Rank(q) = Cardinality(T)
    BY <1>1, Ranks
  <1>3. S \subseteq T
    <2>1. S = {n \in START .. p - 1 : primes!IsPrime(n)} /\ T = {n \in START .. q - 1 : primes!IsPrime(n)}
      BY <1>1, Ranks
    <2>2. START .. p - 1 \subseteq START .. q - 1
      BY PrimesNumbers
    <2> QED
      BY ONLY <2>1, <2>2
  <1> QED
    BY <1>2, <1>3, FS_Subset

LEMMA RankNext ==
  ASSUME NEW p \in Nat, START <= p
  PROVE  primes!Rank(p + 1) = primes!Rank(p) + IF primes!IsPrime(p) THEN 1 ELSE 0
  <1>1. PICK S, T : S = primes!PrimesFrom(START, p) /\ T = primes!PrimesFrom(START, p + 1)
    OBVIOUS
  <1>2. /\ IsFiniteSet(S) /\ primes!Rank(p) = Cardinality(S) /\ primes!Rank(p + 1) = Cardinality(T)
        /\ S = {n \in START .. p - 1 : primes!IsPrime(n)}
        /\ T = {n \in START .. (p + 1) - 1 : primes!IsPrime(n)}
    BY <1>1, Ranks
  <1>3. /\ p \notin START .. p - 1
        /\ \A n : n \in START .. (p + 1) - 1 <=> n \in START .. p - 1 \/ n = p
    BY PrimesNumbers
  <1>4. CASE primes!IsPrime(p)
    <2>1. T = S \cup {p} /\ p \notin S
      BY ONLY <1>2, <1>3, <1>4
    <2> QED
      BY <1>2, <1>4, <2>1, FS_AddElement, FS_CardinalityType
  <1>5. CASE ~ primes!IsPrime(p)
    <2>1. T = S
      BY ONLY <1>2, <1>3, <1>5
    <2>2. PICK r \in Nat : r = primes!Rank(p)
      BY Ranks
    <2>3. primes!Rank(p + 1) = r
      BY ONLY <1>2, <2>1, <2>2, Zenon
    <2>4. r = r + 0
      BY <2>2
    <2> QED
      BY ONLY <1>5, <2>2, <2>3, <2>4
  <1> QED
    BY <1>4, <1>5

LEMMA RankStart == primes!Rank(START) = 0
  <1>1. START \in Nat /\ START .. START - 1 = {}
    BY PrimesNumbers
  <1>2. primes!PrimesFrom(START, START) = {}
    BY <1>1, Ranks
  <1> QED
    BY <1>1, <1>2, Ranks, FS_EmptySet

(* What a picture says, as Places, CharAt and Ends.                        *)
MemoryOf(f) == (3 * f.xsize * f.ysize) % (UINT_MAX + 1)
EndOf(f) == IF LIMIT <= MemoryOf(f) THEN LIMIT ELSE MemoryOf(f)
PlacesOf(f) == primes!PrimesFrom(START, EndOf(f))
BitAt(f, p) == f.data[p + 1].bit

(* The bits of the character after n others, as far as they are before p.  *)
Part(f, p, n) ==
  {b \in 0 .. CHAR_BIT - 1 :
     \E q \in PlacesOf(f) : q < p /\ primes!Rank(q) = CHAR_BIT * n + b /\ BitAt(f, q) = 1}
CharOf(f, n) ==
  {b \in 0 .. CHAR_BIT - 1 :
     \E q \in PlacesOf(f) : primes!Rank(q) = CHAR_BIT * (n - 1) + b /\ BitAt(f, q) = 1}
EndsOf(f) == {n \in 1 .. primes!Rank(EndOf(f)) \div CHAR_BIT : CharOf(f, n) = {}}

LEMMA EndType ==
  ASSUME NEW f \in Files
  PROVE  /\ MemoryOf(f) \in Nat /\ EndOf(f) \in Nat
         /\ \A p \in Nat : p < EndOf(f) <=> p < LIMIT /\ p < MemoryOf(f)
  <1>1. PICK a \in Nat, b \in Nat \ {0} : a = 3 * f.xsize * f.ysize /\ b = UINT_MAX + 1
    BY PrimesNumbers
  <1>2. a % b \in Nat
    BY Euclid
  <1>3. MemoryOf(f) \in Nat
    BY <1>1, <1>2 DEF MemoryOf
  <1> QED
    BY <1>3, PrimesNumbers DEF EndOf

(* The decoder at place p: so many bits of the character after those of    *)
(* text, none of which is zero.                                            *)
Decoding(f, p, count, char, chars) ==
  /\ p \in Nat /\ START <= p /\ count \in 0 .. CHAR_BIT - 1
  /\ chars \in Seq(SUBSET (0 .. CHAR_BIT - 1))
  /\ CHAR_BIT * Len(chars) + count = primes!Rank(p)
  /\ \A n \in 1 .. Len(chars) : chars[n] = CharOf(f, n) /\ chars[n] # {}
  /\ char = Part(f, p, Len(chars))

LEMMA DecodingStarts ==
  ASSUME NEW f \in Files
  PROVE  Decoding(f, START, 0, {}, << >>)
  <1>1. Part(f, START, 0) = {}
    <2> SUFFICES ASSUME NEW q \in PlacesOf(f), q < START PROVE FALSE
      BY DEF Part
    <2>1. q \in START .. EndOf(f) - 1
      BY EndType, Ranks DEF PlacesOf
    <2> QED
      BY <2>1, PrimesNumbers
  <1>2. CHAR_BIT * 0 + 0 = 0 /\ 0 \in 0 .. CHAR_BIT - 1
    BY PrimesNumbers
  <1>3. << >> \in Seq(SUBSET (0 .. CHAR_BIT - 1)) /\ Len(<< >>) = 0
    OBVIOUS
  <1> QED
    BY <1>1, <1>2, <1>3, RankStart, PrimesNumbers DEF Decoding

(* While an end is to come, the decoder is within the picture.             *)
LEMMA DecodingInside ==
  ASSUME NEW f \in Files, NEW p, NEW count, NEW char, NEW chars, Decoding(f, p, count, char, chars),
         NEW e \in EndsOf(f)
  PROVE  p < LIMIT /\ p < MemoryOf(f) /\ Len(chars) + 1 <= e
  <1>0. Len(chars) \in Nat
    BY DEF Decoding
  <1>1. PICK C \in Nat \ {0}, n \in Nat : C = CHAR_BIT /\ n = Len(chars)
    BY <1>0, PrimesNumbers
  <1>2. PICK r \in Nat, x \in Nat : r = primes!Rank(EndOf(f)) /\ x = primes!Rank(p)
    BY EndType, Ranks DEF Decoding
  <1>3. e \in 1 .. r \div C /\ CharOf(f, e) = {}
    BY <1>1, <1>2 DEF EndsOf
  <1>4. n + 1 <= e
    <2>1. ~ (e \in 1 .. n)
      BY <1>1, <1>3 DEF Decoding
    <2> QED
      BY <1>3, <2>1
  <1>5. C * e <= r
    <2>1. PICK a \in Nat : a = r \div C /\ \E b \in 0 .. C - 1 : r = C * a + b
      BY Euclid
    <2>2. C * a <= r /\ e <= a /\ e \in Nat
      BY <1>3, <2>1
    <2>3. C * e <= C * a /\ C * e \in Nat /\ C * a \in Nat
      BY <2>2, ProductOrder
    <2> QED
      BY <2>2, <2>3
  <1>6. x < C * (n + 1)
    <2>1. C * n + count = x /\ count \in 0 .. C - 1
      BY <1>1, <1>2 DEF Decoding
    <2>2. C * (n + 1) = C * n + C /\ C * n \in Nat
      OBVIOUS
    <2> QED
      BY <2>1, <2>2
  <1>7. C * (n + 1) <= C * e /\ C * (n + 1) \in Nat /\ C * e \in Nat
    BY <1>3, <1>4, ProductOrder
  <1>8. x < r
    BY <1>5, <1>6, <1>7
  <1>9. p \in Nat /\ EndOf(f) \in Nat
    BY EndType DEF Decoding
  <1>10. p < EndOf(f)
    BY <1>2, <1>8, <1>9, RankOrder
  <1> QED
    BY <1>1, <1>4, <1>9, <1>10, EndType

(* A step of the decoder within the picture: with the next bit, if the     *)
(* place is a prime.                                                       *)
GoesOn(f, p, count, chars, more) ==
  /\ ~ primes!IsPrime(p) => Decoding(f, p + 1, count, Part(f, p, Len(chars)), chars)
  /\ primes!IsPrime(p) /\ count + 1 # CHAR_BIT => Decoding(f, p + 1, count + 1, more, chars)
  /\ primes!IsPrime(p) /\ count + 1 = CHAR_BIT =>
       /\ more = {} => Append(chars, more) = [n \in 1 .. primes!Min(EndsOf(f)) |-> CharOf(f, n)]
       /\ more # {} => Decoding(f, p + 1, 0, {}, Append(chars, more))

LEMMA DecodingGoesOn ==
  ASSUME NEW f \in Files, NEW p, NEW count, NEW char, NEW chars, Decoding(f, p, count, char, chars),
         NEW e \in EndsOf(f), NEW more, more = (IF BitAt(f, p) = 1 THEN char \cup {count} ELSE char)
  PROVE  GoesOn(f, p, count, chars, more)
  <1>0. Len(chars) \in Nat
    BY DEF Decoding
  <1>1. PICK C \in Nat \ {0}, n \in Nat, x \in Nat, y \in Nat :
          /\ C = CHAR_BIT /\ n = Len(chars) /\ x = primes!Rank(p) /\ y = primes!Rank(p + 1)
    <2>1. p \in Nat /\ p + 1 \in Nat
      BY DEF Decoding
    <2> QED
      BY <1>0, <2>1, PrimesNumbers, Ranks
  <1>2. /\ p \in Nat /\ START <= p /\ count \in 0 .. C - 1 /\ C * n + count = x
        /\ chars \in Seq(SUBSET (0 .. C - 1)) /\ char = Part(f, p, n)
        /\ \A k \in 1 .. n : chars[k] = CharOf(f, k) /\ chars[k] # {}
    BY <1>1 DEF Decoding
  <1>3. y = x + IF primes!IsPrime(p) THEN 1 ELSE 0
    BY <1>1, <1>2, RankNext
  <1>4. C * n \in Nat /\ C * (n + 1) = C * n + C /\ n + 1 \in Nat /\ n < n + 1
    OBVIOUS
  <1>5. \A q \in PlacesOf(f) : q \in Nat
    BY EndType, Ranks, PrimesNumbers DEF PlacesOf
  <1>9. PICK v \in Nat : v = C * n /\ x = v + count
    BY <1>2, <1>4
  <1>10. p \in Nat /\ count \in Nat /\ count <= C - 1
    BY <1>2
  <1>6. p \in PlacesOf(f) <=> primes!IsPrime(p)
    <2>1. p < EndOf(f) /\ EndOf(f) \in Nat
      BY <1>2, DecodingInside, EndType
    <2>2. p \in START .. EndOf(f) - 1
      BY <1>2, <2>1, PrimesNumbers
    <2> QED
      BY <2>1, <2>2, Ranks DEF PlacesOf
  <1>7. CASE ~ primes!IsPrime(p)
    <2>1. Part(f, p + 1, n) = Part(f, p, n)
      <3>1. \A q \in PlacesOf(f) : q < p + 1 <=> q < p
        BY ONLY <1>5, <1>6, <1>7, <1>10
      <3> QED
        BY <3>1, Zenon DEF Part
    <2>2. y = x
      BY <1>3, <1>7
    <2>3. p + 1 \in Nat /\ START <= p + 1
      BY <1>2, PrimesNumbers
    <2>4. Decoding(f, p + 1, count, char, chars)
      BY <1>1, <1>2, <2>1, <2>2, <2>3 DEF Decoding
    <2> QED
      BY <1>1, <1>2, <1>7, <2>4 DEF GoesOn
  <1>8. CASE primes!IsPrime(p)
    <2>1. y = x + 1 /\ p + 1 \in Nat /\ START <= p + 1
      BY <1>2, <1>3, <1>8, PrimesNumbers
    <2>2. Part(f, p + 1, n) = more
      <3>1. ASSUME NEW b \in 0 .. C - 1 PROVE x = C * n + b <=> b = count
        BY <1>9, <1>10, <3>1
      <3>2. \A q \in PlacesOf(f) : q < p + 1 <=> q < p \/ q = p
        BY ONLY <1>5, <1>10
      <3>3. ~ (p < p)
        BY ONLY <1>10
      <3>4. \A b \in 0 .. C - 1 :
              (\E q \in PlacesOf(f) : q < p + 1 /\ primes!Rank(q) = C * n + b /\ BitAt(f, q) = 1) <=>
              \/ \E q \in PlacesOf(f) : q < p /\ primes!Rank(q) = C * n + b /\ BitAt(f, q) = 1
              \/ b = count /\ BitAt(f, p) = 1
        BY <1>1, <1>6, <1>8, <3>1, <3>2, <3>3
      <3>5. \A b : b \in Part(f, p + 1, n) <=> b \in Part(f, p, n) \/ (b = count /\ BitAt(f, p) = 1)
        BY <1>1, <1>2, <3>4, Zenon DEF Part
      <3> QED
        BY <1>2, <3>5
    <2>3. CASE count + 1 # C
      <3>1. C * n + (count + 1) = y /\ count + 1 \in 0 .. C - 1
        BY ONLY <1>1, <1>9, <1>10, <2>1, <2>3
      <3>2. Decoding(f, p + 1, count + 1, more, chars)
        BY <1>1, <1>2, <2>1, <2>2, <3>1 DEF Decoding
      <3> QED
        BY <1>1, <1>8, <2>3, <3>2 DEF GoesOn
    <2>4. CASE count + 1 = C
      <3>1. y = C * (n + 1) /\ x = C * n + (C - 1)
        <4>1. C * (n + 1) = v + C
          BY <1>4, <1>9
        <4>2. x = v + count /\ count = C - 1 /\ y = x + 1 /\ C \in Nat /\ x \in Nat /\ v \in Nat
          BY ONLY <1>1, <1>9, <1>10, <2>1, <2>4
        <4>3. y = v + C
          BY ONLY <4>2
        <4> QED
          BY ONLY <1>9, <4>1, <4>2, <4>3
      <3>2. CharOf(f, n + 1) = more
        <4>1. ASSUME NEW q \in PlacesOf(f), NEW b \in 0 .. C - 1, primes!Rank(q) = C * n + b
              PROVE  q < p + 1
          <5>1. q \in Nat
            BY <1>5
          <5>2. ASSUME p + 1 <= q PROVE FALSE
            <6>1. y <= primes!Rank(q)
              BY <1>1, <2>1, <5>1, <5>2, RankOrder
            <6>2. C * (n + 1) = v + C /\ primes!Rank(q) = v + b
              BY <1>4, <1>9, <4>1
            <6>3. v + C <= v + b
              BY ONLY <3>1, <6>1, <6>2
            <6> QED
              BY ONLY <1>1, <1>9, <6>3, b \in 0 .. C - 1
          <5> QED
            BY ONLY <1>10, <5>1, <5>2
        <4>2. (n + 1) - 1 = n
          OBVIOUS
        <4>3. CharOf(f, n + 1) = Part(f, p + 1, n)
          BY <1>1, <4>1, <4>2, Zenon DEF CharOf, Part
        <4> QED
          BY <2>2, <4>3
      <3>3. more \in SUBSET (0 .. C - 1)
        BY <1>1, <3>2 DEF CharOf
      <3>4. PICK has : has = Append(chars, more)
        OBVIOUS
      <3>5. /\ has \in Seq(SUBSET (0 .. C - 1)) /\ Len(has) = n + 1 /\ has[n + 1] = more
            /\ DOMAIN has = 1 .. n + 1 /\ \A k \in 1 .. n : has[k] = chars[k]
        BY <1>1, <1>2, <3>3, <3>4
      <3>6. \A k \in 1 .. n + 1 : has[k] = CharOf(f, k) /\ (k \in 1 .. n => has[k] # {})
        <4>1. \A k \in 1 .. n + 1 : k \in 1 .. n \/ k = n + 1
          OBVIOUS
        <4>2. n + 1 \notin 1 .. n
          OBVIOUS
        <4> QED
          BY <1>2, <3>2, <3>5, <4>1, <4>2, Zenon
      <3>7. ASSUME more # {} PROVE Decoding(f, p + 1, 0, {}, has)
        <4>1. Part(f, p + 1, n + 1) = {}
          <5> SUFFICES ASSUME NEW q \in PlacesOf(f), NEW b \in 0 .. C - 1, q < p + 1,
                              primes!Rank(q) = C * (n + 1) + b
                       PROVE  FALSE
            BY <1>1 DEF Part
          <5>1. q \in Nat /\ q <= p
            BY ONLY <1>5, <1>10, q \in PlacesOf(f), q < p + 1
          <5>2. primes!Rank(q) <= x
            BY <1>1, <1>2, <5>1, RankOrder
          <5> QED
            <6>1. C * (n + 1) = v + C /\ x = v + (C - 1) /\ primes!Rank(q) = (v + C) + b
              BY <1>4, <1>9, <3>1
            <6>2. (v + C) + b <= v + (C - 1)
              BY ONLY <5>2, <6>1
            <6> QED
              BY ONLY <1>1, <1>9, <6>2, b \in 0 .. C - 1
        <4>2. \A k \in 1 .. n + 1 : has[k] # {}
          <5>1. \A k \in 1 .. n + 1 : k \in 1 .. n \/ k = n + 1
            OBVIOUS
          <5> QED
            BY <3>5, <3>6, <3>7, <5>1, Zenon
        <4>3. C * (n + 1) + 0 = y /\ 0 \in 0 .. C - 1
          BY <1>4, <3>1
        <4> QED
          BY <1>1, <2>1, <3>5, <3>6, <4>1, <4>2, <4>3 DEF Decoding
      <3>8. ASSUME more = {} PROVE has = [k \in 1 .. primes!Min(EndsOf(f)) |-> CharOf(f, k)]
        <4>1. n + 1 <= e
          BY <1>1, DecodingInside
        <4>2. PICK a : a = primes!Rank(EndOf(f)) \div C
          OBVIOUS
        <4>3. EndsOf(f) = {k \in 1 .. a : CharOf(f, k) = {}}
          BY <1>1, <4>2 DEF EndsOf
        <4>4. a \in Nat
          <5>1. PICK r \in Nat : r = primes!Rank(EndOf(f))
            BY EndType, Ranks
          <5>2. \E b \in Nat : b = r \div C
            BY Euclid
          <5> QED
            BY <4>2, <5>1, <5>2
        <4>5. n + 1 \in 1 .. a
          <5>1. e \in 1 .. a
            BY <4>3
          <5> QED
            BY <4>1, <4>4, <5>1
        <4>6. n + 1 \in EndsOf(f)
          BY <3>2, <3>8, <4>3, <4>5
        <4>7. \A k \in EndsOf(f) : k \in Nat /\ n + 1 <= k
          <5> TAKE k \in EndsOf(f)
          <5>1. k \in 1 .. a /\ CharOf(f, k) = {}
            BY <4>3
          <5>2. ~ (k \in 1 .. n)
            BY <1>2, <5>1
          <5> QED
            BY <4>4, <5>1, <5>2
        <4>8. primes!Min(EndsOf(f)) = n + 1
          <5>1. \A k \in EndsOf(f) : (\A j \in EndsOf(f) : k <= j) <=> k = n + 1
            BY <4>6, <4>7
          <5>2. primes!Min(EndsOf(f)) = CHOOSE k \in EndsOf(f) : \A j \in EndsOf(f) : k <= j
            BY DEF primes!Min
          <5> QED
            BY ONLY <4>6, <5>1, <5>2, Zenon
        <4>9. has = [k \in 1 .. n + 1 |-> has[k]]
          BY <3>5
        <4>10. [k \in 1 .. n + 1 |-> has[k]] = [k \in 1 .. n + 1 |-> CharOf(f, k)]
          BY <3>6
        <4> QED
          BY <4>8, <4>9, <4>10
      <3> QED
        BY <1>1, <1>8, <2>4, <3>4, <3>7, <3>8 DEF GoesOn
    <2> QED
      BY <1>1, <2>3, <2>4
  <1> QED
    BY <1>7, <1>8

-----------------------------------------------------------------------------
(* Both programs: what is true in every state of them.                     *)

(* A usual picture, as Usual, and its bytes when they have been read.      *)
Fine(f) ==
  /\ 3 * f.xsize * f.ysize <= UINT_MAX
  /\ Len(f.data) >= MemoryOf(f) /\ ~ f.data[1].white
Copied(f, bytes) ==
  Len(bytes) = MemoryOf(f) /\ \A k \in 1 .. MemoryOf(f) : bytes[k] = f.data[k]
Text(f) == [n \in 1 .. primes!Min(EndsOf(f)) |-> CharOf(f, n)]

PrimesShape ==
  /\ primesPc \in {"read", "refused", "sieve", "error", "print", "decode", "done"}
  /\ size \in Nat /\ file \in Files \cup {None} /\ (file # None => size = LIMIT)
  /\ i \in 0 .. size + 1 /\ bitCount \in 0 .. CHAR_BIT - 1 /\ result \subseteq 0 .. CHAR_BIT - 1
  /\ DOMAIN bits = 1 .. primes!Words(size)
  /\ primesPc \in {"read", "refused"} => file # None /\ i = 0
  /\ primesPc = "sieve" => i = 0 \/ i \in 2 .. size
  /\ primesPc \in {"read", "sieve"} => out = << >> /\ bitCount = 0 /\ result = {}
  /\ primesPc = "print" => file = None /\ i \in 0 .. size - 1
  /\ primesPc = "decode" => file # None /\ i \in START .. LIMIT - 1

Clear(array, z) == \A k \in 0 .. z - 1 : ~ primes!bit_array_getbit(array, k)
Sieved(array, z) ==
  z > 2 /\ \A k \in 0 .. z - 1 : primes!IsPrime(k) <=> ~ primes!bit_array_getbit(array, k)

PrimesBits ==
  /\ (primesPc \in {"read", "refused"} \/ (primesPc = "sieve" /\ i = 0)) => Clear(bits, size)
  /\ primesPc = "sieve" /\ i # 0 => Sifted(bits, size, i)
  /\ primesPc = "error" => size <= 2
  /\ primesPc \in {"print", "decode", "done"} => Sieved(bits, size)

PrimesOut ==
  /\ primesPc = "print" => Collected(size, i, out) /\ Len(out) <= COUNT
  /\ primesPc = "done" /\ file = None => Printed(size, out)

PrimesText ==
  file # None /\ Fine(file) =>
    /\ primesPc # "refused"
    /\ primesPc \in {"sieve", "decode"} => Copied(file, data)
    /\ EndsOf(file) # {} =>
         /\ primesPc = "decode" => Decoding(file, i, bitCount, result, out)
         /\ primesPc = "done" => out = Text(file) /\ ~ unended

PrimesInv == PrimesShape /\ PrimesBits /\ PrimesOut /\ PrimesText

LEMMA PrimesInit == primes!Init => PrimesInv
  <1> SUFFICES ASSUME primes!Init PROVE PrimesInv
    OBVIOUS
  <1>1. /\ \/ primesPc = "sieve" /\ file = None /\ size \in Limits
           \/ primesPc = "read" /\ file \in Files /\ size = LIMIT
        /\ bits = [w \in 1 .. primes!Words(size) |-> {}]
        /\ i = 0 /\ bitCount = 0 /\ result = {} /\ out = << >>
    BY DEF primes!Init
  <1>2. size \in Nat /\ 0 \in 0 .. CHAR_BIT - 1 /\ None \notin Files
    <2>1. size \in Nat /\ None \notin Files
      <3>1. CASE size \in Limits
        BY <3>1, PrimesNumbers
      <3>2. CASE size = LIMIT
        BY <3>2, PrimesNumbers
      <3> QED
        BY <1>1, <3>1, <3>2
    <2>2. 0 \in 0 .. CHAR_BIT - 1
      BY PrimesNumbers
    <2> QED
      BY <2>1, <2>2
  <1>3. DOMAIN bits = 1 .. primes!Words(size) /\ \A w \in DOMAIN bits : bits[w] = {}
    BY <1>1
  <1>4. Clear(bits, size)
    <2>1. PICK z : z = size
      OBVIOUS
    <2>2. ASSUME NEW k \in 0 .. z - 1 PROVE ~ primes!bit_array_getbit(bits, k)
      <3>1. k \div primes!Word + 1 \in 1 .. primes!Words(z)
        BY <1>2, <2>1, WordsEnough
      <3> QED
        BY <1>3, <2>1, <3>1 DEF primes!bit_array_getbit
    <2> QED
      BY <2>1, <2>2 DEF Clear
  <1>5. PrimesShape
    BY <1>1, <1>2, <1>3 DEF PrimesShape
  <1>6. PrimesBits /\ PrimesOut /\ PrimesText
    BY <1>1, <1>2, <1>4 DEF PrimesBits, PrimesOut, PrimesText
  <1> QED
    BY <1>5, <1>6 DEF PrimesInv

(* Reading a usual picture leaves out no byte in front.                    *)
LEMMA PictureRead ==
  ASSUME NEW f \in Files, Fine(f)
  PROVE  LET rest == SubSeq(f.data, primes!WhiteBytes(f.data) + 1, Len(f.data)) IN
         ~ (Len(rest) < MemoryOf(f)) /\ Copied(f, SubSeq(rest, 1, MemoryOf(f)))
  <1> DEFINE B == [bit : {0, 1}, white : BOOLEAN]
  <1>1. f.data \in Seq(B) /\ MemoryOf(f) \in Nat
    BY PrimesNumbers, EndType
  <1> HIDE DEF B
  <1>2. PICK bytes \in Seq(B), n \in Nat, m \in Nat : bytes = f.data /\ n = Len(bytes) /\ m = MemoryOf(f)
    BY <1>1
  <1>3. n >= m /\ ~ bytes[1].white
    BY <1>2 DEF Fine
  <1>4. PICK S : S = {k \in DOMAIN bytes : ~ bytes[k].white} \cup {n + 1}
    OBVIOUS
  <1>5. \A k \in S : k \in Nat /\ 1 <= k
    BY <1>2, <1>4
  <1>6. 1 \in S
    BY <1>2, <1>3, <1>4
  <1>7. primes!Min(S) = 1
    <2>1. \A k \in S : (\A j \in S : k <= j) <=> k = 1
      BY <1>5, <1>6
    <2>2. primes!Min(S) = CHOOSE k \in S : \A j \in S : k <= j
      BY DEF primes!Min
    <2> QED
      BY ONLY <1>6, <2>1, <2>2, Zenon
  <1>8. primes!WhiteBytes(bytes) = 0
    BY <1>2, <1>4, <1>7 DEF primes!WhiteBytes
  <1>9. SubSeq(bytes, 0 + 1, n) = bytes
    BY <1>2
  <1>10. Len(SubSeq(bytes, 1, m)) = m /\ \A k \in 1 .. m : SubSeq(bytes, 1, m)[k] = bytes[k]
    BY <1>2, <1>3
  <1> QED
    BY <1>2, <1>3, <1>8, <1>9, <1>10 DEF Copied

LEMMA ReadKeeps == ASSUME PrimesInv, primes!Read PROVE PrimesInv'
  <1>1. /\ primesPc = "read" /\ UNCHANGED << file, size, bits, i, bitCount, result, out, unended >>
        /\ primesPc' \in {"sieve", "refused"}
    BY DEF primes!Read, primes!Goes, primes!Exits
  <1>2. PICK f \in Files : f = file /\ f # None
    BY <1>1, PrimesNumbers DEF PrimesInv, PrimesShape
  <1>3. PICK rest : rest = SubSeq(f.data, primes!WhiteBytes(f.data) + 1, Len(f.data))
    OBVIOUS
  <1>4. primes!memory = MemoryOf(f)
    BY <1>2 DEF primes!memory, MemoryOf
  <1>5. \/ primesPc' = "sieve" /\ data' = SubSeq(rest, 1, MemoryOf(f))
        \/ primesPc' = "refused" /\ Len(rest) < MemoryOf(f)
    BY <1>2, <1>3, <1>4 DEF primes!Read, primes!Goes, primes!Exits
  <1>6. Fine(f) => ~ (Len(rest) < MemoryOf(f)) /\ Copied(f, SubSeq(rest, 1, MemoryOf(f)))
    BY <1>3, PictureRead
  <1>7. PrimesShape'
    BY <1>1 DEF PrimesInv, PrimesShape
  <1>8. PrimesBits'
    BY <1>1 DEF PrimesInv, PrimesBits, PrimesShape
  <1>9. PrimesOut' /\ PrimesText'
    BY <1>1, <1>2, <1>5, <1>6 DEF PrimesOut, PrimesText
  <1> QED
    BY <1>7, <1>8, <1>9 DEF PrimesInv


(* Zero and one are set first.                                             *)
LEMMA ZeroAndOneKeeps == ASSUME PrimesInv, primes!ZeroAndOne PROVE PrimesInv'
  <1>1. primesPc = "sieve" /\ i = 0 /\ UNCHANGED << file, size, data, bitCount, result, out, unended >>
    BY DEF primes!ZeroAndOne, primes!Goes, primes!Exits
  <1>2. \/ size < 2 /\ primesPc' = "error" /\ UNCHANGED << i, bits >>
        \/ size >= 2 /\ primesPc' = "sieve" /\ bits' = primes!SetBits(bits, {0, 1}) /\ i' = 2
    BY DEF primes!ZeroAndOne, primes!Goes, primes!Exits
  <1>3. PICK z \in Nat, array \in {bits}, new \in {bits'} : z = size /\ array = bits /\ new = bits'
    BY DEF PrimesInv, PrimesShape
  <1>4. DOMAIN array = 1 .. primes!Words(z) /\ Clear(array, z)
    BY <1>1, <1>3 DEF PrimesInv, PrimesShape, PrimesBits
  <1>5. DOMAIN new = 1 .. primes!Words(z)
    BY <1>2, <1>3, <1>4 DEF primes!SetBits
  <1>6. ASSUME primesPc' = "sieve" PROVE Sifted(new, z, 2)
    <2>1. new = primes!SetBits(array, {0, 1})
      BY <1>2, <1>3, <1>6
    <2>2. ASSUME NEW k \in 0 .. z - 1
          PROVE  primes!bit_array_getbit(new, k) <=> k < 2 \/ Divided(k, 2)
      <3>1. k \in Nat /\ k < z /\ (k \in {0, 1} <=> k < 2)
        BY <1>3
      <3>2. k \div primes!Word + 1 \in DOMAIN array
        BY <1>3, <1>4, <3>1, WordsEnough
      <3>3. {0, 1} \in SUBSET Nat
        OBVIOUS
      <3>4. primes!bit_array_getbit(new, k) <=> primes!bit_array_getbit(array, k) \/ k \in {0, 1}
        BY <2>1, <3>1, <3>2, <3>3, BitsSet, Zenon
      <3>5. ~ primes!bit_array_getbit(array, k)
        BY <1>4 DEF Clear
      <3>6. ~ Divided(k, 2)
        BY DEF Divided
      <3> QED
        BY <3>1, <3>4, <3>5, <3>6
    <2> QED
      BY <2>2 DEF Sifted
  <1>7. PrimesShape'
    BY <1>1, <1>2, <1>3, <1>5 DEF PrimesInv, PrimesShape
  <1>8. PrimesBits'
    BY <1>1, <1>2, <1>3, <1>6 DEF PrimesBits
  <1>9. PrimesOut' /\ PrimesText'
    BY <1>1, <1>2 DEF PrimesInv, PrimesOut, PrimesText
  <1> QED
    BY <1>7, <1>8, <1>9 DEF PrimesInv

(* A step of the outer loop; it meets the end of the array only when that  *)
(* has two bits.                                                           *)
LEMMA SieveKeeps == ASSUME PrimesInv, primes!Sieve PROVE PrimesInv'
  <1>1. /\ primesPc = "sieve" /\ i >= 2 /\ (i - 1) * (i - 1) < size
        /\ UNCHANGED << file, size, data, bitCount, result, out, unended >>
    BY DEF primes!Sieve, primes!Goes, primes!Exits, primes!InSieve
  <1>2. \/ i >= size /\ primesPc' = "error" /\ UNCHANGED << i, bits >>
        \/ /\ i < size /\ primesPc' = "sieve" /\ i' = i + 1
           /\ bits' = IF primes!bit_array_getbit(bits, i) THEN bits
                      ELSE primes!SetBits(bits, primes!Multiples(i))
    BY DEF primes!Sieve, primes!Goes, primes!Exits
  <1>3. PICK z \in Nat, n \in Nat, array \in {bits}, new \in {bits'} :
          z = size /\ n = i /\ array = bits /\ new = bits'
    BY DEF PrimesInv, PrimesShape
  <1>4. DOMAIN array = 1 .. primes!Words(z) /\ n \in 2 .. z
    BY <1>1, <1>3 DEF PrimesInv, PrimesShape
  <1>5. Sifted(array, z, n)
    BY <1>1, <1>3, <1>4 DEF PrimesInv, PrimesBits
  <1>6. ASSUME i >= size PROVE z <= 2
    <2> SUFFICES ASSUME z > 2 PROVE FALSE
      OBVIOUS
    <2>1. z - 1 \in Nat /\ 2 \in Nat /\ 2 <= z - 1
      OBVIOUS
    <2>2. (z - 1) * 2 <= (z - 1) * (z - 1)
      BY <2>1, ProductOrder
    <2>3. n = z
      BY <1>3, <1>4, <1>6
    <2> QED
      BY <1>1, <1>3, <2>1, <2>2, <2>3
  <1>7. DOMAIN new = 1 .. primes!Words(z)
    BY <1>2, <1>3, <1>4 DEF primes!SetBits
  <1>8. ASSUME i < size PROVE n \in 2 .. z - 1 /\ Sifted(new, z, n + 1)
    <2>1. n \in 2 .. z - 1
      BY <1>3, <1>4, <1>8
    <2>2. primes!Multiples(i) = {k \in 2 * n .. z - 1 : k % n = 0}
      BY <1>3 DEF primes!Multiples
    <2>3. new = IF primes!bit_array_getbit(array, n) THEN array
                ELSE primes!SetBits(array, {k \in 2 * n .. z - 1 : k % n = 0})
      BY <1>1, <1>2, <1>3, <1>8, <2>2
    <2> QED
      BY <1>4, <1>5, <2>1, <2>3, SiftedMore
  <1>9. PrimesShape'
    BY <1>1, <1>2, <1>3, <1>4, <1>7 DEF PrimesInv, PrimesShape
  <1>10. PrimesBits'
    BY <1>1, <1>2, <1>3, <1>6, <1>8 DEF PrimesBits
  <1>11. PrimesOut' /\ PrimesText'
    BY <1>1, <1>2, <1>3, <1>4 DEF PrimesInv, PrimesOut, PrimesText
  <1> QED
    BY <1>9, <1>10, <1>11 DEF PrimesInv

(* After it the array is right, and the other loop starts.                 *)
LEMMA SievedKeeps == ASSUME PrimesInv, primes!Sieved PROVE PrimesInv'
  <1>1. /\ primesPc = "sieve" /\ i >= 2 /\ ~ ((i - 1) * (i - 1) < size)
        /\ UNCHANGED << file, size, data, bits, bitCount, result, out, unended >>
        /\ primesPc' = IF file = None THEN "print" ELSE "decode"
        /\ i' = IF file = None THEN size - 1 ELSE START
    BY DEF primes!Sieved, primes!Goes, primes!InSieve
  <1>2. PICK z \in Nat, n \in Nat, array \in {bits} : z = size /\ n = i /\ array = bits
    BY DEF PrimesInv, PrimesShape
  <1>3. n \in 2 .. z /\ Sifted(array, z, n)
    BY <1>1, <1>2 DEF PrimesInv, PrimesShape, PrimesBits
  <1>4. ~ ((n - 1) * (n - 1) < z)
    BY <1>1, <1>2
  <1>5. z > 2
    <2>1. CASE n = 2
      BY <1>3, <1>4, <2>1
    <2> QED
      BY <1>3, <2>1
  <1>6. \A k \in 0 .. z - 1 : primes!IsPrime(k) <=> ~ primes!bit_array_getbit(array, k)
    <2>1. n \in Nat \ {0, 1}
      BY <1>3
    <2> QED
      BY <1>3, <1>4, <2>1, SiftedAll
  <1>7. Sieved(array, z)
    BY <1>5, <1>6 DEF Sieved
  <1>8. out = << >> /\ bitCount = 0 /\ result = {}
    BY <1>1 DEF PrimesInv, PrimesShape
  <1>9. ASSUME file # None PROVE file \in Files /\ size = LIMIT /\ START \in START .. LIMIT - 1
    BY <1>9, PrimesNumbers DEF PrimesInv, PrimesShape
  <1>10. PrimesShape'
    <2>1. CASE file = None
      <3>1. i' \in 0 .. size - 1
        BY <1>1, <1>2, <1>5, <2>1
      <3> QED
        BY <1>1, <1>2, <1>5, <2>1, <3>1 DEF PrimesInv, PrimesShape
    <2>2. CASE file # None
      <3>1. i' \in START .. LIMIT - 1 /\ i' \in 0 .. size + 1
        BY <1>1, <1>9, <2>2, PrimesNumbers
      <3> QED
        BY <1>1, <2>2, <3>1 DEF PrimesInv, PrimesShape
    <2> QED
      BY <2>1, <2>2
  <1>11. PrimesBits'
    BY <1>1, <1>2, <1>7 DEF PrimesBits
  <1>12. PrimesOut'
    <2>1. Collected(z, z - 1, << >>)
      BY DEF Collected
    <2>2. Len(<< >>) <= COUNT
      BY PrimesNumbers
    <2> QED
      BY <1>1, <1>2, <1>8, <2>1, <2>2 DEF PrimesOut
  <1>13. PrimesText'
    <2> SUFFICES ASSUME file # None, Fine(file) PROVE PrimesText'
      BY <1>1 DEF PrimesText
    <2>1. Copied(file, data)
      BY <1>1 DEF PrimesInv, PrimesText
    <2>2. PICK f \in Files : f = file
      BY <1>9
    <2>3. Decoding(file, START, 0, {}, << >>)
      BY <2>2, DecodingStarts
    <2> QED
      BY <1>1, <1>8, <2>1, <2>3 DEF PrimesText
  <1> QED
    BY <1>10, <1>11, <1>12, <1>13 DEF PrimesInv

(* A number is printed, if it is a prime.                                  *)
LEMMA CollectKeeps == ASSUME PrimesInv, primes!Collect PROVE PrimesInv'
  <1>1. /\ primesPc = "print" /\ primesPc' = "print" /\ i > 0 /\ Len(out) < COUNT
        /\ UNCHANGED << file, size, data, bits, bitCount, result, unended >>
        /\ out' = IF primes!bit_array_getbit(bits, i) THEN out ELSE << i >> \o out
        /\ i' = i - 1
    BY DEF primes!Collect, primes!Goes
  <1>2. PICK z \in Nat, n \in Nat, had \in {out}, has \in {out'} :
          z = size /\ n = i /\ had = out /\ has = out'
    BY DEF PrimesInv, PrimesShape
  <1>3. n \in 1 .. z - 1 /\ file = None
    BY <1>1, <1>2 DEF PrimesInv, PrimesShape
  <1>4. primes!IsPrime(n) <=> ~ primes!bit_array_getbit(bits, n)
    <2>1. Sieved(bits, z)
      BY <1>1, <1>2 DEF PrimesInv, PrimesBits
    <2> QED
      BY <1>3, <2>1 DEF Sieved
  <1>5. has = IF primes!IsPrime(n) THEN << n >> \o had ELSE had
    BY <1>1, <1>2, <1>4
  <1>6. Collected(z, n, had) /\ Len(had) \in Nat
    BY <1>1, <1>2 DEF PrimesInv, PrimesOut, Collected
  <1>7. Collected(z, n - 1, has) /\ Len(has) \in Nat /\ Len(has) <= Len(had) + 1
    BY <1>3, <1>5, <1>6, CollectedMore
  <1>8. Len(has) <= COUNT
    BY <1>1, <1>2, <1>6, <1>7, PrimesNumbers
  <1>9. PrimesShape'
    <2>1. i' \in 0 .. size - 1
      BY <1>1, <1>2, <1>3
    <2> QED
      BY <1>1, <1>2, <1>3, <2>1 DEF PrimesInv, PrimesShape
  <1>10. PrimesBits' /\ PrimesText'
    BY <1>1, <1>3 DEF PrimesInv, PrimesBits, PrimesText
  <1>11. PrimesOut'
    BY <1>1, <1>2, <1>7, <1>8 DEF PrimesOut
  <1> QED
    BY <1>9, <1>10, <1>11 DEF PrimesInv

LEMMA PrintedKeeps == ASSUME PrimesInv, primes!Printed PROVE PrimesInv'
  <1>1. /\ primesPc = "print" /\ primesPc' = "done" /\ (i = 0 \/ Len(out) = COUNT)
        /\ UNCHANGED << file, size, data, bits, i, bitCount, result, unended >>
        /\ out' = [k \in 1 .. COUNT - Len(out) |-> 0] \o out
    BY DEF primes!Printed, primes!Goes
  <1>2. PICK z \in Nat, n \in Nat, had \in {out} : z = size /\ n = i /\ had = out
    BY DEF PrimesInv, PrimesShape
  <1>3. file = None /\ Collected(z, n, had) /\ Len(had) <= COUNT /\ (n = 0 \/ Len(had) = COUNT)
    BY <1>1, <1>2 DEF PrimesInv, PrimesShape, PrimesOut
  <1>4. Printed(z, [k \in 1 .. COUNT - Len(had) |-> 0] \o had)
    BY <1>3, PrintedLast
  <1>5. PrimesShape'
    BY <1>1 DEF PrimesInv, PrimesShape
  <1>6. PrimesBits' /\ PrimesText'
    BY <1>1, <1>3 DEF PrimesInv, PrimesBits, PrimesText
  <1>7. PrimesOut'
    BY <1>1, <1>2, <1>4 DEF PrimesOut
  <1> QED
    BY <1>5, <1>6, <1>7 DEF PrimesInv

(* A step of the decoder.                                                  *)
LEMMA DecodeKeeps == ASSUME PrimesInv, primes!Decode PROVE PrimesInv'
  <1>1. PICK u \in IF i < Len(data) THEN {data[i + 1].bit} ELSE {0, 1} :
          LET taken == ~ primes!bit_array_getbit(bits, i)
              char == IF u = 1 THEN result \cup {bitCount} ELSE result
              full == taken /\ bitCount + 1 = CHAR_BIT
              ends == full /\ char = {}
          IN
          /\ bitCount' = IF full THEN 0 ELSE IF taken THEN bitCount + 1 ELSE bitCount
          /\ result' = IF full THEN {} ELSE IF taken THEN char ELSE result
          /\ out' = IF full THEN Append(out, char) ELSE out
          /\ unended' = (i = LIMIT - 1 /\ ~ ends)
          /\ i' = i + 1
          /\ primes!Goes(IF ends \/ i' = LIMIT THEN "done" ELSE "decode")
          /\ UNCHANGED << data, bits >>
    BY DEF primes!Decode
  <1>2. primesPc = "decode"
    BY DEF primes!Decode
  <1>3. PICK f \in Files, p \in START .. LIMIT - 1, count \in 0 .. CHAR_BIT - 1,
              char \in {result}, chars \in {out} :
          f = file /\ p = i /\ count = bitCount /\ char = result /\ chars = out
    BY <1>2, PrimesNumbers DEF PrimesInv, PrimesShape
  <1>4. f # None /\ size = LIMIT /\ char \subseteq 0 .. CHAR_BIT - 1
    BY <1>2, <1>3 DEF PrimesInv, PrimesShape
  <1>5. PICK more : more = IF u = 1 THEN char \cup {count} ELSE char
    OBVIOUS
  <1>6. more \subseteq 0 .. CHAR_BIT - 1
    BY <1>3, <1>4, <1>5
  <1>7. Sieved(bits, size)
    BY <1>2 DEF PrimesInv, PrimesBits
  <1>8. ~ primes!bit_array_getbit(bits, i) <=> primes!IsPrime(p)
    <2>1. p \in 0 .. size - 1
      BY <1>3, <1>4, PrimesNumbers
    <2> QED
      BY <1>3, <1>7, <2>1 DEF Sieved
  <1>9. UNCHANGED << file, size, data, bits >> /\ i' = p + 1
    BY <1>1, <1>3 DEF primes!Goes
  <1>10. \/ /\ ~ primes!IsPrime(p) /\ bitCount' = count /\ result' = char /\ out' = chars
            /\ primesPc' = IF p + 1 = LIMIT THEN "done" ELSE "decode"
         \/ /\ primes!IsPrime(p) /\ count + 1 # CHAR_BIT
            /\ bitCount' = count + 1 /\ result' = more /\ out' = chars
            /\ primesPc' = IF p + 1 = LIMIT THEN "done" ELSE "decode"
         \/ /\ primes!IsPrime(p) /\ count + 1 = CHAR_BIT /\ more # {}
            /\ bitCount' = 0 /\ result' = {} /\ out' = Append(chars, more)
            /\ primesPc' = IF p + 1 = LIMIT THEN "done" ELSE "decode"
         \/ /\ primes!IsPrime(p) /\ count + 1 = CHAR_BIT /\ more = {}
            /\ bitCount' = 0 /\ result' = {} /\ out' = Append(chars, more)
            /\ primesPc' = "done" /\ ~ unended'
    BY <1>1, <1>3, <1>5, <1>8, <1>9 DEF primes!Goes
  <1>11. PrimesShape'
    <2>1. bitCount' \in 0 .. CHAR_BIT - 1 /\ result' \subseteq 0 .. CHAR_BIT - 1
      <3>1. 0 \in 0 .. CHAR_BIT - 1 /\ (count + 1 # CHAR_BIT => count + 1 \in 0 .. CHAR_BIT - 1)
        BY <1>3, PrimesNumbers
      <3> QED
        BY <1>4, <1>6, <1>10, <3>1
    <2>2. i' \in 0 .. size + 1 /\ (primesPc' = "decode" => i' \in START .. LIMIT - 1)
      <3>1. p + 1 \in 0 .. LIMIT + 1 /\ (p + 1 # LIMIT => p + 1 \in START .. LIMIT - 1)
        <4>1. START \in Nat /\ LIMIT \in Nat
          BY PrimesNumbers
        <4> QED
          BY ONLY <4>1, p \in START .. LIMIT - 1
      <3> QED
        BY <1>4, <1>9, <1>10, <3>1
    <2>3. primesPc' \in {"decode", "done"}
      BY <1>10
    <2> QED
      BY <1>3, <1>4, <1>9, <2>1, <2>2, <2>3 DEF PrimesInv, PrimesShape
  <1>12. PrimesBits' /\ PrimesOut'
    <2>1. primesPc' \in {"decode", "done"}
      BY <1>10
    <2> QED
      BY <1>3, <1>4, <1>7, <1>9, <2>1 DEF PrimesBits, PrimesOut
  <1>13. PrimesText'
    <2>1. primesPc' \in {"decode", "done"}
      BY <1>10
    <2>2. ASSUME Fine(f) PROVE Copied(f, data)
      BY <1>2, <1>3, <1>4, <2>2 DEF PrimesInv, PrimesText
    <2>3. ASSUME Fine(f), EndsOf(f) # {}
          PROVE  /\ primesPc' = "decode" => Decoding(f, i', bitCount', result', out')
                 /\ primesPc' = "done" => out' = Text(f) /\ ~ unended'
      <3>1. Decoding(f, p, count, char, chars)
        BY <1>2, <1>3, <1>4, <2>3 DEF PrimesInv, PrimesText
      <3>2. PICK e : e \in EndsOf(f)
        BY <2>3
      <3>3. p < MemoryOf(f) /\ MemoryOf(f) \in Nat /\ p \in Nat
        BY <1>3, <3>1, <3>2, DecodingInside, EndType, PrimesNumbers
      <3>4. u = BitAt(f, p)
        <4>1. p + 1 \in 1 .. MemoryOf(f)
          BY <3>3
        <4>2. Len(data) = MemoryOf(f) /\ data[p + 1] = f.data[p + 1]
          BY <2>2, <2>3, <4>1 DEF Copied
        <4> QED
          BY <1>1, <1>3, <3>3, <4>2 DEF BitAt
      <3>5. more = (IF BitAt(f, p) = 1 THEN char \cup {count} ELSE char)
        BY <1>5, <3>4
      <3>6. /\ ~ primes!IsPrime(p) => Decoding(f, p + 1, count, char, chars)
            /\ primes!IsPrime(p) /\ count + 1 # CHAR_BIT => Decoding(f, p + 1, count + 1, more, chars)
            /\ primes!IsPrime(p) /\ count + 1 = CHAR_BIT =>
                 /\ more = {} => Append(chars, more) = Text(f)
                 /\ more # {} => Decoding(f, p + 1, 0, {}, Append(chars, more))
        <4>1. GoesOn(f, p, count, chars, more)
          BY ONLY <3>1, <3>2, <3>5, DecodingGoesOn, f \in Files, Zenon
        <4> QED
          BY <3>1, <4>1 DEF GoesOn, Text, Decoding
      <3>7. CASE primes!IsPrime(p) /\ count + 1 = CHAR_BIT /\ more = {}
        BY <1>10, <3>6, <3>7
      <3>8. CASE ~ (primes!IsPrime(p) /\ count + 1 = CHAR_BIT /\ more = {})
        <4>1. PICK count2, char2, chars2 :
                /\ Decoding(f, p + 1, count2, char2, chars2)
                /\ bitCount' = count2 /\ result' = char2 /\ out' = chars2
          BY <1>10, <3>6, <3>8
        <4>2. p + 1 < LIMIT
          BY <3>2, <4>1, DecodingInside
        <4>3. primesPc' = "decode"
          BY <1>10, <3>3, <3>8, <4>2, PrimesNumbers
        <4> QED
          BY <1>9, <4>1, <4>3
      <3> QED
        BY <3>7, <3>8
    <2> QED
      BY <1>3, <1>9, <2>1, <2>2, <2>3 DEF PrimesText
  <1> QED
    BY <1>11, <1>12, <1>13 DEF PrimesInv

LEMMA NextPrimes == PrimesInv /\ [primes!Next]_primesVars => PrimesInv'
  <1> SUFFICES ASSUME PrimesInv, [primes!Next]_primesVars PROVE PrimesInv'
    OBVIOUS
  <1>1. CASE UNCHANGED primesVars
    BY <1>1 DEF primesVars, PrimesInv, PrimesShape, PrimesBits, PrimesOut, PrimesText
  <1> QED
    BY <1>1, ReadKeeps, ZeroAndOneKeeps, SieveKeeps, SievedKeeps, CollectKeeps, PrintedKeeps, DecodeKeeps
    DEF primes!Next

(* The property's operators are those of the proof.                        *)
LEMMA UsualPicture ==
  ASSUME NEW f \in Files, f = file
  PROVE  /\ primes!Usual <=> Fine(f)
         /\ primes!Ends = EndsOf(f)
         /\ \A n \in Nat : primes!CharAt(n) = CharOf(f, n)
  <1>1. primes!memory = MemoryOf(f)
    BY DEF primes!memory, MemoryOf
  <1>2. primes!Usual <=> Fine(f)
    BY <1>1 DEF primes!Usual, Fine
  <1>3. primes!Min({LIMIT, MemoryOf(f)}) = EndOf(f)
    <2>1. PICK m \in Nat, n \in Nat : m = LIMIT /\ n = MemoryOf(f)
      BY EndType, PrimesNumbers
    <2>2. PICK v : v = IF m <= n THEN m ELSE n
      OBVIOUS
    <2>3. v \in {m, n} /\ \A k \in {m, n} : (\A j \in {m, n} : k <= j) <=> k = v
      BY <2>1, <2>2
    <2>4. primes!Min({m, n}) = CHOOSE k \in {m, n} : \A j \in {m, n} : k <= j
      BY DEF primes!Min
    <2>5. primes!Min({m, n}) = v
      BY ONLY <2>3, <2>4, Zenon
    <2> QED
      BY <2>1, <2>2, <2>5 DEF EndOf
  <1>4. primes!Places = PlacesOf(f)
    BY <1>1, <1>3 DEF primes!Places, PlacesOf
  <1>5. ASSUME NEW n PROVE primes!CharAt(n) = CharOf(f, n)
    BY <1>4, Zenon DEF primes!CharAt, CharOf, BitAt
  <1>6. primes!Cardinality(primes!Places) = primes!Rank(EndOf(f))
    BY <1>4 DEF PlacesOf, primes!Rank
  <1>7. primes!Ends = EndsOf(f)
    BY <1>5, <1>6 DEF primes!Ends, primes!Chars, EndsOf
  <1> QED
    BY <1>2, <1>5, <1>7

LEMMA PrimesShow == PrimesInv => SieveRight
  <1> SUFFICES ASSUME PrimesInv PROVE SieveRight
    OBVIOUS
  <1>1. primes!TypeOK
    BY DEF PrimesInv, PrimesShape, primes!TypeOK
  <1>2. PICK z \in Nat, array \in {bits} : z = size /\ array = bits
    BY DEF PrimesInv, PrimesShape
  <1>3. size > 0 => (size - 1) \div primes!Word + 1 \in DOMAIN bits
    <2> SUFFICES ASSUME z > 0 PROVE (z - 1) \div primes!Word + 1 \in DOMAIN array
      BY <1>2
    <2>1. z - 1 \in Nat /\ z - 1 < z
      OBVIOUS
    <2>2. (z - 1) \div primes!Word + 1 \in 1 .. primes!Words(z)
      BY <2>1, WordsEnough
    <2> QED
      BY <1>2, <2>2 DEF PrimesInv, PrimesShape
  <1>4. primesPc \in {"print", "decode", "done"} =>
          size > 2 /\ \A n \in 0 .. size - 1 : primes!IsPrime(n) <=> ~ primes!bit_array_getbit(bits, n)
    BY DEF PrimesInv, PrimesBits, Sieved
  <1>5. primesPc = "error" => size <= 2
    BY DEF PrimesInv, PrimesBits
  <1>6. ASSUME NEW n \in 2 .. z - 1, primes!IsPrime(n) PROVE ~ primes!bit_array_getbit(array, n)
    <2>0. n \in 0 .. z - 1 /\ ~ (n < 2)
      OBVIOUS
    <2>1. CASE Clear(array, z)
      BY <2>0, <2>1 DEF Clear
    <2>2. CASE primesPc = "sieve" /\ i # 0
      <3>1. PICK m : m = i /\ Sifted(array, z, m)
        BY <1>2, <2>2 DEF PrimesInv, PrimesBits
      <3>2. ~ Divided(n, m)
        <4> SUFFICES ASSUME NEW d \in 2 .. m - 1, d < n, n % d = 0 PROVE FALSE
          BY DEF Divided
        <4>1. m \in Nat
          BY <2>2, <3>1 DEF PrimesInv, PrimesShape
        <4>2. d \in 2 .. n - 1
          BY <4>1
        <4> QED
          BY <1>6, <4>2 DEF primes!IsPrime
      <3> QED
        BY <2>0, <3>1, <3>2 DEF Sifted
    <2>3. CASE primesPc = "error"
      BY <1>2, <1>5, <2>3
    <2>4. CASE primesPc \in {"print", "decode", "done"}
      BY <1>2, <1>4, <1>6, <2>0, <2>4
    <2>5. \/ Clear(array, z) \/ (primesPc = "sieve" /\ i # 0) \/ primesPc = "error"
          \/ primesPc \in {"print", "decode", "done"}
      BY <1>2 DEF PrimesInv, PrimesBits, PrimesShape
    <2> QED
      BY <2>1, <2>2, <2>3, <2>4, <2>5
  <1>7. ASSUME primesPc = "done", file = None
        PROVE  primes!LastPrimes
    <2>1. size \in Nat /\ Printed(size, out)
      BY <1>7 DEF PrimesInv, PrimesShape, PrimesOut
    <2>2. \A k \in 1 .. COUNT : out[k] \in Nat
      BY <2>1 DEF Printed, primes!PrimesFrom
    <2>3. 1 \in 1 .. COUNT
      BY PrimesNumbers
    <2>4. ASSUME NEW j \in 1 .. COUNT, NEW k \in 1 .. COUNT, j # k, out[j] = out[k]
          PROVE  out[k] = 0
      BY <2>1, <2>2, <2>4 DEF Printed
    <2>5. ASSUME NEW p \in primes!PrimesFrom(2, size), p < out[1], NEW k \in 1 .. COUNT
          PROVE  p < out[k]
      <3>1. p \in Nat /\ out[1] \in Nat /\ out[k] \in Nat /\ out[1] # 0
        BY <2>2, <2>3, <2>5 DEF primes!PrimesFrom
      <3>2. k = 1 \/ out[1] < out[k]
        BY <2>1, <2>3, <3>1 DEF Printed
      <3> QED
        BY <2>5, <3>1, <3>2
    <2> QED
      BY <2>1, <2>4, <2>5 DEF Printed, primes!LastPrimes
  <1>8. ASSUME file # None, primes!Usual
        PROVE  /\ primesPc # "refused"
               /\ primesPc = "done" /\ primes!Ends # {} =>
                    out = [n \in 1 .. primes!Min(primes!Ends) |-> primes!CharAt(n)] /\ ~ unended
    <2>1. PICK f \in Files : f = file
      BY <1>8 DEF PrimesInv, PrimesShape
    <2>2. Fine(file) /\ primes!Ends = EndsOf(file) /\ \A n \in Nat : primes!CharAt(n) = CharOf(file, n)
      BY <1>8, <2>1, UsualPicture
    <2>3. primesPc # "refused"
      BY <1>8, <2>2 DEF PrimesInv, PrimesText
    <2>4. ASSUME primesPc = "done", EndsOf(file) # {} PROVE out = Text(file) /\ ~ unended
      BY <1>8, <2>2, <2>4 DEF PrimesInv, PrimesText
    <2>5. Text(file) = [n \in 1 .. primes!Min(primes!Ends) |-> primes!CharAt(n)]
      <3>1. PICK m : m = primes!Min(EndsOf(file))
        OBVIOUS
      <3>2. \A n \in 1 .. m : n \in Nat
        OBVIOUS
      <3>3. Text(file) = [n \in 1 .. m |-> CharOf(file, n)]
        BY <3>1 DEF Text
      <3> QED
        BY <2>2, <3>1, <3>2, <3>3
    <2> QED
      BY <2>2, <2>3, <2>4, <2>5
  <1> QED
    BY <1>1, <1>2, <1>3, <1>4, <1>5, <1>6, <1>7, <1>8 DEF SieveRight, primes!SieveRight

(* The sieve leaves just the primes, primes prints the last of them and    *)
(* steg-decode reads what a usual picture says, whatever the limits, the   *)
(* pictures and the widths of a word and a char are.                       *)
THEOREM SieveRightInvariant == Programs => []SieveRight
  <1>1. ProgramsInit => PrimesInv
    BY PrimesInit DEF ProgramsInit
  <1>2. PrimesInv /\ [ProgramsNext]_all => PrimesInv'
    <2>1. [ProgramsNext]_all => [primes!Next]_primesVars
      BY DEF ProgramsNext, Wordcounts, Tails, Tables, Sieves, Sniffs, all
    <2> QED
      BY <2>1, NextPrimes
  <1> QED
    BY <1>1, <1>2, PrimesShow, PTL DEF Programs

-----------------------------------------------------------------------------
(* wordcount: its hash table.                                              *)

LEMMA LeastNatural ==
  ASSUME NEW S, S \subseteq Nat, S # {}
  PROVE  \E m \in S : \A k \in S : m <= k
  <1>1. IsWellFoundedOn({ss \in Nat \X Nat : ss[1] < ss[2]}, Nat)
    BY NatLessThanWellFounded DEF OpToRel
  <1>2. PICK m \in S : \A k \in S : ~ (<< k, m >> \in {ss \in Nat \X Nat : ss[1] < ss[2]})
    BY ONLY S \subseteq Nat, S # {}, <1>1, WFMin, Zenon
  <1>3. \A k \in S : k \in Nat /\ m \in Nat /\ ~ (k < m)
    BY <1>2, Zenon
  <1> QED
    BY <1>3

LEMMA LeastIs ==
  ASSUME NEW S, S \subseteq Nat, NEW m \in S, \A k \in S : m <= k
  PROVE  Min(S) = m
  <1>1. \A k \in S : (\A j \in S : k <= j) <=> k = m
    OBVIOUS
  <1>2. Min(S) = CHOOSE k \in S : \A j \in S : k <= j
    BY DEF Min
  <1> QED
    BY ONLY <1>1, <1>2, m \in S, Zenon

(* The hash of a key in its steps, for m buckets.                          *)
HashStep(h, code, m) == (65599 * h + code) % m

IsHash(f, key, m, N) ==
  f = [n \in 0 .. N |-> IF n = 0 THEN 0 ELSE HashStep(f[n - 1], Code[key[n]], m)]

LEMMA SomeHash ==
  ASSUME NEW key, NEW m, NEW N \in Nat
  PROVE  \E f : IsHash(f, key, m, N)
  <1> DEFINE none == {n \in Nat : ~ \E f : IsHash(f, key, m, n)}
  <1> SUFFICES ASSUME none # {} PROVE FALSE
    OBVIOUS
  <1>1. PICK w \in none : \A k \in none : w <= k
    BY LeastNatural, Zenon
  <1>2. w # 0
    <2>1. IsHash([n \in 0 .. 0 |-> 0], key, m, 0)
      BY DEF IsHash
    <2> QED
      BY <1>1, <2>1
  <1>3. w - 1 \in Nat /\ w - 1 \notin none
    BY <1>1, <1>2
  <1>4. PICK f : IsHash(f, key, m, w - 1)
    BY <1>3
  <1>5. PICK v : v = HashStep(f[w - 1], Code[key[w]], m)
    OBVIOUS
  <1> DEFINE g == [n \in 0 .. w |-> IF n = w THEN v ELSE f[n]]
  <1>6. \A n \in 0 .. w - 1 : f[n] = IF n = 0 THEN 0 ELSE HashStep(f[n - 1], Code[key[n]], m)
    <2>1. f = [n \in 0 .. w - 1 |-> IF n = 0 THEN 0 ELSE HashStep(f[n - 1], Code[key[n]], m)]
      BY <1>4 DEF IsHash
    <2> QED
      BY ONLY <2>1, Zenon
  <1>7. g = [n \in 0 .. w |-> IF n = 0 THEN 0 ELSE HashStep(g[n - 1], Code[key[n]], m)]
    <2>1. \A n \in 0 .. w : g[n] = IF n = 0 THEN 0 ELSE HashStep(g[n - 1], Code[key[n]], m)
      <3> SUFFICES ASSUME NEW n \in 0 .. w
                   PROVE  g[n] = IF n = 0 THEN 0 ELSE HashStep(g[n - 1], Code[key[n]], m)
        OBVIOUS
      <3>1. CASE n = w
        <4>1. w - 1 \in 0 .. w /\ w - 1 # w /\ g[w - 1] = f[w - 1]
          BY <1>3
        <4>2. g[n] = v
          BY <3>1
        <4> HIDE DEF g
        <4> QED
          BY ONLY <1>2, <1>5, <3>1, <4>1, <4>2, Zenon
      <3>2. CASE n # w
        <4>1. n \in 0 .. w - 1 /\ g[n] = f[n]
          BY <1>3, <3>2
        <4>2. n # 0 => n - 1 \in 0 .. w /\ n - 1 # w /\ g[n - 1] = f[n - 1]
          BY <1>3
        <4> HIDE DEF g
        <4> QED
          BY ONLY <1>6, <4>1, <4>2, Zenon
      <3> QED
        BY <3>1, <3>2
    <2>2. g = [n \in 0 .. w |-> g[n]]
      OBVIOUS
    <2> HIDE DEF g
    <2> QED
      BY <2>1, <2>2, Zenon
  <1>8. IsHash(g, key, m, w)
    <2> HIDE DEF g
    <2> QED
      BY <1>7 DEF IsHash
  <1> QED
    BY <1>1, <1>8

Names == Seq(Characters)

LEMMA Hash ==
  ASSUME NEW key \in Names, NEW m \in Nat \ {0}
  PROVE  htab_hash_function(key, m) \in 0 .. m - 1
  <1>1. PICK N \in Nat : N = Len(key)
    BY DEF Names
  <1>2. PICK f : IsHash(f, key, m, N) /\ f[N] = htab_hash_function(key, m)
    <2>1. PICK f : f = CHOOSE g : IsHash(g, key, m, N)
      OBVIOUS
    <2>2. IsHash(f, key, m, N)
      BY <2>1, SomeHash
    <2>3. htab_hash_function(key, m) = (CHOOSE g : IsHash(g, key, m, N))[N]
      BY <1>1, SMT DEF htab_hash_function, IsHash, HashStep
    <2> QED
      BY <2>1, <2>2, <2>3
  <1>3. \A n \in 0 .. N : f[n] = IF n = 0 THEN 0 ELSE HashStep(f[n - 1], Code[key[n]], m)
    <2>1. f = [n \in 0 .. N |-> IF n = 0 THEN 0 ELSE HashStep(f[n - 1], Code[key[n]], m)]
      BY <1>2 DEF IsHash
    <2> QED
      BY ONLY <2>1, Zenon
  <1> DEFINE wrong == {n \in 0 .. N : f[n] \notin 0 .. m - 1}
  <1> SUFFICES ASSUME wrong # {} PROVE FALSE
    BY <1>1, <1>2
  <1>4. PICK w \in wrong : \A k \in wrong : w <= k
    <2>1. wrong \subseteq Nat
      OBVIOUS
    <2> HIDE DEF wrong
    <2> QED
      BY <2>1, LeastNatural
  <1>5. w # 0
    BY <1>3, <1>4
  <1>6. w - 1 \in 0 .. N /\ f[w - 1] \in 0 .. m - 1
    BY <1>4, <1>5
  <1>7. Code[key[w]] \in Nat
    <2>1. w \in 1 .. Len(key)
      BY <1>1, <1>4, <1>5
    <2>2. key[w] \in DOMAIN Code
      BY <2>1 DEF Names, Characters
    <2> QED
      BY <2>2, HtabAssumption
  <1>8. HashStep(f[w - 1], Code[key[w]], m) \in 0 .. m - 1
    <2>1. PICK a \in Nat, b \in Nat : a = f[w - 1] /\ b = Code[key[w]]
      BY <1>6, <1>7
    <2>2. PICK u \in Nat : u = 65599 * a + b
      BY SMT
    <2>3. u % m \in 0 .. m - 1
      BY Euclid
    <2> QED
      BY <2>1, <2>2, <2>3, SMT DEF HashStep
  <1>9. f[w] = HashStep(f[w - 1], Code[key[w]], m)
    BY <1>3, <1>4, <1>5
  <1> QED
    BY <1>4, <1>8, <1>9

(* A chain, and a table of m chains, with each key in the chain of its     *)
(* hash and no key twice.                                                  *)
Item == [key : Names, data : Nat \ {0}]
Chain(list) ==
  list \in Seq(Item) /\ \A j, k \in 1 .. Len(list) : list[j].key = list[k].key => j = k
InChain(list, key, n) == \E k \in 1 .. Len(list) : list[k].key = key /\ list[k].data = n
Filled(tab, m) ==
  /\ tab \in [size : Nat, arr_size : {m}, ptr : [0 .. m - 1 -> Seq(Item)]]
  /\ \A b \in 0 .. m - 1 : Chain(tab.ptr[b])
  /\ \A b \in 0 .. m - 1 : \A k \in 1 .. Len(tab.ptr[b]) : htab_hash_function(tab.ptr[b][k].key, m) = b
Has(tab, m, key, n) == InChain(tab.ptr[htab_hash_function(key, m)], key, n)

LEMMA InitFilled ==
  ASSUME NEW m \in Nat \ {0}
  PROVE  Filled(htab_init(m), m) /\ \A key \in Names : \A n : ~ Has(htab_init(m), m, key, n)
  <1>1. PICK tab : tab = htab_init(m)
    OBVIOUS
  <1>2. tab \in [size : Nat, arr_size : {m}, ptr : [0 .. m - 1 -> Seq(Item)]]
    BY <1>1 DEF htab_init
  <1>3. \A b \in 0 .. m - 1 : tab.ptr[b] = << >>
    BY <1>1 DEF htab_init
  <1>4. Len(<< >>) = 0 /\ << >> \in Seq(Item)
    OBVIOUS
  <1>5. ASSUME NEW b \in 0 .. m - 1
        PROVE  Chain(tab.ptr[b]) /\ \A k \in 1 .. Len(tab.ptr[b]) : FALSE
    <2>1. tab.ptr[b] = << >> /\ \A k \in 1 .. Len(<< >>) : FALSE
      BY <1>3
    <2>2. Chain(<< >>)
      BY <1>4, <2>1, Zenon DEF Chain
    <2> QED
      BY <2>1, <2>2, Zenon
  <1>6. ASSUME NEW key \in Names, NEW n, Has(tab, m, key, n) PROVE FALSE
    BY <1>5, <1>6, Hash, Zenon DEF Has, InChain
  <1> QED
    BY <1>1, <1>2, <1>5, <1>6, Zenon DEF Filled

LEMMA ChainType ==
  ASSUME NEW list, Chain(list)
  PROVE  /\ Len(list) \in Nat /\ DOMAIN list = 1 .. Len(list)
         /\ \A k \in 1 .. Len(list) : list[k].key \in Names /\ list[k].data \in Nat \ {0} /\ list[k] \in Item
  <1>1. list \in Seq(Item)
    BY DEF Chain
  <1>2. Len(list) \in Nat /\ DOMAIN list = 1 .. Len(list) /\ \A k \in 1 .. Len(list) : list[k] \in Item
    BY <1>1
  <1>3. \A v \in Item : v.key \in Names /\ v.data \in Nat \ {0}
    BY DEF Item
  <1> QED
    BY <1>2, <1>3, Zenon

(* What htab_find finds.                                                   *)
Finds(list, key, f) ==
  \/ f \in 1 .. Len(list) /\ list[f].key = key
  \/ f = 0 /\ \A k \in 1 .. Len(list) : list[k].key # key

LEMMA Found ==
  ASSUME NEW tab, NEW m \in Nat \ {0}, Filled(tab, m), NEW key \in Names
  PROVE  Finds(tab.ptr[htab_hash_function(key, m)], key, htab_find(tab, key))
  <1>0. PICK list : list = tab.ptr[htab_hash_function(key, m)]
    OBVIOUS
  <1>1. Chain(list)
    BY <1>0, Hash DEF Filled
  <1>2. PICK L \in Nat : L = Len(list) /\ DOMAIN list = 1 .. L
    BY <1>1, ChainType
  <1>3. Bucket(tab, key) = htab_hash_function(key, m)
    BY DEF Bucket, Filled
  <1> DEFINE S == {k \in DOMAIN list : list[k].key = key} \cup {L + 1}
  <1>4. htab_find(tab, key) = Min(S) % (L + 1)
    BY <1>0, <1>2, <1>3 DEF htab_find
  <1>5. CASE \A k \in 1 .. L : list[k].key # key
    <2>1. S = {L + 1}
      BY <1>2, <1>5
    <2>2. Min(S) = L + 1
      <3> HIDE DEF S
      <3> QED
        BY <2>1, LeastIs
    <2>3. (L + 1) % (L + 1) = 0
      <3>1. L + 1 \in Nat \ {0} /\ L + 1 = (L + 1) * 1
        OBVIOUS
      <3> QED
        BY ONLY <3>1, Divisor, 1 \in Nat
    <2> HIDE DEF S
    <2> QED
      BY <1>0, <1>2, <1>4, <1>5, <2>2, <2>3 DEF Finds
  <1>6. CASE \E k \in 1 .. L : list[k].key = key
    <2>1. PICK k \in 1 .. L : list[k].key = key
      BY <1>6
    <2>2. k \in S /\ S \subseteq Nat
      BY <1>2, <2>1
    <2>3. \A j \in S : k <= j
      <3>1. \A j \in S : j = k \/ j = L + 1
        BY <1>1, <1>2, <2>1 DEF Chain
      <3> HIDE DEF S
      <3> QED
        BY <3>1
    <2>4. Min(S) = k
      <3> HIDE DEF S
      <3> QED
        BY <2>2, <2>3, LeastIs
    <2>5. k % (L + 1) = k
      <3>1. PICK a \in Nat, b \in 0 .. (L + 1) - 1 : b = k % (L + 1) /\ k = (L + 1) * a + b
        BY Euclid
      <3>2. (L + 1) * a + b = (L + 1) * 0 + k /\ k \in 0 .. (L + 1) - 1 /\ L + 1 \in Nat \ {0}
        BY <3>1
      <3>3. b = k
        BY ONLY <3>1, <3>2, EuclidUnique, 0 \in Nat
      <3> QED
        BY <3>1, <3>3
    <2> HIDE DEF S
    <2> QED
      BY <1>0, <1>2, <1>4, <2>1, <2>4, <2>5 DEF Finds
  <1> QED
    BY <1>5, <1>6

(* A key counted once more in its chain, or put at the end of it.          *)
Counted(list, key, chain) ==
  /\ Chain(chain)
  /\ \A k \in 1 .. Len(chain) : chain[k].key = key \/ \E j \in 1 .. Len(list) : list[j].key = chain[k].key
  /\ \A other2 \in Names, n \in Nat :
       InChain(chain, other2, n) <=>
         IF other2 = key
           THEN (n # 0 /\ InChain(list, key, n - 1)) \/ (n = 1 /\ \A k \in 1 .. Len(list) : list[k].key # key)
           ELSE InChain(list, other2, n)

LEMMA CountedOnce ==
  ASSUME NEW list, Chain(list), NEW key \in Names, NEW f \in 1 .. Len(list), list[f].key = key
  PROVE  Counted(list, key, [list EXCEPT ![f] = [list[f] EXCEPT !.data = @ + 1]])
  <1>1. PICK L \in Nat : L = Len(list) /\ DOMAIN list = 1 .. L
    BY ChainType
  <1>2. PICK chain : chain = [list EXCEPT ![f] = [list[f] EXCEPT !.data = @ + 1]]
    OBVIOUS
  <1>3. PICK more : more = [list[f] EXCEPT !.data = @ + 1]
    OBVIOUS
  <1>4. PICK d \in Nat \ {0} : d = list[f].data
    BY ChainType
  <1>5. more \in Item /\ more.key = key /\ more.data = d + 1
    <2>1. list[f] \in Item
      BY ChainType
    <2> QED
      BY <1>3, <1>4, <2>1 DEF Item
  <1>6. /\ chain \in Seq(Item) /\ Len(chain) = L
        /\ \A k \in 1 .. L : chain[k] = IF k = f THEN more ELSE list[k]
    <2>1. list \in Seq(Item)
      BY DEF Chain
    <2> QED
      BY <1>1, <1>2, <1>3, <1>5, <2>1
  <1>7. \A k \in 1 .. L : chain[k].key = list[k].key /\ chain[k].data = IF k = f THEN d + 1 ELSE list[k].data
    BY <1>5, <1>6
  <1>8. Chain(chain)
    BY <1>1, <1>6, <1>7 DEF Chain
  <1>9. \A k \in 1 .. L : list[k].key = key <=> k = f
    BY <1>1 DEF Chain
  <1>10. ASSUME NEW k2 \in Names, NEW n \in Nat
         PROVE  InChain(chain, k2, n) <=>
                  IF k2 = key
                    THEN (n # 0 /\ InChain(list, key, n - 1)) \/ (n = 1 /\ \A k \in 1 .. L : list[k].key # key)
                    ELSE InChain(list, k2, n)
    <2>1. CASE k2 = key
      <3>1. InChain(chain, key, n) <=> n = d + 1
        BY <1>1, <1>6, <1>7, <1>9, Zenon DEF InChain
      <3>2. InChain(list, key, n - 1) <=> n - 1 = d
        BY <1>1, <1>4, <1>9, Zenon DEF InChain
      <3> QED
        BY <1>1, <1>9, <2>1, <3>1, <3>2
    <2>2. CASE k2 # key
      BY <1>1, <1>6, <1>7, <1>9, <2>2, Zenon DEF InChain
    <2> QED
      BY <2>1, <2>2
  <1> QED
    BY <1>1, <1>2, <1>6, <1>7, <1>8, <1>10 DEF Counted

LEMMA CountedFirst ==
  ASSUME NEW list, Chain(list), NEW key \in Names, \A k \in 1 .. Len(list) : list[k].key # key
  PROVE  Counted(list, key, Append(list, [key |-> key, data |-> 1]))
  <1>1. PICK L \in Nat : L = Len(list)
    BY ChainType
  <1>2. PICK more : more = [key |-> key, data |-> 1]
    OBVIOUS
  <1>3. more \in Item /\ more.key = key /\ more.data = 1
    BY <1>2 DEF Item
  <1>4. PICK chain : chain = Append(list, more)
    OBVIOUS
  <1>5. /\ chain \in Seq(Item) /\ Len(chain) = L + 1 /\ chain[L + 1] = more
        /\ \A k \in 1 .. L : chain[k] = list[k]
    <2>1. list \in Seq(Item)
      BY DEF Chain
    <2> QED
      BY <1>1, <1>3, <1>4, <2>1, AppendProperties
  <1>6. \A k : k \in 1 .. L + 1 <=> k \in 1 .. L \/ k = L + 1
    OBVIOUS
  <1>7. L + 1 \notin 1 .. L
    OBVIOUS
  <1>8. Chain(chain)
    <2> SUFFICES ASSUME NEW j \in 1 .. L + 1, NEW k \in 1 .. L + 1, chain[j].key = chain[k].key PROVE j = k
      BY <1>5, Zenon DEF Chain
    <2>1. CASE j \in 1 .. L /\ k \in 1 .. L
      BY <1>1, <1>5, <2>1 DEF Chain
    <2>2. CASE j = L + 1 /\ k \in 1 .. L
      BY <1>1, <1>3, <1>5, <2>2, Zenon
    <2>3. CASE j \in 1 .. L /\ k = L + 1
      BY <1>1, <1>3, <1>5, <2>3, Zenon
    <2> QED
      BY <1>6, <2>1, <2>2, <2>3, Zenon
  <1>9. \A k \in 1 .. L + 1 : chain[k].key = key \/ \E j \in 1 .. L : list[j].key = chain[k].key
    BY <1>3, <1>5, <1>6, Zenon
  <1>10. ASSUME NEW k2 \in Names, NEW n
         PROVE  InChain(chain, k2, n) <=> InChain(list, k2, n) \/ (k2 = key /\ n = 1)
    BY <1>1, <1>3, <1>5, <1>6, Zenon DEF InChain
  <1>11. \A n : ~ InChain(list, key, n)
    BY Zenon DEF InChain
  <1> QED
    BY <1>1, <1>2, <1>4, <1>5, <1>8, <1>9, <1>10, <1>11, Zenon DEF Counted

LEMMA Added ==
  ASSUME NEW tab, NEW m \in Nat \ {0}, Filled(tab, m), NEW key \in Names,
         NEW new, new = htab_lookup_add(tab, key)
  PROVE  /\ Filled(new, m)
         /\ \A k2 \in Names, n \in Nat :
              Has(new, m, k2, n) <=>
                IF k2 = key THEN (n # 0 /\ Has(tab, m, key, n - 1)) \/ (n = 1 /\ \A j : ~ Has(tab, m, key, j))
                            ELSE Has(tab, m, k2, n)
  <1>1. PICK b \in 0 .. m - 1 : b = htab_hash_function(key, m) /\ b = Bucket(tab, key)
    BY Hash DEF Bucket, Filled
  <1>2. PICK list : list = tab.ptr[b] /\ Chain(list)
    BY <1>1 DEF Filled
  <1>3. PICK f : f = htab_find(tab, key)
    OBVIOUS
  <1>4. tab \in [size : Nat, arr_size : {m}, ptr : [0 .. m - 1 -> Seq(Item)]]
    BY DEF Filled
  <1>5. PICK chain :
          /\ Counted(list, key, chain)
          /\ \/ new = [tab EXCEPT !.ptr = [tab.ptr EXCEPT ![b] = chain]]
             \/ new = [tab EXCEPT !.size = tab.size + 1, !.ptr = [tab.ptr EXCEPT ![b] = chain]]
    <2>1. CASE f \in 1 .. Len(list) /\ list[f].key = key
      <3>1. Counted(list, key, [list EXCEPT ![f] = [list[f] EXCEPT !.data = @ + 1]])
        BY <1>2, <2>1, CountedOnce
      <3>2. f # 0
        BY <1>2, <2>1, ChainType
      <3>3. new = [tab EXCEPT !.ptr = [tab.ptr EXCEPT ![b] = [list EXCEPT ![f] = [list[f] EXCEPT !.data = @ + 1]]]]
        BY <1>1, <1>2, <1>3, <1>4, <2>1, <3>2, SMT DEF htab_lookup_add
      <3> QED
        BY <3>1, <3>3
    <2>2. CASE f = 0 /\ \A k \in 1 .. Len(list) : list[k].key # key
      <3>1. Counted(list, key, Append(list, [key |-> key, data |-> 1]))
        BY <1>2, <2>2, CountedFirst
      <3>2. new = [tab EXCEPT !.size = tab.size + 1, !.ptr = [tab.ptr EXCEPT ![b] = Append(list, [key |-> key, data |-> 1])]]
        BY <1>1, <1>2, <1>3, <1>4, <2>2, SMT DEF htab_lookup_add
      <3> QED
        BY <3>1, <3>2
    <2>3. list = tab.ptr[htab_hash_function(key, m)]
      BY <1>1, <1>2
    <2>4. \/ f \in 1 .. Len(list) /\ list[f].key = key
          \/ f = 0 /\ \A k \in 1 .. Len(list) : list[k].key # key
      BY <1>3, <2>3, Found, Zenon DEF Finds
    <2> QED
      BY ONLY <2>1, <2>2, <2>4, Zenon
  <1>6. Chain(chain)
    BY <1>5 DEF Counted
  <1>7. new \in [size : Nat, arr_size : {m}, ptr : [0 .. m - 1 -> Seq(Item)]]
        /\ \A a \in 0 .. m - 1 : new.ptr[a] = IF a = b THEN chain ELSE tab.ptr[a]
    <2>1. chain \in Seq(Item)
      BY <1>6 DEF Chain
    <2>2. PICK ptr : ptr = [tab.ptr EXCEPT ![b] = chain]
      OBVIOUS
    <2>3. /\ ptr \in [0 .. m - 1 -> Seq(Item)]
          /\ \A a \in 0 .. m - 1 : ptr[a] = IF a = b THEN chain ELSE tab.ptr[a]
      BY <1>4, <2>1, <2>2
    <2>4. \/ new = [tab EXCEPT !.ptr = ptr]
          \/ new = [tab EXCEPT !.size = tab.size + 1, !.ptr = ptr]
      BY <1>5, <2>2
    <2>5. new.ptr = ptr /\ new \in [size : Nat, arr_size : {m}, ptr : [0 .. m - 1 -> Seq(Item)]]
      <3>1. DOMAIN tab = {"size", "arr_size", "ptr"} /\ tab.size + 1 \in Nat
        BY <1>4
      <3>2. new.ptr = ptr
        BY <2>4, <3>1
      <3>3. CASE new = [tab EXCEPT !.ptr = ptr]
        BY <1>4, <2>3, <3>3
      <3>4. CASE new = [tab EXCEPT !.size = tab.size + 1, !.ptr = ptr]
        BY <1>4, <2>3, <3>1, <3>4
      <3> QED
        BY <2>4, <3>2, <3>3, <3>4
    <2> QED
      BY <2>3, <2>5
  <1>8. Filled(new, m)
    <2>1. \A k \in 1 .. Len(chain) : htab_hash_function(chain[k].key, m) = b
      <3>1. \A k \in 1 .. Len(list) : htab_hash_function(list[k].key, m) = b
        BY <1>2 DEF Filled
      <3> QED
        BY <1>1, <1>5, <3>1, Zenon DEF Counted
    <2>2. \A a \in 0 .. m - 1 : Chain(new.ptr[a])
      BY <1>6, <1>7, Zenon DEF Filled
    <2>3. \A a \in 0 .. m - 1 : \A k \in 1 .. Len(new.ptr[a]) : htab_hash_function(new.ptr[a][k].key, m) = a
      BY <1>7, <2>1, Zenon DEF Filled
    <2> QED
      BY <1>7, <2>2, <2>3 DEF Filled
  <1>9. ASSUME NEW k2 \in Names, NEW n \in Nat
        PROVE  Has(new, m, k2, n) <=>
                 IF k2 = key THEN (n # 0 /\ Has(tab, m, key, n - 1)) \/ (n = 1 /\ \A j : ~ Has(tab, m, key, j))
                             ELSE Has(tab, m, k2, n)
    <2>1. PICK a \in 0 .. m - 1 : a = htab_hash_function(k2, m)
      BY Hash
    <2>2. CASE a # b
      <3>1. k2 # key
        BY <1>1, <2>1, <2>2
      <3> QED
        BY <1>7, <2>1, <2>2, <3>1, Zenon DEF Has
    <2>3. CASE a = b
      <3>1. InChain(chain, k2, n) <=>
              IF k2 = key
                THEN (n # 0 /\ InChain(list, key, n - 1)) \/ (n = 1 /\ \A k \in 1 .. Len(list) : list[k].key # key)
                ELSE InChain(list, k2, n)
        BY <1>5, Zenon DEF Counted
      <3>2. Has(new, m, k2, n) <=> InChain(chain, k2, n)
        BY <1>7, <2>1, <2>3, Zenon DEF Has
      <3>3. \A j : Has(tab, m, key, j) <=> InChain(list, key, j)
        BY <1>1, <1>2, Zenon DEF Has
      <3>4. Has(tab, m, k2, n) <=> InChain(list, k2, n)
        BY <1>2, <2>1, <2>3, Zenon DEF Has
      <3>5. (\A k \in 1 .. Len(list) : list[k].key # key) <=> \A j : ~ InChain(list, key, j)
        BY Zenon DEF InChain
      <3> QED
        BY <3>1, <3>2, <3>3, <3>4, <3>5, Zenon
    <2> QED
      BY <2>2, <2>3
  <1> QED
    BY <1>8, <1>9

(* The items of all chains, one behind the other.                          *)
IsFlat(f, chains, N) == f = [n \in 1 .. N |-> IF n = 1 THEN chains[n] ELSE f[n - 1] \o chains[n]]

LEMMA SomeFlat ==
  ASSUME NEW chains, NEW N \in Nat
  PROVE  \E f : IsFlat(f, chains, N)
  <1> DEFINE none == {n \in Nat : ~ \E f : IsFlat(f, chains, n)}
  <1> SUFFICES ASSUME none # {} PROVE FALSE
    OBVIOUS
  <1>1. PICK w \in none : \A k \in none : w <= k
    BY LeastNatural, Zenon
  <1>2. w # 0
    <2>1. IsFlat([n \in 1 .. 0 |-> << >>], chains, 0)
      BY DEF IsFlat
    <2> QED
      BY <1>1, <2>1
  <1>3. w \in Nat /\ w - 1 \in Nat /\ w - 1 \notin none
    BY <1>1, <1>2
  <1>4. PICK f : IsFlat(f, chains, w - 1)
    BY <1>3
  <1>5. PICK v : v = IF w = 1 THEN chains[w] ELSE f[w - 1] \o chains[w]
    OBVIOUS
  <1> DEFINE g == [n \in 1 .. w |-> IF n = w THEN v ELSE f[n]]
  <1>6. \A n \in 1 .. w - 1 : f[n] = IF n = 1 THEN chains[n] ELSE f[n - 1] \o chains[n]
    <2>1. f = [n \in 1 .. w - 1 |-> IF n = 1 THEN chains[n] ELSE f[n - 1] \o chains[n]]
      BY <1>4 DEF IsFlat
    <2> QED
      BY ONLY <2>1, Zenon
  <1>7. g = [n \in 1 .. w |-> IF n = 1 THEN chains[n] ELSE g[n - 1] \o chains[n]]
    <2>1. \A n \in 1 .. w : g[n] = IF n = 1 THEN chains[n] ELSE g[n - 1] \o chains[n]
      <3> SUFFICES ASSUME NEW n \in 1 .. w
                   PROVE  g[n] = IF n = 1 THEN chains[n] ELSE g[n - 1] \o chains[n]
        OBVIOUS
      <3>1. CASE n = w
        <4>1. w # 1 => w - 1 \in 1 .. w /\ w - 1 # w /\ g[w - 1] = f[w - 1]
          BY <1>3
        <4>2. g[n] = v
          BY <3>1
        <4> HIDE DEF g
        <4> QED
          BY ONLY <1>5, <3>1, <4>1, <4>2, Zenon
      <3>2. CASE n # w
        <4>1. n \in 1 .. w - 1 /\ g[n] = f[n]
          BY <1>3, <3>2
        <4>2. n # 1 => n - 1 \in 1 .. w /\ n - 1 # w /\ g[n - 1] = f[n - 1]
          BY <1>3
        <4> HIDE DEF g
        <4> QED
          BY ONLY <1>6, <4>1, <4>2, Zenon
      <3> QED
        BY <3>1, <3>2
    <2>2. g = [n \in 1 .. w |-> g[n]]
      OBVIOUS
    <2> HIDE DEF g
    <2> QED
      BY <2>1, <2>2, Zenon
  <1>8. IsFlat(g, chains, w)
    <2> HIDE DEF g
    <2> QED
      BY <1>7 DEF IsFlat
  <1> QED
    BY <1>1, <1>8

(* Two chains without a common key make one.                               *)
LEMMA Joined ==
  ASSUME NEW first, Chain(first), NEW second, Chain(second),
         \A j \in 1 .. Len(first), k \in 1 .. Len(second) : first[j].key # second[k].key
  PROVE  /\ Chain(first \o second)
         /\ \A key, n : InChain(first \o second, key, n) <=> InChain(first, key, n) \/ InChain(second, key, n)
  <1>1. PICK u \in Nat, v \in Nat : u = Len(first) /\ v = Len(second)
    BY ChainType
  <1>2. PICK P : P = first \o second
    OBVIOUS
  <1>3. /\ P \in Seq(Item) /\ Len(P) = u + v
        /\ \A k \in 1 .. u + v : P[k] = IF k <= u THEN first[k] ELSE second[k - u]
    <2>1. first \in Seq(Item) /\ second \in Seq(Item)
      BY DEF Chain
    <2> QED
      BY ONLY <1>1, <1>2, <2>1, ConcatProperties, Zenon
  <1>4. \A k \in 1 .. u : k \in 1 .. u + v /\ P[k] = first[k]
    BY <1>3
  <1>5. \A k \in 1 .. v : k + u \in 1 .. u + v /\ P[k + u] = second[k]
    <2> TAKE k \in 1 .. v
    <2>1. k + u \in 1 .. u + v /\ ~ (k + u <= u) /\ (k + u) - u = k
      OBVIOUS
    <2> QED
      BY ONLY <1>3, <2>1, Zenon
  <1>6. \A k \in 1 .. u + v : k \in 1 .. u \/ \E j \in 1 .. v : k = j + u
    <2> TAKE k \in 1 .. u + v
    <2>1. k \in 1 .. u \/ (k - u \in 1 .. v /\ k = (k - u) + u)
      OBVIOUS
    <2> QED
      BY <2>1
  <1>7. ASSUME NEW j \in 1 .. u + v, NEW k \in 1 .. u + v, P[j].key = P[k].key PROVE j = k
    <2>1. CASE j \in 1 .. u /\ k \in 1 .. u
      BY <1>1, <1>4, <1>7, <2>1 DEF Chain
    <2>0. \A a \in 1 .. u, b \in 1 .. v : first[a].key # second[b].key
      BY <1>1
    <2>2. CASE j \in 1 .. u /\ \E b \in 1 .. v : k = b + u
      <3>1. PICK b \in 1 .. v : k = b + u
        BY <2>2
      <3>2. P[j] = first[j] /\ P[k] = second[b]
        BY <1>4, <1>5, <2>2, <3>1
      <3> QED
        BY <1>7, <2>0, <2>2, <3>2
    <2>3. CASE k \in 1 .. u /\ \E a \in 1 .. v : j = a + u
      <3>1. PICK a \in 1 .. v : j = a + u
        BY <2>3
      <3>2. P[k] = first[k] /\ P[j] = second[a]
        BY <1>4, <1>5, <2>3, <3>1
      <3> QED
        BY <1>7, <2>0, <2>3, <3>2
    <2>4. CASE (\E a \in 1 .. v : j = a + u) /\ \E b \in 1 .. v : k = b + u
      <3>1. PICK a \in 1 .. v, b \in 1 .. v : j = a + u /\ k = b + u
        BY <2>4
      <3>2. a = b
        BY <1>1, <1>5, <1>7, <3>1 DEF Chain
      <3> QED
        BY <3>1, <3>2
    <2> QED
      BY <1>6, <2>1, <2>2, <2>3, <2>4, Zenon
  <1>8. Chain(P)
    BY <1>3, <1>7, Zenon DEF Chain
  <1>9. ASSUME NEW key, NEW n
        PROVE  InChain(P, key, n) <=> InChain(first, key, n) \/ InChain(second, key, n)
    <2>1. ASSUME InChain(P, key, n) PROVE InChain(first, key, n) \/ InChain(second, key, n)
      <3>1. PICK k \in 1 .. u + v : P[k].key = key /\ P[k].data = n
        BY <1>3, <2>1 DEF InChain
      <3>2. CASE k \in 1 .. u
        BY <1>1, <1>4, <3>1, <3>2 DEF InChain
      <3>3. CASE \E j \in 1 .. v : k = j + u
        BY <1>1, <1>5, <3>1, <3>3 DEF InChain
      <3> QED
        BY <1>6, <3>2, <3>3
    <2>2. ASSUME InChain(first, key, n) PROVE InChain(P, key, n)
      <3>1. PICK k \in 1 .. u : first[k].key = key /\ first[k].data = n
        BY <1>1, <2>2 DEF InChain
      <3> QED
        BY <1>3, <1>4, <3>1, Zenon DEF InChain
    <2>3. ASSUME InChain(second, key, n) PROVE InChain(P, key, n)
      <3>1. PICK k \in 1 .. v : second[k].key = key /\ second[k].data = n
        BY <1>1, <2>3 DEF InChain
      <3> QED
        BY <1>3, <1>5, <3>1, Zenon DEF InChain
    <2> QED
      BY <2>1, <2>2, <2>3
  <1> QED
    BY <1>2, <1>8, <1>9, Zenon

(* What htab_foreach calls its function for: all items, each once.         *)
LEMMA ForEach ==
  ASSUME NEW tab, NEW m \in Nat \ {0}, Filled(tab, m)
  PROVE  /\ Chain(htab_foreach(tab))
         /\ \A key \in Names : \A n : InChain(htab_foreach(tab), key, n) <=> Has(tab, m, key, n)
  <1>1. PICK chains : chains = [k \in 1 .. m |-> tab.ptr[k - 1]]
    OBVIOUS
  <1>2. Len(chains) = m /\ \A k \in 1 .. m : chains[k] = tab.ptr[k - 1] /\ k - 1 \in 0 .. m - 1
    BY <1>1
  <1>3. PICK f : IsFlat(f, chains, m) /\ f[m] = htab_foreach(tab)
    <2>1. PICK f : f = CHOOSE g : IsFlat(g, chains, m)
      OBVIOUS
    <2>2. IsFlat(f, chains, m)
      BY <2>1, SomeFlat
    <2>3. htab_foreach(tab) = FlattenSeq(chains)
      BY <1>1 DEF htab_foreach, Filled
    <2>4. FlattenSeq(chains) = (CHOOSE g : IsFlat(g, chains, m))[m]
      BY <1>2 DEF FlattenSeq, IsFlat
    <2> QED
      BY <2>1, <2>2, <2>3, <2>4
  <1>4. \A n \in 1 .. m : f[n] = IF n = 1 THEN chains[n] ELSE f[n - 1] \o chains[n]
    <2>1. f = [n \in 1 .. m |-> IF n = 1 THEN chains[n] ELSE f[n - 1] \o chains[n]]
      BY <1>3 DEF IsFlat
    <2> QED
      BY ONLY <2>1, Zenon
  <1>5. \A k \in 1 .. m : Chain(chains[k])
    BY <1>2 DEF Filled
  <1>6. ASSUME NEW j \in 1 .. m, NEW k \in 1 .. m,
               NEW a \in 1 .. Len(chains[j]), NEW b \in 1 .. Len(chains[k]),
               chains[j][a].key = chains[k][b].key
        PROVE  j = k
    <2>1. ASSUME NEW q \in 1 .. m, NEW r \in 1 .. Len(chains[q])
          PROVE  htab_hash_function(chains[q][r].key, m) = q - 1
      <3>1. PICK c : c = q - 1
        OBVIOUS
      <3>2. c \in 0 .. m - 1 /\ chains[q] = tab.ptr[c]
        BY <1>2, <3>1
      <3>3. htab_hash_function(tab.ptr[c][r].key, m) = c
        BY <3>2 DEF Filled
      <3> QED
        BY <3>1, <3>2, <3>3
    <2>2. j - 1 = k - 1
      BY <1>6, <2>1, Zenon
    <2> QED
      BY ONLY <2>2, j \in 1 .. m, k \in 1 .. m
  <1> DEFINE Whole(n) == /\ Chain(f[n])
                         /\ \A key, d : InChain(f[n], key, d) <=> \E k \in 1 .. n : InChain(chains[k], key, d)
  <1>7. Whole(1)
    <2>1. f[1] = chains[1] /\ 1 \in 1 .. m
      BY <1>4
    <2>2. \A k \in 1 .. 1 : k = 1
      OBVIOUS
    <2>3. 1 \in 1 .. 1
      OBVIOUS
    <2> QED
      BY <1>5, <2>1, <2>2, <2>3, Zenon
  <1>8. ASSUME NEW n \in 2 .. m, Whole(n - 1) PROVE Whole(n)
    <2>1. n \in 1 .. m /\ n # 1 /\ n - 1 \in 1 .. m
      OBVIOUS
    <2>2. f[n] = f[n - 1] \o chains[n]
      BY <1>4, <2>1, Zenon
    <2>3. \A k : k \in 1 .. n <=> k \in 1 .. n - 1 \/ k = n
      BY <2>1
    <2>4. n \notin 1 .. n - 1 /\ \A k \in 1 .. n - 1 : k \in 1 .. m
      BY <2>1
    <2>5. \A j \in 1 .. Len(f[n - 1]), k \in 1 .. Len(chains[n]) : f[n - 1][j].key # chains[n][k].key
      <3> SUFFICES ASSUME NEW j \in 1 .. Len(f[n - 1]), NEW k \in 1 .. Len(chains[n]),
                          f[n - 1][j].key = chains[n][k].key
                   PROVE  FALSE
        OBVIOUS
      <3>1. InChain(f[n - 1], f[n - 1][j].key, f[n - 1][j].data)
        BY DEF InChain
      <3>2. PICK a \in 1 .. n - 1 : InChain(chains[a], f[n - 1][j].key, f[n - 1][j].data)
        BY <1>8, <3>1
      <3>3. PICK b \in 1 .. Len(chains[a]) : chains[a][b].key = f[n - 1][j].key
        BY <3>2 DEF InChain
      <3> QED
        BY <1>6, <2>1, <2>4, <3>3, Zenon
    <2>6. /\ Chain(f[n])
          /\ \A key, d : InChain(f[n], key, d) <=> InChain(f[n - 1], key, d) \/ InChain(chains[n], key, d)
      <3>1. PICK A, B : A = f[n - 1] /\ B = chains[n]
        OBVIOUS
      <3>2. Chain(A) /\ Chain(B) /\ \A j \in 1 .. Len(A), k \in 1 .. Len(B) : A[j].key # B[k].key
        BY <1>5, <1>8, <2>1, <2>5, <3>1
      <3>3. /\ Chain(A \o B)
            /\ \A key, d : InChain(A \o B, key, d) <=> InChain(A, key, d) \/ InChain(B, key, d)
        BY ONLY <3>2, Joined
      <3> QED
        BY ONLY <2>2, <3>1, <3>3, Zenon
    <2> QED
      BY <1>8, <2>3, <2>6, Zenon
  <1>9. Whole(m)
    <2> DEFINE wrong == {n \in 1 .. m : ~ Whole(n)}
    <2> HIDE DEF Whole
    <2> SUFFICES ASSUME wrong # {} PROVE FALSE
      OBVIOUS
    <2>1. wrong \subseteq Nat
      OBVIOUS
    <2>2. PICK w \in wrong : \A k \in wrong : w <= k
      <3> HIDE DEF wrong
      <3> QED
        BY <2>1, LeastNatural
    <2>3. w \in 2 .. m
      BY <1>7, <2>2
    <2>4. w - 1 \notin wrong /\ w - 1 \in 1 .. m
      BY <2>2, <2>3
    <2> QED
      BY <1>8, <2>2, <2>3, <2>4
  <1>10. ASSUME NEW key \in Names, NEW d
         PROVE  (\E k \in 1 .. m : InChain(chains[k], key, d)) <=> Has(tab, m, key, d)
    <2>1. PICK b \in 0 .. m - 1 : b = htab_hash_function(key, m)
      BY Hash
    <2>2. b + 1 \in 1 .. m /\ (b + 1) - 1 = b
      OBVIOUS
    <2>3. chains[b + 1] = tab.ptr[b]
      BY ONLY <1>2, <2>2, Zenon
    <2>4. ASSUME NEW k \in 1 .. m, InChain(chains[k], key, d) PROVE chains[k] = tab.ptr[b]
      <3>1. PICK a \in 1 .. Len(chains[k]) : chains[k][a].key = key
        BY <2>4 DEF InChain
      <3>2. PICK c \in 0 .. m - 1 : c = k - 1
        OBVIOUS
      <3>3. chains[k] = tab.ptr[c]
        BY <1>2, <3>2
      <3>4. c = b
        BY <2>1, <3>1, <3>3 DEF Filled
      <3> QED
        BY <3>3, <3>4
    <2> QED
      BY <2>1, <2>2, <2>3, <2>4, Zenon DEF Has
  <1> QED
    BY <1>3, <1>9, <1>10, Zenon

-----------------------------------------------------------------------------
(* wordcount: its words.                                                   *)

(* The words of an input, as Starts, After and WordAt; the words that a    *)
(* blank among the first n characters ends, and how often one is there.    *)
StartsOf(inp) == {p \in 1 .. Len(inp) : inp[p] \notin Spaces /\ (p = 1 \/ inp[p - 1] \in Spaces)}
AfterOf(inp, p) == Min({q \in p .. Len(inp) : inp[q] \in Spaces} \cup {Len(inp) + 1})
WordOf(inp, p) == SubSeq(inp, p, Min({AfterOf(inp, p) - 1, p + MAX_LENGTH - 1}))
Ended(inp, n) == {q \in StartsOf(inp) : AfterOf(inp, q) <= n}
Tally(inp, n, key) == Cardinality({q \in Ended(inp, n) : WordOf(inp, q) = key})
Tallied(inp, n, tab) ==
  \A key \in Names, d \in Nat : Has(tab, arr_size, key, d) <=> d = Tally(inp, n, key) /\ d # 0

LEMMA After1 ==
  ASSUME NEW inp \in Names, NEW p \in 1 .. Len(inp)
  PROVE  /\ AfterOf(inp, p) \in p .. Len(inp) + 1 /\ Len(inp) \in Nat
         /\ AfterOf(inp, p) <= Len(inp) => inp[AfterOf(inp, p)] \in Spaces
         /\ \A q \in p .. AfterOf(inp, p) - 1 : inp[q] \notin Spaces
  <1>1. PICK L \in Nat : L = Len(inp)
    BY DEF Names
  <1>2. PICK S : S = {q \in p .. L : inp[q] \in Spaces} \cup {L + 1}
    OBVIOUS
  <1>3. S \subseteq Nat /\ S # {} /\ \A q \in S : q \in p .. L + 1
    BY <1>1, <1>2
  <1>4. PICK a \in S : \A k \in S : a <= k
    BY ONLY <1>3, LeastNatural
  <1>5. AfterOf(inp, p) = a
    BY <1>1, <1>2, <1>3, <1>4, LeastIs DEF AfterOf
  <1>6. a <= L => inp[a] \in Spaces
    BY <1>2, <1>3, <1>4
  <1>7. ASSUME NEW q \in p .. a - 1, inp[q] \in Spaces PROVE FALSE
    <2>1. q \in p .. L
      BY <1>3, <1>4
    <2>2. a <= q
      BY <1>2, <1>4, <1>7, <2>1
    <2> QED
      BY <1>3, <1>4, <2>1, <2>2
  <1> QED
    BY <1>1, <1>3, <1>4, <1>5, <1>6, <1>7

LEMMA AfterIs ==
  ASSUME NEW inp \in Names, NEW p \in 1 .. Len(inp), NEW a \in p .. Len(inp), inp[a] \in Spaces,
         \A q \in p .. a - 1 : inp[q] \notin Spaces
  PROVE  AfterOf(inp, p) = a
  <1>1. PICK b \in p .. Len(inp) + 1 :
          /\ b = AfterOf(inp, p) /\ Len(inp) \in Nat
          /\ b <= Len(inp) => inp[b] \in Spaces
          /\ \A q \in p .. b - 1 : inp[q] \notin Spaces
    BY After1
  <1>2. ~ (a < b)
    <2> SUFFICES ASSUME a < b PROVE FALSE
      OBVIOUS
    <2>1. a \in p .. b - 1
      BY <1>1
    <2> QED
      BY <1>1, <2>1
  <1>3. ~ (b < a)
    <2> SUFFICES ASSUME b < a PROVE FALSE
      OBVIOUS
    <2>1. b \in p .. a - 1 /\ b <= Len(inp)
      BY <1>1
    <2> QED
      BY <1>1, <2>1
  <1> QED
    BY <1>1, <1>2, <1>3

LEMMA OneWord ==
  ASSUME NEW inp \in Names, NEW p \in StartsOf(inp), NEW q \in StartsOf(inp),
         AfterOf(inp, p) = AfterOf(inp, q)
  PROVE  p = q
  <1>1. Len(inp) \in Nat /\ p \in 1 .. Len(inp) /\ q \in 1 .. Len(inp)
    BY DEF Names, StartsOf
  <1>2. ASSUME NEW u \in StartsOf(inp), NEW v \in StartsOf(inp), AfterOf(inp, u) = AfterOf(inp, v), u < v
        PROVE  FALSE
    <2>1. u \in 1 .. Len(inp) /\ v \in 1 .. Len(inp) /\ (v = 1 \/ inp[v - 1] \in Spaces)
          /\ inp[v] \notin Spaces
      BY DEF StartsOf
    <2>2. PICK a \in v .. Len(inp) + 1 : a = AfterOf(inp, v)
      BY <2>1, After1
    <2>3. \A k \in u .. a - 1 : inp[k] \notin Spaces
      BY <1>2, <2>1, <2>2, After1
    <2>4. v - 1 \in u .. a - 1 /\ v # 1
      BY <1>1, <1>2, <2>1
    <2> QED
      BY <2>1, <2>3, <2>4
  <1>3. ~ (p < q) /\ ~ (q < p)
    BY <1>2
  <1> QED
    BY <1>1, <1>3

LEMMA WordType ==
  ASSUME NEW inp \in Names, NEW p \in StartsOf(inp)
  PROVE  /\ WordOf(inp, p) \in Names
         /\ \A w \in Names :
              /\ Len(w) = (IF AfterOf(inp, p) - p <= MAX_LENGTH THEN AfterOf(inp, p) - p ELSE MAX_LENGTH)
              /\ \A k \in 1 .. Len(w) : w[k] = inp[p + k - 1]
              => WordOf(inp, p) = w
  <1>1. PICK L \in Nat, M \in Nat \ {0} : L = Len(inp) /\ M = MAX_LENGTH
    BY WordcountAssumption DEF Names
  <1>2. p \in 1 .. L /\ inp[p] \notin Spaces
    BY <1>1 DEF StartsOf
  <1>3. PICK a \in p .. L + 1 : a = AfterOf(inp, p) /\ (a <= L => inp[a] \in Spaces)
    BY <1>1, <1>2, After1
  <1>4. PICK e : e = IF a - p <= M THEN a - 1 ELSE p + M - 1
    OBVIOUS
  <1>5. Min({a - 1, p + M - 1}) = e
    <2>1. e \in {a - 1, p + M - 1} /\ \A k \in {a - 1, p + M - 1} : e <= k
      BY <1>1, <1>2, <1>3, <1>4
    <2>2. {a - 1, p + M - 1} \subseteq Nat
      BY <1>1, <1>2, <1>3
    <2> QED
      BY <2>1, <2>2, LeastIs
  <1>6. a # p
    BY <1>2, <1>3
  <1>7. e \in p .. L /\ e - p + 1 = IF a - p <= M THEN a - p ELSE M
    BY <1>1, <1>2, <1>3, <1>4, <1>6
  <1>8. WordOf(inp, p) = SubSeq(inp, p, e)
    BY <1>1, <1>3, <1>5 DEF WordOf
  <1>9. /\ SubSeq(inp, p, e) \in Names /\ Len(SubSeq(inp, p, e)) = e - p + 1
        /\ \A k \in 1 .. e - p + 1 : SubSeq(inp, p, e)[k] = inp[p + k - 1]
    <2>1. \A k \in p .. e : inp[k] \in Characters
      BY <1>1, <1>2, <1>7 DEF Names
    <2>2. p \in Int /\ e \in Int /\ p <= e
      BY <1>2, <1>7
    <2> QED
      BY <2>1, <2>2, SubSeqProperties DEF Names
  <1>10. ASSUME NEW w \in Names, Len(w) = e - p + 1, \A k \in 1 .. Len(w) : w[k] = inp[p + k - 1]
         PROVE  SubSeq(inp, p, e) = w
    <2>1. PICK v : v = SubSeq(inp, p, e)
      OBVIOUS
    <2>2. v \in Seq(Characters) /\ w \in Seq(Characters)
      BY <1>9, <2>1 DEF Names
    <2>3. Len(v) = Len(w) /\ \A k \in 1 .. Len(v) : v[k] = w[k]
      BY <1>9, <1>10, <2>1, Zenon
    <2> QED
      BY ONLY <2>1, <2>2, <2>3, SeqEqual, Zenon
  <1> QED
    BY <1>1, <1>3, <1>7, <1>8, <1>9, <1>10, Zenon

(* The words ended before and with the next character.                     *)
LEMMA EndedSame ==
  ASSUME NEW inp \in Names, NEW n \in 0 .. Len(inp) - 1, inp[n + 1] \notin Spaces
  PROVE  Ended(inp, n + 1) = Ended(inp, n)
  <1>1. ASSUME NEW q \in StartsOf(inp) PROVE AfterOf(inp, q) <= n + 1 <=> AfterOf(inp, q) <= n
    <2>1. q \in 1 .. Len(inp)
      BY DEF StartsOf
    <2>2. PICK a \in q .. Len(inp) + 1 :
            a = AfterOf(inp, q) /\ Len(inp) \in Nat /\ (a <= Len(inp) => inp[a] \in Spaces)
      BY <2>1, After1
    <2>3. a # n + 1
      BY <2>2
    <2> QED
      BY <2>1, <2>2, <2>3
  <1> QED
    BY <1>1 DEF Ended

LEMMA EndedMore ==
  ASSUME NEW inp \in Names, NEW n \in Nat, NEW p \in StartsOf(inp), AfterOf(inp, p) = n + 1
  PROVE  Ended(inp, n + 1) = Ended(inp, n) \cup {p} /\ p \notin Ended(inp, n)
  <1>1. ASSUME NEW q \in StartsOf(inp) PROVE AfterOf(inp, q) <= n + 1 <=> AfterOf(inp, q) <= n \/ q = p
    <2>1. q \in 1 .. Len(inp)
      BY DEF StartsOf
    <2>2. PICK a \in q .. Len(inp) + 1 : a = AfterOf(inp, q) /\ Len(inp) \in Nat
      BY <2>1, After1
    <2>3. a = n + 1 => q = p
      BY <2>2, OneWord
    <2> QED
      BY <2>1, <2>2, <2>3
  <1>2. ~ (n + 1 <= n)
    OBVIOUS
  <1> QED
    BY <1>1, <1>2 DEF Ended

LEMMA EndedType ==
  ASSUME NEW inp \in Names, NEW n
  PROVE  IsFiniteSet(Ended(inp, n)) /\ Ended(inp, n) \subseteq StartsOf(inp)
  <1>1. Ended(inp, n) \subseteq 1 .. Len(inp) /\ Len(inp) \in Nat
    BY DEF Ended, StartsOf, Names
  <1>2. IsFiniteSet(1 .. Len(inp))
    BY <1>1, FS_Interval
  <1> QED
    BY <1>1, <1>2, FS_Subset DEF Ended

LEMMA TallyMore ==
  ASSUME NEW inp \in Names, NEW n \in Nat, NEW p \in StartsOf(inp), AfterOf(inp, p) = n + 1, NEW key
  PROVE  /\ Tally(inp, n, key) \in Nat
         /\ Tally(inp, n + 1, key) = Tally(inp, n, key) + IF key = WordOf(inp, p) THEN 1 ELSE 0
  <1>1. PICK S, T :
          /\ S = {q \in Ended(inp, n) : WordOf(inp, q) = key}
          /\ T = {q \in Ended(inp, n + 1) : WordOf(inp, q) = key}
    OBVIOUS
  <1>2. IsFiniteSet(S) /\ Cardinality(S) \in Nat
    BY <1>1, EndedType, FS_Subset, FS_CardinalityType
  <1>3. Tally(inp, n, key) = Cardinality(S) /\ Tally(inp, n + 1, key) = Cardinality(T)
    BY <1>1 DEF Tally
  <1>4. CASE key = WordOf(inp, p)
    <2>1. T = S \cup {p} /\ p \notin S
      BY <1>1, <1>4, EndedMore
    <2>2. Cardinality(T) = Cardinality(S) + 1
      BY <1>2, <2>1, FS_AddElement
    <2> QED
      BY <1>2, <1>3, <1>4, <2>2
  <1>5. CASE key # WordOf(inp, p)
    <2>1. T = S
      BY <1>1, <1>5, EndedMore
    <2> QED
      BY <1>2, <1>3, <1>5, <2>1
  <1> QED
    BY <1>4, <1>5

LEMMA TalliedMore ==
  ASSUME NEW inp \in Names, NEW n \in Nat, NEW p \in StartsOf(inp), AfterOf(inp, p) = n + 1,
         NEW tab, Filled(tab, arr_size), Tallied(inp, n, tab)
  PROVE  Tallied(inp, n + 1, htab_lookup_add(tab, WordOf(inp, p)))
  <1>1. PICK new, key : new = htab_lookup_add(tab, key) /\ key = WordOf(inp, p)
    OBVIOUS
  <1>2. key \in Names /\ arr_size \in Nat \ {0}
    BY <1>1, WordType, WordcountAssumption
  <1>3. ASSUME NEW k2 \in Names, NEW d \in Nat
        PROVE  Has(new, arr_size, k2, d) <=>
                 IF k2 = key
                   THEN (d # 0 /\ Has(tab, arr_size, key, d - 1)) \/ (d = 1 /\ \A j : ~ Has(tab, arr_size, key, j))
                   ELSE Has(tab, arr_size, k2, d)
    BY <1>1, <1>2, Added
  <1>4. \A j : Has(tab, arr_size, key, j) => j \in Nat
    <2>1. PICK b \in 0 .. arr_size - 1 : b = htab_hash_function(key, arr_size)
      BY <1>2, Hash
    <2>2. Chain(tab.ptr[b])
      BY DEF Filled
    <2>3. \A k \in 1 .. Len(tab.ptr[b]) : tab.ptr[b][k].data \in Nat
      BY <2>2, ChainType
    <2> QED
      BY <2>1, <2>3, Zenon DEF Has, InChain
  <1>5. ASSUME NEW k2 \in Names, NEW d \in Nat
        PROVE  Has(new, arr_size, k2, d) <=> d = Tally(inp, n + 1, k2) /\ d # 0
    <2>1. PICK u \in Nat : u = Tally(inp, n, k2)
      BY TallyMore
    <2>2. \A j \in Nat : Has(tab, arr_size, k2, j) <=> j = u /\ j # 0
      BY <2>1 DEF Tallied
    <2>3. Tally(inp, n + 1, k2) = u + IF k2 = key THEN 1 ELSE 0
      BY <1>1, <2>1, TallyMore
    <2>4. CASE k2 # key
      BY <1>3, <2>2, <2>3, <2>4
    <2>5. CASE k2 = key
      <3>1. (\A j : ~ Has(tab, arr_size, key, j)) <=> u = 0
        BY <1>4, <2>2, <2>5, Zenon
      <3>2. d # 0 => d - 1 \in Nat
        OBVIOUS
      <3>3. d # 0 => (Has(tab, arr_size, key, d - 1) <=> d - 1 = u /\ d - 1 # 0)
        BY <2>2, <2>5, <3>2
      <3>4. Has(new, arr_size, key, d) <=> (d # 0 /\ d - 1 = u /\ d - 1 # 0) \/ (d = 1 /\ u = 0)
        BY <1>3, <2>5, <3>1, <3>3, Zenon
      <3>5. (d # 0 /\ d - 1 = u /\ d - 1 # 0) \/ (d = 1 /\ u = 0) <=> d = u + 1 /\ d # 0
        OBVIOUS
      <3> QED
        BY <2>3, <2>5, <3>4, <3>5
    <2> QED
      BY <2>4, <2>5
  <1> QED
    BY <1>1, <1>5 DEF Tallied

(* The lines that are printed of a table with the words and their numbers. *)
LEMMA LinesRight ==
  ASSUME NEW inp \in Names, NEW n \in Nat, NEW P, Chain(P),
         \A key \in Names, d \in Nat : InChain(P, key, d) <=> d = Tally(inp, n, key) /\ d # 0
  PROVE  /\ Len(P) = Cardinality({WordOf(inp, p) : p \in Ended(inp, n)})
         /\ ToSet(P) = {[key |-> WordOf(inp, p), data |-> Tally(inp, n, WordOf(inp, p))] : p \in Ended(inp, n)}
  <1>1. PICK L \in Nat : L = Len(P) /\ DOMAIN P = 1 .. L
    BY ChainType
  <1>2. ASSUME NEW key \in Names
        PROVE  Tally(inp, n, key) \in Nat /\ (Tally(inp, n, key) # 0 <=> \E p \in Ended(inp, n) : WordOf(inp, p) = key)
    <2>1. PICK S : S = {q \in Ended(inp, n) : WordOf(inp, q) = key}
      OBVIOUS
    <2>2. IsFiniteSet(S) /\ Cardinality(S) \in Nat
      BY <2>1, EndedType, FS_Subset, FS_CardinalityType
    <2>3. Cardinality(S) = 0 <=> S = {}
      BY <2>2, FS_EmptySet
    <2> QED
      BY <2>1, <2>2, <2>3 DEF Tally
  <1>3. ASSUME NEW p \in Ended(inp, n)
        PROVE  WordOf(inp, p) \in Names
    BY EndedType, WordType
  <1>4. ASSUME NEW k \in 1 .. L
        PROVE  /\ P[k] \in Item /\ P[k].key \in Names /\ P[k].data = Tally(inp, n, P[k].key)
               /\ \E p \in Ended(inp, n) : WordOf(inp, p) = P[k].key
    <2>1. PICK key \in Names, d \in Nat \ {0} : key = P[k].key /\ d = P[k].data /\ P[k] \in Item
      BY <1>1, ChainType
    <2>2. InChain(P, key, d)
      BY <1>1, <2>1 DEF InChain
    <2>3. d = Tally(inp, n, key) /\ d # 0
      BY <2>1, <2>2
    <2> QED
      BY <1>2, <2>1, <2>3
  <1>5. ASSUME NEW p \in Ended(inp, n)
        PROVE  \E k \in 1 .. L : P[k].key = WordOf(inp, p)
    <2>1. PICK key \in Names : key = WordOf(inp, p)
      BY <1>3
    <2>2. PICK d \in Nat \ {0} : d = Tally(inp, n, key)
      BY <1>2, <2>1
    <2>3. InChain(P, key, d)
      BY <2>2
    <2> QED
      BY <1>1, <2>1, <2>3 DEF InChain
  <1> DEFINE W == {WordOf(inp, p) : p \in Ended(inp, n)}
             f == [k \in 1 .. L |-> P[k].key]
  <1>6. f \in Bijection(1 .. L, W)
    <2>1. f \in [1 .. L -> W]
      BY <1>4
    <2>2. \A j, k \in 1 .. L : f[j] = f[k] => j = k
      BY <1>1 DEF Chain
    <2>3. \A w \in W : \E k \in 1 .. L : f[k] = w
      BY <1>5
    <2> HIDE DEF W, f
    <2> QED
      BY <2>1, <2>2, <2>3 DEF Bijection, Injection, Surjection, IsInjective
  <1>7. Cardinality(W) = L
    <2> HIDE DEF W, f
    <2>1. ExistsBijection(1 .. L, W)
      BY <1>6 DEF ExistsBijection
    <2> QED
      BY <2>1, FS_CountingElements
  <1>8. ToSet(P) = {[key |-> WordOf(inp, p), data |-> Tally(inp, n, WordOf(inp, p))] : p \in Ended(inp, n)}
    <2>1. \A v \in Item : v = [key |-> v.key, data |-> v.data]
      BY DEF Item
    <2>2. \A k \in 1 .. L : \E p \in Ended(inp, n) :
            P[k] = [key |-> WordOf(inp, p), data |-> Tally(inp, n, WordOf(inp, p))]
      BY <1>4, <2>1
    <2>3. \A p \in Ended(inp, n) : \E k \in 1 .. L :
            P[k] = [key |-> WordOf(inp, p), data |-> Tally(inp, n, WordOf(inp, p))]
      BY <1>4, <1>5, <2>1
    <2>4. ToSet(P) = {P[k] : k \in 1 .. L}
      BY <1>1 DEF ToSet
    <2> QED
      BY <2>2, <2>3, <2>4
  <1> QED
    BY <1>1, <1>7, <1>8

(* A word that has begun at p and goes on to n; what is kept of it.        *)
InWord(inp, n, p) == p \in StartsOf(inp) /\ p <= n /\ \A k \in p .. n : inp[k] \notin Spaces
Begun(inp, p, w) == \A k \in 1 .. Len(w) : w[k] = inp[p + k - 1]
Warned(inp, n) == \E q \in Ended(inp, n) : AfterOf(inp, q) - q > MAX_LENGTH
Spaced(inp) == \A p \in 1 .. Len(inp) : inp[p] \in Spaces => p > 1 /\ inp[p - 1] \notin Spaces

LEMMA WordNumbers ==
  /\ MAX_LENGTH \in Nat \ {0} /\ arr_size \in Nat \ {0} /\ MaxInput \in Nat
  /\ \A inp \in Names : Len(inp) \in Nat /\ \A p \in StartsOf(inp) : p \in 1 .. Len(inp)
  BY WordcountAssumption DEF Names, StartsOf

LEMMA WordEnds ==
  ASSUME NEW inp \in Names, NEW n \in 0 .. Len(inp) - 1, NEW p, InWord(inp, n, p), inp[n + 1] \in Spaces
  PROVE  AfterOf(inp, p) = n + 1
  <1>1. p \in 1 .. Len(inp) /\ Len(inp) \in Nat
    BY WordNumbers DEF InWord
  <1>2. n + 1 \in p .. Len(inp) /\ (n + 1) - 1 = n
    BY <1>1 DEF InWord
  <1>3. \A q \in p .. (n + 1) - 1 : inp[q] \notin Spaces
    BY <1>2 DEF InWord
  <1> QED
    BY <1>1, <1>2, <1>3, AfterIs

LEMMA WordStarts ==
  ASSUME NEW inp \in Names, NEW n \in 0 .. Len(inp) - 1, n = 0 \/ inp[n] \in Spaces, inp[n + 1] \notin Spaces
  PROVE  InWord(inp, n + 1, n + 1)
  <1>1. n + 1 \in 1 .. Len(inp) /\ (n + 1) - 1 = n /\ (n = 0 => n + 1 = 1) /\ n + 1 <= n + 1
    BY WordNumbers
  <1>2. \A k \in n + 1 .. n + 1 : k = n + 1
    OBVIOUS
  <1> QED
    BY <1>1, <1>2, Zenon DEF InWord, StartsOf

LEMMA WordGoesOn ==
  ASSUME NEW inp \in Names, NEW n \in 0 .. Len(inp) - 1, NEW p, InWord(inp, n, p), inp[n + 1] \notin Spaces
  PROVE  InWord(inp, n + 1, p)
  <1>1. p \in 1 .. Len(inp) /\ p <= n + 1
    BY WordNumbers DEF InWord
  <1>2. \A k \in p .. n + 1 : k \in p .. n \/ k = n + 1
    BY <1>1
  <1> QED
    BY <1>1, <1>2 DEF InWord

LEMMA WarnedMore ==
  ASSUME NEW inp \in Names, NEW n \in Nat, NEW p \in StartsOf(inp), AfterOf(inp, p) = n + 1
  PROVE  Warned(inp, n + 1) <=> Warned(inp, n) \/ (n + 1) - p > MAX_LENGTH
  <1>1. Ended(inp, n + 1) = Ended(inp, n) \cup {p}
    BY EndedMore
  <1> QED
    BY <1>1 DEF Warned

LEMMA BeginsEmpty ==
  ASSUME NEW inp \in Names
  PROVE  Ended(inp, 0) = {} /\ ~ Warned(inp, 0) /\ Tallied(inp, 0, htab_init(arr_size))
  <1>1. ASSUME NEW q \in StartsOf(inp) PROVE ~ (AfterOf(inp, q) <= 0)
    <2>1. q \in 1 .. Len(inp)
      BY WordNumbers
    <2> QED
      BY <2>1, After1
  <1>2. Ended(inp, 0) = {}
    BY <1>1 DEF Ended
  <1>3. \A key : Tally(inp, 0, key) = 0
    <2>1. \A key : {q \in Ended(inp, 0) : WordOf(inp, q) = key} = {}
      BY <1>2
    <2> QED
      BY <2>1, FS_EmptySet DEF Tally
  <1>4. \A key \in Names : \A d : ~ Has(htab_init(arr_size), arr_size, key, d)
    BY WordNumbers, InitFilled
  <1> QED
    BY <1>2, <1>3, <1>4 DEF Warned, Tallied

-----------------------------------------------------------------------------
(* wordcount: what is true in every state of it.                           *)

(* Every input: a word is counted no more often than characters were read. *)
WordsShape ==
  /\ input \in Names /\ Len(input) <= MaxInput /\ pos \in 0 .. Len(input)
  /\ s \in Seq(Characters \ Spaces) /\ Len(s) <= MAX_LENGTH
  /\ pc \in {"getc", "skip", "over", "add", "print", "done", "failed"}
  /\ warning \in BOOLEAN
  /\ Filled(htab, arr_size)
  /\ \A key \in Names, d \in Nat : Has(htab, arr_size, key, d) => d <= pos /\ (pc = "add" => d < pos)
  /\ pc = "add" => pos # 0
  /\ \A k \in DOMAIN printed : printed[k].data \in 1 .. MaxInput

LinesOf(inp, P) ==
  /\ Len(P) = Cardinality({WordOf(inp, p) : p \in Ended(inp, Len(inp))})
  /\ ToSet(P) = {[key |-> WordOf(inp, p), data |-> Tally(inp, Len(inp), WordOf(inp, p))] :
                       p \in Ended(inp, Len(inp))}

(* An input without superfluous blanks.                                    *)
WordsCounted ==
  Spaced(input) =>
    /\ pc # "skip"
    /\ pc = "getc" =>
         \/ s = << >> /\ (pos = 0 \/ input[pos] \in Spaces)
         \/ \E p : InWord(input, pos, p) /\ Len(s) = pos - p + 1 /\ Begun(input, p, s)
    /\ pc = "over" =>
         \E p : InWord(input, pos, p) /\ pos - p + 1 > MAX_LENGTH /\ Len(s) = MAX_LENGTH /\ Begun(input, p, s)
    /\ pc = "add" =>
         /\ \E p \in StartsOf(input) : AfterOf(input, p) = pos /\ s = WordOf(input, p)
         /\ Tallied(input, pos - 1, htab)
    /\ pc \in {"getc", "over", "print"} => Tallied(input, pos, htab)
    /\ pc # "failed" => (warning <=> Warned(input, pos))
    /\ pc \in {"print", "done"} => pos = Len(input)
    /\ pc = "done" => LinesOf(input, printed)

WordsInv == WordsShape /\ WordsCounted

LEMMA WordsInit == Init => WordsInv
  <1> SUFFICES ASSUME Init PROVE WordsInv
    OBVIOUS
  <1>1. /\ input \in BoundedSeq(Characters, MaxInput) /\ pos = 0 /\ s = << >> /\ pc = "getc"
        /\ htab = htab_init(arr_size) /\ printed = << >> /\ warning = FALSE
    BY DEF Init
  <1>2. input \in Names /\ Len(input) <= MaxInput
    <2>1. PICK n \in 0 .. MaxInput : input \in [1 .. n -> Characters]
      BY <1>1 DEF BoundedSeq, SeqOf
    <2>2. n \in Nat
      BY WordNumbers
    <2> QED
      BY <2>1, <2>2, WordNumbers DEF Names
  <1>3. Filled(htab, arr_size) /\ \A key \in Names : \A d : ~ Has(htab, arr_size, key, d)
    BY <1>1, WordNumbers, InitFilled
  <1>4. WordsShape
    <2>1. << >> \in Seq(Characters \ Spaces) /\ Len(<< >>) = 0 /\ DOMAIN << >> = {}
      OBVIOUS
    <2>2. 0 <= MAX_LENGTH /\ 0 \in 0 .. Len(input)
      BY <1>2, WordNumbers
    <2> QED
      BY <1>1, <1>2, <1>3, <2>1, <2>2 DEF WordsShape
  <1>5. WordsCounted
    BY <1>1, <1>2, BeginsEmpty DEF WordsCounted
  <1> QED
    BY <1>4, <1>5 DEF WordsInv

(* Reading a character changes neither the table nor the words before it.  *)
LEMMA ReadsShape ==
  ASSUME WordsShape, NEW at, NEW space, Reads(at, space)
  PROVE  /\ pc = at /\ pos \in 0 .. Len(input) - 1 /\ pos' = pos + 1 /\ pos' \in 0 .. Len(input)
         /\ UNCHANGED << input, htab, printed >>
         /\ (input[pos + 1] \in Spaces) = space /\ input[pos + 1] \in Characters
         /\ \A key \in Names, d \in Nat : Has(htab, arr_size, key, d) => d < pos'
  <1>1. /\ pc = at /\ pos # Len(input) /\ pos' = pos + 1 /\ UNCHANGED << input, htab, printed >>
        /\ (input[pos + 1] \in Spaces) = space
    BY DEF Reads, AtEOF, Next1
  <1>2. PICK L \in Nat, n \in Nat : L = Len(input) /\ n = pos /\ n <= L
    BY WordNumbers DEF WordsShape
  <1>3. n \in 0 .. L - 1 /\ n + 1 \in 0 .. L /\ n + 1 \in 1 .. L
    BY <1>1, <1>2
  <1>4. input[pos + 1] \in Characters
    BY <1>2, <1>3 DEF WordsShape, Names
  <1>5. ASSUME NEW key \in Names, NEW d \in Nat, Has(htab, arr_size, key, d) PROVE d < pos'
    <2>1. d <= n
      BY <1>2, <1>5 DEF WordsShape
    <2> QED
      BY <1>1, <1>2, <2>1
  <1> QED
    BY <1>1, <1>2, <1>3, <1>4, <1>5

(* After a character that is no blank.                                     *)
LEMMA SameTally ==
  ASSUME NEW inp \in Names, NEW n \in 0 .. Len(inp) - 1, inp[n + 1] \notin Spaces
  PROVE  /\ \A tab : Tallied(inp, n + 1, tab) <=> Tallied(inp, n, tab)
         /\ Warned(inp, n + 1) <=> Warned(inp, n)
  BY EndedSame DEF Tallied, Tally, Warned

LEMMA EndKeeps == ASSUME WordsInv, End PROVE WordsInv'
  <1>1. /\ pc = "getc" /\ pos = Len(input) /\ pc' = "print"
        /\ UNCHANGED << input, pos, s, htab, printed, warning >>
    BY DEF End, AtEOF
  <1>2. WordsShape'
    BY <1>1 DEF WordsInv, WordsShape
  <1>3. WordsCounted'
    BY <1>1 DEF WordsInv, WordsCounted
  <1> QED
    BY <1>2, <1>3 DEF WordsInv

LEMMA BlankKeeps == ASSUME WordsInv, Blank PROVE WordsInv'
  <1>1. /\ pc = "getc" /\ pos \in 0 .. Len(input) - 1 /\ pos' = pos + 1 /\ pos' \in 0 .. Len(input)
        /\ UNCHANGED << input, htab, printed, s, warning >>
        /\ pc' = IF s = << >> THEN "skip" ELSE "add"
        /\ input[pos + 1] \in Spaces
        /\ \A key \in Names, d \in Nat : Has(htab, arr_size, key, d) => d < pos'
    <2>1. WordsShape /\ Reads("getc", TRUE)
      BY DEF WordsInv, Blank
    <2> QED
      BY <2>1, ReadsShape DEF Blank
  <1>2. PICK inp \in Names, n \in Nat : inp = input /\ n = pos /\ n \in 0 .. Len(inp) - 1 /\ n + 1 # 0
    BY <1>1 DEF WordsInv, WordsShape
  <1>3. WordsShape'
    <2>1. \A key \in Names, d \in Nat : Has(htab, arr_size, key, d) => d <= n + 1
      BY <1>1, <1>2
    <2> QED
      BY <1>1, <1>2, <2>1 DEF WordsInv, WordsShape
  <1>4. ASSUME Spaced(inp)
        PROVE  /\ s # << >>
               /\ \E p \in StartsOf(inp) : AfterOf(inp, p) = n + 1 /\ s = WordOf(inp, p)
               /\ Warned(inp, n + 1) <=> Warned(inp, n)
    <2>1. s # << >>
      <3> SUFFICES ASSUME s = << >> PROVE FALSE
        OBVIOUS
      <3>1. n + 1 \in 1 .. Len(inp) /\ (n + 1) - 1 = n /\ (n = 0 => ~ (n + 1 > 1))
        BY <1>2
      <3>2. n + 1 > 1 /\ inp[n] \notin Spaces
        BY <1>1, <1>2, <1>4, <3>1 DEF Spaced
      <3>3. \A p : InWord(inp, n, p) => Len(s) # n - p + 1
        <4>1. Len(s) = 0
          OBVIOUS
        <4>2. ASSUME NEW p, InWord(inp, n, p) PROVE n - p + 1 # 0
          <5>1. p \in 1 .. Len(inp) /\ p <= n
            BY <4>2, WordNumbers DEF InWord
          <5> QED
            BY <5>1
        <4> QED
          BY <4>1, <4>2
      <3> QED
        BY <1>1, <1>2, <1>4, <3>1, <3>2, <3>3 DEF WordsInv, WordsCounted
    <2>2. PICK p : InWord(inp, n, p) /\ Len(s) = n - p + 1 /\ Begun(inp, p, s)
      BY <1>1, <1>2, <1>4, <2>1 DEF WordsInv, WordsCounted
    <2>3. AfterOf(inp, p) = n + 1 /\ p \in StartsOf(inp) /\ p \in 1 .. Len(inp)
      BY <1>1, <1>2, <2>2, WordEnds, WordNumbers DEF InWord
    <2>4. s \in Names /\ Len(s) <= MAX_LENGTH /\ Len(s) = (n + 1) - p
      BY <1>2, <2>2, <2>3 DEF WordsInv, WordsShape, Names
    <2>5. s = WordOf(inp, p)
      BY <2>2, <2>3, <2>4, WordType DEF Begun
    <2>6. ~ ((n + 1) - p > MAX_LENGTH)
      BY <1>2, <2>3, <2>4, WordNumbers
    <2> QED
      BY <2>1, <2>3, <2>5, <2>6, WarnedMore
  <1>5. WordsCounted'
    <2>1. (n + 1) - 1 = n
      OBVIOUS
    <2> QED
      BY <1>1, <1>2, <1>4, <2>1 DEF WordsInv, WordsCounted
  <1> QED
    BY <1>3, <1>5 DEF WordsInv

(* After two blanks.                                                       *)
LEMMA SkipKeeps == ASSUME WordsInv, Skip \/ Skipped PROVE WordsInv'
  <1>1. pc = "skip" /\ ~ Spaced(input)
    BY DEF WordsInv, WordsCounted, Skip, Skipped, Reads
  <1>2. CASE Skip
    <2>1. /\ pos' = pos + 1 /\ pos' \in 0 .. Len(input)
          /\ UNCHANGED << input, htab, printed, s, pc, warning >>
          /\ \A key \in Names, d \in Nat : Has(htab, arr_size, key, d) => d < pos'
      <3>1. WordsShape /\ Reads("skip", TRUE)
        BY <1>2 DEF WordsInv, Skip
      <3> QED
        BY <1>2, <3>1, ReadsShape DEF Skip
    <2>2. PICK n \in Nat : n = pos + 1
      BY DEF WordsInv, WordsShape
    <2>3. \A key \in Names, d \in Nat : Has(htab, arr_size, key, d) => d <= n
      BY <2>1, <2>2
    <2>4. WordsShape'
      BY <1>1, <2>1, <2>2, <2>3 DEF WordsInv, WordsShape
    <2>5. WordsCounted'
      BY <1>1, <2>1 DEF WordsCounted
    <2> QED
      BY <2>4, <2>5 DEF WordsInv
  <1>3. CASE Skipped
    <2>1. /\ UNCHANGED << input, pos, htab, printed, warning >> /\ pc' = "getc"
          /\ s' = (IF pos = Len(input) THEN s ELSE << input[pos + 1] >>)
          /\ pos # Len(input) => input[pos + 1] \notin Spaces
      BY <1>3 DEF Skipped, AtEOF, Next1
    <2>2. s' \in Seq(Characters \ Spaces) /\ Len(s') <= MAX_LENGTH
      <3>1. CASE pos = Len(input)
        BY <2>1, <3>1 DEF WordsInv, WordsShape
      <3>2. CASE pos # Len(input)
        <4>1. PICK L \in Nat, n \in Nat : L = Len(input) /\ n = pos /\ n <= L
          BY WordNumbers DEF WordsInv, WordsShape
        <4>2. n + 1 \in 1 .. L
          BY <3>2, <4>1
        <4>3. input[pos + 1] \in Characters \ Spaces
          BY <2>1, <3>2, <4>1, <4>2 DEF WordsInv, WordsShape, Names
        <4>4. PICK char \in Characters \ Spaces : char = input[pos + 1]
          BY <4>3
        <4>5. << char >> \in Seq(Characters \ Spaces) /\ Len(<< char >>) = 1
          OBVIOUS
        <4> QED
          BY <2>1, <3>2, <4>4, <4>5, WordNumbers
      <3> QED
        BY <3>1, <3>2
    <2>3. WordsShape'
      BY <1>1, <2>1, <2>2 DEF WordsInv, WordsShape
    <2>4. WordsCounted'
      BY <1>1, <2>1 DEF WordsCounted
    <2> QED
      BY <2>3, <2>4 DEF WordsInv
  <1> QED
    BY <1>2, <1>3

LEMMA LetterKeeps == ASSUME WordsInv, Letter PROVE WordsInv'
  <1>1. /\ pc = "getc" /\ pos \in 0 .. Len(input) - 1 /\ pos' = pos + 1 /\ pos' \in 0 .. Len(input)
        /\ UNCHANGED << input, htab, printed, pc, warning >>
        /\ s' = Append(s, input[pos + 1]) /\ Len(s) < MAX_LENGTH
        /\ input[pos + 1] \in Characters \ Spaces
        /\ \A key \in Names, d \in Nat : Has(htab, arr_size, key, d) => d < pos'
    <2>1. WordsShape /\ Reads("getc", FALSE)
      BY DEF WordsInv, Letter
    <2> QED
      BY <2>1, ReadsShape DEF Letter, Next1
  <1>2. PICK inp \in Names, n \in Nat, char \in Characters \ Spaces, w \in Seq(Characters \ Spaces) :
          inp = input /\ n = pos /\ n \in 0 .. Len(inp) - 1 /\ char = inp[n + 1] /\ w = s
    BY <1>1 DEF WordsInv, WordsShape
  <1>3. PICK l \in Nat : l = Len(w)
    OBVIOUS
  <1>4. PICK v : v = Append(w, char)
    OBVIOUS
  <1>5. /\ v \in Seq(Characters \ Spaces) /\ Len(v) = l + 1 /\ v[l + 1] = char
        /\ \A k \in 1 .. l : v[k] = w[k]
    BY <1>3, <1>4, AppendProperties
  <1>6. v = s' /\ l < MAX_LENGTH
    BY <1>1, <1>2, <1>3, <1>4
  <1>7. WordsShape'
    <2>1. \A key \in Names, d \in Nat : Has(htab, arr_size, key, d) => d <= n + 1
      BY <1>1, <1>2
    <2>2. l + 1 <= MAX_LENGTH
      BY <1>6, WordNumbers
    <2> QED
      BY <1>1, <1>2, <1>5, <1>6, <2>1, <2>2 DEF WordsInv, WordsShape
  <1>8. ASSUME Spaced(inp)
        PROVE  \E p : InWord(inp, n + 1, p) /\ Len(v) = (n + 1) - p + 1 /\ Begun(inp, p, v)
    <2>1. CASE w = << >> /\ (n = 0 \/ inp[n] \in Spaces)
      <3>1. InWord(inp, n + 1, n + 1)
        BY <1>2, <2>1, WordStarts
      <3>2. l = 0
        BY <1>3, <2>1
      <3>3. (n + 1) - (n + 1) + 1 = 1 /\ (n + 1) + 1 - 1 = n + 1 /\ 0 + 1 = 1
        OBVIOUS
      <3>4. Len(v) = 1 /\ v[1] = inp[n + 1]
        BY <1>2, <1>5, <3>2, <3>3
      <3>5. \A k \in 1 .. 1 : k = 1
        OBVIOUS
      <3>6. Begun(inp, n + 1, v)
        BY <3>3, <3>4, <3>5, Zenon DEF Begun
      <3> QED
        BY <3>1, <3>3, <3>4, <3>6
    <2>2. CASE \E p : InWord(inp, n, p) /\ Len(w) = n - p + 1 /\ Begun(inp, p, w)
      <3>1. PICK p : InWord(inp, n, p) /\ Len(w) = n - p + 1 /\ Begun(inp, p, w)
        BY <2>2
      <3>2. InWord(inp, n + 1, p) /\ p \in 1 .. Len(inp)
        BY <1>2, <3>1, WordGoesOn, WordNumbers DEF InWord
      <3>3. l = n - p + 1 /\ p + (l + 1) - 1 = n + 1 /\ l + 1 = (n + 1) - p + 1
        BY <1>3, <3>1, <3>2
      <3>4. \A k \in 1 .. l + 1 : k \in 1 .. l \/ k = l + 1
        OBVIOUS
      <3>5. Begun(inp, p, v)
        <4>1. \A k \in 1 .. l : w[k] = inp[p + k - 1]
          BY <1>3, <3>1 DEF Begun
        <4>2. v[l + 1] = inp[p + (l + 1) - 1]
          BY <1>2, <1>5, <3>3
        <4> QED
          BY <1>5, <3>4, <4>1, <4>2, Zenon DEF Begun
      <3> QED
        BY <1>5, <3>2, <3>3, <3>5
    <2> QED
      BY <1>1, <1>2, <1>8, <2>1, <2>2 DEF WordsInv, WordsCounted
  <1>9. WordsCounted'
    <2>1. /\ Tallied(inp, n + 1, htab) <=> Tallied(inp, n, htab)
          /\ Warned(inp, n + 1) <=> Warned(inp, n)
      BY <1>2, SameTally
    <2> QED
      BY <1>1, <1>2, <1>6, <1>8, <2>1 DEF WordsInv, WordsCounted
  <1> QED
    BY <1>7, <1>9 DEF WordsInv

(* A word too long.                                                        *)
LEMMA OverlongKeeps == ASSUME WordsInv, Overlong \/ Over PROVE WordsInv'
  <1>1. PICK at \in {"getc", "over"} :
          /\ pc = at /\ Reads(at, FALSE)
          /\ UNCHANGED << s, warning >> /\ pc' = "over"
          /\ at = "getc" => Len(s) = MAX_LENGTH
    BY DEF Overlong, Over, Reads
  <1>2. /\ pos \in 0 .. Len(input) - 1 /\ pos' = pos + 1 /\ pos' \in 0 .. Len(input)
        /\ UNCHANGED << input, htab, printed >>
        /\ input[pos + 1] \notin Spaces
        /\ \A key \in Names, d \in Nat : Has(htab, arr_size, key, d) => d < pos'
    <2>1. WordsShape
      BY DEF WordsInv
    <2> QED
      BY <1>1, <2>1, ReadsShape
  <1>3. PICK inp \in Names, n \in Nat : inp = input /\ n = pos /\ n \in 0 .. Len(inp) - 1
    BY <1>2 DEF WordsInv, WordsShape
  <1>4. WordsShape'
    <2>1. \A key \in Names, d \in Nat : Has(htab, arr_size, key, d) => d <= n + 1
      BY <1>2, <1>3
    <2> QED
      BY <1>1, <1>2, <1>3, <2>1 DEF WordsInv, WordsShape
  <1>5. ASSUME Spaced(inp)
        PROVE  \E p : /\ InWord(inp, n + 1, p) /\ (n + 1) - p + 1 > MAX_LENGTH
                      /\ Len(s) = MAX_LENGTH /\ Begun(inp, p, s)
    <2>1. PICK p : /\ InWord(inp, n, p) /\ n - p + 1 >= MAX_LENGTH
                   /\ Len(s) = MAX_LENGTH /\ Begun(inp, p, s)
      <3>1. CASE at = "getc"
        <4>1. Len(s) = MAX_LENGTH /\ s # << >>
          BY <1>1, <3>1, WordNumbers
        <4>2. PICK p : InWord(inp, n, p) /\ Len(s) = n - p + 1 /\ Begun(inp, p, s)
          BY <1>1, <1>3, <1>5, <3>1, <4>1 DEF WordsInv, WordsCounted
        <4> QED
          BY <4>1, <4>2, WordNumbers
      <3>2. CASE at = "over"
        <4>1. PICK p : /\ InWord(inp, n, p) /\ n - p + 1 > MAX_LENGTH
                       /\ Len(s) = MAX_LENGTH /\ Begun(inp, p, s)
          BY <1>1, <1>3, <1>5, <3>2 DEF WordsInv, WordsCounted
        <4>2. p \in 1 .. Len(inp)
          BY <4>1, WordNumbers DEF InWord
        <4>3. n - p + 1 >= MAX_LENGTH
          BY <1>3, <4>1, <4>2, WordNumbers
        <4> QED
          BY <4>1, <4>3
      <3> QED
        BY <3>1, <3>2
    <2>2. InWord(inp, n + 1, p) /\ p \in 1 .. Len(inp)
      BY <1>2, <1>3, <2>1, WordGoesOn, WordNumbers DEF InWord
    <2>3. (n + 1) - p + 1 > MAX_LENGTH
      BY <1>3, <2>1, <2>2, WordNumbers
    <2> QED
      BY <2>1, <2>2, <2>3
  <1>6. WordsCounted'
    <2>1. /\ Tallied(inp, n + 1, htab) <=> Tallied(inp, n, htab)
          /\ Warned(inp, n + 1) <=> Warned(inp, n)
      BY <1>2, <1>3, SameTally
    <2> QED
      BY <1>1, <1>2, <1>3, <1>5, <2>1 DEF WordsInv, WordsCounted
  <1> QED
    BY <1>4, <1>6 DEF WordsInv

LEMMA ShortenedKeeps == ASSUME WordsInv, Shortened PROVE WordsInv'
  <1>1. /\ pc = "over" /\ pos \in 0 .. Len(input) - 1 /\ pos' = pos + 1 /\ pos' \in 0 .. Len(input)
        /\ UNCHANGED << input, htab, printed, s >> /\ warning' = TRUE /\ pc' = "add"
        /\ input[pos + 1] \in Spaces
        /\ \A key \in Names, d \in Nat : Has(htab, arr_size, key, d) => d < pos'
    <2>1. WordsShape /\ Reads("over", TRUE)
      BY DEF WordsInv, Shortened
    <2> QED
      BY <2>1, ReadsShape DEF Shortened
  <1>2. PICK inp \in Names, n \in Nat : inp = input /\ n = pos /\ n \in 0 .. Len(inp) - 1 /\ n + 1 # 0
    BY <1>1 DEF WordsInv, WordsShape
  <1>3. WordsShape'
    <2>1. \A key \in Names, d \in Nat : Has(htab, arr_size, key, d) => d <= n + 1
      BY <1>1, <1>2
    <2> QED
      BY <1>1, <1>2, <2>1 DEF WordsInv, WordsShape
  <1>4. ASSUME Spaced(inp)
        PROVE  /\ \E p \in StartsOf(inp) : AfterOf(inp, p) = n + 1 /\ s = WordOf(inp, p)
               /\ Warned(inp, n + 1) /\ Tallied(inp, n, htab)
    <2>1. PICK p : /\ InWord(inp, n, p) /\ n - p + 1 > MAX_LENGTH
                   /\ Len(s) = MAX_LENGTH /\ Begun(inp, p, s)
      BY <1>1, <1>2, <1>4 DEF WordsInv, WordsCounted
    <2>2. AfterOf(inp, p) = n + 1 /\ p \in StartsOf(inp) /\ p \in 1 .. Len(inp)
      BY <1>1, <1>2, <2>1, WordEnds, WordNumbers DEF InWord
    <2>3. (n + 1) - p > MAX_LENGTH /\ ~ ((n + 1) - p <= MAX_LENGTH)
      BY <1>2, <2>1, <2>2, WordNumbers
    <2>4. s \in Names
      BY DEF WordsInv, WordsShape, Names
    <2>5. s = WordOf(inp, p)
      BY <2>1, <2>2, <2>3, <2>4, WordType DEF Begun
    <2>6. Tallied(inp, n, htab)
      BY <1>1, <1>2, <1>4 DEF WordsInv, WordsCounted
    <2> QED
      BY <2>2, <2>3, <2>5, <2>6, WarnedMore
  <1>5. WordsCounted'
    <2>1. (n + 1) - 1 = n
      OBVIOUS
    <2> QED
      BY <1>1, <1>2, <1>4, <2>1 DEF WordsCounted
  <1> QED
    BY <1>3, <1>5 DEF WordsInv

LEMMA AddKeeps == ASSUME WordsInv, Add PROVE WordsInv'
  <1>1. pc = "add" /\ pos # 0 /\ UNCHANGED << input, pos, printed, warning >>
    BY DEF Add, WordsInv, WordsShape
  <1>2. CASE htab' = htab_lookup_add(htab, s) /\ s' = << >> /\ pc' = "getc"
    <2>1. PICK inp, n, word, tab, new :
            /\ inp \in Names /\ n \in Nat /\ word \in Names
            /\ inp = input /\ n = pos - 1 /\ n + 1 = pos /\ n + 1 <= Len(inp) /\ word = s
            /\ tab = htab /\ new = htab' /\ new = htab_lookup_add(tab, word)
      <3>1. PICK L \in Nat, N \in Nat : L = Len(input) /\ N = pos /\ N <= L /\ N # 0
        BY <1>1, WordNumbers DEF WordsInv, WordsShape
      <3>2. N - 1 \in Nat /\ (N - 1) + 1 = N
        BY <3>1
      <3>3. s \in Names /\ input \in Names
        BY DEF WordsInv, WordsShape, Names
      <3> QED
        BY <1>2, <3>1, <3>2, <3>3
    <2>2. Filled(tab, arr_size) /\ \A key \in Names, d \in Nat : Has(tab, arr_size, key, d) => d <= n
      <3>1. \A d \in Nat : d < n + 1 => d <= n
        BY <2>1
      <3> QED
        BY <1>1, <2>1, <3>1 DEF WordsInv, WordsShape
    <2>3. /\ Filled(new, arr_size)
          /\ \A k2 \in Names, d \in Nat :
               Has(new, arr_size, k2, d) <=>
                 IF k2 = word
                   THEN (d # 0 /\ Has(tab, arr_size, word, d - 1)) \/ (d = 1 /\ \A j : ~ Has(tab, arr_size, word, j))
                   ELSE Has(tab, arr_size, k2, d)
      BY <2>1, <2>2, Added, WordNumbers
    <2>4. ASSUME NEW k2 \in Names, NEW d \in Nat, Has(new, arr_size, k2, d) PROVE d <= n + 1
      <3>1. \/ d # 0 /\ Has(tab, arr_size, word, d - 1)
            \/ d = 1
            \/ Has(tab, arr_size, k2, d)
        BY <2>3, <2>4
      <3>2. CASE d # 0 /\ Has(tab, arr_size, word, d - 1)
        <4>1. d - 1 \in Nat
          BY <3>2
        <4>2. d - 1 <= n
          BY <2>1, <2>2, <3>2, <4>1
        <4> QED
          BY <2>1, <4>1, <4>2
      <3>3. CASE Has(tab, arr_size, k2, d)
        <4>1. d <= n
          BY <2>2, <3>3
        <4> QED
          BY <2>1, <4>1
      <3>4. CASE d = 1
        BY <2>1, <3>4
      <3> QED
        BY <3>1, <3>2, <3>3, <3>4
    <2>5. WordsShape'
      <3>1. << >> \in Seq(Characters \ Spaces) /\ Len(<< >>) <= MAX_LENGTH
        BY WordNumbers
      <3>2. \A key \in Names, d \in Nat : Has(htab', arr_size, key, d) => d <= pos
        BY <2>1, <2>4
      <3>3. Filled(htab', arr_size)
        BY <2>1, <2>3
      <3> QED
        BY <1>1, <1>2, <3>1, <3>2, <3>3 DEF WordsInv, WordsShape
    <2>6. ASSUME Spaced(inp)
          PROVE  Tallied(inp, n + 1, new) /\ inp[n + 1] \in Spaces
      <3>1. PICK p \in StartsOf(inp) : AfterOf(inp, p) = n + 1 /\ word = WordOf(inp, p)
        BY <1>1, <2>1, <2>6 DEF WordsInv, WordsCounted
      <3>2. Tallied(inp, n, tab)
        BY <1>1, <2>1, <2>6 DEF WordsInv, WordsCounted
      <3>3. inp[n + 1] \in Spaces
        BY <2>1, <3>1, WordNumbers, After1
      <3>4. Tallied(inp, n + 1, htab_lookup_add(tab, WordOf(inp, p)))
        BY <2>1, <2>2, <3>1, <3>2, TalliedMore
      <3> QED
        BY <2>1, <3>1, <3>3, <3>4
    <2>7. WordsCounted'
      BY <1>1, <1>2, <2>1, <2>6 DEF WordsInv, WordsCounted
    <2> QED
      BY <2>5, <2>7 DEF WordsInv
  <1>3. CASE pc' = "failed" /\ UNCHANGED << htab, s >>
    BY <1>1, <1>3 DEF WordsInv, WordsShape, WordsCounted
  <1> QED
    BY <1>2, <1>3 DEF Add

LEMMA PrintAllKeeps == ASSUME WordsInv, PrintAll PROVE WordsInv'
  <1>1. /\ pc = "print" /\ pc' = "done" /\ UNCHANGED << input, pos, s, warning >>
        /\ printed' = htab_foreach(htab) /\ htab' = htab_clear(htab)
    BY DEF PrintAll
  <1>2. PICK inp, tab, P, n, L :
          /\ inp \in Names /\ n \in Nat /\ L \in Nat
          /\ inp = input /\ tab = htab /\ P = printed' /\ P = htab_foreach(tab) /\ Filled(tab, arr_size)
          /\ n = pos /\ L = Len(inp) /\ n <= L /\ L <= MaxInput
    <2>1. Len(input) \in Nat /\ pos \in Nat /\ pos <= Len(input)
      BY WordNumbers DEF WordsInv, WordsShape
    <2>2. input \in Names /\ Len(input) <= MaxInput /\ Filled(htab, arr_size)
      BY DEF WordsInv, WordsShape
    <2> QED
      BY <1>1, <2>1, <2>2, Zenon
  <1>3. /\ Chain(P)
        /\ \A key \in Names : \A d : InChain(P, key, d) <=> Has(tab, arr_size, key, d)
    BY <1>2, ForEach, WordNumbers
  <1>4. \A k \in DOMAIN P : P[k].data \in 1 .. MaxInput
    <2>1. SUFFICES ASSUME NEW k \in 1 .. Len(P) PROVE P[k].data \in 1 .. MaxInput
      BY <1>3, ChainType
    <2>2. PICK key \in Names, d \in Nat \ {0} : key = P[k].key /\ d = P[k].data
      BY <1>3, ChainType
    <2>3. Has(tab, arr_size, key, d)
      BY <1>3, <2>2 DEF InChain
    <2>4. d <= n
      BY <1>2, <2>3 DEF WordsInv, WordsShape
    <2> QED
      BY <1>2, <2>2, <2>4, WordNumbers
  <1>5. /\ Filled(htab', arr_size)
        /\ \A key \in Names : \A d : ~ Has(htab', arr_size, key, d)
    <2>1. tab.arr_size = arr_size
      BY <1>2 DEF Filled
    <2>2. htab' = htab_init(arr_size)
      BY <1>1, <1>2, <2>1 DEF htab_clear
    <2> QED
      BY <2>2, InitFilled, WordNumbers
  <1>6. WordsShape'
    BY <1>1, <1>2, <1>4, <1>5 DEF WordsInv, WordsShape
  <1>7. ASSUME Spaced(inp) PROVE n = L /\ LinesOf(inp, P)
    <2>1. n = L /\ Tallied(inp, L, tab)
      BY <1>1, <1>2, <1>7 DEF WordsInv, WordsCounted
    <2>2. \A key \in Names, d \in Nat : InChain(P, key, d) <=> d = Tally(inp, L, key) /\ d # 0
      BY <1>3, <2>1 DEF Tallied
    <2>3. LinesOf(inp, P)
      <3>1. /\ Len(P) = Cardinality({WordOf(inp, p) : p \in Ended(inp, L)})
            /\ ToSet(P) = {[key |-> WordOf(inp, p), data |-> Tally(inp, L, WordOf(inp, p))] : p \in Ended(inp, L)}
        BY ONLY <1>2, <1>3, <2>2, LinesRight
      <3> QED
        BY <1>2, <3>1, Zenon DEF LinesOf
    <2> QED
      BY <2>1, <2>3
  <1>8. WordsCounted'
    BY <1>1, <1>2, <1>7 DEF WordsInv, WordsCounted
  <1> QED
    BY <1>6, <1>8 DEF WordsInv

LEMMA NextWords == WordsInv /\ [Next]_vars => WordsInv'
  <1> SUFFICES ASSUME WordsInv, [Next]_vars PROVE WordsInv'
    OBVIOUS
  <1>1. CASE UNCHANGED vars
    BY <1>1 DEF vars, WordsInv, WordsShape, WordsCounted
  <1>2. CASE Hangs
    BY <1>1, <1>2 DEF Hangs
  <1> QED
    BY <1>1, <1>2, EndKeeps, BlankKeeps, SkipKeeps, LetterKeeps, OverlongKeeps, ShortenedKeeps,
       AddKeeps, PrintAllKeeps DEF Next

(* The definitions of the property are those of the proof.                 *)
LEMMA SameWords ==
  ASSUME input \in Names
  PROVE  /\ Starts = StartsOf(input) /\ (WellSpaced <=> Spaced(input))
         /\ \A p : After(p) = AfterOf(input, p) /\ WordAt(p) = WordOf(input, p)
         /\ {p \in Starts : Finished(p)} = Ended(input, Len(input))
  <1>1. DOMAIN input = 1 .. Len(input)
    BY DEF Names
  <1>2. Starts = StartsOf(input) /\ (WellSpaced <=> Spaced(input))
    BY <1>1 DEF Starts, StartsOf, WellSpaced, Spaced
  <1>3. \A p : After(p) = AfterOf(input, p)
    BY Zenon DEF After, AfterOf
  <1>4. \A p : WordAt(p) = WordOf(input, p)
    BY <1>3, Zenon DEF WordAt, WordOf
  <1> QED
    BY <1>2, <1>3, <1>4, Zenon DEF Finished, Ended

LEMMA WordsShow == WordsInv => Counts
  <1> SUFFICES ASSUME WordsInv PROVE Counts
    OBVIOUS
  <1>1. WordsShape
    BY DEF WordsInv
  <1>2. TypeOK
    <2>1. ToSet(s) \subseteq Characters \ Spaces
      BY <1>1 DEF WordsShape, ToSet
    <2>2. htab.size \in Nat /\ DOMAIN htab.ptr = 0 .. arr_size - 1
      BY <1>1 DEF WordsShape, Filled
    <2>3. \A line \in ToSet(printed) : line.data \in 1 .. MaxInput
      BY <1>1 DEF WordsShape, ToSet
    <2> QED
      BY <1>1, <2>1, <2>2, <2>3 DEF WordsShape, TypeOK
  <1>3. ASSUME pc = "done", WellSpaced
        PROVE  LET words == {p \in Starts : Finished(p)} IN
               /\ Len(printed) = Cardinality({WordAt(p) : p \in words})
               /\ ToSet(printed) =
                    {[key |-> WordAt(p), data |-> Cardinality({q \in words : WordAt(q) = WordAt(p)})] : p \in words}
               /\ warning = \E p \in words : After(p) - p > MAX_LENGTH
    <2>1. PICK inp \in Names : inp = input
      BY <1>1 DEF WordsShape
    <2>2. LinesOf(inp, printed) /\ (warning <=> Warned(inp, Len(inp))) /\ warning \in BOOLEAN
      BY <1>1, <1>3, <2>1, SameWords DEF WordsInv, WordsCounted, WordsShape
    <2>3. PICK words : words = {p \in Starts : Finished(p)}
      OBVIOUS
    <2>4. words = Ended(inp, Len(inp)) /\ \A p : After(p) = AfterOf(inp, p) /\ WordAt(p) = WordOf(inp, p)
      BY <2>1, <2>3, SameWords
    <2>5. \A p : Cardinality({q \in words : WordAt(q) = WordAt(p)}) = Tally(inp, Len(inp), WordOf(inp, p))
      BY <2>4, Zenon DEF Tally
    <2>6. Len(printed) = Cardinality({WordAt(p) : p \in words})
      BY <2>2, <2>4 DEF LinesOf
    <2>7. ToSet(printed) =
            {[key |-> WordAt(p), data |-> Cardinality({q \in words : WordAt(q) = WordAt(p)})] : p \in words}
      BY <2>2, <2>4, <2>5 DEF LinesOf
    <2>8. warning = \E p \in words : After(p) - p > MAX_LENGTH
      BY <2>2, <2>4 DEF Warned
    <2> QED
      BY <2>3, <2>6, <2>7, <2>8
  <1> QED
    BY <1>2, <1>3, Zenon DEF Counts

(* Of an input without superfluous blanks, wordcount prints each word that *)
(* a blank follows once, with the number of its occurrences, and warns if  *)
(* one was too long, whatever the hash codes, the number of buckets and    *)
(* the limits are.                                                         *)
THEOREM CountsInvariant == Programs => []Counts
  <1>1. ProgramsInit => WordsInv
    BY WordsInit DEF ProgramsInit
  <1>2. WordsInv /\ [ProgramsNext]_all => WordsInv'
    <2>1. [ProgramsNext]_all => [Next]_vars
      BY DEF ProgramsNext, Wordcounts, Tails, Tables, Sieves, Sniffs, all
    <2> QED
      BY <2>1, NextWords
  <1> QED
    BY <1>1, <1>2, WordsShow, PTL DEF Programs

-----------------------------------------------------------------------------
(* The table of wordcount in memory: the items of a bucket, one behind the *)
(* other.                                                                  *)

(* The items allocated, and the chain that starts with first.              *)
Cells(M) ==
  /\ DOMAIN M \subseteq Items
  /\ \A x \in DOMAIN M : M[x] \in [key : Names, data : Nat \ {0}, next : Items \cup {NULL}]

IsNth(f, M, first) ==
  f = [k \in 1 .. table!Cardinality(Items) |->
         IF k = 1 THEN first ELSE IF f[k - 1] = NULL THEN NULL ELSE M[f[k - 1]].next]
NthIn(M, first) == CHOOSE f : IsNth(f, M, first)
ChainIn(M, first) ==
  [k \in 1 .. table!Cardinality({n \in DOMAIN NthIn(M, first) : NthIn(M, first)[n] # NULL}) |-> NthIn(M, first)[k]]
EntriesOf(M, l) == [n \in DOMAIN l |-> [key |-> M[l[n]].key, data |-> M[l[n]].data]]
TableOf(M, T) == [T EXCEPT !.ptr = [k \in DOMAIN T.ptr |-> EntriesOf(M, ChainIn(M, T.ptr[k]))]]

(* The items l are linked from first on; their keys belong to bucket b of  *)
(* m, and no two are the same.                                             *)
Row(M, l, first, b, m) ==
  /\ first = IF l = << >> THEN NULL ELSE l[1]
  /\ \A k \in 1 .. Len(l) : M[l[k]].next = IF k = Len(l) THEN NULL ELSE l[k + 1]
  /\ \A k \in 1 .. Len(l) : htab_hash_function(M[l[k]].key, m) = b
  /\ \A j, k \in 1 .. Len(l) : M[l[j]].key = M[l[k]].key => j = k
InMemory(M, T, m, lists) ==
  /\ Cells(M)
  /\ T \in [size : Nat, arr_size : {m}, ptr : [0 .. m - 1 -> Items \cup {NULL}]]
  /\ lists \in [0 .. m - 1 -> Seq(DOMAIN M)]
  /\ \A b \in 0 .. m - 1 : Row(M, lists[b], T.ptr[b], b, m)

(* The operators of the instance are the same ones.                        *)
LEMMA SameLibrary ==
  /\ \A S : table!Cardinality(S) = Cardinality(S)
  /\ \A S : table!IsFiniteSet(S) <=> IsFiniteSet(S)
  /\ \A S : table!Min(S) = Min(S)
  /\ \A S : table!ToSet(S) = ToSet(S)
  /\ \A l, n : table!RemoveAt(l, n) = RemoveAt(l, n)
  <1>1. \A S : table!Cardinality(S) = Cardinality(S)
    BY DEF table!Cardinality, Cardinality
  <1>2. \A S : table!IsFiniteSet(S) <=> IsFiniteSet(S)
    BY DEF table!IsFiniteSet, IsFiniteSet
  <1>3. \A S : table!Min(S) = Min(S)
    BY DEF table!Min, Min
  <1>4. \A S : table!ToSet(S) = ToSet(S)
    BY DEF table!ToSet, ToSet
  <1>5. \A l, n : table!RemoveAt(l, n) = RemoveAt(l, n)
    BY DEF table!RemoveAt, RemoveAt
  <1> QED
    BY <1>1, <1>2, <1>3, <1>4, <1>5

LEMMA ItemNumbers ==
  /\ IsFiniteSet(Items) /\ Cardinality(Items) \in Nat /\ NULL \notin Items
  /\ Keys \subseteq Names /\ Sizes \subseteq Nat \ {0}
  BY TailAndTable, SameLibrary, FS_CardinalityType DEF table!HtabItemsAssumption, Names, Characters

LEMMA SameHtab ==
  /\ \A key, m : table!htab_hash_function(key, m) = htab_hash_function(key, m)
  /\ \A tab, key : table!Bucket(tab, key) = Bucket(tab, key)
  /\ \A tab, key : table!htab_find(tab, key) = htab_find(tab, key)
  /\ \A tab, key : table!Data(tab, key) = Data(tab, key)
  /\ \A tab, key : table!htab_lookup_add(tab, key) = htab_lookup_add(tab, key)
  /\ \A tab, key : table!htab_remove(tab, key) = htab_remove(tab, key)
  /\ \A tab : table!htab_clear(tab) = htab_clear(tab)
  <1>1. \A key, m : table!htab_hash_function(key, m) = htab_hash_function(key, m)
    BY SMT DEF table!htab_hash_function, htab_hash_function
  <1>2. \A tab, key : table!Bucket(tab, key) = Bucket(tab, key)
    BY <1>1 DEF table!Bucket, Bucket
  <1>3. \A tab, key : table!htab_find(tab, key) = htab_find(tab, key)
    BY <1>2, SameLibrary DEF table!htab_find, htab_find
  <1>4. \A tab, key : table!Data(tab, key) = Data(tab, key)
    BY <1>2, <1>3 DEF table!Data, Data
  <1>5. \A tab, key : table!htab_lookup_add(tab, key) = htab_lookup_add(tab, key)
    <2> SUFFICES ASSUME NEW tab, NEW key PROVE table!htab_lookup_add(tab, key) = htab_lookup_add(tab, key)
      OBVIOUS
    <2>1. PICK b, f : b = Bucket(tab, key) /\ b = table!Bucket(tab, key) /\ f = htab_find(tab, key) /\ f = table!htab_find(tab, key)
      BY <1>2, <1>3
    <2> QED
      BY <2>1, Zenon DEF table!htab_lookup_add, htab_lookup_add
  <1>6. \A tab, key : table!htab_remove(tab, key) = htab_remove(tab, key)
    BY <1>2, <1>3, SameLibrary DEF table!htab_remove, htab_remove
  <1>7. \A tab : table!htab_clear(tab) = htab_clear(tab)
    BY DEF table!htab_clear, htab_clear, table!htab_init, htab_init
  <1> QED
    BY <1>1, <1>2, <1>3, <1>4, <1>5, <1>6, <1>7

LEMMA TableIs ==
  /\ \A first : table!Chain(first) = ChainIn(mem, first)
  /\ table!Table = TableOf(mem, t) /\ table!Table' = TableOf(mem', t')
  <1>1. \A first : table!Chain(first) = ChainIn(mem, first)
    BY SMT DEF table!Chain, ChainIn, NthIn, IsNth
  <1>2. \A first : table!Chain(first)' = ChainIn(mem', first)
    BY SMT DEF table!Chain, ChainIn, NthIn, IsNth
  <1> QED
    BY <1>1, <1>2 DEF table!Table, table!Entries, TableOf, EntriesOf

(* No more items in a row than there are.                                  *)
LEMMA RowLength ==
  ASSUME NEW M, Cells(M), NEW l \in Seq(DOMAIN M), NEW first, NEW b, NEW m, Row(M, l, first, b, m)
  PROVE  /\ Len(l) \in 0 .. Cardinality(Items) /\ DOMAIN l = 1 .. Len(l)
         /\ \A k \in 1 .. Len(l) : l[k] \in DOMAIN M /\ l[k] \in Items /\ l[k] # NULL
         /\ \A j, k \in 1 .. Len(l) : l[j] = l[k] => j = k
  <1>1. PICK L \in Nat : L = Len(l)
    OBVIOUS
  <1>2. \A k \in 1 .. L : l[k] \in DOMAIN M /\ l[k] \in Items /\ l[k] # NULL
    BY <1>1, ItemNumbers DEF Cells
  <1>3. \A j, k \in 1 .. L : l[j] = l[k] => j = k
    BY <1>1 DEF Row
  <1>4. DOMAIN l = 1 .. L
    BY <1>1
  <1> DEFINE f == [k \in 1 .. L |-> l[k]]
  <1>5. f \in Injection(1 .. L, Items)
    <2>1. f \in [1 .. L -> Items] /\ \A j, k \in 1 .. L : f[j] = f[k] => j = k
      BY <1>2, <1>3
    <2> HIDE DEF f
    <2> QED
      BY <2>1 DEF Injection, IsInjective
  <1>6. Cardinality(1 .. L) <= Cardinality(Items)
    <2> HIDE DEF f
    <2> QED
      BY <1>5, ItemNumbers, FS_Injection
  <1>7. Cardinality(1 .. L) = L
    BY FS_Interval, 1 \in Int, L \in Int
  <1> QED
    BY <1>1, <1>2, <1>3, <1>4, <1>6, <1>7, ItemNumbers

(* The chain is the row.                                                   *)
LEMMA ChainIs ==
  ASSUME NEW M, Cells(M), NEW l \in Seq(DOMAIN M), NEW first, NEW b, NEW m, Row(M, l, first, b, m)
  PROVE  ChainIn(M, first) = l
  <1>1. PICK C \in Nat, L \in Nat :
          /\ C = Cardinality(Items) /\ L = Len(l) /\ L <= C /\ DOMAIN l = 1 .. L
          /\ \A k \in 1 .. L : l[k] # NULL
    BY ItemNumbers, RowLength
  <1>2. /\ first = IF L = 0 THEN NULL ELSE l[1]
        /\ \A k \in 1 .. L : M[l[k]].next = IF k = L THEN NULL ELSE l[k + 1]
    BY <1>1 DEF Row
  <1> DEFINE g == [k \in 1 .. C |-> IF k <= L THEN l[k] ELSE NULL]
             step(f, k) == IF k = 1 THEN first ELSE IF f[k - 1] = NULL THEN NULL ELSE M[f[k - 1]].next
  <1>3. ASSUME NEW f, \A k \in 1 .. C : f[k] = step(f, k),
               NEW n \in 1 .. C, n = 1 \/ f[n - 1] = g[n - 1]
        PROVE  f[n] = g[n]
    <2>1. CASE n = 1
      BY <1>1, <1>2, <1>3, <2>1
    <2>2. CASE n # 1 /\ n - 1 <= L
      <3>1. n - 1 \in 1 .. L /\ n - 1 \in 1 .. C /\ (n - 1) + 1 = n
        BY <2>2
      <3>2. f[n - 1] = l[n - 1] /\ l[n - 1] # NULL
        BY <1>1, <1>3, <2>2, <3>1
      <3>3. f[n] = M[l[n - 1]].next
        BY <1>3, <2>2, <3>2
      <3>4. f[n] = IF n - 1 = L THEN NULL ELSE l[n]
        BY <1>2, <3>1, <3>3
      <3> QED
        BY <2>2, <3>1, <3>4
    <2>3. CASE n # 1 /\ ~ (n - 1 <= L)
      <3>1. n - 1 \in 1 .. C /\ ~ (n <= L)
        BY <2>3
      <3>2. f[n - 1] = NULL
        BY <1>3, <2>3, <3>1
      <3> QED
        BY <1>3, <2>3, <3>1, <3>2
    <2> QED
      BY <2>1, <2>2, <2>3
  <1>4. IsNth(g, M, first)
    <2>1. ASSUME NEW k \in 1 .. C PROVE g[k] = step(g, k)
      <3>1. CASE k = 1
        BY <1>1, <1>2, <3>1
      <3>2. CASE k # 1 /\ k - 1 <= L
        <4>1. k - 1 \in 1 .. L /\ k - 1 \in 1 .. C /\ (k - 1) + 1 = k
          BY <3>2
        <4>2. g[k - 1] = l[k - 1] /\ l[k - 1] # NULL
          BY <1>1, <3>2, <4>1
        <4>3. step(g, k) = IF k - 1 = L THEN NULL ELSE l[k]
          BY <1>2, <3>2, <4>1, <4>2
        <4> QED
          BY <4>1, <4>3
      <3>3. CASE k # 1 /\ ~ (k - 1 <= L)
        <4>1. k - 1 \in 1 .. C /\ ~ (k <= L)
          BY <3>3
        <4> QED
          BY <3>3, <4>1
      <3> QED
        BY <3>1, <3>2, <3>3
    <2>2. g = [k \in 1 .. C |-> g[k]]
      OBVIOUS
    <2> HIDE DEF g
    <2>3. g = [k \in 1 .. C |-> step(g, k)]
      BY <2>1, <2>2, Zenon
    <2> QED
      BY <1>1, <2>3, SameLibrary DEF IsNth
  <1>5. PICK nth : nth = NthIn(M, first)
    OBVIOUS
  <1>6. IsNth(nth, M, first)
    <2> HIDE DEF g, step
    <2> QED
      BY <1>4, <1>5, Zenon DEF NthIn
  <1>7. DOMAIN nth = 1 .. C /\ \A k \in 1 .. C : nth[k] = step(nth, k)
    <2>1. nth = [k \in 1 .. C |-> step(nth, k)]
      BY <1>1, <1>6, SameLibrary DEF IsNth
    <2> HIDE DEF step
    <2> QED
      BY ONLY <2>1, Zenon
  <1>8. \A k \in 1 .. C : nth[k] = g[k]
    <2> DEFINE wrong == {k \in 1 .. C : nth[k] # g[k]}
    <2> SUFFICES ASSUME wrong # {} PROVE FALSE
      OBVIOUS
    <2>1. PICK n \in wrong : \A k \in wrong : n <= k
      <3>1. wrong \subseteq Nat
        OBVIOUS
      <3> HIDE DEF wrong
      <3> QED
        BY <3>1, LeastNatural
    <2>2. n \in 1 .. C /\ nth[n] # g[n]
      BY <2>1
    <2>3. n = 1 \/ nth[n - 1] = g[n - 1]
      <3> HIDE DEF g
      <3>1. n # 1 => n - 1 \in 1 .. C /\ ~ (n <= n - 1)
        BY <2>2
      <3> QED
        BY <2>1, <3>1
    <2> HIDE DEF g, step
    <2> QED
      BY <1>3, <1>7, <2>2, <2>3
  <1>9. {n \in DOMAIN nth : nth[n] # NULL} = 1 .. L
    BY <1>1, <1>7, <1>8
  <1>10. Cardinality(1 .. L) = L
    BY FS_Interval, 1 \in Int, L \in Int
  <1>11. ChainIn(M, first) = [k \in 1 .. L |-> nth[k]]
    <2>1. ChainIn(M, first) = [k \in 1 .. Cardinality({n \in DOMAIN nth : nth[n] # NULL}) |-> nth[k]]
      BY ONLY <1>5, SameLibrary, Zenon DEF ChainIn
    <2> QED
      BY ONLY <1>9, <1>10, <2>1, Zenon
  <1>12. \A k \in 1 .. L : nth[k] = l[k]
    BY <1>1, <1>8
  <1>13. l = [k \in 1 .. L |-> l[k]]
    BY <1>1
  <1> QED
    BY ONLY <1>11, <1>12, <1>13, Zenon

(* The entries of a row.                                                   *)
Entry(M, l, e) ==
  /\ e \in Seq(Item) /\ Len(e) = Len(l) /\ DOMAIN l = 1 .. Len(l)
  /\ \A k \in 1 .. Len(l) :
       /\ e[k] = [key |-> M[l[k]].key, data |-> M[l[k]].data]
       /\ e[k].key = M[l[k]].key /\ e[k].data = M[l[k]].data
       /\ l[k] \in DOMAIN M /\ M[l[k]].key \in Names /\ M[l[k]].data \in Nat \ {0}

LEMMA EntriesType ==
  ASSUME NEW M, Cells(M), NEW l \in Seq(DOMAIN M)
  PROVE  Entry(M, l, EntriesOf(M, l))
  <1>1. PICK L \in Nat : L = Len(l) /\ DOMAIN l = 1 .. L
    OBVIOUS
  <1>2. \A k \in 1 .. L : l[k] \in DOMAIN M /\ M[l[k]].key \in Names /\ M[l[k]].data \in Nat \ {0}
    BY <1>1 DEF Cells
  <1>3. PICK e : e = EntriesOf(M, l)
    OBVIOUS
  <1>4. e = [k \in 1 .. L |-> [key |-> M[l[k]].key, data |-> M[l[k]].data]]
    BY <1>1, <1>3 DEF EntriesOf
  <1>5. e \in Seq(Item) /\ Len(e) = L
    BY <1>2, <1>4 DEF Item
  <1>6. \A k \in 1 .. L : e[k] = [key |-> M[l[k]].key, data |-> M[l[k]].data]
    BY <1>4
  <1> QED
    BY <1>1, <1>2, <1>3, <1>5, <1>6 DEF Entry

(* The table that is in memory.                                            *)
LEMMA InTable ==
  ASSUME NEW M, NEW T, NEW m \in Nat \ {0}, NEW lists, InMemory(M, T, m, lists)
  PROVE  /\ Filled(TableOf(M, T), m)
         /\ TableOf(M, T) =
              [size |-> T.size, arr_size |-> m, ptr |-> [b \in 0 .. m - 1 |-> EntriesOf(M, lists[b])]]
         /\ \A b \in 0 .. m - 1 : ChainIn(M, T.ptr[b]) = lists[b] /\ lists[b] \in Seq(DOMAIN M)
  <1>1. Cells(M)
    BY DEF InMemory
  <1>2. \A b \in 0 .. m - 1 : lists[b] \in Seq(DOMAIN M) /\ Row(M, lists[b], T.ptr[b], b, m)
    BY DEF InMemory
  <1>3. \A b \in 0 .. m - 1 : ChainIn(M, T.ptr[b]) = lists[b]
    BY <1>1, <1>2, ChainIs
  <1>4. T.size \in Nat /\ T = [size |-> T.size, arr_size |-> m, ptr |-> T.ptr] /\ DOMAIN T.ptr = 0 .. m - 1
    BY DEF InMemory
  <1>5. PICK ptr, tab : ptr = [b \in 0 .. m - 1 |-> EntriesOf(M, lists[b])] /\ tab = [size |-> T.size, arr_size |-> m, ptr |-> ptr]
    OBVIOUS
  <1>6. TableOf(M, T) = tab
    <2>1. [b \in DOMAIN T.ptr |-> EntriesOf(M, ChainIn(M, T.ptr[b]))] = ptr
      BY <1>3, <1>4, <1>5
    <2>2. TableOf(M, T) = [T EXCEPT !.ptr = ptr]
      BY <2>1, Zenon DEF TableOf
    <2>3. PICK z, q : z = T.size /\ q = T.ptr
      OBVIOUS
    <2>4. T = [size |-> z, arr_size |-> m, ptr |-> q]
      BY <1>4, <2>3
    <2>5. TableOf(M, T) = [size |-> z, arr_size |-> m, ptr |-> ptr]
      BY ONLY <2>2, <2>4
    <2> QED
      BY <1>5, <2>3, <2>5
  <1>7. \A b \in 0 .. m - 1 : ptr[b] = EntriesOf(M, lists[b])
    BY <1>5
  <1>8. ASSUME NEW b \in 0 .. m - 1
        PROVE  /\ ptr[b] \in Seq(Item) /\ Chain(ptr[b])
               /\ \A k \in 1 .. Len(ptr[b]) : htab_hash_function(ptr[b][k].key, m) = b
    <2>1. PICK l, e : l \in Seq(DOMAIN M) /\ l = lists[b] /\ e = ptr[b]
      BY <1>2
    <2>2. /\ e \in Seq(Item) /\ Len(e) = Len(l)
          /\ \A k \in 1 .. Len(l) : e[k].key = M[l[k]].key
      <3>1. e = EntriesOf(M, l)
        BY <1>7, <2>1, Zenon
      <3>2. Entry(M, l, EntriesOf(M, l))
        BY ONLY <1>1, <2>1, EntriesType, Zenon
      <3> QED
        BY <3>1, <3>2, Zenon DEF Entry
    <2>3. Row(M, l, T.ptr[b], b, m)
      BY <1>2, <2>1
    <2>4. Chain(e)
      BY <2>2, <2>3 DEF Chain, Row
    <2>5. \A k \in 1 .. Len(e) : htab_hash_function(e[k].key, m) = b
      BY <2>2, <2>3 DEF Row
    <2> QED
      BY <2>1, <2>2, <2>4, <2>5
  <1>9. Filled(tab, m)
    <2>1. ptr \in [0 .. m - 1 -> Seq(Item)]
      BY <1>5, <1>8
    <2>2. tab.ptr = ptr /\ tab \in [size : Nat, arr_size : {m}, ptr : [0 .. m - 1 -> Seq(Item)]]
      BY <1>4, <1>5, <2>1
    <2> QED
      BY <1>8, <2>2 DEF Filled
  <1> QED
    BY <1>2, <1>3, <1>5, <1>6, <1>9

(* A row stays when its items do.                                          *)
LEMMA RowStays ==
  ASSUME NEW M, NEW M2, NEW l \in Seq(DOMAIN M), NEW first, NEW b, NEW m, Row(M, l, first, b, m),
         \A k \in 1 .. Len(l) : l[k] \in DOMAIN M2 /\ M2[l[k]] = M[l[k]]
  PROVE  Row(M2, l, first, b, m) /\ l \in Seq(DOMAIN M2) /\ EntriesOf(M2, l) = EntriesOf(M, l)
  <1>1. PICK L \in Nat : L = Len(l) /\ DOMAIN l = 1 .. L
    OBVIOUS
  <1>2. Row(M2, l, first, b, m)
    BY <1>1 DEF Row
  <1>3. l \in Seq(DOMAIN M2)
    <2>1. \A k \in 1 .. L : l[k] \in DOMAIN M2
      BY <1>1
    <2> QED
      BY <1>1, <2>1
  <1> QED
    BY <1>1, <1>2, <1>3 DEF EntriesOf

(* One row of the table becomes another, and the others stay.              *)
Record(z, m, q) == [size |-> z, arr_size |-> m, ptr |-> q]
KeepsOthers(M, M2, b, m) ==
  \A x \in DOMAIN M : htab_hash_function(M[x].key, m) # b => x \in DOMAIN M2 /\ M2[x] = M[x]
Becomes(M, T, M2, T2, m, lists, b, l, z) ==
  /\ InMemory(M2, T2, m, [lists EXCEPT ![b] = l])
  /\ TableOf(M2, T2) = Record(z, m, [TableOf(M, T).ptr EXCEPT ![b] = EntriesOf(M2, l)])

LEMMA OneRow ==
  ASSUME NEW M, NEW T, NEW m \in Nat \ {0}, NEW lists, InMemory(M, T, m, lists),
         NEW M2, Cells(M2), NEW b \in 0 .. m - 1, NEW l \in Seq(DOMAIN M2), NEW first \in Items \cup {NULL},
         Row(M2, l, first, b, m), NEW z \in Nat,
         KeepsOthers(M, M2, b, m),
         NEW T2, T2 = Record(z, m, [T.ptr EXCEPT ![b] = first])
  PROVE  Becomes(M, T, M2, T2, m, lists, b, l, z)
  <1>1. /\ Cells(M) /\ lists \in [0 .. m - 1 -> Seq(DOMAIN M)]
        /\ \A a \in 0 .. m - 1 : lists[a] \in Seq(DOMAIN M) /\ Row(M, lists[a], T.ptr[a], a, m)
        /\ T.ptr \in [0 .. m - 1 -> Items \cup {NULL}]
    BY DEF InMemory
  <1>2. PICK new, ptr : new = [lists EXCEPT ![b] = l] /\ ptr = [T.ptr EXCEPT ![b] = first]
    OBVIOUS
  <1>3. /\ DOMAIN new = 0 .. m - 1 /\ new = [a \in 0 .. m - 1 |-> new[a]]
        /\ ptr \in [0 .. m - 1 -> Items \cup {NULL}]
        /\ \A a \in 0 .. m - 1 : new[a] = (IF a = b THEN l ELSE lists[a]) /\ ptr[a] = IF a = b THEN first ELSE T.ptr[a]
    BY <1>1, <1>2
  <1>4. ASSUME NEW a \in 0 .. m - 1, a # b
        PROVE  /\ Row(M2, lists[a], T.ptr[a], a, m) /\ lists[a] \in Seq(DOMAIN M2)
               /\ EntriesOf(M2, lists[a]) = EntriesOf(M, lists[a])
    <2>1. PICK l2, f2 : l2 \in Seq(DOMAIN M) /\ l2 = lists[a] /\ f2 = T.ptr[a] /\ Row(M, l2, f2, a, m)
      BY <1>1
    <2>2. \A k \in 1 .. Len(l2) : l2[k] \in DOMAIN M /\ htab_hash_function(M[l2[k]].key, m) = a
      BY <2>1 DEF Row
    <2>3. \A k \in 1 .. Len(l2) : l2[k] \in DOMAIN M2 /\ M2[l2[k]] = M[l2[k]]
      BY <1>4, <2>2 DEF KeepsOthers
    <2> QED
      <3>1. Row(M2, l2, f2, a, m) /\ l2 \in Seq(DOMAIN M2) /\ EntriesOf(M2, l2) = EntriesOf(M, l2)
        BY ONLY <2>1, <2>3, RowStays
      <3> QED
        BY ONLY <2>1, <3>1, Zenon
  <1>5. \A a \in 0 .. m - 1 : new[a] \in Seq(DOMAIN M2) /\ Row(M2, new[a], ptr[a], a, m)
    BY <1>3, <1>4
  <1>6. InMemory(M2, T2, m, new)
    <2>1. new \in [0 .. m - 1 -> Seq(DOMAIN M2)]
      BY <1>3, <1>5
    <2>2. T2.ptr = ptr /\ T2 \in [size : Nat, arr_size : {m}, ptr : [0 .. m - 1 -> Items \cup {NULL}]]
      BY <1>2, <1>3 DEF Record
    <2> QED
      BY <1>5, <2>1, <2>2 DEF InMemory
  <1>7. PICK p : p = TableOf(M, T).ptr /\ p = [a \in 0 .. m - 1 |-> EntriesOf(M, lists[a])]
    BY InTable
  <1>8. TableOf(M2, T2) = [size |-> z, arr_size |-> m, ptr |-> [a \in 0 .. m - 1 |-> EntriesOf(M2, new[a])]]
    <2>1. T2.size = z
      BY DEF Record
    <2> QED
      BY <1>6, <2>1, InTable
  <1>9. [a \in 0 .. m - 1 |-> EntriesOf(M2, new[a])] = [p EXCEPT ![b] = EntriesOf(M2, l)]
    BY <1>3, <1>4, <1>7
  <1> QED
    BY <1>2, <1>6, <1>7, <1>8, <1>9, Zenon DEF Becomes, Record

(* The operators of Htab, when the key is at f of its chain, or at 0.      *)
OneMore(e, f) == [e EXCEPT ![f] = [e[f] EXCEPT !.data = @ + 1]]

OneLess(z) == z - 1
TableWith(tab, z, m, q) ==
  z \in Nat /\ m \in Nat \ {0} /\ q \in [0 .. m - 1 -> Seq(Item)] /\ tab = Record(z, m, q)
Answerable(tab, z, m, q, key, b, e, f) ==
  /\ TableWith(tab, z, m, q)
  /\ key \in Names /\ b = htab_hash_function(key, m) /\ e = q[b] /\ f = htab_find(tab, key)

UpdatedTo(tab, y, m, q, b, r) == [tab EXCEPT !.size = y, !.ptr[b] = r] = Record(y, m, [q EXCEPT ![b] = r])
PointerTo(tab, z, m, q, b, r) == [tab EXCEPT !.ptr[b] = r] = Record(z, m, [q EXCEPT ![b] = r])
ResultsAt(tab, z, m, q, key, b, e, f, y) ==
  /\ htab_lookup_add(tab, key) = Record(z, m, [q EXCEPT ![b] = OneMore(e, f)])
  /\ htab_remove(tab, key) = Record(y, m, [q EXCEPT ![b] = RemoveAt(e, f)])
  /\ Data(tab, key) = e[f].data
ResultsNone(tab, m, q, key, b, e, y) ==
  /\ htab_lookup_add(tab, key) = Record(y, m, [q EXCEPT ![b] = Append(e, [key |-> key, data |-> 1])])
  /\ htab_remove(tab, key) = tab
  /\ Data(tab, key) = 0

LEMMA Updated ==
  ASSUME NEW z, NEW m, NEW q, NEW tab, TableWith(tab, z, m, q), NEW b \in DOMAIN q, NEW y, NEW r
  PROVE  UpdatedTo(tab, y, m, q, b, r)
  <1>1. z \in Nat /\ m \in Nat \ {0} /\ q \in [0 .. m - 1 -> Seq(Item)] /\ b \in 0 .. m - 1 /\ tab = [size |-> z, arr_size |-> m, ptr |-> q]
    BY DEF TableWith, Record
  <1>2. PICK c : c = [tab EXCEPT !.size = y]
    OBVIOUS
  <1>3. c = [size |-> y, arr_size |-> m, ptr |-> q] /\ c.ptr = q
    BY <1>1, <1>2
  <1>4. PICK p : p = [q EXCEPT ![b] = r]
    OBVIOUS
  <1>5. [c EXCEPT !.ptr = p] = [size |-> y, arr_size |-> m, ptr |-> p]
    BY <1>3
  <1>6. [tab EXCEPT !.size = y, !.ptr[b] = r] = [c EXCEPT !.ptr = p]
    BY ONLY <1>2, <1>3, <1>4, Zenon
  <1> QED
    BY <1>4, <1>5, <1>6 DEF Record, UpdatedTo

LEMMA PointerUpdated ==
  ASSUME NEW z, NEW m, NEW q, NEW tab, TableWith(tab, z, m, q), NEW b \in DOMAIN q, NEW r
  PROVE  PointerTo(tab, z, m, q, b, r)
  <1>1. z \in Nat /\ m \in Nat \ {0} /\ q \in [0 .. m - 1 -> Seq(Item)] /\ b \in 0 .. m - 1 /\ tab = [size |-> z, arr_size |-> m, ptr |-> q]
    BY DEF TableWith, Record
  <1>2. tab.ptr = q
    BY <1>1
  <1>4. PICK p : p = [q EXCEPT ![b] = r]
    OBVIOUS
  <1>5. [tab EXCEPT !.ptr = p] = [size |-> z, arr_size |-> m, ptr |-> p]
    BY <1>1
  <1>6. [tab EXCEPT !.ptr[b] = r] = [tab EXCEPT !.ptr = p]
    BY ONLY <1>2, <1>4, Zenon
  <1> QED
    BY <1>4, <1>5, <1>6 DEF Record, PointerTo

LEMMA AskedIs ==
  ASSUME NEW z, NEW m, NEW q, NEW tab, NEW key, NEW b, NEW e, NEW f, Answerable(tab, z, m, q, key, b, e, f)
  PROVE  /\ Bucket(tab, key) = b /\ b \in DOMAIN q
         /\ tab.ptr = q /\ tab.size = z /\ tab.ptr[b] = e /\ f = htab_find(tab, key)
         /\ TableWith(tab, z, m, q)
  BY Hash DEF Bucket, Record, TableWith, Answerable

LEMMA OperatorsAt ==
  ASSUME NEW z, NEW m, NEW q, NEW tab, NEW key, NEW b, NEW e, NEW f,
         Answerable(tab, z, m, q, key, b, e, f), f # 0, NEW y, y = OneLess(z)
  PROVE  ResultsAt(tab, z, m, q, key, b, e, f, y)
  <1>1. /\ Bucket(tab, key) = b /\ b \in DOMAIN q /\ TableWith(tab, z, m, q)
        /\ tab.ptr = q /\ tab.size = z /\ tab.ptr[b] = e /\ f = htab_find(tab, key)
    BY AskedIs
  <1>2. htab_lookup_add(tab, key) = [tab EXCEPT !.ptr[b][f].data = @ + 1]
    BY <1>1 DEF htab_lookup_add
  <1>3. PICK o : o = OneMore(e, f)
    OBVIOUS
  <1>4. htab_lookup_add(tab, key) = [tab EXCEPT !.ptr[b] = o]
    <2>1. z \in Nat /\ m \in Nat \ {0} /\ q \in [0 .. m - 1 -> Seq(Item)] /\ tab = [size |-> z, arr_size |-> m, ptr |-> q]
      BY <1>1 DEF TableWith, Record
    <2>2. tab \in [size : Nat, arr_size : {m}, ptr : [0 .. m - 1 -> Seq(Item)]]
      BY <2>1
    <2> QED
      BY ONLY <1>1, <1>2, <1>3, <2>1, <2>2 DEF OneMore
  <1>5. PICK r : r = RemoveAt(e, f)
    OBVIOUS
  <1>8. y = z - 1
    BY DEF OneLess
  <1>6. htab_remove(tab, key) = [tab EXCEPT !.size = y, !.ptr[b] = r]
    BY ONLY <1>1, <1>5, f # 0, <1>8, Zenon DEF htab_remove
  <1>7. Data(tab, key) = e[f].data
    BY <1>1 DEF Data
  <1> QED
    <2>1. PointerTo(tab, z, m, q, b, o)
      BY ONLY <1>1, PointerUpdated, Zenon
    <2>2. UpdatedTo(tab, y, m, q, b, r)
      BY ONLY <1>1, Updated, Zenon
    <2> QED
      BY ONLY <1>3, <1>4, <1>5, <1>6, <1>7, <2>1, <2>2, Zenon DEF PointerTo, UpdatedTo, ResultsAt

LEMMA OperatorsNone ==
  ASSUME NEW z, NEW m, NEW q, NEW tab, NEW key, NEW b, NEW e, NEW f,
         Answerable(tab, z, m, q, key, b, e, f), f = 0, NEW y, y = z + 1
  PROVE  ResultsNone(tab, m, q, key, b, e, y)
  <1>1. /\ Bucket(tab, key) = b /\ b \in DOMAIN q /\ TableWith(tab, z, m, q)
        /\ tab.ptr = q /\ tab.size = z /\ tab.ptr[b] = e /\ f = htab_find(tab, key)
    BY AskedIs
  <1>2. PICK r : r = Append(e, [key |-> key, data |-> 1])
    OBVIOUS
  <1>3. htab_lookup_add(tab, key) = [tab EXCEPT !.size = y, !.ptr[b] = r]
    BY ONLY <1>1, <1>2, f = 0, y = z + 1, Zenon DEF htab_lookup_add
  <1>4. htab_remove(tab, key) = tab /\ Data(tab, key) = 0
    BY <1>1 DEF htab_remove, Data
  <1> QED
    <2>1. UpdatedTo(tab, y, m, q, b, r)
      BY ONLY <1>1, Updated, Zenon
    <2> QED
      BY ONLY <1>2, <1>3, <1>4, <2>1, Zenon DEF UpdatedTo, ResultsNone

(* Where a key is in its row: at f, or nowhere.                            *)
At(M, l, key, f) ==
  \/ f \in 1 .. Len(l) /\ M[l[f]].key = key /\ \A k \in 1 .. Len(l) : M[l[k]].key = key => k = f
  \/ f = 0 /\ \A k \in 1 .. Len(l) : M[l[k]].key # key

(* A row of the table T, which is tab.                                     *)
InRow(M, T, m, l, b, tab) ==
  /\ b \in 0 .. m - 1 /\ Cells(M) /\ l \in Seq(DOMAIN M) /\ Row(M, l, T.ptr[b], b, m)
  /\ T.size \in Nat /\ T.ptr \in [0 .. m - 1 -> Items \cup {NULL}] /\ T = Record(T.size, m, T.ptr)
  /\ tab = Record(T.size, m, tab.ptr) /\ tab.ptr \in [0 .. m - 1 -> Seq(Item)]
  /\ tab.ptr[b] = EntriesOf(M, l) /\ Entry(M, l, EntriesOf(M, l))

LEMMA RowOf ==
  ASSUME NEW M, NEW T, NEW m \in Nat \ {0}, NEW lists, InMemory(M, T, m, lists), NEW b \in 0 .. m - 1
  PROVE  InRow(M, T, m, lists[b], b, TableOf(M, T))
  <1>1. PICK l, tab : l = lists[b] /\ tab = TableOf(M, T)
    OBVIOUS
  <1>2. Cells(M) /\ l \in Seq(DOMAIN M) /\ Row(M, l, T.ptr[b], b, m)
    BY <1>1 DEF InMemory
  <1>3. T.size \in Nat /\ T.ptr \in [0 .. m - 1 -> Items \cup {NULL}] /\ T = Record(T.size, m, T.ptr)
    BY DEF InMemory, Record
  <1>4. tab = [size |-> T.size, arr_size |-> m, ptr |-> [a \in 0 .. m - 1 |-> EntriesOf(M, lists[a])]] /\ Filled(tab, m)
    BY <1>1, InTable
  <1>5. tab.ptr = [a \in 0 .. m - 1 |-> EntriesOf(M, lists[a])] /\ tab.ptr \in [0 .. m - 1 -> Seq(Item)]
    BY <1>4 DEF Filled
  <1>8. tab = Record(T.size, m, tab.ptr)
    BY <1>4, <1>5 DEF Record
  <1>6. tab.ptr[b] = EntriesOf(M, l)
    BY <1>1, <1>5
  <1>7. Entry(M, l, EntriesOf(M, l))
    BY ONLY <1>2, EntriesType
  <1> QED
    BY ONLY b \in 0 .. m - 1, <1>1, <1>2, <1>3, <1>4, <1>5, <1>6, <1>7, <1>8, Zenon DEF InRow

LEMMA AtKey ==
  ASSUME NEW M, NEW T, NEW m \in Nat \ {0}, NEW lists, InMemory(M, T, m, lists),
         NEW key \in Names, NEW b, b = htab_hash_function(key, m)
  PROVE  At(M, lists[b], key, htab_find(TableOf(M, T), key)) /\ b \in 0 .. m - 1
  <1>1. b \in 0 .. m - 1
    BY Hash
  <1>2. PICK l, tab, f, e :
          l = lists[b] /\ tab = TableOf(M, T) /\ f = htab_find(tab, key) /\ e = EntriesOf(M, l)
    OBVIOUS
  <1>3. InRow(M, T, m, l, b, tab) /\ Filled(tab, m)
    BY <1>1, <1>2, RowOf, InTable
  <1>4. Finds(e, key, f)
    BY <1>2, <1>3, Found DEF InRow
  <1>5. Len(e) = Len(l) /\ \A k \in 1 .. Len(l) : e[k].key = M[l[k]].key
    BY <1>2, <1>3 DEF InRow, Entry
  <1>6. \A j, k \in 1 .. Len(l) : M[l[j]].key = M[l[k]].key => j = k
    BY <1>3 DEF InRow, Row
  <1>7. At(M, l, key, f)
    BY ONLY <1>4, <1>5, <1>6, Zenon DEF Finds, At
  <1> QED
    BY ONLY <1>1, <1>2, <1>7, Zenon

(* A key found counts once more.                                           *)
CountedIn(M, T, m, lists, l, k, M2, key) ==
  /\ InMemory(M2, T, m, lists)
  /\ TableOf(M2, T) = htab_lookup_add(TableOf(M, T), key)
  /\ M2[l[k]].data = Data(TableOf(M, T), key) + 1

LEMMA CountsInRow ==
  ASSUME NEW M, NEW T, NEW m \in Nat \ {0}, NEW lists, InMemory(M, T, m, lists),
         NEW key \in Names, NEW b, b = htab_hash_function(key, m), NEW l, l = lists[b],
         NEW k \in 1 .. Len(l), M[l[k]].key = key,
         NEW M2, M2 = [M EXCEPT ![l[k]] = [M[l[k]] EXCEPT !.data = @ + 1]]
  PROVE  CountedIn(M, T, m, lists, l, k, M2, key)
  <1>0. PICK tab, q, e, f, z, first : tab = TableOf(M, T) /\ q = tab.ptr /\ e = q[b] /\ f = htab_find(tab, key)
                                      /\ z = T.size /\ first = T.ptr[b]
    OBVIOUS
  <1>1. InRow(M, T, m, l, b, tab) /\ At(M, l, key, f) /\ b \in 0 .. m - 1
    BY <1>0, AtKey, RowOf
  <1>2. PICK x, n : x = l[k] /\ x \in DOMAIN M /\ n = M[x].data /\ n \in Nat \ {0} /\ n + 1 \in Nat \ {0}
                    /\ M[x] = [key |-> key, data |-> n, next |-> M[x].next] /\ M[x].next \in Items \cup {NULL}
    <2>1. PICK x : x = l[k] /\ x \in DOMAIN M
      BY <1>1 DEF InRow
    <2>2. M[x] \in [key : Names, data : Nat \ {0}, next : Items \cup {NULL}] /\ M[x].key = key
      BY <1>1, <2>1 DEF InRow, Cells
    <2> QED
      BY <2>1, <2>2
  <1>3. /\ DOMAIN M2 = DOMAIN M /\ \A y \in DOMAIN M : y # x => M2[y] = M[y]
        /\ M2[x] = [key |-> key, data |-> n + 1, next |-> M[x].next]
        /\ M2[x].key = key /\ M2[x].data = n + 1 /\ M2[x].next = M[x].next
    <2>1. PICK w : w = [M[x] EXCEPT !.data = @ + 1]
      OBVIOUS
    <2>2. w = [key |-> key, data |-> n + 1, next |-> M[x].next]
      BY <1>2, <2>1
    <2>3. M2 = [M EXCEPT ![x] = w]
      BY <1>2, <2>1
    <2> QED
      BY <1>2, <2>2, <2>3
  <1>4. Cells(M2)
    <2>1. M2[x] \in [key : Names, data : Nat \ {0}, next : Items \cup {NULL}]
      BY <1>2, <1>3
    <2> QED
      BY <1>1, <1>3, <2>1 DEF InRow, Cells
  <1>5. l \in Seq(DOMAIN M2) /\ Row(M2, l, first, b, m)
    <2>1. \A j \in 1 .. Len(l) : l[j] \in DOMAIN M
      BY <1>1 DEF InRow
    <2>2. \A j \in 1 .. Len(l) : M2[l[j]].key = M[l[j]].key /\ M2[l[j]].next = M[l[j]].next
      BY <1>2, <1>3, <2>1
    <2>3. l \in Seq(DOMAIN M2)
      BY ONLY <1>1, <1>3, Zenon DEF InRow
    <2>4. Row(M, l, first, b, m)
      BY ONLY <1>0, <1>1, Zenon DEF InRow
    <2> QED
      BY ONLY <2>2, <2>3, <2>4 DEF Row
  <1>6. T = Record(z, m, [T.ptr EXCEPT ![b] = first]) /\ z \in Nat /\ first \in Items \cup {NULL}
    BY <1>0, <1>1 DEF InRow
  <1>7. [lists EXCEPT ![b] = l] = lists
    BY <1>1 DEF InMemory
  <1>8. KeepsOthers(M, M2, b, m)
    BY <1>2, <1>3 DEF KeepsOthers
  <1>9. Becomes(M, T, M2, T, m, lists, b, l, z)
    BY ONLY <1>1, <1>4, <1>5, <1>6, <1>8, InMemory(M, T, m, lists), m \in Nat \ {0}, OneRow
  <1>10. f = k
    BY <1>1 DEF At
  <1>11. e = EntriesOf(M, l) /\ Entry(M, l, e)
    BY <1>0, <1>1 DEF InRow
  <1>12. EntriesOf(M2, l) = OneMore(e, k)
    <2>1. \A j \in 1 .. Len(l) : j # k => l[j] # x /\ l[j] \in DOMAIN M
      BY <1>1, <1>2 DEF InRow, Row
    <2>2. PICK e2 : e2 = EntriesOf(M2, l) /\ Entry(M2, l, e2)
      BY <1>4, <1>5, EntriesType
    <2>3. Len(e2) = Len(l) /\ Len(e) = Len(l) /\ e \in Seq(Item) /\ e2 \in Seq(Item)
      BY ONLY <1>11, <2>2, Zenon DEF Entry
    <2>4. \A j \in 1 .. Len(l) :
            /\ e[j] = [key |-> M[l[j]].key, data |-> M[l[j]].data]
            /\ e2[j] = [key |-> M2[l[j]].key, data |-> M2[l[j]].data]
      <3>1. \A j \in 1 .. Len(l) : e[j] = [key |-> M[l[j]].key, data |-> M[l[j]].data]
        BY ONLY <1>11, Zenon DEF Entry
      <3>2. \A j \in 1 .. Len(l) : e2[j] = [key |-> M2[l[j]].key, data |-> M2[l[j]].data]
        BY ONLY <2>2, Zenon DEF Entry
      <3> QED
        BY <3>1, <3>2
    <2>5. e[k] = [key |-> key, data |-> n] /\ e2[k] = [key |-> key, data |-> n + 1]
      BY <1>2, <1>3, <2>4
    <2>6. \A j \in 1 .. Len(l) : j # k => e2[j] = e[j]
      <3>1. \A j \in 1 .. Len(l) : j # k => M2[l[j]] = M[l[j]]
        BY <1>3, <2>1
      <3>2. ASSUME NEW j \in 1 .. Len(l), j # k PROVE e2[j] = e[j]
        <4>1. M2[l[j]] = M[l[j]]
          BY <3>1, <3>2
        <4>2. e[j] = [key |-> M[l[j]].key, data |-> M[l[j]].data] /\ e2[j] = [key |-> M2[l[j]].key, data |-> M2[l[j]].data]
          BY <2>4
        <4> QED
          BY ONLY <4>1, <4>2, Zenon
      <3> QED
        BY <3>2
    <2>7. PICK v \in Item : v = e2[k] /\ v = [e[k] EXCEPT !.data = @ + 1]
      BY <2>3, <2>5
    <2>8. /\ [e EXCEPT ![k] = v] \in Seq(Item) /\ Len([e EXCEPT ![k] = v]) = Len(e)
          /\ \A j \in 1 .. Len(e) : [e EXCEPT ![k] = v][j] = IF j = k THEN v ELSE e[j]
      BY ONLY <2>3, k \in 1 .. Len(l), v \in Item, ExceptSeq
    <2>9. PICK g : g = [e EXCEPT ![k] = v]
      OBVIOUS
    <2>10. \A j \in 1 .. Len(e2) : e2[j] = g[j]
      BY <2>3, <2>6, <2>7, <2>8, <2>9
    <2>11. e2 = g
      BY ONLY <2>3, <2>8, <2>9, <2>10, SeqEqual
    <2> QED
      BY ONLY <2>2, <2>7, <2>9, <2>11, Zenon DEF OneMore
  <1>13. /\ htab_lookup_add(tab, key) =
              Record(z, m, [q EXCEPT ![b] = OneMore(e, f)])
         /\ Data(tab, key) = e[f].data
    <2>1. f # 0 /\ Answerable(tab, z, m, q, key, b, e, f)
      BY <1>0, <1>1, <1>10 DEF InRow, TableWith, Answerable
    <2>2. PICK y : y = OneLess(z)
      OBVIOUS
    <2>3. ResultsAt(tab, z, m, q, key, b, e, f, y)
      BY ONLY <2>1, <2>2, OperatorsAt, Zenon
    <2> QED
      BY ONLY <2>3, Zenon DEF ResultsAt
  <1>14. e[k].data = n
    BY <1>2, <1>11 DEF Entry
  <1>15. InMemory(M2, T, m, lists) /\ TableOf(M2, T) = Record(z, m, [q EXCEPT ![b] = EntriesOf(M2, l)])
    BY ONLY <1>0, <1>7, <1>9, Zenon DEF Becomes
  <1> QED
    BY ONLY <1>0, <1>2, <1>3, <1>10, <1>12, <1>13, <1>14, <1>15, Zenon DEF CountedIn

(* The places of the items in a table.                                     *)
PlacesIn(m, rows) == {p \in (0 .. m - 1) \X (1 .. Cardinality(Items)) : p[2] <= Len(rows[p[1]])}
Big(T, m, rows) == T.size \in Nat /\ T.size >= Cardinality(PlacesIn(m, rows))

LEMMA PlacesFinite ==
  ASSUME NEW m \in Nat \ {0}, NEW rows
  PROVE  IsFiniteSet(PlacesIn(m, rows)) /\ Cardinality(PlacesIn(m, rows)) \in Nat
  <1>1. PICK c \in Nat : c = Cardinality(Items)
    BY ItemNumbers
  <1>2. m - 1 \in Int /\ 0 \in Int /\ 1 \in Int /\ c \in Int
    OBVIOUS
  <1>3. IsFiniteSet(0 .. m - 1) /\ IsFiniteSet(1 .. c)
    BY <1>2, FS_Interval
  <1>4. IsFiniteSet((0 .. m - 1) \X (1 .. c))
    BY <1>3, FS_Product
  <1>5. PlacesIn(m, rows) \in SUBSET ((0 .. m - 1) \X (1 .. c))
    BY <1>1 DEF PlacesIn
  <1>6. IsFiniteSet(PlacesIn(m, rows))
    BY <1>4, <1>5, FS_Subset
  <1> QED
    BY <1>6, FS_CardinalityType

LEMMA PlacesLonger ==
  ASSUME NEW m \in Nat \ {0}, NEW rows, NEW rows2, NEW b \in 0 .. m - 1,
         \A a \in 0 .. m - 1 : a # b => rows2[a] = rows[a],
         Len(rows[b]) \in Nat, Len(rows2[b]) = Len(rows[b]) + 1
  PROVE  Cardinality(PlacesIn(m, rows2)) <= Cardinality(PlacesIn(m, rows)) + 1
  <1>1. PICK p, P : p = << b, Len(rows2[b]) >> /\ P = PlacesIn(m, rows)
    OBVIOUS
  <1>2. PlacesIn(m, rows2) \subseteq P \cup {p}
    <2> SUFFICES ASSUME NEW a \in 0 .. m - 1, NEW n \in 1 .. Cardinality(Items), n <= Len(rows2[a])
                 PROVE  << a, n >> \in P \cup {p}
      BY DEF PlacesIn
    <2>1. CASE a # b
      BY <1>1, <2>1 DEF PlacesIn
    <2>2. CASE a = b /\ n = Len(rows2[b])
      BY <1>1, <2>2
    <2>3. CASE a = b /\ n # Len(rows2[b])
      <3>1. n <= Len(rows[b])
        BY <2>3, ItemNumbers
      <3> QED
        BY <1>1, <2>3, <3>1 DEF PlacesIn
    <2> QED
      BY <2>1, <2>2, <2>3
  <1>3. IsFiniteSet(P) /\ Cardinality(P) \in Nat /\ Cardinality(PlacesIn(m, rows2)) \in Nat
    BY <1>1, PlacesFinite
  <1>4. IsFiniteSet(P \cup {p}) /\ Cardinality(P \cup {p}) <= Cardinality(P) + 1
    <2>1. Cardinality(P \cup {p}) = IF p \in P THEN Cardinality(P) ELSE Cardinality(P) + 1
      BY <1>3, FS_AddElement
    <2> QED
      BY <1>3, <2>1, FS_AddElement
  <1>5. Cardinality(PlacesIn(m, rows2)) <= Cardinality(P \cup {p})
    BY <1>2, <1>4, FS_Subset
  <1> QED
    BY <1>1, <1>3, <1>4, <1>5, FS_CardinalityType

LEMMA PlacesShorter ==
  ASSUME NEW m \in Nat \ {0}, NEW rows, NEW rows2, NEW b \in 0 .. m - 1,
         \A a \in 0 .. m - 1 : a # b => rows2[a] = rows[a],
         Len(rows2[b]) \in Nat, Len(rows[b]) = Len(rows2[b]) + 1, Len(rows[b]) <= Cardinality(Items)
  PROVE  Cardinality(PlacesIn(m, rows)) = Cardinality(PlacesIn(m, rows2)) + 1
  <1>1. PICK p, P : p = << b, Len(rows[b]) >> /\ P = PlacesIn(m, rows2)
    OBVIOUS
  <1>2. PlacesIn(m, rows) = P \cup {p}
    <2>1. ASSUME NEW a \in 0 .. m - 1, NEW n \in 1 .. Cardinality(Items)
          PROVE  n <= Len(rows[a]) <=> n <= Len(rows2[a]) \/ (a = b /\ n = Len(rows[b]))
      <3>1. CASE a # b
        BY <3>1
      <3>2. CASE a = b
        BY <3>2, ItemNumbers
      <3> QED
        BY <3>1, <3>2
    <2>2. Len(rows[b]) \in 1 .. Cardinality(Items)
      BY ItemNumbers
    <2> QED
      BY <1>1, <2>1, <2>2 DEF PlacesIn
  <1>3. p \notin P
    BY <1>1 DEF PlacesIn
  <1>4. IsFiniteSet(P)
    BY <1>1, PlacesFinite
  <1> QED
    BY ONLY <1>1, <1>2, <1>3, <1>4, FS_AddElement, Zenon

LEMMA PlacesSame ==
  ASSUME NEW m \in Nat \ {0}, NEW rows, NEW rows2, \A a \in 0 .. m - 1 : Len(rows2[a]) = Len(rows[a])
  PROVE  PlacesIn(m, rows2) = PlacesIn(m, rows)
  BY DEF PlacesIn

(* A table in memory whose size is not too small is sound.                 *)
LEMMA SoundTable ==
  ASSUME NEW M, NEW T, NEW m \in Nat \ {0}, NEW lists, InMemory(M, T, m, lists), Big(T, m, lists)
  PROVE  table!Sound(TableOf(M, T))
  <1>1. PICK tab, q, c : tab = TableOf(M, T) /\ q = tab.ptr /\ c = Cardinality(Items)
    OBVIOUS
  <1>2. /\ Filled(tab, m) /\ q = [b \in 0 .. m - 1 |-> EntriesOf(M, lists[b])] /\ tab.size = T.size
        /\ tab.arr_size = m /\ DOMAIN q = 0 .. m - 1
    BY <1>1, InTable
  <1>3. ASSUME NEW b \in 0 .. m - 1 PROVE Len(q[b]) = Len(lists[b])
    <2>1. PICK l : l \in Seq(DOMAIN M) /\ l = lists[b]
      BY DEF InMemory
    <2>2. Entry(M, l, EntriesOf(M, l))
      <3>1. Cells(M)
        BY DEF InMemory
      <3> QED
        BY ONLY <2>1, <3>1, EntriesType
    <2> QED
      BY <1>2, <2>1, <2>2 DEF Entry
  <1>4. PlacesIn(m, q) = PlacesIn(m, lists)
    BY <1>3, PlacesSame
  <1>5. PICK places : places = PlacesIn(m, q)
    OBVIOUS
  <1>6. places = {p \in (DOMAIN tab.ptr) \X (1 .. table!Cardinality(Items)) : p[2] <= Len(tab.ptr[p[1]])}
    BY <1>1, <1>2, <1>5, SameLibrary DEF PlacesIn
  <1>7. ASSUME NEW p \in places
        PROVE  p[1] \in 0 .. m - 1 /\ p[2] \in 1 .. Len(q[p[1]]) /\ p = << p[1], p[2] >>
    <2>1. p[1] \in 0 .. m - 1 /\ p[2] \in 1 .. c /\ p[2] <= Len(q[p[1]]) /\ p = << p[1], p[2] >>
      BY <1>1, <1>5, <1>7 DEF PlacesIn
    <2>2. q[p[1]] \in Seq(Item)
      BY <1>1, <1>2, <2>1 DEF Filled
    <2> QED
      BY <1>1, <2>1, <2>2, ItemNumbers
  <1>8. ASSUME NEW p \in places PROVE htab_hash_function(q[p[1]][p[2]].key, m) = p[1]
    <2>1. PICK a, n : a = p[1] /\ n = p[2]
      OBVIOUS
    <2>2. a \in 0 .. m - 1 /\ n \in 1 .. Len(q[a])
      BY <1>7, <2>1
    <2>3. htab_hash_function(q[a][n].key, m) = a
      BY ONLY <1>1, <1>2, <2>2 DEF Filled
    <2> QED
      BY <2>1, <2>3
  <1>9. \A p \in places : table!Bucket(tab, tab.ptr[p[1]][p[2]].key) = p[1]
    BY <1>1, <1>2, <1>8, SameHtab DEF Bucket
  <1>10. ASSUME NEW p \in places, NEW r \in places, q[p[1]][p[2]].key = q[r[1]][r[2]].key
         PROVE  p = r
    <2>1. p[1] = r[1]
      BY <1>8, <1>10
    <2>2. p[2] = r[2]
      <3>1. Chain(q[p[1]])
        BY <1>1, <1>2, <1>7 DEF Filled
      <3> QED
        BY <1>7, <1>10, <2>1, <3>1 DEF Chain
    <2> QED
      BY <1>7, <2>1, <2>2
  <1>11. tab.size >= table!Cardinality(places)
    BY <1>2, <1>4, <1>5, SameLibrary DEF Big
  <1> QED
    BY ONLY <1>1, <1>6, <1>9, <1>10, <1>11 DEF table!Sound

(* A new item behind the last one of its row.                              *)
Links(M, M2, l, key, new) ==
  /\ DOMAIN M2 = DOMAIN M \cup {new}
  /\ M2[new] = [key |-> key, data |-> 1, next |-> NULL]
  /\ l # << >> => M2[l[Len(l)]] = [M[l[Len(l)]] EXCEPT !.next = new]
  /\ \A x \in DOMAIN M : l = << >> \/ x # l[Len(l)] => M2[x] = M[x]

NotIn(M, l, key) == \A k \in 1 .. Len(l) : M[l[k]].key # key
RowIs(M, M2, l2, first, b, m, entries) ==
  /\ Cells(M2) /\ l2 \in Seq(DOMAIN M2) /\ Row(M2, l2, first, b, m)
  /\ KeepsOthers(M, M2, b, m)
  /\ EntriesOf(M2, l2) = entries
Appending(M, M2, l, l2, first, first2, b, m, key, new) ==
  /\ Cells(M) /\ l \in Seq(DOMAIN M) /\ Row(M, l, first, b, m)
  /\ key \in Names /\ b = htab_hash_function(key, m) /\ NotIn(M, l, key)
  /\ new \in Items \ DOMAIN M /\ Links(M, M2, l, key, new)
  /\ l2 = Append(l, new) /\ first2 = IF l = << >> THEN new ELSE first
Appended(M, M2, l, l2, first2, b, m, key) ==
  /\ RowIs(M, M2, l2, first2, b, m, Append(EntriesOf(M, l), [key |-> key, data |-> 1]))
  /\ Len(l2) = Len(l) + 1

LEMMA AppendedRow ==
  ASSUME NEW M, NEW l, NEW first, NEW b, NEW m, NEW key, NEW new, NEW M2, NEW l2, NEW first2,
         Appending(M, M2, l, l2, first, first2, b, m, key, new)
  PROVE  Appended(M, M2, l, l2, first2, b, m, key)
  <1>0. /\ Cells(M) /\ l \in Seq(DOMAIN M) /\ Row(M, l, first, b, m)
        /\ key \in Names /\ b = htab_hash_function(key, m) /\ NotIn(M, l, key)
        /\ new \in Items \ DOMAIN M /\ Links(M, M2, l, key, new)
        /\ l2 = Append(l, new) /\ first2 = IF l = << >> THEN new ELSE first
    BY DEF Appending
  <1>1. PICK L \in Nat : L = Len(l) /\ (l = << >> <=> L = 0) /\ \A k \in 1 .. L : l[k] \in DOMAIN M /\ l[k] # new
    BY <1>0
  <1>2. \A x \in DOMAIN M : M[x] = [key |-> M[x].key, data |-> M[x].data, next |-> M[x].next]
                            /\ M[x].key \in Names /\ M[x].data \in Nat \ {0} /\ M[x].next \in Items \cup {NULL}
    BY <1>0 DEF Cells
  <1>3. ASSUME NEW x \in DOMAIN M
        PROVE  /\ x \in DOMAIN M2 /\ M2[x].key = M[x].key /\ M2[x].data = M[x].data
               /\ M2[x].next = IF L # 0 /\ x = l[L] THEN new ELSE M[x].next
               /\ M2[x] \in [key : Names, data : Nat \ {0}, next : Items \cup {NULL}]
    <2>1. CASE L # 0 /\ x = l[L]
      <3>1. M2[x] = [M[x] EXCEPT !.next = new]
        BY <1>0, <1>1, <2>1 DEF Links
      <3>2. M2[x] = [key |-> M[x].key, data |-> M[x].data, next |-> new]
        BY <1>0, <1>2, <3>1
      <3> QED
        BY <1>0, <1>2, <2>1, <3>2 DEF Links
    <2>2. CASE ~ (L # 0 /\ x = l[L])
      <3>1. M2[x] = M[x]
        BY <1>0, <1>1, <2>2 DEF Links
      <3> QED
        BY <1>0, <1>2, <2>2, <3>1 DEF Links, Cells
    <2> QED
      BY <1>0, <2>1, <2>2
  <1>4. M2[new] = [key |-> key, data |-> 1, next |-> NULL] /\ new \in DOMAIN M2
    BY <1>0 DEF Links
  <1>5. Cells(M2)
    <2>1. DOMAIN M2 = DOMAIN M \cup {new} /\ DOMAIN M \subseteq Items
      BY <1>0 DEF Links, Cells
    <2> QED
      BY <1>0, <1>3, <1>4, <2>1 DEF Cells
  <1>6. l2 \in Seq(DOMAIN M2) /\ Len(l2) = L + 1 /\ l2[L + 1] = new /\ \A k \in 1 .. L : l2[k] = l[k]
    <2>1. l \in Seq(DOMAIN M2)
      <3>1. \A k \in 1 .. L : l[k] \in DOMAIN M2
        BY <1>0, <1>1, <1>3
      <3> QED
        BY <1>0, <1>1, <3>1
    <2> QED
      BY <1>0, <1>1, <1>4, <2>1
  <1>7. Row(M2, l2, IF l = << >> THEN new ELSE first, b, m)
    <2>1. (IF l = << >> THEN new ELSE first) = IF l2 = << >> THEN NULL ELSE l2[1]
      <3>1. l2 # << >>
        BY <1>0, <1>6
      <3>2. CASE L = 0
        BY <1>0, <1>1, <1>6, <3>1, <3>2
      <3>3. CASE L # 0
        <4>1. first = l[1] /\ l2[1] = l[1] /\ l # << >>
          BY <1>0, <1>1, <1>6, <3>3 DEF Row
        <4> QED
          BY <1>0, <3>1, <4>1
      <3> QED
        BY <1>0, <3>2, <3>3
    <2>2. ASSUME NEW k \in 1 .. L + 1
          PROVE  /\ M2[l2[k]].next = IF k = L + 1 THEN NULL ELSE l2[k + 1]
                 /\ htab_hash_function(M2[l2[k]].key, m) = b
                 /\ M2[l2[k]].key = IF k = L + 1 THEN key ELSE M[l[k]].key
      <3>1. CASE k = L + 1
        BY <1>0, <1>4, <1>6, <3>1
      <3>2. CASE k \in 1 .. L
        <4>1. PICK x : x = l[k] /\ x = l2[k] /\ x \in DOMAIN M
          BY <1>0, <1>1, <1>6, <3>2
        <4>2. htab_hash_function(M[x].key, m) = b /\ M[x].next = IF k = L THEN NULL ELSE l[k + 1]
          BY <1>0, <1>1, <3>2, <4>1 DEF Row
        <4>3. k # L + 1 /\ M2[x].key = M[x].key
          <5>1. M2[x].key = M[x].key
            BY ONLY <1>3, <4>1, Zenon
          <5> QED
            BY <1>0, <3>2, <5>1
        <4>4. CASE k = L
          BY <1>0, <1>1, <1>3, <1>6, <4>1, <4>2, <4>3, <4>4
        <4>5. CASE k # L
          <5>1. x # l[L]
            <6>1. \A j, n \in 1 .. L : l[j] = l[n] => j = n
              BY <1>0, <1>1 DEF Row
            <6>2. L \in 1 .. L
              BY <1>0, <3>2
            <6> QED
              BY ONLY <3>2, <4>1, <4>5, <6>1, <6>2
          <5>2. k + 1 \in 1 .. L /\ l2[k + 1] = l[k + 1]
            BY <1>0, <1>6, <3>2, <4>5
          <5> QED
            BY <1>0, <1>3, <4>1, <4>2, <4>3, <4>5, <5>1, <5>2
        <4> QED
          BY <1>0, <4>4, <4>5
      <3> QED
        BY ONLY <3>1, <3>2, L \in Nat, k \in 1 .. L + 1
    <2>3. ASSUME NEW j \in 1 .. L + 1, NEW k \in 1 .. L + 1, M2[l2[j]].key = M2[l2[k]].key
          PROVE  j = k
      <3>1. \A n \in 1 .. L : M[l[n]].key # key
        BY <1>0, <1>1 DEF NotIn
      <3>2. \A o, n \in 1 .. L : M[l[o]].key = M[l[n]].key => o = n
        BY <1>0, <1>1 DEF Row
      <3>3. M2[l2[j]].key = (IF j = L + 1 THEN key ELSE M[l[j]].key) /\ M2[l2[k]].key = IF k = L + 1 THEN key ELSE M[l[k]].key
        BY <1>0, <2>2
      <3>4. (j = L + 1 \/ j \in 1 .. L) /\ (k = L + 1 \/ k \in 1 .. L)
        OBVIOUS
      <3> QED
        BY ONLY <2>3, <3>1, <3>2, <3>3, <3>4
    <2> QED
      BY <1>0, <1>6, <2>1, <2>2, <2>3 DEF Row
  <1>8. KeepsOthers(M, M2, b, m)
    <2> SUFFICES ASSUME NEW x \in DOMAIN M, htab_hash_function(M[x].key, m) # b
                 PROVE  x \in DOMAIN M2 /\ M2[x] = M[x]
      BY <1>0 DEF KeepsOthers
    <2>1. ~ (L # 0 /\ x = l[L])
      BY <1>0, <1>1 DEF Row
    <2> QED
      BY <1>0, <1>1, <1>3, <2>1 DEF Links
  <1>9. EntriesOf(M2, l2) = Append(EntriesOf(M, l), [key |-> key, data |-> 1])
    <2>1. PICK e, e2, v : e = EntriesOf(M, l) /\ e2 = EntriesOf(M2, l2) /\ v = [key |-> key, data |-> 1]
      OBVIOUS
    <2>2. Entry(M, l, e)
      BY ONLY <1>0, <2>1, EntriesType
    <2>3. Entry(M2, l2, e2)
      BY ONLY <2>1, <1>5, <1>6, EntriesType
    <2>4. /\ e \in Seq(Item) /\ Len(e) = L /\ e2 \in Seq(Item) /\ Len(e2) = L + 1
          /\ \A k \in 1 .. L : e[k] = [key |-> M[l[k]].key, data |-> M[l[k]].data]
          /\ \A k \in 1 .. L + 1 : e2[k] = [key |-> M2[l2[k]].key, data |-> M2[l2[k]].data]
      BY <1>0, <1>1, <1>6, <2>2, <2>3 DEF Entry
    <2>5. \A k \in 1 .. L : e2[k] = e[k]
      <3> SUFFICES ASSUME NEW k \in 1 .. L PROVE e2[k] = e[k]
        OBVIOUS
      <3>1. PICK x : x = l[k] /\ x = l2[k] /\ x \in DOMAIN M
        BY <1>0, <1>1, <1>6
      <3>2. M2[x].key = M[x].key /\ M2[x].data = M[x].data
        BY ONLY <1>3, <3>1, Zenon
      <3>3. e[k] = [key |-> M[x].key, data |-> M[x].data] /\ e2[k] = [key |-> M2[x].key, data |-> M2[x].data]
        <4>1. k \in 1 .. L + 1
          OBVIOUS
        <4> QED
          BY ONLY <2>4, <3>1, <4>1, k \in 1 .. L
      <3> QED
        BY ONLY <3>2, <3>3
    <2>6. e2[L + 1] = v
      BY <1>0, <1>4, <1>6, <2>1, <2>4
    <2>7. v \in Item
      BY <1>0, <2>1 DEF Item
    <2>8. PICK g : g = Append(e, v)
      OBVIOUS
    <2>9. g \in Seq(Item) /\ Len(g) = L + 1 /\ g[L + 1] = v /\ \A k \in 1 .. L : g[k] = e[k]
      BY <1>0, <2>4, <2>7, <2>8
    <2>10. \A k \in 1 .. Len(e2) : e2[k] = g[k]
      BY <1>0, <2>4, <2>5, <2>6, <2>9
    <2>11. e2 = g
      BY ONLY <2>4, <2>9, <2>10, SeqEqual
    <2> QED
      BY <1>0, <2>1, <2>8, <2>11
  <1> QED
    BY <1>0, <1>1, <1>5, <1>6, <1>7, <1>8, <1>9 DEF RowIs, Appended

(* htab_lookup_add of a key the table does not have.                       *)
Grown(M, T, M2, T2, m, lists, b, l2, key) ==
  /\ InMemory(M2, T2, m, [lists EXCEPT ![b] = l2]) /\ Big(T2, m, [lists EXCEPT ![b] = l2])
  /\ TableOf(M2, T2) = htab_lookup_add(TableOf(M, T), key) /\ Data(TableOf(M, T), key) = 0

LEMMA AddsToRow ==
  ASSUME NEW M, NEW T, NEW m \in Nat \ {0}, NEW lists, InMemory(M, T, m, lists), Big(T, m, lists),
         NEW key \in Names, NEW b, b = htab_hash_function(key, m), NEW l, l = lists[b],
         \A k \in 1 .. Len(l) : M[l[k]].key # key,
         NEW new \in Items \ DOMAIN M, NEW M2, Links(M, M2, l, key, new),
         NEW first, first = (IF l = << >> THEN new ELSE T.ptr[b]), NEW y, y = T.size + 1,
         NEW T2, T2 = Record(y, m, [T.ptr EXCEPT ![b] = first])
  PROVE  Grown(M, T, M2, T2, m, lists, b, Append(l, new), key)
  <1>0. PICK tab, q, e, f, z, l2, v :
          /\ tab = TableOf(M, T) /\ q = tab.ptr /\ e = q[b] /\ f = htab_find(tab, key) /\ z = T.size
          /\ l2 = Append(l, new) /\ v = [key |-> key, data |-> 1]
    OBVIOUS
  <1>1. InRow(M, T, m, l, b, tab) /\ At(M, l, key, f) /\ b \in 0 .. m - 1
    BY <1>0, AtKey, RowOf
  <1>2. Cells(M) /\ l \in Seq(DOMAIN M) /\ Row(M, l, T.ptr[b], b, m) /\ T.ptr[b] \in Items \cup {NULL} /\ z \in Nat
    BY <1>0, <1>1 DEF InRow
  <1>3. /\ Cells(M2) /\ l2 \in Seq(DOMAIN M2) /\ Len(l2) = Len(l) + 1
        /\ Row(M2, l2, first, b, m)
        /\ KeepsOthers(M, M2, b, m)
        /\ EntriesOf(M2, l2) = Append(EntriesOf(M, l), v)
    <2>1. PICK old : old = T.ptr[b] /\ first = IF l = << >> THEN new ELSE old
      OBVIOUS
    <2>3. Links(M, M2, l, key, new) /\ NotIn(M, l, key)
      BY DEF NotIn
    <2>4. Row(M, l, old, b, m)
      BY <1>2, <2>1
    <2>5. Appending(M, M2, l, l2, old, first, b, m, key, new)
      BY <1>0, <1>2, <2>1, <2>3, <2>4 DEF Appending
    <2>6. Appended(M, M2, l, l2, first, b, m, key)
      BY ONLY <2>5, AppendedRow, Zenon
    <2> QED
      BY ONLY <1>0, <2>6 DEF RowIs, Appended
  <1>4. first \in Items \cup {NULL} /\ y \in Nat
    BY <1>0, <1>2
  <1>5. Becomes(M, T, M2, T2, m, lists, b, l2, y)
    BY ONLY <1>1, <1>3, <1>4, InMemory(M, T, m, lists), m \in Nat \ {0}, T2 = Record(y, m, [T.ptr EXCEPT ![b] = first]), OneRow
  <1>6. PICK lists2 : lists2 = [lists EXCEPT ![b] = l2]
    OBVIOUS
  <1>7. InMemory(M2, T2, m, lists2) /\ TableOf(M2, T2) = Record(y, m, [q EXCEPT ![b] = EntriesOf(M2, l2)])
    BY ONLY <1>0, <1>5, <1>6, Zenon DEF Becomes
  <1>8. Big(T2, m, lists2)
    <2>1. lists2[b] = l2 /\ \A a \in 0 .. m - 1 : a # b => lists2[a] = lists[a]
      BY <1>1, <1>6 DEF InMemory
    <2>4. Len(lists[b]) \in Nat /\ Len(lists2[b]) = Len(lists[b]) + 1
      BY <1>2, <1>3, <2>1
    <2>2. Cardinality(PlacesIn(m, lists2)) <= Cardinality(PlacesIn(m, lists)) + 1
      BY ONLY <1>1, <2>1, <2>4, m \in Nat \ {0}, PlacesLonger
    <2>3. T2.size = y
      BY DEF Record
    <2> QED
      BY <1>0, <1>2, <2>2, <2>3, PlacesFinite DEF Big
  <1>9. f = 0
    BY <1>1 DEF At
  <1>10. Answerable(tab, z, m, q, key, b, e, f)
    BY <1>0, <1>1 DEF InRow, TableWith, Answerable
  <1>11. y = z + 1
    BY <1>0
  <1>12. ResultsNone(tab, m, q, key, b, e, y)
    BY ONLY <1>9, <1>10, <1>11, OperatorsNone
  <1>13. e = EntriesOf(M, l)
    BY <1>0, <1>1 DEF InRow
  <1> QED
    BY ONLY <1>0, <1>3, <1>6, <1>7, <1>8, <1>12, <1>13, Zenon DEF ResultsNone, Grown

(* What RemoveAt leaves.                                                   *)
Without(l, k) == [j \in 1 .. Len(l) - 1 |-> IF j < k THEN l[j] ELSE l[j + 1]]

IsWithout(l, k, w, S) ==
  /\ RemoveAt(l, k) = w /\ w \in Seq(S) /\ Len(w) = Len(l) - 1
  /\ \A j \in 1 .. Len(l) - 1 : w[j] = IF j < k THEN l[j] ELSE l[j + 1]

LEMMA WithoutIs ==
  ASSUME NEW S, NEW l \in Seq(S), NEW k \in 1 .. Len(l)
  PROVE  IsWithout(l, k, Without(l, k), S)
  <1>1. PICK L \in Nat : L = Len(l) /\ \A j \in 1 .. L : l[j] \in S
    OBVIOUS
  <1>2. PICK w : w = Without(l, k)
    OBVIOUS
  <1>3. w = [j \in 1 .. L - 1 |-> IF j < k THEN l[j] ELSE l[j + 1]] /\ L - 1 \in Nat
    BY <1>1, <1>2 DEF Without
  <1>4. w \in Seq(S) /\ Len(w) = L - 1 /\ \A j \in 1 .. L - 1 : w[j] = IF j < k THEN l[j] ELSE l[j + 1]
    BY <1>1, <1>3
  <1>5. PICK front, back : front = SubSeq(l, 1, k - 1) /\ back = SubSeq(l, k + 1, L)
    OBVIOUS
  <1>6. front \in Seq(S) /\ Len(front) = k - 1 /\ \A j \in 1 .. k - 1 : front[j] = l[j]
    BY <1>1, <1>5
  <1>7. back \in Seq(S) /\ Len(back) = L - k /\ \A j \in 1 .. L - k : back[j] = l[k + j]
    BY <1>1, <1>5
  <1>8. PICK r : r = front \o back
    OBVIOUS
  <1>9. r \in Seq(S) /\ Len(r) = L - 1 /\ \A j \in 1 .. L - 1 : r[j] = IF j < k THEN l[j] ELSE l[j + 1]
    <2>1. r \in Seq(S) /\ Len(r) = L - 1 /\ \A j \in 1 .. L - 1 : r[j] = IF j <= k - 1 THEN front[j] ELSE back[j - (k - 1)]
      <3>1. /\ front \o back \in Seq(S) /\ Len(front \o back) = Len(front) + Len(back)
            /\ \A j \in 1 .. Len(front) + Len(back) :
                 (front \o back)[j] = IF j <= Len(front) THEN front[j] ELSE back[j - Len(front)]
        BY ONLY <1>6, <1>7, ConcatProperties
      <3>2. Len(front) = k - 1 /\ Len(front) + Len(back) = L - 1
        <4>1. Len(front) = k - 1 /\ Len(back) = L - k
          BY ONLY <1>6, <1>7
        <4>2. k \in Nat
          OBVIOUS
        <4> QED
          BY ONLY <4>1, <4>2, L \in Nat
      <3> QED
        BY ONLY <1>8, <3>1, <3>2
    <2>2. ASSUME NEW j \in 1 .. L - 1 PROVE r[j] = IF j < k THEN l[j] ELSE l[j + 1]
      <3>1. CASE j < k
        BY <1>1, <1>6, <2>1, <3>1
      <3>2. CASE ~ (j < k)
        <4>1. j - (k - 1) \in 1 .. L - k /\ k + (j - (k - 1)) = j + 1
          BY <1>1, <3>2
        <4>2. back[j - (k - 1)] = l[j + 1]
          BY <1>7, <4>1
        <4> QED
          BY <1>1, <2>1, <3>2, <4>2
      <3> QED
        BY <3>1, <3>2
    <2> QED
      BY <2>1, <2>2
  <1>10. r = w
    <2>1. Len(r) = Len(w) /\ \A j \in 1 .. Len(r) : r[j] = w[j]
      BY <1>4, <1>9
    <2> QED
      BY ONLY <1>4, <1>9, <2>1, SeqEqual
  <1> QED
    BY <1>1, <1>2, <1>4, <1>5, <1>8, <1>10 DEF RemoveAt, IsWithout

(* The item k of a row leaves it.                                          *)
Unlinks(M, M2, l, k) ==
  /\ DOMAIN M2 = DOMAIN M \ {l[k]}
  /\ k > 1 => M2[l[k - 1]] = [M[l[k - 1]] EXCEPT !.next = M[l[k]].next]
  /\ \A x \in DOMAIN M2 : k = 1 \/ x # l[k - 1] => M2[x] = M[x]
Removing(M, M2, l, k, first, first2, b, m) ==
  /\ Cells(M) /\ l \in Seq(DOMAIN M) /\ Row(M, l, first, b, m)
  /\ k \in 1 .. Len(l) /\ Unlinks(M, M2, l, k)
  /\ first2 = IF k = 1 THEN M[l[1]].next ELSE first
Removed(M, M2, l, k, l2, first2, b, m) ==
  RowIs(M, M2, l2, first2, b, m, RemoveAt(EntriesOf(M, l), k)) /\ Len(l) = Len(l2) + 1

LEMMA RemovedRow ==
  ASSUME NEW M, NEW l, NEW k, NEW first, NEW b, NEW m, NEW M2, NEW first2,
         Removing(M, M2, l, k, first, first2, b, m), NEW l2, l2 = Without(l, k)
  PROVE  Removed(M, M2, l, k, l2, first2, b, m)
  <1>0. /\ Cells(M) /\ l \in Seq(DOMAIN M) /\ Row(M, l, first, b, m)
        /\ k \in 1 .. Len(l) /\ Unlinks(M, M2, l, k)
        /\ first2 = IF k = 1 THEN M[l[1]].next ELSE first
    BY DEF Removing
  <1>1. PICK L \in Nat, K \in Nat :
          /\ L = Len(l) /\ K = L - 1 /\ k \in 1 .. L /\ (l = << >> <=> L = 0)
          /\ \A j \in 1 .. L : l[j] \in DOMAIN M
          /\ \A j, n \in 1 .. L : l[j] = l[n] => j = n
          /\ \A j, n \in 1 .. L : M[l[j]].key = M[l[n]].key => j = n
    <2>1. \A j, n \in 1 .. Len(l) : M[l[j]].key = M[l[n]].key => j = n
      BY <1>0 DEF Row
    <2> QED
      BY <1>0, <2>1
  <1>2. \A x \in DOMAIN M : M[x] = [key |-> M[x].key, data |-> M[x].data, next |-> M[x].next]
                            /\ M[x].key \in Names /\ M[x].data \in Nat \ {0} /\ M[x].next \in Items \cup {NULL}
    BY <1>0 DEF Cells
  <1>3. ASSUME NEW x \in DOMAIN M, x # l[k]
        PROVE  /\ x \in DOMAIN M2 /\ M2[x].key = M[x].key /\ M2[x].data = M[x].data
               /\ M2[x].next = IF k > 1 /\ x = l[k - 1] THEN M[l[k]].next ELSE M[x].next
               /\ M2[x] \in [key : Names, data : Nat \ {0}, next : Items \cup {NULL}]
    <2>0. x \in DOMAIN M2 /\ l[k] \in DOMAIN M
      BY <1>0, <1>1, <1>3 DEF Unlinks
    <2>1. CASE k > 1 /\ x = l[k - 1]
      <3>1. PICK after : after = M[l[k]].next /\ after \in Items \cup {NULL}
        BY <1>2, <2>0
      <3>2. M2[x] = [M[x] EXCEPT !.next = after]
        BY <1>0, <2>1, <3>1 DEF Unlinks
      <3>3. M2[x] = [key |-> M[x].key, data |-> M[x].data, next |-> after]
        BY <1>2, <3>2
      <3> QED
        BY <1>2, <2>0, <2>1, <3>1, <3>3
    <2>2. CASE ~ (k > 1 /\ x = l[k - 1])
      <3>1. M2[x] = M[x]
        BY <1>0, <1>1, <2>0, <2>2 DEF Unlinks
      <3> QED
        BY <1>2, <2>0, <2>2, <3>1
    <2> QED
      BY <2>1, <2>2
  <1>4. Cells(M2)
    <2>1. \A x \in DOMAIN M2 : x \in DOMAIN M /\ x # l[k] /\ x \in Items
      BY <1>0 DEF Unlinks, Cells
    <2> QED
      BY <1>3, <2>1 DEF Cells
  <1>5. l2 \in Seq(DOMAIN M) /\ Len(l2) = K /\ \A j \in 1 .. K : l2[j] = IF j < k THEN l[j] ELSE l[j + 1]
    BY <1>0, <1>1, WithoutIs DEF IsWithout
  <1>6. ASSUME NEW j \in 1 .. K
        PROVE  \E n \in 1 .. L : n # k /\ l2[j] = l[n] /\ l[n] # l[k] /\ l[n] \in DOMAIN M /\ n = IF j < k THEN j ELSE j + 1
    <2>1. PICK n \in 1 .. L : n = IF j < k THEN j ELSE j + 1
      BY <1>1
    <2> QED
      BY <1>1, <1>5, <2>1
  <1>7. l2 \in Seq(DOMAIN M2)
    <2>1. \A j \in 1 .. K : l2[j] \in DOMAIN M2
      BY <1>3, <1>6
    <2> QED
      BY <1>5, <2>1
  <1>8. \A j \in 1 .. L : M[l[j]].next = (IF j = L THEN NULL ELSE l[j + 1]) /\ htab_hash_function(M[l[j]].key, m) = b
    BY <1>0, <1>1 DEF Row
  <1>9. Row(M2, l2, first2, b, m)
    <2>1. first2 = IF l2 = << >> THEN NULL ELSE l2[1]
      <3>1. l2 = << >> <=> K = 0
        BY <1>5
      <3>2. CASE k = 1
        <4>1. first2 = IF 1 = L THEN NULL ELSE l[2]
          <5>1. M[l[1]].next = IF 1 = L THEN NULL ELSE l[1 + 1]
            BY <1>1, <1>8, <3>2
          <5> QED
            BY <1>0, <3>2, <5>1
        <4>2. K # 0 => l2[1] = l[2]
          BY <1>1, <1>5, <3>2
        <4> QED
          BY <1>1, <3>1, <3>2, <4>1, <4>2
      <3>3. CASE k # 1
        <4>1. first2 = l[1] /\ K # 0
          BY <1>0, <1>1, <3>3 DEF Row
        <4> QED
          BY <1>1, <1>5, <3>1, <3>3, <4>1
      <3> QED
        BY <3>2, <3>3
    <2>2. ASSUME NEW j \in 1 .. K
          PROVE  /\ M2[l2[j]].next = IF j = K THEN NULL ELSE l2[j + 1]
                 /\ htab_hash_function(M2[l2[j]].key, m) = b
      <3>1. PICK n \in 1 .. L : n # k /\ l2[j] = l[n] /\ l[n] # l[k] /\ l[n] \in DOMAIN M /\ n = IF j < k THEN j ELSE j + 1
        BY <1>6
      <3>2. PICK x \in DOMAIN M : x = l[n] /\ x = l2[j] /\ x # l[k]
        BY <3>1
      <3>3. M2[x].key = M[x].key /\ M2[x].next = IF k > 1 /\ x = l[k - 1] THEN M[l[k]].next ELSE M[x].next
        BY ONLY <1>3, <3>2
      <3>4. k > 1 /\ x = l[k - 1] <=> n = k - 1
        BY <1>1, <3>1, <3>2
      <3>5. M[x].next = (IF n = L THEN NULL ELSE l[n + 1]) /\ htab_hash_function(M[x].key, m) = b
        BY ONLY <1>8, <3>1, <3>2
      <3>6. M[l[k]].next = IF k = L THEN NULL ELSE l[k + 1]
        BY <1>1, <1>8
      <3>7. M2[x].next = IF j = K THEN NULL ELSE l2[j + 1]
        <4>1. CASE n = k - 1
          <5>1. j = n /\ (j = K <=> k = L) /\ (j # K => j + 1 \in 1 .. K /\ j + 1 = k)
            BY <1>1, <3>1, <4>1
          <5>2. j # K => l2[j + 1] = l[k + 1]
            BY <1>1, <1>5, <5>1
          <5> QED
            BY ONLY <3>3, <3>4, <3>6, <4>1, <5>1, <5>2
        <4>2. CASE n # k - 1 /\ j < k
          <5>1. n = j /\ j < k - 1 /\ n # L /\ j # K /\ j + 1 \in 1 .. K /\ j + 1 < k
            BY <1>1, <3>1, <4>2
          <5>2. l2[j + 1] = l[n + 1]
            BY <1>5, <5>1
          <5> QED
            BY ONLY <3>3, <3>4, <3>5, <4>2, <5>1, <5>2
        <4>3. CASE n # k - 1 /\ ~ (j < k)
          <5>1. n = j + 1 /\ (n = L <=> j = K) /\ (j # K => j + 1 \in 1 .. K /\ ~ (j + 1 < k))
            BY <1>1, <3>1, <4>3
          <5>2. j # K => l2[j + 1] = l[n + 1]
            BY <1>5, <5>1
          <5> QED
            BY ONLY <3>3, <3>4, <3>5, <4>3, <5>1, <5>2
        <4> QED
          BY <4>1, <4>2, <4>3
      <3> QED
        BY <3>2, <3>3, <3>5, <3>7
    <2>3. ASSUME NEW i1 \in 1 .. K, NEW i2 \in 1 .. K, M2[l2[i1]].key = M2[l2[i2]].key
          PROVE  i1 = i2
      <3>1. PICK n1 \in 1 .. L : l2[i1] = l[n1] /\ l[n1] # l[k] /\ l[n1] \in DOMAIN M /\ n1 = IF i1 < k THEN i1 ELSE i1 + 1
        BY <1>6
      <3>2. PICK n2 \in 1 .. L : l2[i2] = l[n2] /\ l[n2] # l[k] /\ l[n2] \in DOMAIN M /\ n2 = IF i2 < k THEN i2 ELSE i2 + 1
        BY <1>6
      <3>3. M2[l[n1]].key = M[l[n1]].key /\ M2[l[n2]].key = M[l[n2]].key
        BY <1>3, <3>1, <3>2
      <3>4. n1 = n2
        BY <1>1, <2>3, <3>1, <3>2, <3>3
      <3> QED
        BY <1>1, <3>1, <3>2, <3>4
    <2> QED
      BY <1>5, <2>1, <2>2, <2>3 DEF Row
  <1>10. KeepsOthers(M, M2, b, m)
    <2> SUFFICES ASSUME NEW x \in DOMAIN M, htab_hash_function(M[x].key, m) # b
                 PROVE  x \in DOMAIN M2 /\ M2[x] = M[x]
      BY DEF KeepsOthers
    <2>1. x # l[k] /\ (k > 1 => x # l[k - 1])
      BY <1>1, <1>8
    <2> QED
      BY <1>0, <1>1, <1>3, <2>1 DEF Unlinks
  <1>11. EntriesOf(M2, l2) = RemoveAt(EntriesOf(M, l), k)
    <2>1. PICK e, e2 : e = EntriesOf(M, l) /\ e2 = EntriesOf(M2, l2)
      OBVIOUS
    <2>2. Entry(M, l, e)
      BY ONLY <1>0, <2>1, EntriesType
    <2>3. Entry(M2, l2, e2)
      BY ONLY <2>1, <1>4, <1>7, EntriesType
    <2>4. /\ e \in Seq(Item) /\ Len(e) = L /\ e2 \in Seq(Item) /\ Len(e2) = K
          /\ \A j \in 1 .. L : e[j] = [key |-> M[l[j]].key, data |-> M[l[j]].data]
          /\ \A j \in 1 .. K : e2[j] = [key |-> M2[l2[j]].key, data |-> M2[l2[j]].data]
      BY <1>1, <1>5, <2>2, <2>3 DEF Entry
    <2>5. PICK g : g = Without(e, k)
      OBVIOUS
    <2>6. g \in Seq(Item) /\ Len(g) = K /\ g = RemoveAt(e, k) /\ \A j \in 1 .. K : g[j] = IF j < k THEN e[j] ELSE e[j + 1]
      <3>1. k \in 1 .. Len(e)
        BY <1>1, <2>4
      <3>2. IsWithout(e, k, g, Item)
        BY ONLY <2>4, <2>5, <3>1, WithoutIs
      <3> QED
        BY <1>1, <2>4, <3>2 DEF IsWithout
    <2>7. ASSUME NEW j \in 1 .. K PROVE e2[j] = g[j]
      <3>1. PICK n \in 1 .. L : l2[j] = l[n] /\ l[n] # l[k] /\ l[n] \in DOMAIN M /\ n = IF j < k THEN j ELSE j + 1
        BY <1>6
      <3>2. PICK x \in DOMAIN M : x = l[n] /\ x = l2[j] /\ x # l[k]
        BY <3>1
      <3>3. M2[x].key = M[x].key /\ M2[x].data = M[x].data
        BY ONLY <1>3, <3>2
      <3>4. e[n] = [key |-> M[x].key, data |-> M[x].data] /\ e2[j] = [key |-> M2[x].key, data |-> M2[x].data]
        BY ONLY <2>4, <3>2, j \in 1 .. K, n \in 1 .. L
      <3>5. g[j] = e[n]
        BY <2>6, <3>1
      <3> QED
        BY ONLY <3>3, <3>4, <3>5
    <2>8. \A j \in 1 .. Len(e2) : e2[j] = g[j]
      BY <2>4, <2>7
    <2>9. e2 = g
      BY ONLY <2>4, <2>6, <2>8, SeqEqual
    <2> QED
      BY <2>1, <2>6, <2>9
  <1> QED
    BY <1>1, <1>4, <1>5, <1>7, <1>9, <1>10, <1>11 DEF RowIs, Removed

(* htab_remove of a key the table has.                                     *)
Shrunk(M, T, M2, T2, m, lists, b, l2, key) ==
  /\ InMemory(M2, T2, m, [lists EXCEPT ![b] = l2]) /\ Big(T2, m, [lists EXCEPT ![b] = l2])
  /\ TableOf(M2, T2) = htab_remove(TableOf(M, T), key) /\ htab_find(TableOf(M, T), key) # 0

LEMMA RemovesFromRow ==
  ASSUME NEW M, NEW T, NEW m \in Nat \ {0}, NEW lists, InMemory(M, T, m, lists), Big(T, m, lists),
         NEW key \in Names, NEW b, b = htab_hash_function(key, m), NEW l, l = lists[b],
         NEW k \in 1 .. Len(l), M[l[k]].key = key,
         NEW M2, Unlinks(M, M2, l, k),
         NEW first, first = (IF k = 1 THEN M[l[1]].next ELSE T.ptr[b]), NEW y, y = OneLess(T.size),
         NEW T2, T2 = Record(y, m, [T.ptr EXCEPT ![b] = first])
  PROVE  Shrunk(M, T, M2, T2, m, lists, b, Without(l, k), key)
  <1>0. PICK tab, q, e, f, z, l2, old :
          /\ tab = TableOf(M, T) /\ q = tab.ptr /\ e = q[b] /\ f = htab_find(tab, key) /\ z = T.size
          /\ l2 = Without(l, k) /\ old = T.ptr[b]
    OBVIOUS
  <1>1. InRow(M, T, m, l, b, tab) /\ At(M, l, key, f) /\ b \in 0 .. m - 1
    BY <1>0, AtKey, RowOf
  <1>2. Cells(M) /\ l \in Seq(DOMAIN M) /\ Row(M, l, old, b, m) /\ old \in Items \cup {NULL} /\ z \in Nat
    BY <1>0, <1>1 DEF InRow
  <1>3. /\ RowIs(M, M2, l2, first, b, m, RemoveAt(EntriesOf(M, l), k)) /\ Len(l) = Len(l2) + 1
    <2>1. Removing(M, M2, l, k, old, first, b, m)
      BY <1>0, <1>2 DEF Removing
    <2>2. Removed(M, M2, l, k, l2, first, b, m)
      BY ONLY <1>0, <2>1, RemovedRow, Zenon
    <2> QED
      BY ONLY <2>2, Zenon DEF Removed
  <1>14. /\ Cells(M2) /\ l2 \in Seq(DOMAIN M2) /\ Row(M2, l2, first, b, m)
         /\ KeepsOthers(M, M2, b, m)
         /\ EntriesOf(M2, l2) = RemoveAt(EntriesOf(M, l), k)
    BY ONLY <1>3, Zenon DEF RowIs
  <1>15. /\ Len(lists[b]) \in Nat /\ Len(l2) \in Nat /\ Len(lists[b]) = Len(l2) + 1
         /\ Len(lists[b]) <= Cardinality(Items)
    <2>1. Len(l) \in 0 .. Cardinality(Items)
      BY <1>2, RowLength
    <2> QED
      BY <1>3, <1>14, <2>1, ItemNumbers
  <1>6. PICK lists2 : lists2 = [lists EXCEPT ![b] = l2]
    OBVIOUS
  <1>8. Cardinality(PlacesIn(m, lists)) = Cardinality(PlacesIn(m, lists2)) + 1
    <2>1. lists2[b] = l2 /\ \A a \in 0 .. m - 1 : a # b => lists2[a] = lists[a]
      BY <1>1, <1>6 DEF InMemory
    <2>2. Len(lists2[b]) \in Nat /\ Len(lists[b]) = Len(lists2[b]) + 1
      BY <1>15, <2>1
    <2> QED
      BY ONLY <1>1, <1>15, <2>1, <2>2, m \in Nat \ {0}, PlacesShorter
  <1>9. z >= Cardinality(PlacesIn(m, lists2)) + 1 /\ Cardinality(PlacesIn(m, lists2)) \in Nat
    BY <1>0, <1>8, PlacesFinite DEF Big
  <1>4. first \in Items \cup {NULL} /\ y \in Nat /\ y >= Cardinality(PlacesIn(m, lists2))
    <2>1. l[1] \in DOMAIN M
      BY <1>2
    <2> QED
      BY <1>0, <1>2, <1>9, <2>1 DEF OneLess, Cells
  <1>5. Becomes(M, T, M2, T2, m, lists, b, l2, y)
    BY ONLY <1>1, <1>14, <1>4, InMemory(M, T, m, lists), m \in Nat \ {0}, T2 = Record(y, m, [T.ptr EXCEPT ![b] = first]), OneRow
  <1>7. InMemory(M2, T2, m, lists2) /\ TableOf(M2, T2) = Record(y, m, [q EXCEPT ![b] = EntriesOf(M2, l2)])
    BY ONLY <1>0, <1>5, <1>6, Zenon DEF Becomes
  <1>16. Big(T2, m, lists2)
    <2>3. T2.size = y
      BY DEF Record
    <2> QED
      BY <1>4, <2>3 DEF Big
  <1>17. f = k /\ f # 0
    BY <1>1 DEF At
  <1>10. Answerable(tab, z, m, q, key, b, e, f)
    BY <1>0, <1>1 DEF InRow, TableWith, Answerable
  <1>11. y = OneLess(z)
    BY <1>0
  <1>12. ResultsAt(tab, z, m, q, key, b, e, f, y)
    BY ONLY <1>10, <1>11, <1>17, OperatorsAt, Zenon
  <1>13. e = EntriesOf(M, l)
    BY <1>0, <1>1 DEF InRow
  <1> QED
    BY ONLY <1>0, <1>14, <1>6, <1>7, <1>12, <1>13, <1>16, <1>17, Zenon DEF ResultsAt, Shrunk

-----------------------------------------------------------------------------
(* The calls, one lemma each.                                              *)

(* A table in memory, and what its list of a key is.                       *)
Stands(M, T) == \E lists, m : m \in Sizes /\ InMemory(M, T, m, lists) /\ Big(T, m, lists)

LEMMA StandsSound ==
  ASSUME NEW M, NEW T, Stands(M, T)
  PROVE  table!Sound(TableOf(M, T))
  <1>1. PICK lists, m : m \in Sizes /\ InMemory(M, T, m, lists) /\ Big(T, m, lists)
    BY DEF Stands
  <1>2. m \in Nat \ {0}
    BY <1>1, ItemNumbers
  <1> QED
    BY <1>1, <1>2, SoundTable

Fits(new, answer, name, key, tab) == << new, answer >> \in table!Results(name, key, tab)

LEMMA ResultsAre ==
  /\ \A key, tab, new, answer : new = tab /\ answer = Data(tab, key) => Fits(new, answer, "find", key, tab)
  /\ \A key, tab, new, answer :
       new = htab_lookup_add(tab, key) /\ answer = Data(tab, key) + 1 => Fits(new, answer, "lookup_add", key, tab)
  /\ \A key, tab, new, answer :
       new = tab /\ answer = 0 /\ htab_find(tab, key) = 0 => Fits(new, answer, "lookup_add", key, tab)
  /\ \A key, tab, new, answer :
       new = htab_remove(tab, key) /\ answer = (IF htab_find(tab, key) = 0 THEN 0 ELSE 1) =>
       Fits(new, answer, "remove", key, tab)
  /\ \A key, tab, new, answer : new = htab_clear(tab) /\ answer = 0 => Fits(new, answer, "clear", key, tab)
  /\ \A key, tab, new, answer : new = tab /\ answer = 0 => Fits(new, answer, "move", key, tab)
  <1> SUFFICES ASSUME NEW key, NEW tab, NEW new, NEW answer
      PROVE  /\ new = tab /\ answer = Data(tab, key) => Fits(new, answer, "find", key, tab)
             /\ new = htab_lookup_add(tab, key) /\ answer = Data(tab, key) + 1 => Fits(new, answer, "lookup_add", key, tab)
             /\ new = tab /\ answer = 0 /\ htab_find(tab, key) = 0 => Fits(new, answer, "lookup_add", key, tab)
             /\ new = htab_remove(tab, key) /\ answer = (IF htab_find(tab, key) = 0 THEN 0 ELSE 1) =>
                Fits(new, answer, "remove", key, tab)
             /\ new = htab_clear(tab) /\ answer = 0 => Fits(new, answer, "clear", key, tab)
             /\ new = tab /\ answer = 0 => Fits(new, answer, "move", key, tab)
    OBVIOUS
  <1>1. PICK d, a, r, c, f : /\ d = Data(tab, key) /\ d = table!Data(tab, key)
                             /\ a = htab_lookup_add(tab, key) /\ a = table!htab_lookup_add(tab, key)
                             /\ r = htab_remove(tab, key) /\ r = table!htab_remove(tab, key)
                             /\ c = htab_clear(tab) /\ c = table!htab_clear(tab)
                             /\ f = htab_find(tab, key) /\ f = table!htab_find(tab, key)
    BY SameHtab, Zenon
  <1>2. table!Results("find", key, tab) = {<< tab, d >>}
    BY ONLY <1>1 DEF table!Results
  <1>3. table!Results("lookup_add", key, tab) = {<< a, d + 1 >>} \cup (IF f = 0 THEN {<< tab, 0 >>} ELSE {})
    BY ONLY <1>1 DEF table!Results
  <1>4. table!Results("remove", key, tab) = {<< r, IF f = 0 THEN 0 ELSE 1 >>}
    BY ONLY <1>1 DEF table!Results
  <1>5. table!Results("clear", key, tab) = {<< c, 0 >>}
    BY ONLY <1>1 DEF table!Results
  <1>6. table!Results("move", key, tab) = {<< tab, 0 >>}
    BY ONLY <1>1 DEF table!Results
  <1> QED
    BY ONLY <1>1, <1>2, <1>3, <1>4, <1>5, <1>6 DEF Fits

LEMMA ChainOf ==
  ASSUME NEW M, NEW T, NEW m \in Nat \ {0}, NEW lists, InMemory(M, T, m, lists), NEW b \in 0 .. m - 1
  PROVE  ChainIn(M, T.ptr[b]) = lists[b]
  <1>1. Cells(M) /\ lists[b] \in Seq(DOMAIN M) /\ Row(M, lists[b], T.ptr[b], b, m)
    BY DEF InMemory
  <1> QED
    BY <1>1, ChainIs

LEMMA ListIs ==
  ASSUME NEW m, m \in Sizes, NEW lists, InMemory(mem, t, m, lists), NEW key \in Keys
  PROVE  /\ table!List(key) = lists[htab_hash_function(key, m)]
         /\ table!Bucket(t, key) = htab_hash_function(key, m)
         /\ htab_hash_function(key, m) \in 0 .. m - 1 /\ m \in Nat \ {0} /\ key \in Names
  <1>1. m \in Nat \ {0} /\ key \in Names
    BY ItemNumbers
  <1>2. PICK b : b = htab_hash_function(key, m)
    OBVIOUS
  <1>3. b \in 0 .. m - 1
    BY <1>1, <1>2, Hash
  <1>4. t.arr_size = m
    BY DEF InMemory
  <1>5. table!Bucket(t, key) = b
    BY <1>2, <1>4, SameHtab DEF Bucket
  <1>6. ChainIn(mem, t.ptr[b]) = lists[b]
    <2>1. PICK M, T : M = mem /\ T = t
      OBVIOUS
    <2>2. InMemory(M, T, m, lists)
      BY <2>1
    <2>3. ChainIn(M, T.ptr[b]) = lists[b]
      <3>1. Cells(M) /\ lists[b] \in Seq(DOMAIN M) /\ Row(M, lists[b], T.ptr[b], b, m)
        BY ONLY <1>3, <2>2 DEF InMemory
      <3> QED
        BY ONLY <3>1, ChainIs
    <2> QED
      BY ONLY <2>1, <2>3, Zenon
  <1> QED
    BY <1>1, <1>2, <1>3, <1>5, <1>6, TableIs DEF table!List

(* What htab_find returns.                                                 *)
FindAnswer(M, l, S) == IF S = {} THEN 0 ELSE M[l[Min(S)]].data
MatchesIn(M, l, key) == {k \in DOMAIN l : M[l[k]].key = key}

MatchesRight(M, tab, l, key) ==
  /\ htab_find(tab, key) = 0 <=> MatchesIn(M, l, key) = {}
  /\ MatchesIn(M, l, key) = {} => NotIn(M, l, key)
  /\ FindAnswer(M, l, MatchesIn(M, l, key)) = Data(tab, key)
  /\ \A k \in MatchesIn(M, l, key) : k \in 1 .. Len(l) /\ M[l[k]].key = key
  /\ l \in Seq(DOMAIN M)

LEMMA MatchesAre ==
  ASSUME NEW M, NEW T, NEW m \in Nat \ {0}, NEW lists, InMemory(M, T, m, lists),
         NEW key \in Names, NEW b, b = htab_hash_function(key, m), NEW l, l = lists[b]
  PROVE  MatchesRight(M, TableOf(M, T), l, key)
  <1>0. PICK tab, q, e, f, z, S :
          /\ tab = TableOf(M, T) /\ q = tab.ptr /\ e = q[b] /\ f = htab_find(tab, key) /\ z = T.size
          /\ S = MatchesIn(M, l, key)
    OBVIOUS
  <1>1. InRow(M, T, m, l, b, tab) /\ At(M, l, key, f) /\ b \in 0 .. m - 1
    BY <1>0, AtKey, RowOf
  <1>2. l \in Seq(DOMAIN M) /\ DOMAIN l = 1 .. Len(l) /\ Len(l) \in Nat
    BY <1>1 DEF InRow
  <1>3. S = IF f = 0 THEN {} ELSE {f}
    BY <1>0, <1>1, <1>2 DEF At, MatchesIn
  <1>4. Answerable(tab, z, m, q, key, b, e, f)
    BY <1>0, <1>1 DEF InRow, TableWith, Answerable
  <1>5. CASE f = 0
    <2>1. PICK y : y = z + 1
      OBVIOUS
    <2>2. ResultsNone(tab, m, q, key, b, e, y)
      BY ONLY <1>4, <1>5, <2>1, OperatorsNone
    <2>3. Data(tab, key) = 0
      BY ONLY <2>2, Zenon DEF ResultsNone
    <2> QED
      BY <1>0, <1>1, <1>2, <1>3, <1>5, <2>3 DEF NotIn, FindAnswer, At, MatchesRight
  <1>6. CASE f # 0
    <2>1. PICK y : y = OneLess(z)
      OBVIOUS
    <2>2. ResultsAt(tab, z, m, q, key, b, e, f, y)
      BY ONLY <1>4, <1>6, <2>1, OperatorsAt, Zenon
    <2>3. Data(tab, key) = e[f].data
      BY ONLY <2>2, Zenon DEF ResultsAt
    <2>4. f \in 1 .. Len(l) /\ M[l[f]].key = key
      BY <1>1, <1>6 DEF At
    <2>5. e[f].data = M[l[f]].data
      <3>1. e = EntriesOf(M, l) /\ Entry(M, l, e)
        BY <1>0, <1>1 DEF InRow
      <3> QED
        BY ONLY <2>4, <3>1 DEF Entry
    <2>6. Min(S) = f
      <3>1. f \in Nat /\ S = {f}
        BY <1>2, <1>3, <1>6, <2>4
      <3> QED
        BY <3>1, LeastIs
    <2>7. FindAnswer(M, l, S) = M[l[f]].data
      BY <1>3, <1>6, <2>6 DEF FindAnswer
    <2> QED
      BY <1>0, <1>2, <1>3, <1>6, <2>3, <2>4, <2>5, <2>7 DEF MatchesRight
  <1> QED
    BY <1>5, <1>6

(* A call that is made and returns at once.                                *)
CallDone ==
  /\ Stands(mem', t') /\ itemsPc = "idle" /\ itemsPc' = "idle"
  /\ Fits(TableOf(mem', t'), res', call'[1], call'[2], TableOf(mem, t))

LEMMA FindItemDone ==
  ASSUME Stands(mem, t), table!FindItem
  PROVE  CallDone
  <1>1. PICK key \in Keys :
          /\ itemsPc = "idle" /\ call' = << "find", key >> /\ itemsPc' = itemsPc
          /\ res' = IF table!Matches(key) = {} THEN 0 ELSE mem[table!List(key)[table!Min(table!Matches(key))]].data
          /\ mem' = mem /\ t' = t
    BY DEF table!FindItem, table!Calls, table!moving
  <1>2. PICK lists, m : m \in Sizes /\ InMemory(mem, t, m, lists) /\ Big(t, m, lists)
    BY DEF Stands
  <1>3. PICK M, T, b, l, tab : M = mem /\ T = t /\ b = htab_hash_function(key, m) /\ l = lists[b] /\ tab = TableOf(M, T)
    OBVIOUS
  <1>4. table!List(key) = l /\ m \in Nat \ {0} /\ key \in Names
    BY <1>2, <1>3, ListIs
  <1>5. table!Matches(key) = MatchesIn(M, l, key)
    BY <1>3, <1>4 DEF table!Matches, MatchesIn
  <1>6. res' = FindAnswer(M, l, MatchesIn(M, l, key))
    BY ONLY <1>1, <1>3, <1>4, <1>5, SameLibrary, Zenon DEF FindAnswer
  <1>7. InMemory(M, T, m, lists)
    BY <1>2, <1>3
  <1>8. FindAnswer(M, l, MatchesIn(M, l, key)) = Data(tab, key)
    BY <1>3, <1>4, <1>7, MatchesAre DEF MatchesRight
  <1>9. PICK answer : answer = res'
    OBVIOUS
  <1>10. Fits(tab, answer, "find", key, tab)
    BY ONLY <1>6, <1>8, <1>9, ResultsAre, Zenon
  <1>11. call'[1] = "find" /\ call'[2] = key
    BY <1>1
  <1> QED
    BY ONLY <1>1, <1>3, <1>9, <1>10, <1>11, Stands(mem, t), Zenon DEF CallDone

(* The pointers of a table.                                                *)
PointersWith(T, z, m, q) ==
  z \in Nat /\ m \in Nat \ {0} /\ q \in [0 .. m - 1 -> Items \cup {NULL}] /\ T = Record(z, m, q)

SizeTo(T, y, m, q, b) == [T EXCEPT !.size = y] = Record(y, m, [q EXCEPT ![b] = q[b]])

LEMMA PointersUpdated ==
  ASSUME NEW z, NEW m, NEW q, NEW T, PointersWith(T, z, m, q), NEW b \in 0 .. m - 1, NEW y, NEW r
  PROVE  /\ UpdatedTo(T, y, m, q, b, r)
         /\ SizeTo(T, y, m, q, b)
  <1>1. z \in Nat /\ m \in Nat \ {0} /\ q \in [0 .. m - 1 -> Items \cup {NULL}] /\ T = [size |-> z, arr_size |-> m, ptr |-> q]
    BY DEF PointersWith, Record
  <1>2. PICK c : c = [T EXCEPT !.size = y]
    OBVIOUS
  <1>3. c = [size |-> y, arr_size |-> m, ptr |-> q] /\ c.ptr = q
    BY <1>1, <1>2
  <1>4. PICK p : p = [q EXCEPT ![b] = r]
    OBVIOUS
  <1>5. [c EXCEPT !.ptr = p] = [size |-> y, arr_size |-> m, ptr |-> p]
    BY <1>3
  <1>6. [T EXCEPT !.size = y, !.ptr[b] = r] = [c EXCEPT !.ptr = p]
    BY ONLY <1>2, <1>3, <1>4, Zenon
  <1>7. [q EXCEPT ![b] = q[b]] = q
    BY <1>1
  <1> QED
    BY ONLY <1>2, <1>3, <1>4, <1>5, <1>6, <1>7 DEF Record, UpdatedTo, SizeTo

LEMMA PointersOf ==
  ASSUME NEW M, NEW T, NEW m \in Nat \ {0}, NEW lists, InMemory(M, T, m, lists)
  PROVE  PointersWith(T, T.size, m, T.ptr) /\ DOMAIN M \subseteq Items
  BY DEF InMemory, PointersWith, Record, Cells

(* The three ways of htab_lookup_add.                                      *)
NewIn(M) == CHOOSE item \in Items \ DOMAIN M : TRUE
Linking(M, new, key) ==
  [item \in DOMAIN M \cup {new} |-> IF item = new THEN [key |-> key, data |-> 1, next |-> NULL] ELSE M[item]]
CountsAgain(M, M2, T, T2, l, key, answer) == \E k \in MatchesIn(M, l, key) :
  M2 = [M EXCEPT ![l[k]].data = @ + 1] /\ answer = M2[l[k]].data /\ T2 = T
NoMemory(M, M2, T, T2, l, key, answer) == MatchesIn(M, l, key) = {} /\ answer = 0 /\ M2 = M /\ T2 = T
AddsNew(M, M2, T, T2, b, l, key, answer) ==
  /\ MatchesIn(M, l, key) = {} /\ DOMAIN M # Items
  /\ IF l = << >>
       THEN M2 = Linking(M, NewIn(M), key)
            /\ T2 = [T EXCEPT !.size = @ + 1, !.ptr[b] = NewIn(M)]
       ELSE M2 = Linking([M EXCEPT ![l[Len(l)]].next = NewIn(M)], NewIn(M), key)
            /\ T2 = [T EXCEPT !.size = @ + 1]
  /\ answer = 1
Adding(M, T, m, lists, key, b, l) ==
  /\ m \in Sizes /\ m \in Nat \ {0} /\ InMemory(M, T, m, lists) /\ Big(T, m, lists)
  /\ key \in Names /\ b = htab_hash_function(key, m) /\ l = lists[b]
Answers(M, T, M2, T2, answer, name, key) ==
  Stands(M2, T2) /\ Fits(TableOf(M2, T2), answer, name, key, TableOf(M, T))

LEMMA CountsAgainDone ==
  ASSUME NEW M, NEW T, NEW m, NEW lists, NEW key, NEW b, NEW l, Adding(M, T, m, lists, key, b, l),
         NEW M2, NEW T2, NEW answer, CountsAgain(M, M2, T, T2, l, key, answer)
  PROVE  Answers(M, T, M2, T2, answer, "lookup_add", key)
  <1>1. /\ m \in Sizes /\ m \in Nat \ {0} /\ InMemory(M, T, m, lists) /\ Big(T, m, lists)
        /\ key \in Names /\ b = htab_hash_function(key, m) /\ l = lists[b]
    BY DEF Adding
  <1>2. PICK k \in MatchesIn(M, l, key) : M2 = [M EXCEPT ![l[k]].data = @ + 1] /\ answer = M2[l[k]].data /\ T2 = T
    BY DEF CountsAgain
  <1>3. k \in 1 .. Len(l) /\ M[l[k]].key = key
    <2>1. MatchesRight(M, TableOf(M, T), l, key)
      BY <1>1, MatchesAre
    <2> QED
      BY ONLY <1>2, <2>1, Zenon DEF MatchesRight
  <1>4. M2 = [M EXCEPT ![l[k]] = [M[l[k]] EXCEPT !.data = @ + 1]]
    BY ONLY <1>2, Zenon
  <1>5. PICK tab, d : tab = TableOf(M, T) /\ d = Data(tab, key)
    OBVIOUS
  <1>6. InMemory(M2, T, m, lists) /\ TableOf(M2, T) = htab_lookup_add(tab, key) /\ answer = d + 1
    <2>1. CountedIn(M, T, m, lists, l, k, M2, key)
      BY ONLY <1>1, <1>3, <1>4, CountsInRow
    <2> QED
      BY ONLY <1>2, <1>5, <2>1, Zenon DEF CountedIn
  <1>7. Fits(TableOf(M2, T2), answer, "lookup_add", key, tab)
    BY ONLY <1>2, <1>5, <1>6, ResultsAre, Zenon
  <1>8. Stands(M2, T2)
    BY <1>1, <1>2, <1>6 DEF Stands
  <1> QED
    BY ONLY <1>5, <1>7, <1>8, Zenon DEF Answers

LEMMA NoMemoryDone ==
  ASSUME NEW M, NEW T, NEW m, NEW lists, NEW key, NEW b, NEW l, Adding(M, T, m, lists, key, b, l),
         NEW M2, NEW T2, NEW answer, NoMemory(M, M2, T, T2, l, key, answer)
  PROVE  Answers(M, T, M2, T2, answer, "lookup_add", key)
  <1>1. /\ m \in Sizes /\ m \in Nat \ {0} /\ InMemory(M, T, m, lists) /\ Big(T, m, lists)
        /\ key \in Names /\ b = htab_hash_function(key, m) /\ l = lists[b]
    BY DEF Adding
  <1>2. MatchesIn(M, l, key) = {} /\ answer = 0 /\ M2 = M /\ T2 = T
    BY DEF NoMemory
  <1>3. htab_find(TableOf(M, T), key) = 0
    <2>1. MatchesRight(M, TableOf(M, T), l, key)
      BY <1>1, MatchesAre
    <2> QED
      BY ONLY <1>2, <2>1, Zenon DEF MatchesRight
  <1>4. Fits(TableOf(M2, T2), answer, "lookup_add", key, TableOf(M, T))
    BY ONLY <1>2, <1>3, ResultsAre, Zenon
  <1> QED
    BY <1>1, <1>2, <1>4 DEF Answers, Stands

LEMMA AddsNewDone ==
  ASSUME NEW M, NEW T, NEW m, NEW lists, NEW key, NEW b, NEW l, Adding(M, T, m, lists, key, b, l),
         NEW M2, NEW T2, NEW answer, AddsNew(M, M2, T, T2, b, l, key, answer)
  PROVE  Answers(M, T, M2, T2, answer, "lookup_add", key)
  <1>1. /\ m \in Sizes /\ m \in Nat \ {0} /\ InMemory(M, T, m, lists) /\ Big(T, m, lists)
        /\ key \in Names /\ b = htab_hash_function(key, m) /\ l = lists[b]
    BY DEF Adding
  <1>2. NotIn(M, l, key) /\ l \in Seq(DOMAIN M)
    BY <1>1, MatchesAre DEF AddsNew, MatchesRight
  <1>3. PICK z, q : z = T.size /\ q = T.ptr /\ PointersWith(T, z, m, q) /\ DOMAIN M \subseteq Items /\ b \in 0 .. m - 1
                    /\ DOMAIN q = 0 .. m - 1 /\ z \in Nat
    <2>1. PointersWith(T, T.size, m, T.ptr) /\ DOMAIN M \subseteq Items
      BY <1>1, PointersOf
    <2>2. b \in 0 .. m - 1
      BY <1>1, Hash
    <2> QED
      BY <2>1, <2>2 DEF PointersWith
  <1>4. PICK new \in Items \ DOMAIN M : new = NewIn(M)
    <2>1. \E item : item \in Items \ DOMAIN M
      BY <1>3 DEF AddsNew
    <2>2. NewIn(M) \in Items \ DOMAIN M
      BY ONLY <2>1, Zenon DEF NewIn
    <2> QED
      BY <2>2
  <1>5. PICK first, y, R : first = (IF l = << >> THEN new ELSE q[b]) /\ y = z + 1 /\ R = Record(y, m, [q EXCEPT ![b] = first])
    OBVIOUS
  <1>6. PICK M1 : M1 = IF l = << >> THEN M ELSE [M EXCEPT ![l[Len(l)]].next = new]
    OBVIOUS
  <1>7. M2 = Linking(M1, new, key)
    BY ONLY <1>4, <1>6, AddsNew(M, M2, T, T2, b, l, key, answer), Zenon DEF AddsNew
  <1>8. Links(M, M2, l, key, new)
    <2>1. DOMAIN M1 = DOMAIN M /\ \A x \in DOMAIN M : l = << >> \/ x # l[Len(l)] => M1[x] = M[x]
      BY <1>6
    <2>2. DOMAIN M2 = DOMAIN M \cup {new} /\ M2[new] = [key |-> key, data |-> 1, next |-> NULL]
          /\ \A x \in DOMAIN M : M2[x] = M1[x]
      BY <1>4, <1>7, <2>1 DEF Linking
    <2>3. ASSUME l # << >> PROVE M2[l[Len(l)]] = [M[l[Len(l)]] EXCEPT !.next = new]
      <3>1. PICK x : x = l[Len(l)] /\ x \in DOMAIN M
        BY <1>2, <2>3
      <3>2. M1 = [M EXCEPT ![x] = [M[x] EXCEPT !.next = new]]
        BY ONLY <1>6, <2>3, <3>1, Zenon
      <3>3. M1[x] = [M[x] EXCEPT !.next = new]
        BY ONLY <3>1, <3>2, Zenon
      <3> QED
        BY ONLY <2>2, <3>1, <3>3, Zenon
    <2> QED
      BY ONLY <2>1, <2>2, <2>3, Zenon DEF Links
  <1>9. T2 = R
    <2>1. CASE l = << >>
      <3>1. T2 = [T EXCEPT !.size = y, !.ptr[b] = new]
        BY ONLY <1>3, <1>4, <1>5, <2>1, AddsNew(M, M2, T, T2, b, l, key, answer) DEF AddsNew
      <3>2. UpdatedTo(T, y, m, q, b, new)
        BY ONLY <1>3, PointersUpdated
      <3> QED
        BY ONLY <1>5, <2>1, <3>1, <3>2, Zenon DEF UpdatedTo
    <2>2. CASE l # << >>
      <3>1. T2 = [T EXCEPT !.size = y]
        BY ONLY <1>3, <1>5, <2>2, AddsNew(M, M2, T, T2, b, l, key, answer) DEF AddsNew
      <3>2. SizeTo(T, y, m, q, b)
        BY ONLY <1>3, PointersUpdated
      <3> QED
        BY ONLY <1>5, <2>2, <3>1, <3>2, Zenon DEF SizeTo
    <2> QED
      BY <2>1, <2>2
  <1>10. PICK l2, lists2, tab : l2 = Append(l, new) /\ lists2 = [lists EXCEPT ![b] = l2] /\ tab = TableOf(M, T)
    OBVIOUS
  <1>11. Grown(M, T, M2, T2, m, lists, b, Append(l, new), key)
    <2>1. first = (IF l = << >> THEN new ELSE T.ptr[b]) /\ y = T.size + 1 /\ T2 = Record(y, m, [T.ptr EXCEPT ![b] = first])
      BY ONLY <1>3, <1>5, <1>9
    <2>2. \A k \in 1 .. Len(l) : M[l[k]].key # key
      BY <1>2 DEF NotIn
    <2> QED
      BY ONLY <1>1, <1>8, <2>1, <2>2, new \in Items \ DOMAIN M, AddsToRow
  <1>12. InMemory(M2, T2, m, lists2) /\ Big(T2, m, lists2) /\ TableOf(M2, T2) = htab_lookup_add(tab, key) /\ Data(tab, key) = 0
    BY ONLY <1>10, <1>11, Zenon DEF Grown
  <1>13. answer = Data(tab, key) + 1
    <2>1. answer = 1
      BY DEF AddsNew
    <2> QED
      BY <1>12, <2>1
  <1>14. Fits(TableOf(M2, T2), answer, "lookup_add", key, tab)
    BY ONLY <1>12, <1>13, ResultsAre, Zenon
  <1>15. Stands(M2, T2)
    BY <1>1, <1>12 DEF Stands
  <1> QED
    BY ONLY <1>10, <1>14, <1>15, Zenon DEF Answers

(* The call itself.                                                        *)
LEMMA LookupAddDone ==
  ASSUME Stands(mem, t), table!LookupAdd
  PROVE  CallDone
  <1>1. PICK key \in Keys :
          /\ itemsPc = "idle" /\ call' = << "lookup_add", key >> /\ itemsPc' = itemsPc
          /\ \/ CountsAgain(mem, mem', t, t', table!List(key), key, res')
             \/ NoMemory(mem, mem', t, t', table!List(key), key, res')
             \/ AddsNew(mem, mem', t, t', table!Bucket(t, key), table!List(key), key, res')
    <2>1. PICK key \in Keys :
            LET list == table!List(key)
                new == CHOOSE item \in Items \ DOMAIN mem : TRUE
                Linked(M) == [item \in DOMAIN M \cup {new} |->
                                IF item = new THEN [key |-> key, data |-> 1, next |-> NULL] ELSE M[item]]
            IN
            /\ table!Calls("lookup_add", key)
            /\ \/ \E k \in table!Matches(key) :
                    /\ mem[list[k]].data < MaxData
                    /\ mem' = [mem EXCEPT ![list[k]].data = @ + 1]
                    /\ res' = mem'[list[k]].data
                    /\ UNCHANGED t
               \/ table!Matches(key) = {} /\ res' = 0 /\ UNCHANGED << mem, t >>
               \/ /\ table!Matches(key) = {} /\ DOMAIN mem # Items
                  /\ IF list = << >>
                       THEN mem' = Linked(mem)
                            /\ t' = [t EXCEPT !.size = @ + 1, !.ptr[table!Bucket(t, key)] = new]
                       ELSE mem' = Linked([mem EXCEPT ![list[Len(list)]].next = new])
                            /\ t' = [t EXCEPT !.size = @ + 1]
                  /\ res' = 1
      BY Zenon DEF table!LookupAdd
    <2>2. table!Matches(key) = MatchesIn(mem, table!List(key), key)
      BY DEF table!Matches, MatchesIn
    <2> QED
      BY <2>1, <2>2, Zenon DEF table!Calls, table!moving, CountsAgain, NoMemory, AddsNew, Linking, NewIn
  <1>2. PICK lists, m : m \in Sizes /\ InMemory(mem, t, m, lists) /\ Big(t, m, lists)
    BY DEF Stands
  <1>3. PICK M, T, b, l, M2, T2, answer :
          /\ M = mem /\ T = t /\ b = htab_hash_function(key, m) /\ l = lists[b]
          /\ M2 = mem' /\ T2 = t' /\ answer = res'
    OBVIOUS
  <1>4. table!List(key) = l /\ table!Bucket(t, key) = b /\ m \in Nat \ {0} /\ key \in Names
    BY <1>2, <1>3, ListIs
  <1>5. Adding(M, T, m, lists, key, b, l)
    BY <1>2, <1>3, <1>4 DEF Adding
  <1>6. \/ CountsAgain(M, M2, T, T2, l, key, answer)
        \/ NoMemory(M, M2, T, T2, l, key, answer)
        \/ AddsNew(M, M2, T, T2, b, l, key, answer)
    BY ONLY <1>1, <1>3, <1>4, Zenon
  <1>7. Answers(M, T, M2, T2, answer, "lookup_add", key)
    BY ONLY <1>5, <1>6, CountsAgainDone, NoMemoryDone, AddsNewDone, Zenon
  <1>8. call'[1] = "lookup_add" /\ call'[2] = key
    BY <1>1
  <1> QED
    BY ONLY <1>1, <1>3, <1>7, <1>8, Zenon DEF CallDone, Answers

(* htab_remove.                                                            *)
FreedOf(M, items) == [item \in DOMAIN M \ items |-> M[item]]
Removes(M, M2, T, T2, m, l, key, answer) == \E k \in MatchesIn(M, l, key) :
  /\ IF k > 1
       THEN /\ M2 = FreedOf([M EXCEPT ![l[k - 1]].next = M[l[k]].next], {l[k]})
            /\ T2 = [T EXCEPT !.size = @ - 1]
       ELSE /\ M2 = FreedOf(M, {l[k]})
            /\ T2 = [T EXCEPT !.size = @ - 1, !.ptr[table!Bucket(T, M[l[k]].key)] = M[l[k]].next]
  /\ answer = 1

LEMMA RemovesDone ==
  ASSUME NEW M, NEW T, NEW m, NEW lists, NEW key, NEW b, NEW l, Adding(M, T, m, lists, key, b, l),
         NEW M2, NEW T2, NEW answer, Removes(M, M2, T, T2, m, l, key, answer)
  PROVE  Answers(M, T, M2, T2, answer, "remove", key)
  <1>1. /\ m \in Sizes /\ m \in Nat \ {0} /\ InMemory(M, T, m, lists) /\ Big(T, m, lists)
        /\ key \in Names /\ b = htab_hash_function(key, m) /\ l = lists[b]
    BY DEF Adding
  <1>2. MatchesRight(M, TableOf(M, T), l, key)
    BY <1>1, MatchesAre
  <1>3. PICK k, x, n :
          /\ k \in MatchesIn(M, l, key)
          /\ x = l[k] /\ n = M[x].next
          /\ k > 1 => M2 = FreedOf([M EXCEPT ![l[k - 1]].next = n], {x}) /\ T2 = [T EXCEPT !.size = @ - 1]
          /\ ~ (k > 1) => /\ M2 = FreedOf(M, {x})
                          /\ T2 = [T EXCEPT !.size = @ - 1, !.ptr[table!Bucket(T, M[x].key)] = n]
          /\ answer = 1
    BY DEF Removes
  <1>4. k \in 1 .. Len(l) /\ M[x].key = key /\ l \in Seq(DOMAIN M) /\ x \in DOMAIN M
    <2>1. k \in 1 .. Len(l) /\ M[l[k]].key = key /\ l \in Seq(DOMAIN M)
      BY ONLY <1>2, <1>3, Zenon DEF MatchesRight
    <2> QED
      BY <1>3, <2>1
  <1>5. \A j \in 1 .. Len(l) : l[j] \in DOMAIN M
    BY <1>4
  <1>6. \A j, o \in 1 .. Len(l) : l[j] = l[o] => j = o
    <2>1. Row(M, l, T.ptr[b], b, m)
      <3>1. b \in 0 .. m - 1
        BY <1>1, Hash
      <3> QED
        BY <1>1, <3>1 DEF InMemory
    <2> QED
      BY <2>1 DEF Row
  <1>7. Unlinks(M, M2, l, k)
    <2>1. CASE k > 1
      <3>1. PICK p : p = l[k - 1] /\ p \in DOMAIN M /\ p # x
        <4>1. k - 1 \in 1 .. Len(l) /\ k - 1 # k
          BY <1>4, <2>1
        <4> QED
          BY <1>3, <1>4, <1>5, <1>6, <4>1
      <3>2. PICK v, M1 : v = [M[p] EXCEPT !.next = n] /\ M1 = [M EXCEPT ![p] = v]
        OBVIOUS
      <3>3. M2 = FreedOf(M1, {x})
        <4>1. M2 = FreedOf([M EXCEPT ![p].next = n], {x})
          BY ONLY <1>3, <2>1, <3>1
        <4> QED
          BY ONLY <3>2, <4>1, Zenon
      <3>4. DOMAIN M1 = DOMAIN M /\ M1[p] = v /\ \A w \in DOMAIN M : w # p => M1[w] = M[w]
        BY ONLY <3>1, <3>2
      <3>5. DOMAIN M2 = DOMAIN M \ {x} /\ \A w \in DOMAIN M2 : M2[w] = M1[w]
        BY ONLY <3>3, <3>4 DEF FreedOf
      <3>6. k > 1 /\ k # 1
        BY <1>4, <2>1
      <3> QED
        BY ONLY <1>3, <3>1, <3>2, <3>4, <3>5, <3>6 DEF Unlinks
    <2>2. CASE ~ (k > 1)
      <3>1. M2 = FreedOf(M, {x})
        BY <1>3, <2>2
      <3>2. k = 1
        BY <1>4, <2>2
      <3> QED
        BY <1>3, <2>2, <3>1, <3>2 DEF Unlinks, FreedOf
    <2> QED
      BY <2>1, <2>2
  <1>8. PICK z, q : z = T.size /\ q = T.ptr /\ PointersWith(T, z, m, q) /\ DOMAIN M \subseteq Items /\ b \in 0 .. m - 1
                    /\ DOMAIN q = 0 .. m - 1 /\ z \in Nat /\ T.arr_size = m
    <2>1. PointersWith(T, T.size, m, T.ptr) /\ DOMAIN M \subseteq Items
      BY <1>1, PointersOf
    <2>2. b \in 0 .. m - 1
      BY <1>1, Hash
    <2> QED
      BY <2>1, <2>2 DEF PointersWith, Record
  <1>9. PICK first, y : first = (IF k = 1 THEN n ELSE q[b]) /\ y = OneLess(z)
    OBVIOUS
  <1>10. T2 = Record(y, m, [q EXCEPT ![b] = first])
    <2>0. y = z - 1 /\ z = T.size
      BY <1>8, <1>9 DEF OneLess
    <2>1. CASE ~ (k > 1)
      <3>1. table!Bucket(T, M[x].key) = b
        BY <1>1, <1>4, <1>8, SameHtab DEF Bucket
      <3>2. T2 = [T EXCEPT !.size = y, !.ptr[b] = n]
        BY ONLY <1>3, <2>0, <2>1, <3>1
      <3>3. UpdatedTo(T, y, m, q, b, n)
        BY ONLY <1>8, PointersUpdated
      <3>4. k = 1
        BY <1>4, <2>1
      <3> QED
        BY ONLY <1>9, <3>2, <3>3, <3>4, Zenon DEF UpdatedTo
    <2>2. CASE k > 1
      <3>1. T2 = [T EXCEPT !.size = y]
        BY ONLY <1>3, <2>0, <2>2
      <3>2. SizeTo(T, y, m, q, b)
        BY ONLY <1>8, PointersUpdated
      <3>3. k # 1
        BY <1>4, <2>2
      <3> QED
        BY ONLY <1>9, <3>1, <3>2, <3>3, Zenon DEF SizeTo
    <2> QED
      BY <2>1, <2>2
  <1>11. PICK l2, lists2, tab : l2 = Without(l, k) /\ lists2 = [lists EXCEPT ![b] = l2] /\ tab = TableOf(M, T)
    OBVIOUS
  <1>12. Shrunk(M, T, M2, T2, m, lists, b, Without(l, k), key)
    <2>1. first = (IF k = 1 THEN M[l[1]].next ELSE T.ptr[b])
      BY <1>3, <1>8, <1>9
    <2>2. y = OneLess(T.size) /\ T2 = Record(y, m, [T.ptr EXCEPT ![b] = first])
      BY ONLY <1>8, <1>9, <1>10, Zenon
    <2>3. M[l[k]].key = key
      BY <1>3, <1>4
    <2> QED
      BY ONLY <1>1, <1>4, <1>7, <2>1, <2>2, <2>3, RemovesFromRow
  <1>13. InMemory(M2, T2, m, lists2) /\ Big(T2, m, lists2) /\ TableOf(M2, T2) = htab_remove(tab, key) /\ htab_find(tab, key) # 0
    BY ONLY <1>11, <1>12, Zenon DEF Shrunk
  <1>14. Fits(TableOf(M2, T2), answer, "remove", key, tab)
    <2>1. answer = IF htab_find(tab, key) = 0 THEN 0 ELSE 1
      BY <1>3, <1>13
    <2> QED
      BY ONLY <1>13, <2>1, ResultsAre, Zenon
  <1>15. Stands(M2, T2)
    BY <1>1, <1>13 DEF Stands
  <1> QED
    BY ONLY <1>11, <1>14, <1>15, Zenon DEF Answers

LEMMA NoneRemovedDone ==
  ASSUME NEW M, NEW T, NEW m, NEW lists, NEW key, NEW b, NEW l, Adding(M, T, m, lists, key, b, l),
         NEW M2, NEW T2, NEW answer, NoMemory(M, M2, T, T2, l, key, answer)
  PROVE  Answers(M, T, M2, T2, answer, "remove", key)
  <1>1. /\ m \in Sizes /\ m \in Nat \ {0} /\ InMemory(M, T, m, lists) /\ Big(T, m, lists)
        /\ key \in Names /\ b = htab_hash_function(key, m) /\ l = lists[b]
    BY DEF Adding
  <1>2. MatchesIn(M, l, key) = {} /\ answer = 0 /\ M2 = M /\ T2 = T
    BY DEF NoMemory
  <1>3. PICK tab : tab = TableOf(M, T)
    OBVIOUS
  <1>4. htab_find(tab, key) = 0
    BY <1>1, <1>2, <1>3, MatchesAre DEF MatchesRight
  <1>5. htab_remove(tab, key) = tab
    BY <1>4 DEF htab_remove
  <1>6. Fits(TableOf(M2, T2), answer, "remove", key, tab)
    <2>1. answer = IF htab_find(tab, key) = 0 THEN 0 ELSE 1
      BY <1>2, <1>4
    <2> QED
      BY ONLY <1>2, <1>3, <1>5, <2>1, ResultsAre, Zenon
  <1> QED
    BY <1>1, <1>2, <1>3, <1>6 DEF Answers, Stands

LEMMA RemoveKeyDone ==
  ASSUME Stands(mem, t), table!RemoveKey
  PROVE  CallDone
  <1>0. PICK lists, m : m \in Sizes /\ InMemory(mem, t, m, lists) /\ Big(t, m, lists)
    BY DEF Stands
  <1>1. PICK key \in Keys :
          /\ itemsPc = "idle" /\ call' = << "remove", key >> /\ itemsPc' = itemsPc
          /\ \/ Removes(mem, mem', t, t', m, table!List(key), key, res')
             \/ NoMemory(mem, mem', t, t', table!List(key), key, res')
    <2>1. PICK key \in Keys :
            /\ table!Calls("remove", key)
            /\ \/ \E k \in table!Matches(key) : table!RemoveItem(k, table!List(key)) /\ res' = 1
               \/ table!Matches(key) = {} /\ res' = 0 /\ UNCHANGED << mem, t >>
      BY Zenon DEF table!RemoveKey
    <2>2. table!Matches(key) = MatchesIn(mem, table!List(key), key)
      BY DEF table!Matches, MatchesIn
    <2>3. itemsPc = "idle" /\ call' = << "remove", key >> /\ itemsPc' = itemsPc
      BY <2>1 DEF table!Calls, table!moving
    <2>4. CASE \E k \in table!Matches(key) : table!RemoveItem(k, table!List(key)) /\ res' = 1
      <3>1. PICK k \in MatchesIn(mem, table!List(key), key) : table!RemoveItem(k, table!List(key)) /\ res' = 1
        BY <2>2, <2>4
      <3>2. Removes(mem, mem', t, t', m, table!List(key), key, res')
        BY <3>1 DEF Removes, table!RemoveItem, table!Freed, FreedOf
      <3> QED
        BY <2>3, <3>2
    <2>5. CASE table!Matches(key) = {} /\ res' = 0 /\ UNCHANGED << mem, t >>
      BY <2>2, <2>3, <2>5 DEF NoMemory
    <2> QED
      BY <2>1, <2>4, <2>5
  <1>3. PICK M, T, b, l, M2, T2, answer :
          /\ M = mem /\ T = t /\ b = htab_hash_function(key, m) /\ l = lists[b]
          /\ M2 = mem' /\ T2 = t' /\ answer = res'
    OBVIOUS
  <1>4. table!List(key) = l /\ table!Bucket(t, key) = b /\ m \in Nat \ {0} /\ key \in Names
    BY <1>0, <1>3, ListIs
  <1>5. Adding(M, T, m, lists, key, b, l)
    BY <1>0, <1>3, <1>4 DEF Adding
  <1>6. \/ Removes(M, M2, T, T2, m, l, key, answer)
        \/ NoMemory(M, M2, T, T2, l, key, answer)
    BY ONLY <1>1, <1>3, <1>4, Zenon
  <1>7. Answers(M, T, M2, T2, answer, "remove", key)
    BY ONLY <1>5, <1>6, RemovesDone, NoneRemovedDone, Zenon
  <1>8. call'[1] = "remove" /\ call'[2] = key
    BY <1>1
  <1> QED
    BY ONLY <1>1, <1>3, <1>7, <1>8, Zenon DEF CallDone, Answers

(* An empty table stands over whatever is allocated.                       *)
LEMMA EmptyStands ==
  ASSUME NEW M, Cells(M), NEW m, m \in Sizes, NEW T, T = table!Empty(m)
  PROVE  Stands(M, T) /\ TableOf(M, T) = htab_init(m)
  <1>1. m \in Nat \ {0}
    BY ItemNumbers
  <1>2. PICK lists, q : lists = [b \in 0 .. m - 1 |-> << >>] /\ q = [b \in 0 .. m - 1 |-> NULL]
    OBVIOUS
  <1>3. T = [size |-> 0, arr_size |-> m, ptr |-> q]
    BY <1>2 DEF table!Empty
  <1>4. InMemory(M, T, m, lists)
    <2>1. T.ptr = q /\ T \in [size : Nat, arr_size : {m}, ptr : [0 .. m - 1 -> Items \cup {NULL}]]
      BY <1>2, <1>3
    <2>2. lists \in [0 .. m - 1 -> Seq(DOMAIN M)]
      BY <1>2
    <2>3. ASSUME NEW b \in 0 .. m - 1 PROVE Row(M, lists[b], T.ptr[b], b, m)
      <3>1. lists[b] = << >> /\ T.ptr[b] = NULL
        BY <1>2, <2>1
      <3>2. \A k \in 1 .. Len(<< >>) : FALSE
        OBVIOUS
      <3> QED
        BY ONLY <3>1, <3>2, Zenon DEF Row
    <2> QED
      BY <2>1, <2>2, <2>3 DEF InMemory
  <1>5. PlacesIn(m, lists) = {}
    BY <1>2 DEF PlacesIn
  <1>6. Big(T, m, lists)
    BY <1>3, <1>5, FS_EmptySet DEF Big
  <1>7. TableOf(M, T) = [size |-> 0, arr_size |-> m, ptr |-> [b \in 0 .. m - 1 |-> << >>]]
    <2>1. \A b \in 0 .. m - 1 : EntriesOf(M, lists[b]) = << >>
      <3>1. EntriesOf(M, << >>) = << >>
        BY DEF EntriesOf
      <3> QED
        BY <1>2, <3>1
    <2>2. [b \in 0 .. m - 1 |-> EntriesOf(M, lists[b])] = [b \in 0 .. m - 1 |-> << >>]
      BY <2>1
    <2>3. T.size = 0
      BY <1>3
    <2>4. TableOf(M, T) = [size |-> T.size, arr_size |-> m, ptr |-> [b \in 0 .. m - 1 |-> EntriesOf(M, lists[b])]]
      BY <1>1, <1>4, InTable
    <2> QED
      BY ONLY <2>2, <2>3, <2>4, Zenon
  <1> QED
    BY <1>4, <1>6, <1>7 DEF Stands, htab_init

LEMMA ClearDone ==
  ASSUME Stands(mem, t), table!Clear
  PROVE  CallDone
  <1>0. PICK lists, m : m \in Sizes /\ InMemory(mem, t, m, lists) /\ Big(t, m, lists)
    BY DEF Stands
  <1>1. /\ itemsPc = "idle" /\ call' = << "clear", 0 >> /\ itemsPc' = itemsPc /\ res' = 0
        /\ \E items : mem' = FreedOf(mem, items)
        /\ t' = table!Empty(t.arr_size)
    BY DEF table!Clear, table!Calls, table!moving, table!Freed, FreedOf
  <1>2. PICK M, T, M2, T2, answer, tab :
          /\ M = mem /\ T = t /\ M2 = mem' /\ T2 = t' /\ answer = res' /\ tab = TableOf(M, T)
    OBVIOUS
  <1>3. Cells(M2)
    <2>1. PICK items : M2 = FreedOf(M, items)
      BY <1>1, <1>2
    <2>2. Cells(M)
      BY <1>0, <1>2 DEF InMemory
    <2> QED
      BY ONLY <2>1, <2>2 DEF FreedOf, Cells
  <1>4. t.arr_size = m /\ tab.arr_size = m
    <2>1. InMemory(M, T, m, lists) /\ m \in Nat \ {0}
      BY <1>0, <1>2, ItemNumbers
    <2>2. Filled(tab, m)
      BY <1>2, <2>1, InTable
    <2> QED
      BY <1>2, <2>1, <2>2 DEF InMemory, Filled
  <1>5. Stands(M2, T2) /\ TableOf(M2, T2) = htab_init(m)
    <2>1. T2 = table!Empty(m)
      BY <1>1, <1>2, <1>4
    <2> QED
      BY <1>0, <1>3, <2>1, EmptyStands
  <1>6. htab_clear(tab) = htab_init(m)
    BY <1>4 DEF htab_clear
  <1>7. Fits(TableOf(M2, T2), answer, "clear", 0, tab)
    <2>1. answer = 0 /\ TableOf(M2, T2) = htab_clear(tab)
      BY <1>1, <1>2, <1>5, <1>6
    <2> QED
      BY ONLY <2>1, ResultsAre, Zenon
  <1>8. call'[1] = "clear" /\ call'[2] = 0
    BY <1>1
  <1> QED
    BY ONLY <1>1, <1>2, <1>5, <1>7, <1>8, Zenon DEF CallDone

(* htab_move that finds no memory.                                         *)
LEMMA NotMovedDone ==
  ASSUME Stands(mem, t), table!Move, itemsPc' = "idle"
  PROVE  CallDone
  <1>1. PICK newsize \in Sizes :
          itemsPc = "idle" /\ call' = << "move", newsize >> /\ res' = 0 /\ mem' = mem /\ t' = t
    BY DEF table!Move
  <1>2. PICK answer, tab : answer = res' /\ tab = TableOf(mem, t)
    OBVIOUS
  <1>3. Fits(tab, answer, "move", newsize, tab)
    <2>1. answer = 0
      BY <1>1, <1>2
    <2> QED
      BY ONLY <2>1, ResultsAre, Zenon
  <1>4. call'[1] = "move" /\ call'[2] = newsize
    BY <1>1
  <1> QED
    BY ONLY <1>1, <1>2, <1>3, <1>4, Stands(mem, t), itemsPc' = "idle", Zenon DEF CallDone

-----------------------------------------------------------------------------
(* htab_move: from the table T of the items M, with the rows lists, to one *)
(* of n buckets.  M2, T2, N, b and x are mem, t, the new table, the bucket *)
(* and tmp.                                                                *)

Given(M, T, lists, m, n) ==
  /\ m \in Sizes /\ n \in Sizes /\ m \in Nat \ {0} /\ n \in Nat \ {0}
  /\ InMemory(M, T, m, lists) /\ Big(T, m, lists)
SameItems(M, M2) ==
  Cells(M2) /\ DOMAIN M2 = DOMAIN M /\ \A y \in DOMAIN M : M2[y].key = M[y].key /\ M2[y].data = M[y].data
NewTable(M, T, n, N) ==
  N = Record(T.size, n, N.ptr) /\ N.ptr \in [0 .. n - 1 -> Items \cup {NULL}]
  /\ \A c \in 0 .. n - 1 : N.ptr[c] \in DOMAIN M \cup {NULL}

(* The buckets before done: their first items are alone in their new       *)
(* bucket.                                                                 *)
Goal(M2, y, n) == htab_hash_function(M2[y].key, n)
Alone(M2, N, n, y) == N.ptr[Goal(M2, y, n)] = y /\ M2[y].next = NULL
PlacedTo(lists, m, n, M2, N, done) ==
  /\ \A a \in 0 .. m - 1 : a < done /\ lists[a] # << >> => Alone(M2, N, n, lists[a][1])
  /\ \A c \in 0 .. n - 1 : N.ptr[c] # NULL =>
       \E a \in 0 .. m - 1 : a < done /\ lists[a] # << >> /\ N.ptr[c] = lists[a][1] /\ Goal(M2, lists[a][1], n) = c
(* Two items in turns, the one before the other.                           *)
Stuck(M2, N, n, x) ==
  x \in DOMAIN M2 /\ N.ptr[Goal(M2, x, n)] # NULL /\ Goal(M2, N.ptr[Goal(M2, x, n)], n) = Goal(M2, x, n)
Steady(T, lists, m, n, M2, N, b, x) ==
  \/ x = NULL /\ PlacedTo(lists, m, n, M2, N, b + 1)
  \/ x # NULL /\ x = T.ptr[b] /\ PlacedTo(lists, m, n, M2, N, b)

OldTable(T, m, b, T2) ==
  /\ b \in 0 .. m - 1 /\ T2.arr_size = m /\ T2.ptr \in [0 .. m - 1 -> Items \cup {NULL}]
  /\ T2 = Record(T2.size, m, T2.ptr) /\ T2.size \in Nat
  /\ \A a \in 0 .. m - 1 : a >= b => T2.ptr[a] = T.ptr[a]
OnTheWay(M, T, lists, m, n, M2, T2, N, b, x) ==
  /\ Given(M, T, lists, m, n) /\ SameItems(M, M2) /\ NewTable(M, T, n, N) /\ OldTable(T, m, b, T2)
  /\ Stuck(M2, N, n, x) \/ Steady(T, lists, m, n, M2, N, b, x)

FirstIs(M, T, l, m, a) ==
  /\ T.ptr[a] = NULL <=> l = << >>
  /\ l # << >> => T.ptr[a] = l[1] /\ l[1] \in DOMAIN M /\ 1 \in 1 .. Len(l)
                  /\ htab_hash_function(M[l[1]].key, m) = a

LEMMA FirstOfRow ==
  ASSUME NEW M, NEW T, NEW lists, NEW m, NEW n, Given(M, T, lists, m, n), NEW a \in 0 .. m - 1
  PROVE  FirstIs(M, T, lists[a], m, a)
  <1>1. PICK l, first : l = lists[a] /\ first = T.ptr[a]
    OBVIOUS
  <1>2. Cells(M) /\ l \in Seq(DOMAIN M) /\ Row(M, l, first, a, m)
    BY <1>1 DEF Given, InMemory
  <1>3. l # << >> => 1 \in 1 .. Len(l) /\ l[1] \in DOMAIN M /\ l[1] # NULL
    BY <1>2, ItemNumbers DEF Cells
  <1> QED
    BY <1>1, <1>2, <1>3 DEF Row, FirstIs

Turned(M2, M3, N, N3, n, x) ==
  /\ M3 = [M2 EXCEPT ![x].next = N.ptr[Goal(M2, x, n)]]
  /\ N3 = [N EXCEPT !.ptr[Goal(M2, x, n)] = x]

LEMMA ItemMoves ==
  ASSUME NEW M, NEW T, NEW lists, NEW m, NEW n, NEW M2, NEW T2, NEW N, NEW b, NEW x,
         OnTheWay(M, T, lists, m, n, M2, T2, N, b, x), x # NULL,
         NEW M3, NEW N3, Turned(M2, M3, N, N3, n, x), NEW x3, x3 = M3[x].next
  PROVE  OnTheWay(M, T, lists, m, n, M3, T2, N3, b, x3)
  <1>1. /\ Given(M, T, lists, m, n) /\ SameItems(M, M2) /\ NewTable(M, T, n, N) /\ OldTable(T, m, b, T2)
        /\ Stuck(M2, N, n, x) \/ Steady(T, lists, m, n, M2, N, b, x)
    BY DEF OnTheWay
  <1>2. b \in 0 .. m - 1 /\ m \in Nat \ {0} /\ n \in Nat \ {0} /\ DOMAIN M2 = DOMAIN M /\ T.size \in Nat
    BY <1>1 DEF Given, SameItems, OldTable, InMemory
  <1>3. x \in DOMAIN M
    BY <1>1, <1>2, FirstOfRow DEF Stuck, Steady, FirstIs
  <1>4. \A y \in DOMAIN M : /\ M2[y] = [key |-> M2[y].key, data |-> M2[y].data, next |-> M2[y].next]
                            /\ M2[y].key \in Names /\ M2[y].data \in Nat \ {0} /\ M2[y].next \in Items \cup {NULL}
    BY <1>1 DEF SameItems, Cells
  <1>5. PICK c, old, q : c = Goal(M2, x, n) /\ old = N.ptr[c] /\ q = N.ptr
    OBVIOUS
  <1>6. c \in 0 .. n - 1
    BY <1>2, <1>3, <1>4, <1>5, Hash DEF Goal
  <1>7. old \in DOMAIN M \cup {NULL} /\ old \in Items \cup {NULL}
    BY <1>1, <1>5, <1>6 DEF NewTable
  <1>8. PICK cell : cell = [key |-> M2[x].key, data |-> M2[x].data, next |-> old]
    OBVIOUS
  <1>9. M3 = [M2 EXCEPT ![x] = cell]
    <2>1. PICK was : was = M2[x]
      OBVIOUS
    <2>2. was = [key |-> M2[x].key, data |-> M2[x].data, next |-> M2[x].next]
      BY <1>3, <1>4, <2>1
    <2>3. [was EXCEPT !.next = old] = cell
      BY <1>8, <2>2
    <2>4. M3 = [M2 EXCEPT ![x] = [was EXCEPT !.next = old]]
      BY ONLY <1>5, <2>1, Turned(M2, M3, N, N3, n, x), Zenon DEF Turned
    <2> QED
      BY ONLY <2>3, <2>4, Zenon
  <1>10. /\ DOMAIN M3 = DOMAIN M /\ M3[x] = cell /\ \A y \in DOMAIN M : y # x => M3[y] = M2[y]
    BY <1>2, <1>3, <1>9
  <1>11. \A y \in DOMAIN M : M3[y].key = M2[y].key /\ M3[y].data = M2[y].data /\ Goal(M3, y, n) = Goal(M2, y, n)
    BY <1>8, <1>10 DEF Goal
  <1>12. M3[x].next = old /\ x3 = old
    BY <1>8, <1>10
  <1>13. SameItems(M, M3)
    <2>1. Cells(M3)
      <3>1. cell \in [key : Names, data : Nat \ {0}, next : Items \cup {NULL}]
        BY <1>3, <1>4, <1>7, <1>8
      <3> QED
        BY <1>1, <1>2, <1>10, <3>1 DEF SameItems, Cells
    <2> QED
      BY <1>1, <1>10, <1>11, <2>1 DEF SameItems
  <1>14. N3 = Record(T.size, n, [q EXCEPT ![c] = x])
    <2>1. PICK p : p = [q EXCEPT ![c] = x]
      OBVIOUS
    <2>2. N = [size |-> T.size, arr_size |-> n, ptr |-> q]
      BY <1>1, <1>5 DEF NewTable, Record
    <2>3. [N EXCEPT !.ptr = p] = [size |-> T.size, arr_size |-> n, ptr |-> p]
      BY <2>2
    <2>4. N3 = [N EXCEPT !.ptr = p]
      BY ONLY <1>5, <2>1, Turned(M2, M3, N, N3, n, x), Zenon DEF Turned
    <2> QED
      BY <2>1, <2>3, <2>4 DEF Record
  <1>15. N3.ptr \in [0 .. n - 1 -> Items \cup {NULL}] /\ N3.ptr[c] = x /\ \A d \in 0 .. n - 1 : d # c => N3.ptr[d] = N.ptr[d]
         /\ N3 = Record(T.size, n, N3.ptr)
    <2>1. q \in [0 .. n - 1 -> Items \cup {NULL}] /\ x \in Items
      BY <1>1, <1>3, <1>5 DEF NewTable, Given, InMemory, Cells
    <2>2. N3.ptr = [q EXCEPT ![c] = x]
      BY <1>14 DEF Record
    <2> QED
      BY <1>5, <1>6, <1>14, <2>1, <2>2
  <1>16. NewTable(M, T, n, N3)
    <2>1. \A d \in 0 .. n - 1 : N3.ptr[d] \in DOMAIN M \cup {NULL}
      BY <1>1, <1>3, <1>15 DEF NewTable
    <2>2. N3.ptr \in [0 .. n - 1 -> Items \cup {NULL}]
      BY ONLY <1>15
    <2>3. N3 = Record(T.size, n, N3.ptr)
      <3>1. N3.ptr = [q EXCEPT ![c] = x]
        BY <1>14 DEF Record
      <3> QED
        BY ONLY <1>14, <3>1, Zenon
    <2> QED
      BY ONLY <2>1, <2>2, <2>3 DEF NewTable
  <1>17. CASE old = NULL
    <2>1. x = T.ptr[b] /\ PlacedTo(lists, m, n, M2, N, b)
      BY <1>1, <1>5, <1>17 DEF Stuck, Steady
    <2>2. lists[b] # << >> /\ x = lists[b][1]
      BY <1>1, <1>2, <2>1, FirstOfRow DEF FirstIs
    <2>3. ASSUME NEW a \in 0 .. m - 1, a < b + 1, lists[a] # << >>
          PROVE  Alone(M3, N3, n, lists[a][1])
      <3>1. PICK y : y = lists[a][1] /\ y \in DOMAIN M
        BY <1>1, <2>3, FirstOfRow DEF FirstIs
      <3>2. CASE a = b
        BY <1>3, <1>5, <1>11, <1>12, <1>15, <1>17, <2>2, <3>1, <3>2 DEF Alone
      <3>3. CASE a # b
        <4>1. Alone(M2, N, n, y)
          BY <1>2, <2>1, <2>3, <3>1, <3>3 DEF PlacedTo
        <4>2. y # NULL /\ Goal(M2, y, n) \in 0 .. n - 1
          BY <1>1, <1>2, <1>4, <3>1, Hash, ItemNumbers DEF Given, InMemory, Cells, Goal
        <4>3. Goal(M2, y, n) # c
          BY <1>5, <1>17, <4>1, <4>2 DEF Alone
        <4> QED
          BY <1>10, <1>11, <1>12, <1>15, <1>17, <3>1, <4>1, <4>2, <4>3 DEF Alone
      <3> QED
        BY <3>2, <3>3
    <2>4. ASSUME NEW d \in 0 .. n - 1, N3.ptr[d] # NULL
          PROVE  \E a \in 0 .. m - 1 : a < b + 1 /\ lists[a] # << >> /\ N3.ptr[d] = lists[a][1] /\ Goal(M3, lists[a][1], n) = d
      <3>1. CASE d = c
        BY <1>2, <1>3, <1>5, <1>11, <1>15, <2>2, <3>1
      <3>2. CASE d # c
        <4>1. N.ptr[d] = N3.ptr[d]
          BY <1>15, <3>2
        <4>2. PICK a \in 0 .. m - 1 : a < b /\ lists[a] # << >> /\ N.ptr[d] = lists[a][1] /\ Goal(M2, lists[a][1], n) = d
          BY <2>1, <2>4, <4>1 DEF PlacedTo
        <4>3. lists[a][1] \in DOMAIN M
          BY <1>1, <4>2, FirstOfRow DEF FirstIs
        <4>4. a < b + 1
          BY <1>2, <4>2
        <4> QED
          BY <1>11, <4>1, <4>2, <4>3, <4>4
      <3> QED
        BY <3>1, <3>2
    <2>5. Steady(T, lists, m, n, M3, N3, b, x3)
      BY <1>12, <1>17, <2>3, <2>4 DEF Steady, PlacedTo
    <2> QED
      BY <1>1, <1>13, <1>16, <2>5 DEF OnTheWay
  <1>18. CASE old # NULL
    <2>1. Goal(M2, old, n) = c /\ old \in DOMAIN M
      <3>1. CASE Stuck(M2, N, n, x)
        BY <1>5, <1>7, <1>18, <3>1 DEF Stuck
      <3>2. CASE PlacedTo(lists, m, n, M2, N, b)
        BY <1>5, <1>6, <1>7, <1>18, <3>2 DEF PlacedTo
      <3> QED
        BY <1>1, <3>1, <3>2 DEF Steady
    <2>2. Goal(M3, old, n) = c /\ Goal(M3, x, n) = c
      BY <1>3, <1>5, <1>11, <2>1
    <2>3. Stuck(M3, N3, n, x3)
      BY <1>10, <1>12, <1>15, <2>1, <2>2 DEF Stuck
    <2> QED
      BY <1>1, <1>13, <1>16, <2>3 DEF OnTheWay
  <1> QED
    BY <1>17, <1>18

LEMMA BucketMoves ==
  ASSUME NEW M, NEW T, NEW lists, NEW m, NEW n, NEW M2, NEW T2, NEW N, NEW b,
         OnTheWay(M, T, lists, m, n, M2, T2, N, b, NULL),
         NEW d, d = b + 1, d < m, NEW x3, x3 = T2.ptr[d],
         NEW T3, T3 = [T2 EXCEPT !.ptr[b] = NULL]
  PROVE  OnTheWay(M, T, lists, m, n, M2, T3, N, d, x3)
  <1>1. /\ Given(M, T, lists, m, n) /\ SameItems(M, M2) /\ NewTable(M, T, n, N) /\ OldTable(T, m, b, T2)
        /\ Stuck(M2, N, n, NULL) \/ Steady(T, lists, m, n, M2, N, b, NULL)
    BY DEF OnTheWay
  <1>2. b \in 0 .. m - 1 /\ m \in Nat \ {0} /\ d \in 0 .. m - 1
    BY <1>1 DEF Given, OldTable
  <1>3. NULL \notin DOMAIN M2
    BY <1>1, ItemNumbers DEF SameItems, Cells
  <1>4. PlacedTo(lists, m, n, M2, N, d)
    BY <1>1, <1>3 DEF Stuck, Steady
  <1>5. x3 = T.ptr[d]
    BY <1>1, <1>2 DEF OldTable
  <1>6. Steady(T, lists, m, n, M2, N, d, x3)
    <2>1. CASE x3 = NULL
      <3>1. lists[d] = << >>
        <4>1. FirstIs(M, T, lists[d], m, d)
          BY ONLY <1>1, <1>2, FirstOfRow
        <4> QED
          BY ONLY <1>5, <2>1, <4>1, Zenon DEF FirstIs
      <3>2. \A a \in 0 .. m - 1 : lists[a] # << >> => (a < d + 1 <=> a < d)
        BY <1>2, <3>1
      <3>3. PlacedTo(lists, m, n, M2, N, d + 1)
        BY <1>4, <3>2 DEF PlacedTo
      <3> QED
        BY <2>1, <3>3 DEF Steady
    <2>2. CASE x3 # NULL
      BY <1>4, <1>5, <2>2 DEF Steady
    <2> QED
      BY <2>1, <2>2
  <1>7. OldTable(T, m, d, T3)
    <2>1. PICK q, z : q = T2.ptr /\ z = T2.size
      OBVIOUS
    <2>2. q \in [0 .. m - 1 -> Items \cup {NULL}] /\ z \in Nat /\ T2 = [size |-> z, arr_size |-> m, ptr |-> q]
          /\ \A a \in 0 .. m - 1 : a >= b => q[a] = T.ptr[a]
      BY <1>1, <2>1 DEF OldTable, Record
    <2>3. PICK p : p = [q EXCEPT ![b] = NULL]
      OBVIOUS
    <2>4. p \in [0 .. m - 1 -> Items \cup {NULL}] /\ \A a \in 0 .. m - 1 : a >= d => p[a] = T.ptr[a]
      <3>1. p \in [0 .. m - 1 -> Items \cup {NULL}] /\ \A a \in 0 .. m - 1 : a # b => p[a] = q[a]
        BY <1>2, <2>2, <2>3
      <3>2. \A a \in 0 .. m - 1 : a >= d => a >= b /\ a # b
        BY <1>2
      <3> QED
        BY ONLY <2>2, <3>1, <3>2
    <2>5. T3 = [T2 EXCEPT !.ptr = p]
      BY ONLY <2>1, <2>3, T3 = [T2 EXCEPT !.ptr[b] = NULL], Zenon
    <2>6. T3 = [size |-> z, arr_size |-> m, ptr |-> p]
      BY ONLY <2>2, <2>5
    <2>7. T3.size = z /\ T3.arr_size = m /\ T3.ptr = p
      BY <2>6
    <2> QED
      BY ONLY <1>2, <2>2, <2>4, <2>6, <2>7 DEF OldTable, Record
  <1> QED
    BY <1>1, <1>6, <1>7 DEF OnTheWay

(* The end of htab_move: every first item is alone in its new bucket.      *)
Content(M, y) == [key |-> M[y].key, data |-> M[y].data]
Arrived(lists, m, n, M2, N) ==
  /\ \A a \in 0 .. m - 1 : lists[a] # << >> => Alone(M2, N, n, lists[a][1])
  /\ \A c \in 0 .. n - 1 : N.ptr[c] # NULL =>
       \E a \in 0 .. m - 1 : lists[a] # << >> /\ N.ptr[c] = lists[a][1] /\ Goal(M2, lists[a][1], n) = c
AtEnd(M, T, lists, m, n, M2, N) ==
  Given(M, T, lists, m, n) /\ SameItems(M, M2) /\ NewTable(M, T, n, N) /\ Arrived(lists, m, n, M2, N)
RowsOf(N, n) == [c \in 0 .. n - 1 |-> IF N.ptr[c] = NULL THEN << >> ELSE << N.ptr[c] >>]

LEMMA LastBucket ==
  ASSUME NEW M, NEW T, NEW lists, NEW m, NEW n, NEW M2, NEW T2, NEW N, NEW b,
         OnTheWay(M, T, lists, m, n, M2, T2, N, b, NULL), b + 1 = m
  PROVE  AtEnd(M, T, lists, m, n, M2, N)
  <1>1. /\ Given(M, T, lists, m, n) /\ SameItems(M, M2) /\ NewTable(M, T, n, N) /\ OldTable(T, m, b, T2)
        /\ Stuck(M2, N, n, NULL) \/ Steady(T, lists, m, n, M2, N, b, NULL)
    BY DEF OnTheWay
  <1>2. NULL \notin DOMAIN M2
    BY <1>1, ItemNumbers DEF SameItems, Cells
  <1>3. PlacedTo(lists, m, n, M2, N, m) /\ m \in Nat
    BY <1>1, <1>2 DEF Stuck, Steady, Given
  <1>4. Arrived(lists, m, n, M2, N)
    BY <1>3 DEF PlacedTo, Arrived
  <1> QED
    BY <1>1, <1>4 DEF AtEnd

LEMMA NewPointer ==
  ASSUME NEW M, NEW T, NEW lists, NEW m, NEW n, NEW M2, NEW N, AtEnd(M, T, lists, m, n, M2, N),
         NEW c \in 0 .. n - 1, NEW y, y = N.ptr[c], y # NULL
  PROVE  /\ y \in DOMAIN M /\ M2[y].next = NULL /\ Goal(M2, y, n) = c
         /\ \E a \in 0 .. m - 1 : lists[a] # << >> /\ y = lists[a][1]
  <1>1. NewTable(M, T, n, N) /\ Arrived(lists, m, n, M2, N)
    BY DEF AtEnd
  <1>2. y \in DOMAIN M
    BY <1>1 DEF NewTable
  <1>3. PICK a \in 0 .. m - 1 : lists[a] # << >> /\ y = lists[a][1] /\ Goal(M2, y, n) = c
    BY <1>1 DEF Arrived
  <1>4. Alone(M2, N, n, y)
    BY <1>1, <1>3 DEF Arrived
  <1> QED
    BY <1>2, <1>3, <1>4 DEF Alone

LEMMA EndInMemory ==
  ASSUME NEW M, NEW T, NEW lists, NEW m, NEW n, NEW M2, NEW N, AtEnd(M, T, lists, m, n, M2, N)
  PROVE  InMemory(M2, N, n, RowsOf(N, n))
  <1>1. /\ Given(M, T, lists, m, n) /\ SameItems(M, M2) /\ NewTable(M, T, n, N)
        /\ n \in Nat \ {0} /\ T.size \in Nat /\ DOMAIN M2 = DOMAIN M /\ Cells(M2)
    BY DEF AtEnd, Given, InMemory, SameItems
  <1>2. PICK rows : rows = RowsOf(N, n)
    OBVIOUS
  <1>3. DOMAIN rows = 0 .. n - 1 /\ rows = [c \in 0 .. n - 1 |-> rows[c]]
        /\ \A c \in 0 .. n - 1 : rows[c] = IF N.ptr[c] = NULL THEN << >> ELSE << N.ptr[c] >>
    BY <1>2 DEF RowsOf
  <1>4. ASSUME NEW c \in 0 .. n - 1
        PROVE  rows[c] \in Seq(DOMAIN M2) /\ Row(M2, rows[c], N.ptr[c], c, n)
    <2>1. CASE N.ptr[c] = NULL
      <3>1. rows[c] = << >>
        BY <1>3, <2>1
      <3>2. << >> \in Seq(DOMAIN M2) /\ \A k \in 1 .. Len(<< >>) : FALSE
        OBVIOUS
      <3> QED
        BY ONLY <2>1, <3>1, <3>2, Zenon DEF Row
    <2>2. CASE N.ptr[c] # NULL
      <3>1. PICK y, l : y = N.ptr[c] /\ l = rows[c] /\ l = << y >>
        BY <1>3, <2>2
      <3>2. y \in DOMAIN M2 /\ M2[y].next = NULL /\ Goal(M2, y, n) = c
        BY <1>1, <2>2, <3>1, NewPointer
      <3>3. l \in Seq(DOMAIN M2) /\ Len(l) = 1 /\ l[1] = y /\ l # << >>
        BY <3>1, <3>2
      <3>4. Row(M2, l, y, c, n)
        BY ONLY <3>2, <3>3 DEF Row, Goal
      <3> QED
        BY <3>1, <3>3, <3>4
    <2> QED
      BY <2>1, <2>2
  <1>5. N \in [size : Nat, arr_size : {n}, ptr : [0 .. n - 1 -> Items \cup {NULL}]]
    <2>1. PICK q, z : q = N.ptr /\ z = T.size /\ N = [size |-> z, arr_size |-> n, ptr |-> q] /\ q \in [0 .. n - 1 -> Items \cup {NULL}]
      BY <1>1 DEF NewTable, Record
    <2> QED
      BY <1>1, <2>1
  <1>6. rows \in [0 .. n - 1 -> Seq(DOMAIN M2)]
    BY <1>3, <1>4
  <1>7. InMemory(M2, N, n, rows)
    BY <1>1, <1>4, <1>5, <1>6 DEF InMemory
  <1> QED
    BY <1>2, <1>7

LEMMA EndBig ==
  ASSUME NEW M, NEW T, NEW lists, NEW m, NEW n, NEW M2, NEW N, AtEnd(M, T, lists, m, n, M2, N)
  PROVE  Big(N, n, RowsOf(N, n))
  <1>1. /\ Given(M, T, lists, m, n) /\ NewTable(M, T, n, N)
        /\ m \in Nat \ {0} /\ n \in Nat \ {0} /\ T.size \in Nat /\ Big(T, m, lists) /\ InMemory(M, T, m, lists)
    BY DEF AtEnd, Given, InMemory
  <1>2. PICK rows, P, Q : rows = RowsOf(N, n) /\ P = PlacesIn(n, rows) /\ Q = PlacesIn(m, lists)
    OBVIOUS
  <1>3. \A c \in 0 .. n - 1 : Len(rows[c]) = IF N.ptr[c] = NULL THEN 0 ELSE 1
    BY <1>2 DEF RowsOf
  <1>4. ASSUME NEW p \in P
        PROVE  p[1] \in 0 .. n - 1 /\ p = << p[1], 1 >> /\ N.ptr[p[1]] # NULL
    <2>1. PICK c \in 0 .. n - 1, k \in 1 .. Cardinality(Items) : p = << c, k >> /\ k <= Len(rows[c])
      BY <1>2 DEF PlacesIn
    <2>2. N.ptr[c] # NULL /\ k = 1
      BY <1>3, <2>1, ItemNumbers
    <2> QED
      BY <2>1, <2>2
  <1>5. ASSUME NEW p \in P
        PROVE  \E a \in 0 .. m - 1 : << a, 1 >> \in Q /\ N.ptr[p[1]] = lists[a][1]
    <2>1. PICK a \in 0 .. m - 1 : lists[a] # << >> /\ N.ptr[p[1]] = lists[a][1]
      BY <1>4, NewPointer
    <2>2. PICK l : l = lists[a] /\ l \in Seq(DOMAIN M) /\ l # << >>
      BY <1>1, <2>1 DEF InMemory
    <2>3. Len(l) >= 1 /\ Len(l) <= Cardinality(Items)
      <3>1. Row(M, l, T.ptr[a], a, m) /\ Cells(M)
        BY <1>1, <2>2 DEF InMemory
      <3>2. Len(l) \in 0 .. Cardinality(Items)
        BY <2>2, <3>1, RowLength
      <3> QED
        BY <2>2, <3>2, ItemNumbers
    <2>4. << a, 1 >> \in Q
      BY <1>2, <2>2, <2>3, ItemNumbers DEF PlacesIn
    <2> QED
      BY <2>1, <2>4
  <1> DEFINE from(p) == CHOOSE a \in 0 .. m - 1 : << a, 1 >> \in Q /\ N.ptr[p[1]] = lists[a][1]
             f == [p \in P |-> << from(p), 1 >>]
  <1>6. \A p \in P : << from(p), 1 >> \in Q /\ N.ptr[p[1]] = lists[from(p)][1]
    BY <1>5
  <1>7. f \in Injection(P, Q)
    <2> HIDE DEF from
    <2>1. f \in [P -> Q]
      BY <1>6
    <2>2. ASSUME NEW p \in P, NEW r \in P, f[p] = f[r] PROVE p = r
      <3>1. from(p) = from(r)
        BY <2>2
      <3>2. N.ptr[p[1]] = N.ptr[r[1]]
        BY <1>6, <3>1
      <3>3. Goal(M2, N.ptr[p[1]], n) = p[1]
        BY <1>4, NewPointer
      <3>4. Goal(M2, N.ptr[r[1]], n) = r[1]
        BY <1>4, NewPointer
      <3> QED
        BY <1>4, <3>2, <3>3, <3>4
    <2> HIDE DEF f
    <2> QED
      BY <2>1, <2>2 DEF Injection, IsInjective
  <1>8. IsFiniteSet(Q) /\ Cardinality(Q) \in Nat /\ Cardinality(P) \in Nat
    BY <1>1, <1>2, PlacesFinite
  <1>9. Cardinality(P) <= Cardinality(Q)
    <2> HIDE DEF f
    <2> QED
      BY <1>7, <1>8, FS_Injection
  <1>10. N.size = T.size
    BY <1>1 DEF NewTable, Record
  <1> QED
    BY <1>1, <1>2, <1>8, <1>9, <1>10 DEF Big

(* The first items of the old table, as Htab sees them.                    *)
LEMMA HeadsAre ==
  ASSUME NEW M, NEW T, NEW lists, NEW m \in Nat \ {0}, InMemory(M, T, m, lists), NEW item
  PROVE  item \in table!Heads(TableOf(M, T)) <=> \E a \in 0 .. m - 1 : lists[a] # << >> /\ item = Content(M, lists[a][1])
  <1>1. PICK tab, q : tab = TableOf(M, T) /\ q = tab.ptr
    OBVIOUS
  <1>2. q = [a \in 0 .. m - 1 |-> EntriesOf(M, lists[a])] /\ DOMAIN q = 0 .. m - 1
    <2>1. tab = [size |-> T.size, arr_size |-> m, ptr |-> [a \in 0 .. m - 1 |-> EntriesOf(M, lists[a])]]
      BY <1>1, InTable
    <2> QED
      BY <1>1, <2>1
  <1>3. ASSUME NEW a \in 0 .. m - 1
        PROVE  /\ q[a] # << >> <=> lists[a] # << >>
               /\ lists[a] # << >> => q[a][1] = Content(M, lists[a][1])
    <2>1. PICK l, e : l = lists[a] /\ e = q[a] /\ l \in Seq(DOMAIN M)
      BY DEF InMemory
    <2>2. Entry(M, l, e)
      <3>1. e = EntriesOf(M, l) /\ Cells(M)
        BY <1>2, <2>1 DEF InMemory
      <3> QED
        BY ONLY <2>1, <3>1, EntriesType
    <2>3. e \in Seq(Item) /\ Len(e) = Len(l) /\ \A k \in 1 .. Len(l) : e[k] = Content(M, l[k])
      BY <2>2 DEF Entry, Content
    <2> QED
      BY <2>1, <2>3
  <1>4. table!Heads(tab) = {q[k][1] : k \in {a \in DOMAIN q : q[a] # << >>}}
    BY ONLY <1>1, Zenon DEF table!Heads
  <1> QED
    BY <1>1, <1>2, <1>3, <1>4

LEMMA GoesTo ==
  ASSUME NEW M, NEW T, NEW lists, NEW m, NEW n, NEW M2, NEW N, AtEnd(M, T, lists, m, n, M2, N),
         NEW item
  PROVE  item \in table!Heads(TableOf(M, T)) <=>
           \E c \in 0 .. n - 1 : N.ptr[c] # NULL /\ item = Content(M, N.ptr[c]) /\ table!Goes(item, n) = c
  <1>1. /\ Given(M, T, lists, m, n) /\ SameItems(M, M2) /\ NewTable(M, T, n, N) /\ Arrived(lists, m, n, M2, N)
        /\ m \in Nat \ {0} /\ n \in Nat \ {0} /\ InMemory(M, T, m, lists)
    BY DEF AtEnd, Given
  <1>2. ASSUME NEW y \in DOMAIN M
        PROVE  table!Goes(Content(M, y), n) = Goal(M2, y, n) /\ Goal(M2, y, n) \in 0 .. n - 1 /\ y # NULL
    <2>1. M2[y].key = M[y].key /\ M[y].key \in Names /\ y # NULL
      BY <1>1, ItemNumbers DEF SameItems, InMemory, Cells
    <2>2. Content(M, y).key = M[y].key
      BY DEF Content
    <2>3. Goal(M2, y, n) \in 0 .. n - 1
      BY <1>1, <2>1, Hash DEF Goal
    <2>4. table!Goes(Content(M, y), n) = htab_hash_function(Content(M, y).key, n)
      BY SameHtab, Zenon DEF table!Goes
    <2> QED
      BY <2>1, <2>2, <2>3, <2>4 DEF Goal
  <1>3. item \in table!Heads(TableOf(M, T)) <=> \E a \in 0 .. m - 1 : lists[a] # << >> /\ item = Content(M, lists[a][1])
    BY <1>1, HeadsAre
  <1>4. ASSUME NEW a \in 0 .. m - 1, lists[a] # << >>, item = Content(M, lists[a][1])
        PROVE  \E c \in 0 .. n - 1 : N.ptr[c] # NULL /\ item = Content(M, N.ptr[c]) /\ table!Goes(item, n) = c
    <2>1. PICK y : y = lists[a][1] /\ y \in DOMAIN M
      BY <1>1, <1>4, FirstOfRow DEF FirstIs
    <2>2. Alone(M2, N, n, y)
      BY <1>1, <1>4, <2>1 DEF Arrived
    <2>3. PICK c : c = Goal(M2, y, n)
      OBVIOUS
    <2>4. c \in 0 .. n - 1 /\ y # NULL /\ table!Goes(item, n) = c
      BY <1>2, <1>4, <2>1, <2>3
    <2>5. N.ptr[c] = y
      BY <2>2, <2>3 DEF Alone
    <2> QED
      BY <1>4, <2>1, <2>4, <2>5
  <1>5. ASSUME NEW c \in 0 .. n - 1, N.ptr[c] # NULL, item = Content(M, N.ptr[c])
        PROVE  \E a \in 0 .. m - 1 : lists[a] # << >> /\ item = Content(M, lists[a][1])
    BY <1>5, NewPointer
  <1> QED
    BY <1>3, <1>4, <1>5

LEMMA HeadsInside ==
  ASSUME NEW M, NEW T, NEW lists, NEW m \in Nat \ {0}, InMemory(M, T, m, lists)
  PROVE  table!Heads(TableOf(M, T)) \subseteq table!Contents(TableOf(M, T))
  <1>1. PICK tab, q : tab = TableOf(M, T) /\ q = tab.ptr
    OBVIOUS
  <1>2. DOMAIN q = 0 .. m - 1 /\ \A b \in 0 .. m - 1 : q[b] \in Seq(Item)
    BY <1>1, InTable DEF Filled
  <1>3. ASSUME NEW b \in DOMAIN q, q[b] # << >> PROVE q[b][1] \in ToSet(q[b])
    <2>1. PICK e : e = q[b] /\ e \in Seq(Item) /\ e # << >>
      BY <1>2, <1>3
    <2>2. 1 \in DOMAIN e
      BY <2>1
    <2> QED
      BY <2>1, <2>2 DEF ToSet
  <1>4. table!Heads(tab) = {q[k][1] : k \in {a \in DOMAIN q : q[a] # << >>}}
    BY ONLY <1>1, Zenon DEF table!Heads
  <1>5. table!Contents(tab) = UNION {ToSet(q[k]) : k \in DOMAIN q}
    BY ONLY <1>1, SameLibrary, Zenon DEF table!Contents
  <1> QED
    BY <1>1, <1>3, <1>4, <1>5

(* A bucket of the new table holds what its pointer points to.             *)
LEMMA EndRow ==
  ASSUME NEW M, NEW T, NEW lists, NEW m, NEW n, NEW M2, NEW N, AtEnd(M, T, lists, m, n, M2, N),
         NEW c \in 0 .. n - 1
  PROVE  /\ N.ptr[c] = NULL => EntriesOf(M2, RowsOf(N, n)[c]) = << >>
         /\ N.ptr[c] # NULL => EntriesOf(M2, RowsOf(N, n)[c]) = << Content(M, N.ptr[c]) >>
  <1>1. SameItems(M, M2) /\ NewTable(M, T, n, N)
    BY DEF AtEnd
  <1>2. PICK r : r = RowsOf(N, n)[c]
    OBVIOUS
  <1>3. ASSUME N.ptr[c] = NULL PROVE EntriesOf(M2, r) = << >>
    <2>1. r = << >>
      BY <1>2, <1>3 DEF RowsOf
    <2> QED
      BY <2>1 DEF EntriesOf
  <1>4. ASSUME N.ptr[c] # NULL PROVE EntriesOf(M2, r) = << Content(M, N.ptr[c]) >>
    <2>1. PICK y, v : y = N.ptr[c] /\ v = Content(M, y) /\ y \in DOMAIN M
      BY <1>1, <1>4 DEF NewTable
    <2>2. r = << y >>
      BY <1>2, <1>4, <2>1 DEF RowsOf
    <2>3. v = [key |-> M2[y].key, data |-> M2[y].data]
      BY <1>1, <2>1 DEF SameItems, Content
    <2>4. PICK l : l = << y >>
      OBVIOUS
    <2>5. DOMAIN l = 1 .. 1 /\ l[1] = y
      BY <2>4
    <2>6. [k \in DOMAIN l |-> [key |-> M2[l[k]].key, data |-> M2[l[k]].data]] = << v >>
      BY ONLY <2>3, <2>5
    <2> QED
      BY ONLY <2>1, <2>2, <2>4, <2>6, Zenon DEF EntriesOf
  <1> QED
    BY <1>2, <1>3, <1>4

LEMMA EndKept ==
  ASSUME NEW M, NEW T, NEW lists, NEW m, NEW n, NEW M2, NEW N, AtEnd(M, T, lists, m, n, M2, N)
  PROVE  table!Kept(TableOf(M, T), n, TableOf(M2, N))
  <1>1. /\ Given(M, T, lists, m, n) /\ NewTable(M, T, n, N)
        /\ m \in Nat \ {0} /\ n \in Nat \ {0} /\ InMemory(M, T, m, lists)
    BY DEF AtEnd, Given
  <1>2. PICK rows, old, new, heads, q :
          /\ rows = RowsOf(N, n) /\ old = TableOf(M, T) /\ new = TableOf(M2, N)
          /\ heads = table!Heads(old) /\ q = new.ptr
    OBVIOUS
  <1>3. InMemory(M2, N, n, rows)
    BY <1>2, EndInMemory
  <1>4. old.size = T.size
    <2>1. old = [size |-> T.size, arr_size |-> m, ptr |-> [b \in 0 .. m - 1 |-> EntriesOf(M, lists[b])]]
      BY <1>1, <1>2, InTable
    <2> QED
      BY <2>1
  <1>5. /\ new.size = T.size /\ new.arr_size = n
        /\ DOMAIN q = 0 .. n - 1 /\ \A c \in 0 .. n - 1 : q[c] = EntriesOf(M2, rows[c])
    <2>1. new = [size |-> N.size, arr_size |-> n, ptr |-> [c \in 0 .. n - 1 |-> EntriesOf(M2, rows[c])]]
      BY <1>1, <1>2, <1>3, InTable
    <2>2. N.size = T.size
      BY <1>1 DEF NewTable, Record
    <2> QED
      BY <1>2, <2>1, <2>2
  <1>6. table!Contents(new) = UNION {ToSet(q[k]) : k \in DOMAIN q}
    BY ONLY <1>2, SameLibrary, Zenon DEF table!Contents
  <1>7. ASSUME NEW item \in heads PROVE item \in table!Contents(new)
    <2>1. PICK c \in 0 .. n - 1 : N.ptr[c] # NULL /\ item = Content(M, N.ptr[c])
      BY <1>2, GoesTo
    <2>2. q[c] = << item >>
      BY <1>2, <1>5, <2>1, EndRow
    <2>3. item \in ToSet(q[c])
      BY <2>2 DEF ToSet
    <2> QED
      BY <1>5, <1>6, <2>3
  <1>8. ASSUME NEW item \in table!Contents(new) PROVE item \in heads
    <2>1. PICK c \in 0 .. n - 1 : item \in ToSet(q[c])
      BY <1>5, <1>6
    <2>2. N.ptr[c] # NULL
      <3> SUFFICES ASSUME N.ptr[c] = NULL PROVE FALSE
        OBVIOUS
      <3>1. q[c] = << >>
        BY <1>2, <1>5, EndRow
      <3> QED
        BY <2>1, <3>1 DEF ToSet
    <2>3. PICK y, v : y = N.ptr[c] /\ v = Content(M, y)
      OBVIOUS
    <2>4. q[c] = << v >>
      BY <1>2, <1>5, <2>2, <2>3, EndRow
    <2>5. item = v
      BY <2>1, <2>4 DEF ToSet
    <2>6. \E a \in 0 .. m - 1 : lists[a] # << >> /\ y = lists[a][1]
      BY <2>2, <2>3, NewPointer
    <2> QED
      BY <1>1, <1>2, <2>3, <2>5, <2>6, HeadsAre
  <1>9. heads \subseteq table!Contents(old)
    BY <1>1, <1>2, HeadsInside
  <1>10. new.size = old.size /\ heads \subseteq table!Contents(new) /\ table!Contents(new) \subseteq table!Contents(old)
    BY <1>4, <1>5, <1>7, <1>8, <1>9
  <1> QED
    BY ONLY <1>2, <1>5, <1>10, Zenon DEF table!Kept

-----------------------------------------------------------------------------
(* The steps of the table, and the theorem.                                *)

Moving == \E M, T, lists, m, n :
  OnTheWay(M, T, lists, m, n, mem, t, moved, bucket, tmp) /\ before = TableOf(M, T) /\ call[2] = n
TableInv ==
  \/ itemsPc = "idle" /\ Stands(mem, t)
  \/ itemsPc = "move" /\ Moving
TableStep ==
  \A new \in {table!Table'} :
    /\ itemsPc = "idle" /\ itemsPc' = "idle" => << new, res' >> \in table!Results(call'[1], call'[2], table!Table)
    /\ itemsPc = "move" /\ itemsPc' = "idle" => table!Kept(before, call[2], new)
    /\ itemsPc' = "idle" => table!Sound(new)

LEMMA StepIs ==
  /\ CallDone => TableStep /\ TableInv'
  /\ itemsPc' # "idle" => TableStep
  <1>1. ASSUME CallDone PROVE TableStep /\ TableInv'
    <2>1. PICK M2, T2 : M2 = mem' /\ T2 = t'
      OBVIOUS
    <2>2. Stands(M2, T2)
      BY <1>1, <2>1 DEF CallDone
    <2>3. table!Sound(TableOf(M2, T2))
      BY <2>2, StandsSound
    <2>4. table!Sound(table!Table')
      BY ONLY <2>1, <2>3, TableIs, Zenon
    <2>5. << table!Table', res' >> \in table!Results(call'[1], call'[2], table!Table)
      BY ONLY <1>1, TableIs, Zenon DEF CallDone, Fits
    <2>6. itemsPc # "move"
      BY <1>1 DEF CallDone
    <2>7. TableStep
      BY ONLY <2>4, <2>5, <2>6, Zenon DEF TableStep
    <2>8. TableInv'
      BY <1>1 DEF CallDone, TableInv
    <2> QED
      BY <2>7, <2>8
  <1>2. ASSUME itemsPc' # "idle" PROVE TableStep
    BY ONLY <1>2, Zenon DEF TableStep
  <1> QED
    BY <1>1, <1>2

(* htab_move with memory for a new table.                                  *)
LEMMA MoveStarts ==
  ASSUME Stands(mem, t), table!Move, itemsPc' # "idle"
  PROVE  itemsPc' = "move" /\ Moving'
  <1>1. PICK n \in Sizes :
          /\ call' = << "move", n >> /\ mem' = mem /\ t' = t
          /\ moved' = [table!Empty(n) EXCEPT !.size = t.size]
          /\ bucket' = 0 /\ tmp' = t.ptr[0] /\ itemsPc' = "move" /\ before' = table!Table
    BY DEF table!Move, table!moving
  <1>2. PICK lists, m : m \in Sizes /\ InMemory(mem, t, m, lists) /\ Big(t, m, lists)
    BY DEF Stands
  <1>3. PICK M, T, N, x : M = mem /\ T = t /\ N = moved' /\ x = tmp'
    OBVIOUS
  <1>4. Given(M, T, lists, m, n)
    BY <1>2, <1>3, ItemNumbers DEF Given
  <1>5. m \in Nat \ {0} /\ n \in Nat \ {0} /\ 0 \in 0 .. m - 1
    BY <1>4 DEF Given
  <1>6. SameItems(M, M)
    BY <1>4 DEF Given, InMemory, SameItems
  <1>7. PICK q : q = [c \in 0 .. n - 1 |-> NULL]
    OBVIOUS
  <1>8. N = [size |-> T.size, arr_size |-> n, ptr |-> q]
    BY <1>1, <1>3, <1>7 DEF table!Empty
  <1>9. NewTable(M, T, n, N)
    <2>1. N.ptr = q
      BY <1>8
    <2> QED
      BY ONLY <1>7, <1>8, <2>1 DEF NewTable, Record
  <1>10. OldTable(T, m, 0, T)
    <2>1. T \in [size : Nat, arr_size : {m}, ptr : [0 .. m - 1 -> Items \cup {NULL}]]
      BY <1>4 DEF Given, InMemory
    <2> QED
      BY <1>5, <2>1 DEF OldTable, Record
  <1>11. Steady(T, lists, m, n, M, N, 0, x)
    <2>1. \A c \in 0 .. n - 1 : N.ptr[c] = NULL
      BY <1>7, <1>8
    <2>2. PlacedTo(lists, m, n, M, N, 0)
      BY <2>1 DEF PlacedTo
    <2>3. FirstIs(M, T, lists[0], m, 0)
      BY ONLY <1>4, <1>5, FirstOfRow
    <2>4. x = T.ptr[0]
      BY <1>1, <1>3
    <2>5. CASE x = NULL
      <3>1. lists[0] = << >>
        BY <2>3, <2>4, <2>5 DEF FirstIs
      <3>2. \A a \in 0 .. m - 1 : a < 0 + 1 => a = 0
        OBVIOUS
      <3>3. PlacedTo(lists, m, n, M, N, 0 + 1)
        BY <2>1, <3>1, <3>2 DEF PlacedTo
      <3> QED
        BY <2>5, <3>3 DEF Steady
    <2>6. CASE x # NULL
      BY <2>2, <2>4, <2>6 DEF Steady
    <2> QED
      BY <2>5, <2>6
  <1>12. OnTheWay(M, T, lists, m, n, M, T, N, 0, x)
    BY <1>4, <1>6, <1>9, <1>10, <1>11 DEF OnTheWay
  <1>13. OnTheWay(M, T, lists, m, n, mem', t', moved', bucket', tmp') /\ before' = TableOf(M, T) /\ call'[2] = n
    BY ONLY <1>1, <1>3, <1>12, TableIs
  <1> QED
    BY <1>1, <1>13 DEF Moving

LEMMA MoveItemStep ==
  ASSUME Moving, table!MoveItem
  PROVE  itemsPc' = itemsPc /\ Moving'
  <1>1. PICK M, T, lists, m, n :
          OnTheWay(M, T, lists, m, n, mem, t, moved, bucket, tmp) /\ before = TableOf(M, T) /\ call[2] = n
    BY DEF Moving
  <1>2. /\ tmp # NULL /\ t' = t /\ bucket' = bucket /\ itemsPc' = itemsPc /\ call' = call /\ before' = before
        /\ moved' = [moved EXCEPT !.ptr[table!htab_hash_function(mem[tmp].key, moved.arr_size)] = tmp]
        /\ mem' = [mem EXCEPT ![tmp].next = moved.ptr[table!htab_hash_function(mem[tmp].key, moved.arr_size)]]
        /\ tmp' = mem'[tmp].next
    BY DEF table!MoveItem
  <1>3. PICK M2, T2, N, b, x, M3, N3, x3 :
          /\ M2 = mem /\ T2 = t /\ N = moved /\ b = bucket /\ x = tmp
          /\ M3 = mem' /\ N3 = moved' /\ x3 = tmp'
    OBVIOUS
  <1>4. OnTheWay(M, T, lists, m, n, M2, T2, N, b, x) /\ x # NULL /\ x3 = M3[x].next
    BY <1>1, <1>2, <1>3
  <1>5. moved.arr_size = n
    BY <1>3, <1>4 DEF OnTheWay, NewTable, Record
  <1>6. table!htab_hash_function(mem[tmp].key, moved.arr_size) = Goal(M2, x, n)
    BY ONLY <1>3, <1>5, SameHtab, Zenon DEF Goal
  <1>7. Turned(M2, M3, N, N3, n, x)
    BY ONLY <1>2, <1>3, <1>6, Zenon DEF Turned
  <1>8. OnTheWay(M, T, lists, m, n, M3, T2, N3, b, x3)
    BY ONLY <1>4, <1>7, ItemMoves, Zenon
  <1>9. OnTheWay(M, T, lists, m, n, mem', t', moved', bucket', tmp') /\ before' = TableOf(M, T) /\ call'[2] = n
    BY ONLY <1>1, <1>2, <1>3, <1>8, Zenon
  <1> QED
    BY <1>2, <1>9 DEF Moving

LEMMA MoveBucketStep ==
  ASSUME Moving, table!MoveBucket, itemsPc' # "idle"
  PROVE  itemsPc' = itemsPc /\ Moving'
  <1>1. PICK M, T, lists, m, n :
          OnTheWay(M, T, lists, m, n, mem, t, moved, bucket, tmp) /\ before = TableOf(M, T) /\ call[2] = n
    BY DEF Moving
  <1>2. /\ tmp = NULL /\ bucket + 1 < t.arr_size /\ bucket' = bucket + 1 /\ tmp' = t.ptr[bucket']
        /\ t' = [t EXCEPT !.ptr[bucket] = NULL]
        /\ moved' = moved /\ mem' = mem /\ itemsPc' = itemsPc /\ call' = call /\ before' = before
    BY DEF table!MoveBucket
  <1>3. PICK M2, T2, N, b, T3, d, x3 :
          /\ M2 = mem /\ T2 = t /\ N = moved /\ b = bucket
          /\ T3 = t' /\ d = bucket' /\ x3 = tmp'
    OBVIOUS
  <1>4. OnTheWay(M, T, lists, m, n, M2, T2, N, b, NULL)
    BY ONLY <1>1, <1>2, <1>3, Zenon
  <1>5. d = b + 1 /\ d < m /\ x3 = T2.ptr[d] /\ T3 = [T2 EXCEPT !.ptr[b] = NULL]
    BY <1>2, <1>3, <1>4 DEF OnTheWay, OldTable
  <1>6. OnTheWay(M, T, lists, m, n, M2, T3, N, d, x3)
    BY ONLY <1>4, <1>5, BucketMoves
  <1>7. OnTheWay(M, T, lists, m, n, mem', t', moved', bucket', tmp') /\ before' = TableOf(M, T) /\ call'[2] = n
    BY ONLY <1>1, <1>2, <1>3, <1>6
  <1> QED
    BY <1>2, <1>7 DEF Moving

LEMMA MoveReturns ==
  ASSUME itemsPc = "move", Moving, table!MoveBucket, itemsPc' = "idle"
  PROVE  TableStep /\ TableInv'
  <1>1. PICK M, T, lists, m, n :
          OnTheWay(M, T, lists, m, n, mem, t, moved, bucket, tmp) /\ before = TableOf(M, T) /\ call[2] = n
    BY DEF Moving
  <1>2. tmp = NULL /\ bucket + 1 = t.arr_size /\ t' = moved /\ mem' = mem
    BY DEF table!MoveBucket
  <1>3. PICK M2, T2, N, b : M2 = mem /\ T2 = t /\ N = moved /\ b = bucket
    OBVIOUS
  <1>4. OnTheWay(M, T, lists, m, n, M2, T2, N, b, NULL)
    BY ONLY <1>1, <1>2, <1>3, Zenon
  <1>5. b + 1 = m
    BY <1>2, <1>3, <1>4 DEF OnTheWay, OldTable
  <1>6. AtEnd(M, T, lists, m, n, M2, N)
    BY ONLY <1>4, <1>5, LastBucket
  <1>7. InMemory(M2, N, n, RowsOf(N, n)) /\ Big(N, n, RowsOf(N, n)) /\ n \in Sizes
    BY <1>6, EndInMemory, EndBig DEF AtEnd, Given
  <1>8. Stands(M2, N)
    BY <1>7 DEF Stands
  <1>9. table!Sound(TableOf(M2, N)) /\ table!Kept(TableOf(M, T), n, TableOf(M2, N))
    BY <1>6, <1>8, StandsSound, EndKept
  <1>10. table!Table' = TableOf(M2, N)
    BY ONLY <1>2, <1>3, TableIs, Zenon
  <1>11. itemsPc # "idle"
    OBVIOUS
  <1>12. TableStep
    BY ONLY <1>1, <1>9, <1>10, <1>11, Zenon DEF TableStep
  <1>13. TableInv'
    BY ONLY <1>2, <1>3, <1>8, itemsPc' = "idle", Zenon DEF TableInv
  <1> QED
    BY <1>12, <1>13

LEMMA TableSteps ==
  ASSUME TableInv, table!Next
  PROVE  TableStep /\ TableInv'
  <1>1. CASE table!FindItem
    <2>1. Stands(mem, t)
      BY <1>1 DEF TableInv, table!FindItem, table!Calls
    <2> QED
      BY ONLY <1>1, <2>1, FindItemDone, StepIs
  <1>2. CASE table!LookupAdd
    <2>1. Stands(mem, t)
      BY <1>2 DEF TableInv, table!LookupAdd, table!Calls
    <2> QED
      BY ONLY <1>2, <2>1, LookupAddDone, StepIs
  <1>3. CASE table!RemoveKey
    <2>1. Stands(mem, t)
      BY <1>3 DEF TableInv, table!RemoveKey, table!Calls
    <2> QED
      BY ONLY <1>3, <2>1, RemoveKeyDone, StepIs
  <1>4. CASE table!Clear
    <2>1. Stands(mem, t)
      BY <1>4 DEF TableInv, table!Clear, table!Calls
    <2> QED
      BY ONLY <1>4, <2>1, ClearDone, StepIs
  <1>5. CASE table!Move
    <2>1. Stands(mem, t)
      BY <1>5 DEF TableInv, table!Move
    <2>2. CASE itemsPc' = "idle"
      BY ONLY <1>5, <2>1, <2>2, NotMovedDone, StepIs
    <2>3. CASE itemsPc' # "idle"
      <3>1. itemsPc' = "move" /\ Moving'
        BY ONLY <1>5, <2>1, <2>3, MoveStarts
      <3>2. TableInv'
        BY ONLY <3>1, Zenon DEF TableInv
      <3> QED
        BY ONLY <2>3, <3>2, StepIs
    <2> QED
      BY <2>2, <2>3
  <1>6. CASE table!MoveItem
    <2>1. itemsPc = "move" /\ Moving
      BY <1>6 DEF TableInv, table!MoveItem
    <2>2. itemsPc' = itemsPc /\ Moving'
      BY ONLY <1>6, <2>1, MoveItemStep
    <2>3. TableInv' /\ itemsPc' # "idle"
      BY ONLY <2>1, <2>2 DEF TableInv
    <2> QED
      BY ONLY <2>3, StepIs
  <1>7. CASE table!MoveBucket
    <2>1. itemsPc = "move" /\ Moving
      BY <1>7 DEF TableInv, table!MoveBucket
    <2>2. CASE itemsPc' = "idle"
      BY ONLY <1>7, <2>1, <2>2, MoveReturns
    <2>3. CASE itemsPc' # "idle"
      <3>1. itemsPc' = itemsPc /\ Moving'
        BY ONLY <1>7, <2>1, <2>3, MoveBucketStep
      <3>2. TableInv' /\ itemsPc' # "idle"
        BY ONLY <2>1, <3>1 DEF TableInv
      <3> QED
        BY ONLY <3>2, StepIs
    <2> QED
      BY <2>2, <2>3
  <1> QED
    BY <1>1, <1>2, <1>3, <1>4, <1>5, <1>6, <1>7 DEF table!Next

LEMMA TableInit ==
  ASSUME ProgramsInit
  PROVE  TableInv
  <1>1. /\ mem = << >> /\ itemsPc = "idle"
        /\ \E m \in Sizes : t = table!Empty(m)
    BY DEF ProgramsInit, table!Init
  <1>2. PICK m \in Sizes : t = table!Empty(m)
    BY <1>1
  <1>3. PICK M, T : M = mem /\ T = t
    OBVIOUS
  <1>4. Cells(M)
    BY <1>1, <1>3 DEF Cells
  <1>5. Stands(M, T)
    BY ONLY <1>2, <1>3, <1>4, EmptyStands
  <1> QED
    BY <1>1, <1>3, <1>5 DEF TableInv

(* A step of another program leaves the table alone.                       *)
LEMMA ProgramsSteps ==
  ASSUME TableInv, [ProgramsNext]_all
  PROVE  TableInv' /\ [TableStep]_table!vars
  <1>1. CASE table!Next
    BY ONLY <1>1, TableInv, TableSteps, Zenon
  <1>2. CASE UNCHANGED tableVars
    <2>1. table!vars' = table!vars
      BY ONLY <1>2 DEF tableVars, table!vars
    <2>2. /\ mem' = mem /\ t' = t /\ moved' = moved /\ bucket' = bucket /\ tmp' = tmp
          /\ itemsPc' = itemsPc /\ call' = call /\ before' = before
      BY ONLY <1>2 DEF tableVars
    <2>3. ASSUME itemsPc = "idle" /\ Stands(mem, t) PROVE TableInv'
      <3>1. PICK M, T : M = mem /\ T = t
        OBVIOUS
      <3>2. Stands(M, T)
        BY ONLY <2>3, <3>1, Zenon
      <3> QED
        BY ONLY <2>2, <2>3, <3>1, <3>2, Zenon DEF TableInv
    <2>4. ASSUME itemsPc = "move" /\ Moving PROVE TableInv'
      <3>1. Moving'
        BY ONLY <2>2, <2>4 DEF Moving
      <3> QED
        BY ONLY <2>2, <2>4, <3>1, Zenon DEF TableInv
    <2> QED
      BY <2>1, <2>3, <2>4 DEF TableInv
  <1> QED
    BY <1>1, <1>2 DEF ProgramsNext, Wordcounts, Tails, Tables, Sieves, Sniffs, all

(* Whatever the keys, their hash codes, the sizes and the addresses that   *)
(* malloc answers are, every call that returns has made of the linked      *)
(* items what the operator of Htab makes of its sequences, and htab_move   *)
(* leaves the first item of every bucket, and none that was not there.     *)
THEOREM TableImplementedHolds == Programs => TableImplemented
  <1>1. ProgramsInit => TableInv
    BY TableInit
  <1>2. TableInv /\ [ProgramsNext]_all => TableInv' /\ [TableStep]_table!vars
    BY ProgramsSteps
  <1> QED
    BY <1>1, <1>2, PTL DEF Programs, TableImplemented, table!TableImplemented, TableStep
=============================================================================
