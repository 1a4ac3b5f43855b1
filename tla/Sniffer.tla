------------------------------- MODULE Sniffer ------------------------------
(***************************************************************************)
(* sem_6/ipk/proj2/ipk-sniffer.cpp: main() builds a filter from the        *)
(* arguments, and libpcap calls packet_handler() with every packet that    *)
(* passes it.  The text shown for a packet is abstracted to its position   *)
(* among those captured, the addresses and the port in it.                 *)
(*                                                                         *)
(* An operator with a suffixed name (add_port_if_neededFirst) is a slip    *)
(* the properties must notice.                                             *)
(***************************************************************************)
EXTENDS Integers, Sequences, FiniteSets

CONSTANTS
  Packets,      \* the packets on the interface: net, transport, src, dst and port
  Arguments,    \* interface, num, port, isTcp, isUdp
  None,         \* an argument that is not given, a packet without transport
  INT_MAX,
  MaxCaptured   \* how many packets are captured

(* Assumed of the constants, by the module that instantiates this one.    *)
SnifferAssumption ==
  /\ INT_MAX \in Nat \ {0} /\ MaxCaptured \in Nat
  /\ \A a \in Arguments :
       /\ DOMAIN a = {"interface", "num", "port", "isTcp", "isUdp"}
       /\ a.num = None \/ a.num \in 1 .. INT_MAX
  /\ None \notin {"tcp", "udp"}
  /\ \A p \in Packets : p.transport # None => p.net \in {"ip", "ip6"}

VARIABLES args_cli, filter, captured, packet_counter, shown, pc

vars == << args_cli, filter, captured, packet_counter, shown, pc >>

-----------------------------------------------------------------------------
(* The filter: a sequence of alternatives, each a protocol and a port.     *)

Ported(alternatives, port) ==
  IF alternatives = << >> THEN << [proto |-> None, port |-> port] >>
  ELSE [alternatives EXCEPT ![Len(alternatives)].port = port]

add_port_if_neededFirst(args, alternatives) ==
  IF args.port # None /\ Len(alternatives) < 2 THEN Ported(alternatives, args.port) ELSE alternatives

add_port_if_needed(args, alternatives) ==
  IF args.port # None THEN Ported(alternatives, args.port) ELSE alternatives

Alternative(proto) == << [proto |-> proto, port |-> None] >>

add_udp_if_needed(args, alternatives) ==
  IF args.isUdp THEN add_port_if_needed(args, alternatives \o Alternative("udp")) ELSE alternatives

add_tcp_if_needed(args, alternatives) ==
  IF args.isTcp THEN add_port_if_needed(args, alternatives \o Alternative("tcp")) ELSE alternatives

build_filter(args) ==
  LET both == add_tcp_if_needed(args, add_udp_if_needed(args, << >>))
  IN  IF ~ args.isTcp /\ ~ args.isUdp THEN add_port_if_needed(args, both) ELSE both

(* libpcap: no filter lets everything pass; "port" alone is of any         *)
(* transport that has ports.                                               *)
Passes(p, alternatives) ==
  \/ alternatives = << >>
  \/ \E k \in DOMAIN alternatives : LET a == alternatives[k] IN
       /\ p.transport # None
       /\ a.proto \in {None, p.transport}
       /\ a.port \in {None, p.port}

-----------------------------------------------------------------------------
Init ==
  /\ args_cli \in Arguments
  /\ filter = << >> /\ captured = << >> /\ packet_counter = 0 /\ shown = << >>
  /\ pc = "start"

(* Without an interface those that there are are listed.                   *)
Start ==
  /\ pc = "start"
  /\ args_cli' = [args_cli EXCEPT !.num = IF @ = None THEN 1 ELSE @]
  /\ \/ args_cli.interface = None /\ pc' = "listed" /\ UNCHANGED filter
     \/ args_cli.interface # None /\ pc' = "pcap_loop" /\ filter' = build_filter(args_cli)
  /\ UNCHANGED << captured, packet_counter, shown >>

(* packet_counter++ of an int that wraps.                                  *)
Incremented(n) == IF n = INT_MAX THEN - INT_MAX - 1 ELSE n + 1

(* In an IPv6 packet the ports are read 1600 octets behind the header:     *)
(* ip6_h + IP6_HDRLEN counts in headers.                                   *)
PortRead(p) == IF p.net = "ip" THEN {p.port} ELSE {q.port : q \in Packets}

(* inet_ntoa() answers the same buffer for both addresses of an IPv4       *)
(* packet, and the two calls are made in either order.                     *)
Addresses(p) ==
  IF p.net = "ip" THEN {<< a, a >> : a \in {p.src, p.dst}} ELSE {<< p.src, p.dst >>}

packet_handler(p) ==
  /\ packet_counter' = Incremented(packet_counter)
  /\ IF args_cli.num >= packet_counter' /\ p.net \in {"ip", "ip6"} /\ p.transport \in {"tcp", "udp"}
       THEN \E port \in PortRead(p), hosts \in Addresses(p) :
              shown' = Append(shown, [at |-> Len(captured'), hosts |-> hosts, port |-> port])
       ELSE shown' = shown

(* pcap_loop(handle, -1, ...) does not end.                                *)
Capture == \E p \in Packets :
  /\ pc = "pcap_loop" /\ Len(captured) < MaxCaptured
  /\ Passes(p, filter)
  /\ captured' = Append(captured, p)
  /\ packet_handler(p)
  /\ UNCHANGED << args_cli, filter, pc >>

Next == Start \/ Capture

Spec == Init /\ [][Next]_vars

-----------------------------------------------------------------------------
TypeOK ==
  /\ pc \in {"start", "listed", "pcap_loop"}
  /\ packet_counter \in - INT_MAX - 1 .. INT_MAX
  /\ Len(shown) <= Len(captured) /\ Len(captured) <= MaxCaptured

Known(p) == p.transport \in {"tcp", "udp"}

(* A packet the arguments ask for.                                         *)
Wanted(p) ==
  /\ args_cli.isTcp \/ args_cli.isUdp =>
       (args_cli.isTcp /\ p.transport = "tcp") \/ (args_cli.isUdp /\ p.transport = "udp")
  /\ args_cli.port \in {None, p.port}

(* A line of the output tells the truth of packet p: an IPv4 packet is     *)
(* shown with its own port and no address but its two (inet_ntoa() answers *)
(* one of them twice), an IPv6 packet with its own two addresses.          *)
Truthful(line, p) ==
  \/ p.net = "ip" /\ line.port = p.port /\ {line.hosts[1], line.hosts[2]} \subseteq {p.src, p.dst}
  \/ p.net = "ip6" /\ line.hosts = << p.src, p.dst >>

(* Of the TCP and UDP packets the filter lets just those pass that the     *)
(* arguments ask for.  What is shown are such packets, in their order and  *)
(* each once, with what is theirs; none of the first num that pass is left *)
(* out, and no more than num are shown before the counter wraps.           *)
PacketsShown ==
  /\ TypeOK
  /\ pc = "pcap_loop" =>
       /\ \A p \in Packets : Known(p) => (Passes(p, filter) <=> Wanted(p))
       /\ \A k, l \in DOMAIN shown : k < l => shown[k].at < shown[l].at
       /\ \A k \in DOMAIN shown :
            /\ shown[k].at \in DOMAIN captured /\ Known(captured[shown[k].at])
            /\ Truthful(shown[k], captured[shown[k].at])
       /\ \A j \in DOMAIN captured :
            Known(captured[j]) /\ j <= args_cli.num => \E k \in DOMAIN shown : shown[k].at = j
       /\ Len(captured) <= INT_MAX => Len(shown) <= args_cli.num

(* What README.md:21 says: -n is the number of displayed packets, so as    *)
(* long as no more than num have come, all of them are displayed.          *)
Displayed ==
  LET known == Cardinality({k \in DOMAIN captured : Known(captured[k])})
  IN  pc = "pcap_loop" /\ known <= args_cli.num => Len(shown) = known
=============================================================================
