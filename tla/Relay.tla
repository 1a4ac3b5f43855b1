------------------------------- MODULE Relay --------------------------------
(***************************************************************************)
(* The DHCPv6 relay of sem_5/isa/proj/d6r.cpp: a thread that sniffs on     *)
(* each interface and forwards what clients send, and a thread that        *)
(* receives the answers of the server and passes them to the clients.      *)
(* They share mac_addr_map and the limit on descriptors, without a lock.   *)
(*                                                                         *)
(* A client message is a number; sent[n] is the client it came from.  Its  *)
(* hardware address is the client itself.  Messages to and from the server *)
(* may be lost, duplicated and reordered: what was sent to the server      *)
(* stays in a set, and an answer to any of it may arrive at any time, any  *)
(* number of times or never.                                               *)
(*                                                                         *)
(* An operator with a suffixed name (SendUnbound, ...) is a slip the       *)
(* properties must notice.                                                 *)
(***************************************************************************)
EXTENDS Naturals, Sequences, Functions

CONSTANTS
  Ifaces,       \* interfaces_to_be_sniffed
  Clients,
  Address,      \* the link-local address of each client
  Link,         \* the interface each client is on
  None,
  MaxSent,      \* how many messages the clients send
  MaxAnswers,   \* how many answers the relay receives
  MaxFds,       \* how many descriptors may be opened beside those of the start
  MaxStarts     \* how often the relay is started

ASSUME RelayAssumption ==
  /\ DOMAIN Address = Clients /\ Link \in [Clients -> Ifaces]
  /\ None \notin Ifaces \cup Clients \cup Range(Address)
  /\ MaxSent \in Nat /\ MaxAnswers \in Nat /\ MaxFds \in Nat /\ MaxStarts \in Nat

VARIABLES
  sent,       \* the clients' messages
  captured,   \* the packets on each interface that its thread has still to handle
  toServer,   \* the relay-forward messages that were sent
  delivered,  \* what was sent to clients
  heard,      \* the messages whose address was converted since the start,
  met,        \*   the pairs of them converted at the same time,
  passed,     \*   and those that were forwarded since
  mac_addr_map,
  fds,        \* descriptors opened since the start and not closed
  raced,      \* two threads have been in mac_addr_map at the same time
  asc,        \* the static buffer of ether_ntoa(), None when nobody is to read it
  sniffer,    \* where the thread of each interface is
  packet,     \* what it is handling
  service,    \* where the thread of the server is
  reply,      \* what it is handling
  log,        \* the line it has logged for that, None when it has not
  answers, starts,
  status      \* "runs", or how the relay ended

world == << sent, toServer, delivered >>
history == << heard, met, passed >>
counts == << answers, starts >>
vars == << world, captured, history, mac_addr_map, fds, raced, asc, sniffer, packet, service, reply, log,
           counts, status >>

Init ==
  /\ sent = << >> /\ toServer = {} /\ delivered = {}
  /\ heard = {} /\ met = {} /\ passed = {}
  /\ captured = [i \in Ifaces |-> {}]
  /\ mac_addr_map = << >> /\ fds = 0 /\ raced = FALSE /\ asc = None
  /\ sniffer = [i \in Ifaces |-> "capture"] /\ packet = [i \in Ifaces |-> None]
  /\ service = "recvfrom" /\ reply = None /\ log = None
  /\ answers = 0 /\ starts = 1
  /\ status = "runs"

Peer(p) == IF p.type = "client" THEN Address[sent[p.n]] ELSE None
Mac(p) == IF p.type = "client" THEN sent[p.n] ELSE None

(* What a process has when it starts, and nobody has when it has ended.    *)
Fresh ==
  /\ captured' = [i \in Ifaces |-> {}]
  /\ heard' = {} /\ met' = {} /\ passed' = {}
  /\ mac_addr_map' = << >> /\ fds' = 0 /\ asc' = None
  /\ sniffer' = [i \in Ifaces |-> "capture"] /\ packet' = [i \in Ifaces |-> None]
  /\ service' = "recvfrom" /\ reply' = None /\ log' = None

(* err(1), or a crash.                                                     *)
Ends(how) ==
  /\ status' = how
  /\ Fresh
  /\ UNCHANGED << world, raced, counts >>

-----------------------------------------------------------------------------
(* handle_packet_from_client(), in the thread of interface i.              *)

Sniffs(i, from, to) ==
  /\ status = "runs"
  /\ sniffer[i] = from /\ sniffer' = [sniffer EXCEPT ![i] = to]

RelayedAll(p) == TRUE

Relayed(p) == p.type = "client"

(* ether_ntoa() writes the text of an address into asc, which all threads  *)
(* share, and the caller copies it.  When two of them do so at a time, one *)
(* may find the text of the other's, or one that is no address (None).     *)
Converting(i) == \E k \in Ifaces \ {i} : sniffer[k] = "insert"

Converted(i, p) ==
  /\ asc' \in {Mac(p)} \cup (IF Converting(i) THEN {None} ELSE {})
  /\ heard' = heard \cup {p.n}
  /\ LET others == {packet[k].n : k \in {k \in Ifaces \ {i} : sniffer[k] = "insert"}}
     IN  met' = met \cup ({p.n} \X others) \cup (others \X {p.n})

Copied(i) == IF asc = Mac(packet[i]) THEN {asc} ELSE {asc, None}

CaptureOne(i) == \E p \in captured[i] :
  /\ Sniffs(i, "capture", IF Relayed(p) THEN "insert" ELSE "capture")
  /\ captured' = [captured EXCEPT ![i] = {}]
  /\ packet' = [packet EXCEPT ![i] = IF Relayed(p) THEN p ELSE None]
  /\ IF Relayed(p) THEN Converted(i, p) ELSE UNCHANGED << asc, heard, met >>
  /\ UNCHANGED << world, passed, mac_addr_map, fds, raced, service, reply, log, counts, status >>

(* A packet on port 547; what is not a client's is passed over, above all  *)
(* the relay-forward messages of this relay itself.                        *)
Capture(i) == \E p \in captured[i] :
  /\ Sniffs(i, "capture", IF Relayed(p) THEN "insert" ELSE "capture")
  /\ captured' = [captured EXCEPT ![i] = @ \ {p}]
  /\ packet' = [packet EXCEPT ![i] = IF Relayed(p) THEN p ELSE None]
  /\ IF Relayed(p) THEN Converted(i, p) ELSE UNCHANGED << asc, heard, met >>
  /\ UNCHANGED << world, passed, mac_addr_map, fds, raced, service, reply, log, counts, status >>

InsertSkipped(i) ==
  /\ Sniffs(i, "insert", "socket")
  /\ UNCHANGED << world, captured, history, mac_addr_map, fds, raced, asc, packet, service, reply, log,
                  counts, status >>

(* mac_addr_map.insert is not atomic: two inserts, or an insert and the    *)
(* find of the other thread, may overlap.                                  *)
Insert(i) ==
  /\ Sniffs(i, "insert", "inserting")
  /\ raced' = (raced \/ service = "finding" \/ \E k \in Ifaces : sniffer[k] = "inserting")
  /\ \E mac \in Copied(i) : packet' = [packet EXCEPT ![i] = [type |-> @.type, n |-> @.n, mac |-> mac]]
  /\ asc' = IF Converting(i) THEN asc ELSE None
  /\ UNCHANGED << world, captured, history, mac_addr_map, fds, service, reply, log, counts, status >>

(* A key that is there already keeps its value.                            *)
With(peer, mac) ==
  [a \in DOMAIN mac_addr_map \cup {peer} |-> IF a \in DOMAIN mac_addr_map THEN mac_addr_map[a] ELSE mac]

Instead(peer, mac) ==
  [a \in DOMAIN mac_addr_map \cup {peer} |-> IF a = peer THEN mac ELSE mac_addr_map[a]]

(* A tree that was torn by two threads may have lost any of its entries,   *)
(* or have two of one key.                                                 *)
Torn(peer, mac) ==
  \E kept \in SUBSET (DOMAIN mac_addr_map \cup {peer}) :
    mac_addr_map' \in {Restrict(With(peer, mac), kept), Restrict(Instead(peer, mac), kept)}

(* In such a tree the thread may also turn in circles for ever, or crash.  *)
Inserted(i) ==
  \/ /\ Sniffs(i, "inserting", "socket")
     /\ \/ mac_addr_map' = With(Peer(packet[i]), packet[i].mac)
        \/ raced /\ Torn(Peer(packet[i]), packet[i].mac)
     /\ UNCHANGED << world, captured, history, fds, raced, asc, packet, service, reply, log, counts, status >>
  \/ /\ raced /\ Sniffs(i, "inserting", "hung")
     /\ UNCHANGED << world, captured, history, mac_addr_map, fds, raced, asc, packet, service, reply, log,
                     counts, status >>
  \/ status = "runs" /\ sniffer[i] = "inserting" /\ raced /\ Ends("crashed")

(* The socket is never closed.                                             *)
Socket(i) ==
  \/ /\ Sniffs(i, "socket", "sendto")
     /\ fds < MaxFds /\ fds' = fds + 1
     /\ UNCHANGED << world, captured, history, mac_addr_map, raced, asc, packet, service, reply, log,
                     counts, status >>
  \/ status = "runs" /\ sniffer[i] = "socket" /\ fds = MaxFds /\ Ends("socket")

(* The message may pass an interface that is sniffed, on its way.          *)
Forward(i) ==
  \/ /\ Sniffs(i, "sendto", "capture")
     /\ toServer' = toServer \cup
          {[type |-> packet[i].type, n |-> packet[i].n, peer |-> Peer(packet[i]), iface |-> i]}
     /\ \/ captured' = captured
        \/ \E k \in Ifaces :
             captured' = [captured EXCEPT ![k] = @ \cup {[type |-> "forward", n |-> packet[i].n]}]
     /\ packet' = [packet EXCEPT ![i] = None]
     /\ passed' = passed \cup {packet[i].n}
     /\ UNCHANGED << sent, delivered, heard, met, mac_addr_map, fds, raced, asc, service, reply, log,
                     counts, status >>
  \/ status = "runs" /\ sniffer[i] = "sendto" /\ Ends("sendto")

-----------------------------------------------------------------------------
(* server_service() and process_msg_from_server().                         *)

Serves(from, to) ==
  /\ status = "runs"
  /\ service = from /\ service' = to

Receives(m, to) ==
  /\ answers < MaxAnswers /\ answers' = answers + 1
  /\ Serves("recvfrom", to)
  /\ reply' = m
  /\ UNCHANGED << world, captured, history, mac_addr_map, fds, raced, asc, sniffer, packet, log, starts, status >>

(* Only a Reply with an address in it is logged.                           *)
Receive == \E f \in toServer, to \in {"find", "socket"} : \E iface \in {f.iface, None} :
  Receives([n |-> f.n, peer |-> f.peer, iface |-> iface], to)

(* What is not a relay-reply, or has none in it, ends the relay; so does a *)
(* reply that has no address (see Answer).                                 *)
Stray ==
  /\ status = "runs" /\ service = "recvfrom"
  /\ \E how \in {"stray", "no address"} : Ends(how)

Find ==
  /\ Serves("find", "finding")
  /\ raced' = (raced \/ \E i \in Ifaces : sniffer[i] = "inserting")
  /\ UNCHANGED << world, captured, history, mac_addr_map, fds, asc, sniffer, packet, reply, log, counts, status >>

(* find(peer)->second is used whether it was found or not; a search of a   *)
(* torn tree may miss what is there, or never end.                         *)
Found ==
  \/ /\ Serves("finding", "socket")
     /\ \/ /\ reply.peer \in DOMAIN mac_addr_map
           /\ log' = [n |-> reply.n, mac |-> mac_addr_map[reply.peer]]
        \/ /\ raced \/ reply.peer \notin DOMAIN mac_addr_map
           /\ log' = [n |-> reply.n, mac |-> None]
     /\ UNCHANGED << world, captured, history, mac_addr_map, fds, raced, asc, sniffer, packet, reply,
                     counts, status >>
  \/ /\ raced /\ Serves("finding", "hung")
     /\ UNCHANGED << world, captured, history, mac_addr_map, fds, raced, asc, sniffer, packet, reply, log,
                     counts, status >>
  \/ /\ status = "runs" /\ service = "finding"
     /\ raced \/ reply.peer \notin DOMAIN mac_addr_map
     /\ Ends("crashed")

ServiceSocket ==
  \/ /\ Serves("socket", "sendto")
     /\ fds < MaxFds /\ fds' = fds + 1
     /\ UNCHANGED << world, captured, history, mac_addr_map, raced, asc, sniffer, packet, reply, log,
                     counts, status >>
  \/ status = "runs" /\ service = "socket" /\ fds = MaxFds /\ Ends("socket")

Deliver(iface, left) ==
  /\ Serves("sendto", "recvfrom")
  /\ delivered' = delivered \cup {[n |-> reply.n, peer |-> reply.peer, iface |-> iface]}
  /\ fds' = left
  /\ reply' = None /\ log' = None
  /\ UNCHANGED << sent, toServer, captured, history, mac_addr_map, raced, asc, sniffer, packet, counts, status >>

SendUnbound == \E i \in Ifaces : service = "sendto" /\ Deliver(i, fds - 1)

SendOpen == service = "sendto" /\ reply.iface # None /\ Deliver(reply.iface, fds)

(* The socket is bound to the interface the answer names; without one, a   *)
(* link-local address cannot be reached.                                   *)
Send ==
  \/ service = "sendto" /\ reply.iface # None /\ Deliver(reply.iface, fds - 1)
  \/ service = "sendto" /\ status = "runs" /\ reply.iface = None /\ Ends("sendto")

-----------------------------------------------------------------------------
(* The clients, and the operator.                                          *)

ClientSends == \E c \in Clients :
  /\ Len(sent) < MaxSent
  /\ sent' = Append(sent, c)
  /\ captured' = IF status = "runs"
                   THEN [captured EXCEPT ![Link[c]] = @ \cup {[type |-> "client", n |-> Len(sent')]}]
                   ELSE captured
  /\ UNCHANGED << toServer, delivered, history, mac_addr_map, fds, raced, asc, sniffer, packet, service,
                  reply, log, counts, status >>

(* The relay, killed or ended, is started again.                           *)
Restart ==
  /\ starts < MaxStarts /\ starts' = starts + 1
  /\ Fresh
  /\ raced' = FALSE /\ status' = "runs"
  /\ UNCHANGED << world, answers >>

(* A thread that sniffs; the other one, once it has received something.    *)
Sniffing(i) == Capture(i) \/ Insert(i) \/ Inserted(i) \/ Socket(i) \/ Forward(i)
Serving == Find \/ Found \/ ServiceSocket \/ Send

Next == (\E i \in Ifaces : Sniffing(i)) \/ Receive \/ Stray \/ Serving \/ ClientSends \/ Restart

Spec == Init /\ [][Next]_vars

-----------------------------------------------------------------------------
TypeOK ==
  /\ sent \in Seq(Clients) /\ Len(sent) <= MaxSent
  /\ \A i \in Ifaces : captured[i] \subseteq [type : {"client", "forward"}, n : DOMAIN sent]
  /\ toServer \subseteq [type : {"client", "forward"}, n : DOMAIN sent, peer : Range(Address), iface : Ifaces]
  /\ \A d \in delivered : d.n \in DOMAIN sent /\ d.iface \in Ifaces
  /\ heard \subseteq DOMAIN sent /\ met \subseteq heard \X heard /\ passed \subseteq heard
  /\ DOMAIN mac_addr_map \subseteq Range(Address) /\ Range(mac_addr_map) \subseteq Clients \cup {None}
  /\ asc \in Clients \cup {None}
  /\ fds \in 0 .. MaxFds
  /\ sniffer \in [Ifaces -> {"capture", "insert", "inserting", "hung", "socket", "sendto"}]
  /\ service \in {"recvfrom", "find", "finding", "hung", "socket", "sendto"}
  /\ status \in {"runs", "crashed", "socket", "sendto", "stray", "no address"}

(* What is sent to a client answers a message of a client with that        *)
(* address on that link, and goes out on it, also when the same link-local *)
(* address is in use on two links, and whatever became of the relay since; *)
(* and what is sent to the server is a client's, with the link it was      *)
(* heard on: the relay sees its own messages too, and would otherwise      *)
(* forward one for ever.                                                   *)
Delivery ==
  /\ TypeOK
  /\ \A d \in delivered : LET c == sent[d.n] IN d.peer = Address[c] /\ d.iface = Link[c]
  /\ \A f \in toServer : f.type = "client" /\ f.iface = Link[sent[f.n]]

(* A line of the log, about an answer for an address, names a client that  *)
(* has that address and was heard since the start.  When its message was   *)
(* converted at the same time as another, the line may name the client of  *)
(* that other one, or none.  It also names none when two threads have met  *)
(* in the map, or when no message from that address was forwarded since    *)
(* the start: the answer is for one that was forwarded before a restart.   *)
Truthful(line) ==
  LET alike == {m \in heard : Address[sent[m]] = Address[sent[line.n]]}
      beside == {k \in heard : \E m \in alike : << m, k >> \in met}
  IN  \/ \E m \in alike \cup beside : line.mac = sent[m]
      \/ line.mac = None /\ (beside # {} \/ raced \/ alike \cap passed = {})

LogTruth == [][log' # log => log' = None \/ Truthful(log')]_vars

(* As long as it is neither restarted nor two threads meet in the map, the *)
(* relay knows every client an answer is for, and no thread hangs; and     *)
(* only the messages of clients use up its descriptors, one each.          *)
EndReasons ==
  /\ status = "crashed" => raced \/ starts > 1
  /\ status = "socket" => Len(sent) >= MaxFds
  /\ service = "hung" \/ (\E i \in Ifaces : sniffer[i] = "hung") => raced

(* A message of a client that has reached the relay is forwarded, and the  *)
(* thread that serves answers comes back for the next one, unless the      *)
(* relay ends or is started again, or that very thread hangs in the map:   *)
(* no thread waits for another.  This is said of the last start; an        *)
(* earlier one does no more than one that follows it at once.              *)
Since == status = "runs" /\ starts = MaxStarts

Hears(n) == \E i \in Ifaces : [type |-> "client", n |-> n] \in captured[i]
Stuck(n) == n \in DOMAIN sent /\ sniffer[Link[sent[n]]] = "hung"

Forwarded ==
  /\ \A n \in 1 .. MaxSent :
       (Since /\ Hears(n)) ~> (~ Since \/ Stuck(n) \/ \E f \in toServer : f.n = n)
  /\ Since ~> (~ Since \/ service \in {"recvfrom", "hung"})
=============================================================================
