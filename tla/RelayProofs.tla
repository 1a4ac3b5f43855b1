----------------------------- MODULE RelayProofs ----------------------------
(* Theorems about Relay, for every number of interfaces and clients.       *)
EXTENDS Relay, SequenceTheorems, FiniteSetTheorems, TLAPS

(* What the relay holds of a client's message agrees with who sent it, and *)
(* with the link it was heard on.                                          *)
Heard(n, i) == n \in DOMAIN sent /\ Link[sent[n]] = i
Answered(n, peer, iface) ==
  n \in DOMAIN sent /\ peer = Address[sent[n]] /\ iface \in {None, Link[sent[n]]}

Packets == [type : {"client", "forward"}, n : DOMAIN sent]

Memory ==
  /\ sent \in Seq(Clients) /\ Len(sent) <= MaxSent
  /\ DOMAIN mac_addr_map \subseteq Range(Address)
  /\ \A peer \in DOMAIN mac_addr_map : mac_addr_map[peer] \in Clients \cup {None}
  /\ asc \in Clients \cup {None}
  /\ fds \in 0 .. MaxFds /\ (service = "sendto" => fds > 0)
  /\ sniffer \in [Ifaces -> {"capture", "insert", "inserting", "hung", "socket", "sendto"}]
  /\ service \in {"recvfrom", "find", "finding", "hung", "socket", "sendto"}
  /\ status \in {"runs", "crashed", "socket", "sendto", "stray", "no address"}

Heads ==
  /\ captured \in [Ifaces -> SUBSET Packets]
  /\ \A i \in Ifaces : \A p \in captured[i] : p.type = "client" => Heard(p.n, i)

Handled ==
  /\ DOMAIN packet = Ifaces
  /\ \A i \in Ifaces : sniffer[i] # "capture" => packet[i].type = "client" /\ Heard(packet[i].n, i)
  /\ \A i \in Ifaces : sniffer[i] = "inserting" => packet[i].mac \in Clients \cup {None}

Forwards ==
  /\ toServer \subseteq [type : {"client"}, n : DOMAIN sent, peer : Range(Address), iface : Ifaces]
  /\ \A f \in toServer : f.peer = Address[sent[f.n]] /\ f.iface = Link[sent[f.n]]

Replies ==
  /\ service # "recvfrom" => Answered(reply.n, reply.peer, reply.iface)
  /\ \A d \in delivered : Answered(d.n, d.peer, d.iface) /\ d.iface # None

(* What is recorded of the messages since the start.                       *)
Told ==
  /\ heard \subseteq DOMAIN sent /\ met \subseteq heard \X heard /\ passed \subseteq heard
  /\ \A i \in Ifaces : sniffer[i] # "capture" => packet[i].n \in heard

IInv == Memory /\ Heads /\ Handled /\ Forwards /\ Replies /\ Told

USE RelayAssumption

LEMMA Senders ==
  ASSUME sent \in Seq(Clients), NEW n \in DOMAIN sent
  PROVE  /\ sent[n] \in Clients
         /\ Link[sent[n]] \in Ifaces
         /\ Address[sent[n]] \in Range(Address)
<1>1. sent[n] \in Clients
  BY ElementOfSeq
<1> QED
  BY <1>1 DEF Range

LEMMA InvDelivery == IInv => Delivery
<1> SUFFICES ASSUME IInv PROVE Delivery
  OBVIOUS
<1>1. TypeOK
  <2>1. Range(mac_addr_map) \subseteq Clients \cup {None}
    BY DEF IInv, Memory, Range
  <2>2. \A i \in Ifaces : captured[i] \subseteq [type : {"client", "forward"}, n : DOMAIN sent]
    BY DEF IInv, Heads, Packets
  <2>3. toServer \subseteq [type : {"client", "forward"}, n : DOMAIN sent, peer : Range(Address), iface : Ifaces]
    BY DEF IInv, Forwards
  <2>4. \A d \in delivered : d.n \in DOMAIN sent /\ d.iface \in Ifaces
    <3> SUFFICES ASSUME NEW d \in delivered PROVE d.n \in DOMAIN sent /\ d.iface \in Ifaces
      OBVIOUS
    <3>1. d.n \in DOMAIN sent /\ d.iface = Link[sent[d.n]]
      BY DEF IInv, Replies, Answered
    <3>2. sent[d.n] \in Clients
      BY <3>1, Senders DEF IInv, Memory
    <3> QED
      BY <3>1, <3>2
  <2> QED
    BY <2>1, <2>2, <2>3, <2>4 DEF IInv, Memory, Told, TypeOK
<1>2. \A d \in delivered : d.peer = Address[sent[d.n]] /\ d.iface = Link[sent[d.n]]
  BY DEF IInv, Replies, Answered
<1>3. \A f \in toServer : f.type = "client" /\ f.iface = Link[sent[f.n]]
  BY DEF IInv, Forwards
<1> QED
  BY <1>1, <1>2, <1>3 DEF Delivery

LEMMA InitIInv == Init => IInv
<1> SUFFICES ASSUME Init PROVE IInv
  OBVIOUS
<1>1. Memory
  BY EmptySeq DEF Init, Memory
<1>2. Heads
  BY DEF Init, Heads
<1>3. Handled
  BY DEF Init, Handled
<1>4. Forwards /\ Replies
  BY DEF Init, Forwards, Replies
<1>5. Told
  BY DEF Init, Told
<1> QED
  BY <1>1, <1>2, <1>3, <1>4, <1>5 DEF IInv

LEMMA FreshMemory ==
  ASSUME Fresh
  PROVE  /\ DOMAIN mac_addr_map' = {} /\ asc' = None
         /\ fds' \in 0 .. MaxFds
         /\ sniffer' \in [Ifaces -> {"capture"}] /\ service' = "recvfrom"
<1>1. fds' \in 0 .. MaxFds
  BY DEF Fresh
<1>2. DOMAIN mac_addr_map' = {}
  BY DEF Fresh
<1> QED
  BY <1>1, <1>2 DEF Fresh

(* A process that starts, or has ended, holds nothing that could be wrong. *)
LEMMA FreshStep ==
  ASSUME IInv, Fresh, UNCHANGED world,
         status' \in {"runs", "crashed", "socket", "sendto", "stray", "no address"}
  PROVE  IInv'
<1>1. Memory'
  <2>1. sent' = sent
    BY DEF world
  <2> QED
    BY <2>1, FreshMemory DEF IInv, Memory
<1>2. Heads'
  BY DEF Heads, Fresh
<1>3. Handled'
  BY DEF Handled, Fresh
<1>4. Forwards'
  BY DEF IInv, Forwards, world
<1>5. Replies'
  BY DEF IInv, Replies, Answered, Fresh, world
<1>6. Told'
  BY DEF Told, Fresh
<1> QED
  BY <1>1, <1>2, <1>3, <1>4, <1>5, <1>6 DEF IInv

LEMMA EndsStep ==
  ASSUME IInv, NEW how \in {"crashed", "socket", "sendto", "stray", "no address"}, Ends(how)
  PROVE  IInv'
BY FreshStep DEF Ends

(* What was sent stays what it was.                                        *)
LEMMA ClientSendsStep == ASSUME IInv, ClientSends PROVE IInv'
<1> PICK c \in Clients : 
      /\ Len(sent) < MaxSent
      /\ sent' = Append(sent, c)
      /\ captured' = IF status = "runs"
                       THEN [captured EXCEPT ![Link[c]] = @ \cup {[type |-> "client", n |-> Len(sent')]}]
                       ELSE captured
  BY DEF ClientSends
<1> PICK new : new = Len(sent')
  OBVIOUS
<1>1. /\ sent' \in Seq(Clients) /\ new = Len(sent) + 1 /\ Len(sent) \in Nat
      /\ DOMAIN sent' = DOMAIN sent \cup {new}
      /\ sent'[new] = c
      /\ \A n \in DOMAIN sent : sent'[n] = sent[n]
  <2>1. sent \in Seq(Clients)
    BY DEF IInv, Memory
  <2> QED
    BY <2>1, AppendProperties, LenProperties
<1>2. \A n, i : Heard(n, i) => Heard(n, i)'
  BY <1>1 DEF Heard
<1>3. \A n, peer, iface : Answered(n, peer, iface) => Answered(n, peer, iface)'
  BY <1>1 DEF Answered
<1>4. Memory'
  <2>1. Len(sent') <= MaxSent
    BY <1>1
  <2>2. UNCHANGED << mac_addr_map, asc, fds, sniffer, service, status >>
    BY DEF ClientSends
  <2> QED
    BY <1>1, <2>1, <2>2 DEF IInv, Memory
<1>5. Heads'
  <2>1. Packets \subseteq Packets'
    BY <1>1 DEF Packets
  <2>2. [type |-> "client", n |-> new] \in Packets'
    BY <1>1 DEF Packets
  <2>3. captured' \in [Ifaces -> SUBSET Packets']
    BY <2>1, <2>2 DEF IInv, Heads
  <2>4. Heard(new, Link[c])'
    BY <1>1 DEF Heard
  <2>5. ASSUME NEW i \in Ifaces, NEW p \in captured'[i], p.type = "client" PROVE Heard(p.n, i)'
    <3>1. CASE p \in captured[i]
      <4>1. Heard(p.n, i)
        BY <3>1, <2>5 DEF IInv, Heads
      <4> QED
        BY <4>1, <1>2
    <3>2. CASE p \notin captured[i]
      <4>1. p = [type |-> "client", n |-> new] /\ i = Link[c]
        BY <3>2, <2>5 DEF IInv, Heads
      <4> QED
        BY <4>1, <2>4
    <3> QED
      BY <3>1, <3>2
  <2> QED
    BY <2>3, <2>5 DEF Heads, Packets
<1>6. Handled'
  BY <1>2 DEF IInv, Handled, ClientSends
<1>7. Forwards'
  BY <1>1 DEF IInv, Forwards, ClientSends
<1>8. Replies'
  BY <1>3 DEF IInv, Replies, ClientSends
<1>9. Told'
  BY <1>1 DEF IInv, Told, ClientSends, history
<1> QED
  BY <1>4, <1>5, <1>6, <1>7, <1>8, <1>9 DEF IInv

(* The steps of a thread that sniffs, but for those that end the relay.    *)
LEMMA CaptureStep == ASSUME IInv, NEW i \in Ifaces, Capture(i) PROVE IInv'
<1> PICK p \in captured[i] :
      /\ Sniffs(i, "capture", IF Relayed(p) THEN "insert" ELSE "capture")
      /\ captured' = [captured EXCEPT ![i] = @ \ {p}]
      /\ packet' = [packet EXCEPT ![i] = IF Relayed(p) THEN p ELSE None]
      /\ IF Relayed(p) THEN Converted(i, p) ELSE UNCHANGED << asc, heard, met >>
      /\ UNCHANGED << world, passed, mac_addr_map, fds, raced, service, reply, log, counts, status >>
  BY DEF Capture
<1> USE DEF world, Sniffs
<1>1. Relayed(p) => p.type = "client" /\ Heard(p.n, i)
  BY DEF IInv, Heads, Relayed
<1>2. asc' \in Clients \cup {None}
  <2>1. CASE Relayed(p)
    <3>1. Mac(p) \in Clients
      BY <2>1, <1>1, Senders DEF Mac, Heard, IInv, Memory
    <3> QED
      BY <2>1, <3>1 DEF Converted
  <2> QED
    BY <2>1 DEF IInv, Memory
<1>3. Memory'
  BY <1>2 DEF IInv, Memory
<1>4. Heads'
  BY DEF IInv, Heads, Packets, Heard
<1>5. Handled'
  BY <1>1 DEF IInv, Handled, Heard, Memory
<1>6. Forwards' /\ Replies'
  BY DEF IInv, Forwards, Replies, Answered
<1>7. Told'
  <2>1. DOMAIN sniffer = Ifaces /\ DOMAIN packet = Ifaces
    BY DEF IInv, Memory, Handled
  <2>2. CASE ~ Relayed(p)
    BY <2>1, <2>2 DEF IInv, Told
  <2>3. CASE Relayed(p)
    <3> DEFINE others == {packet[k].n : k \in {k \in Ifaces \ {i} : sniffer[k] = "insert"}}
    <3>1. p.n \in DOMAIN sent
      BY <2>3, <1>1 DEF Heard
    <3>2. others \subseteq heard
      BY DEF IInv, Told
    <3>3. heard' = heard \cup {p.n} /\ met' = met \cup ({p.n} \X others) \cup (others \X {p.n})
      BY <2>3 DEF Converted
    <3>4. met' \subseteq heard' \X heard'
      <4> HIDE DEF others
      <4> QED
        BY <3>2, <3>3 DEF IInv, Told
    <3>5. \A k \in Ifaces : sniffer'[k] # "capture" => packet'[k].n \in heard'
      BY <2>1, <2>3, <3>3 DEF IInv, Told
    <3> QED
      BY <3>1, <3>3, <3>4, <3>5 DEF IInv, Told
  <2> QED
    BY <2>2, <2>3
<1> QED
  BY <1>3, <1>4, <1>5, <1>6, <1>7 DEF IInv

LEMMA InsertStep == ASSUME IInv, NEW i \in Ifaces, Insert(i) PROVE IInv'
<1> USE DEF Insert, world, history, Sniffs
<1>1. packet[i].type = "client" /\ Heard(packet[i].n, i)
  BY DEF IInv, Handled
<1>2. PICK mac \in Copied(i) : packet' = [packet EXCEPT ![i] = [type |-> @.type, n |-> @.n, mac |-> mac]]
  OBVIOUS
<1>3. mac \in Clients \cup {None}
  BY DEF IInv, Memory, Copied
<1>4. Memory'
  BY DEF IInv, Memory
<1>5. Heads'
  BY DEF IInv, Heads, Packets, Heard
<1>6. Handled'
  BY <1>1, <1>2, <1>3 DEF IInv, Handled, Heard, Memory
<1>7. Forwards' /\ Replies'
  BY DEF IInv, Forwards, Replies, Answered
<1>8. Told'
  BY <1>2 DEF IInv, Told, Memory, Handled
<1> QED
  BY <1>4, <1>5, <1>6, <1>7, <1>8 DEF IInv

(* What an insert may leave in the map, be it whole or torn: what was in   *)
(* it, and the entry of the peer.                                          *)
Enters(peer, mac) ==
  /\ DOMAIN mac_addr_map' \subseteq DOMAIN mac_addr_map \cup {peer}
  /\ \A a \in DOMAIN mac_addr_map' :
       \/ a = peer /\ mac_addr_map'[a] = mac
       \/ a \in DOMAIN mac_addr_map /\ mac_addr_map'[a] = mac_addr_map[a]

LEMMA Inserts ==
  ASSUME NEW i \in Ifaces, Inserted(i), ~ Ends("crashed")
  PROVE  /\ status = "runs" /\ sniffer[i] = "inserting"
         /\ \/ sniffer' = [sniffer EXCEPT ![i] = "socket"]
            \/ raced /\ sniffer' = [sniffer EXCEPT ![i] = "hung"]
         /\ Enters(Peer(packet[i]), packet[i].mac)
         /\ raced \/ DOMAIN mac_addr_map' = DOMAIN mac_addr_map \cup {Peer(packet[i])}
         /\ UNCHANGED << sent, toServer, delivered, captured, heard, met, passed, fds, raced, asc, packet,
                         service, reply, log, starts, status >>
<1> PICK peer, mac : peer = Peer(packet[i]) /\ mac = packet[i].mac
  OBVIOUS
<1>1. Enters(peer, mac)
  <2>1. CASE mac_addr_map' = With(peer, mac)
    BY <2>1 DEF With, Enters
  <2>2. CASE Torn(peer, mac)
    <3>1. PICK kept \in SUBSET (DOMAIN mac_addr_map \cup {peer}) :
            mac_addr_map' \in {Restrict(With(peer, mac), kept), Restrict(Instead(peer, mac), kept)}
      BY <2>2 DEF Torn
    <3>2. CASE mac_addr_map' = Restrict(With(peer, mac), kept)
      BY <3>2 DEF Restrict, With, Enters
    <3>3. CASE mac_addr_map' = Restrict(Instead(peer, mac), kept)
      BY <3>3 DEF Restrict, Instead, Enters
    <3> QED
      BY <3>1, <3>2, <3>3
  <2>3. CASE mac_addr_map' = mac_addr_map
    BY <2>3 DEF Enters
  <2> QED
    BY <2>1, <2>2, <2>3 DEF Inserted
<1>2. raced \/ DOMAIN mac_addr_map' = DOMAIN mac_addr_map \cup {peer}
  BY DEF Inserted, With
<1> QED
  BY <1>1, <1>2 DEF Inserted, Sniffs, world, history, counts

LEMMA InsertedStep == ASSUME IInv, NEW i \in Ifaces, Inserted(i) PROVE IInv'
<1>1. CASE Ends("crashed")
  BY <1>1, EndsStep
<1>2. CASE ~ Ends("crashed")
  <2>1. /\ sniffer[i] = "inserting"
        /\ \/ sniffer' = [sniffer EXCEPT ![i] = "socket"]
           \/ sniffer' = [sniffer EXCEPT ![i] = "hung"]
        /\ Enters(Peer(packet[i]), packet[i].mac)
        /\ UNCHANGED << sent, toServer, delivered, captured, heard, met, passed, fds, asc, packet,
                        service, reply, status >>
    BY <1>2, Inserts
  <2>2. packet[i].type = "client" /\ Heard(packet[i].n, i) /\ packet[i].mac \in Clients \cup {None}
    BY <2>1 DEF IInv, Handled
  <2>3. Peer(packet[i]) \in Range(Address)
    BY <2>2, Senders DEF Peer, Heard, IInv, Memory
  <2>4. /\ DOMAIN mac_addr_map' \subseteq Range(Address)
        /\ \A peer \in DOMAIN mac_addr_map' : mac_addr_map'[peer] \in Clients \cup {None}
    BY <2>1, <2>2, <2>3 DEF Enters, IInv, Memory
  <2>5. Memory'
    BY <2>1, <2>4 DEF IInv, Memory
  <2>6. Heads'
    BY <2>1 DEF IInv, Heads, Packets, Heard
  <2>7. Handled' /\ Told'
    BY <2>1, <2>2 DEF IInv, Handled, Told, Heard, Memory
  <2>8. Forwards' /\ Replies'
    BY <2>1 DEF IInv, Forwards, Replies, Answered
  <2> QED
    BY <2>5, <2>6, <2>7, <2>8 DEF IInv
<1> QED
  BY <1>1, <1>2

LEMMA SocketStep == ASSUME IInv, NEW i \in Ifaces, Socket(i) PROVE IInv'
<1>1. CASE Ends("socket")
  BY <1>1, EndsStep
<1>2. CASE ~ Ends("socket")
  <2> USE DEF world, history, Sniffs
  <2>1. /\ Sniffs(i, "socket", "sendto")
        /\ fds < MaxFds /\ fds' = fds + 1
        /\ UNCHANGED << world, captured, history, mac_addr_map, raced, asc, packet, service, reply, status >>
    BY <1>2 DEF Socket
  <2>2. Memory'
    BY <2>1 DEF IInv, Memory
  <2>3. Heads'
    BY <2>1 DEF IInv, Heads, Packets, Heard
  <2>4. Handled' /\ Told'
    BY <2>1 DEF IInv, Handled, Told, Heard, Memory
  <2>5. Forwards' /\ Replies'
    BY <2>1 DEF IInv, Forwards, Replies, Answered
  <2> QED
    BY <2>2, <2>3, <2>4, <2>5 DEF IInv
<1> QED
  BY <1>1, <1>2

(* The message that passes an interface on its way is not a client's.      *)
LEMMA ForwardStep == ASSUME IInv, NEW i \in Ifaces, Forward(i) PROVE IInv'
<1>1. CASE Ends("sendto")
  BY <1>1, EndsStep
<1>2. CASE ~ Ends("sendto")
  <2> DEFINE new == [type |-> packet[i].type, n |-> packet[i].n, peer |-> Peer(packet[i]), iface |-> i]
             echo == [type |-> "forward", n |-> packet[i].n]
  <2> USE DEF world, Sniffs
  <2>1. /\ Sniffs(i, "sendto", "capture")
        /\ toServer' = toServer \cup {new}
        /\ \/ captured' = captured
           \/ \E k \in Ifaces : captured' = [captured EXCEPT ![k] = @ \cup {echo}]
        /\ packet' = [packet EXCEPT ![i] = None]
        /\ passed' = passed \cup {packet[i].n}
        /\ UNCHANGED << sent, delivered, heard, met, mac_addr_map, fds, raced, asc, service, reply, status >>
    BY <1>2 DEF Forward
  <2>2. packet[i].type = "client" /\ Heard(packet[i].n, i)
    BY <2>1 DEF IInv, Handled
  <2>3. Memory'
    BY <2>1 DEF IInv, Memory
  <2>4. Heads'
    <3>1. CASE captured' = captured
      BY <2>1, <3>1 DEF IInv, Heads, Packets, Heard
    <3>2. CASE captured' # captured
      <4>1. PICK k \in Ifaces : captured' = [captured EXCEPT ![k] = @ \cup {echo}]
        BY <2>1, <3>2
      <4>2. echo \in Packets /\ echo.type # "client"
        BY <2>2 DEF Packets, Heard
      <4>3. Packets' = Packets
        BY <2>1 DEF Packets
      <4>4. captured' \in [Ifaces -> SUBSET Packets]
        BY <4>1, <4>2 DEF IInv, Heads
      <4>5. ASSUME NEW j \in Ifaces, NEW p \in captured'[j], p.type = "client" PROVE Heard(p.n, j)
        <5>1. p \in captured[j]
          BY <4>1, <4>2, <4>5 DEF IInv, Heads
        <5> QED
          BY <4>5, <5>1 DEF IInv, Heads
      <4> QED
        BY <2>1, <4>3, <4>4, <4>5 DEF Heads, Heard
    <3> QED
      BY <3>1, <3>2
  <2>5. Handled'
    BY <2>1 DEF IInv, Handled, Heard, Memory
  <2>6. Forwards'
    <3>1. new.peer = Address[sent[new.n]] /\ new.iface = Link[sent[new.n]]
      BY <2>2 DEF Peer, Heard
    <3>2. new \in [type : {"client"}, n : DOMAIN sent, peer : Range(Address), iface : Ifaces]
      BY <2>2, <3>1, Senders DEF Heard, IInv, Memory
    <3> QED
      BY <2>1, <3>1, <3>2 DEF IInv, Forwards
  <2>7. Replies'
    BY <2>1 DEF IInv, Replies, Answered
  <2>8. Told'
    BY <2>1 DEF IInv, Told, Memory, Handled
  <2> QED
    BY <2>3, <2>4, <2>5, <2>6, <2>7, <2>8 DEF IInv
<1> QED
  BY <1>1, <1>2

(* The steps of the thread that serves answers.                            *)
LEMMA ReceiveStep == ASSUME IInv, Receive PROVE IInv'
<1> USE DEF world, history, Serves
<1>1. PICK f \in toServer, to \in {"find", "socket"} : \E iface \in {f.iface, None} :
        Receives([n |-> f.n, peer |-> f.peer, iface |-> iface], to)
  BY DEF Receive
<1>2. PICK iface \in {f.iface, None} : Receives([n |-> f.n, peer |-> f.peer, iface |-> iface], to)
  BY <1>1
<1>3. Answered(f.n, f.peer, iface)
  BY DEF IInv, Forwards, Answered
<1>4. Memory'
  BY <1>2 DEF IInv, Memory, Receives
<1>5. Heads' /\ Handled' /\ Told'
  BY <1>2 DEF IInv, Heads, Packets, Heard, Handled, Told, Receives
<1>6. Forwards'
  BY <1>2 DEF IInv, Forwards, Receives
<1>7. Replies'
  BY <1>2, <1>3 DEF IInv, Replies, Answered, Receives
<1> QED
  BY <1>4, <1>5, <1>6, <1>7 DEF IInv

LEMMA ServingStep == ASSUME IInv, Find \/ Found \/ ServiceSocket PROVE IInv'
<1>1. CASE Ends("crashed") \/ Ends("socket")
  BY <1>1, EndsStep
<1>2. CASE ~ (Ends("crashed") \/ Ends("socket"))
  <2> USE DEF world, history, Serves
  <2>1. /\ service # "recvfrom" /\ service' \in {"finding", "hung", "socket", "sendto"}
        /\ fds' \in 0 .. MaxFds /\ (service' = "sendto" => fds' > 0)
        /\ UNCHANGED << sent, toServer, delivered, captured, heard, met, passed, mac_addr_map, asc, sniffer, packet,
                        reply, status >>
    <3>1. CASE Find
      BY <3>1 DEF Find, IInv, Memory
    <3>2. CASE Found
      BY <1>2, <3>2 DEF Found, IInv, Memory
    <3>3. CASE ServiceSocket
      <4>1. fds \in 0 .. MaxFds
        BY DEF IInv, Memory
      <4>2. /\ service = "socket" /\ service' = "sendto"
            /\ fds < MaxFds /\ fds' = fds + 1
            /\ UNCHANGED << world, captured, history, mac_addr_map, asc, sniffer, packet, reply, status >>
        BY <1>2, <3>3 DEF ServiceSocket
      <4>3. fds' \in 0 .. MaxFds /\ fds' > 0
        BY <4>1, <4>2
      <4> QED
        BY <4>2, <4>3
    <3> QED
      BY <3>1, <3>2, <3>3
  <2>2. Memory'
    BY <2>1 DEF IInv, Memory
  <2>3. Heads' /\ Handled' /\ Told'
    BY <2>1 DEF IInv, Heads, Packets, Heard, Handled, Told
  <2>4. Forwards' /\ Replies'
    BY <2>1 DEF IInv, Forwards, Replies, Answered
  <2> QED
    BY <2>2, <2>3, <2>4 DEF IInv
<1> QED
  BY <1>1, <1>2

LEMMA SendStep == ASSUME IInv, Send PROVE IInv'
<1>1. CASE Ends("sendto")
  BY <1>1, EndsStep
<1>2. CASE ~ Ends("sendto")
  <2> USE DEF world, history, Serves, Deliver
  <2>1. service = "sendto" /\ reply.iface # None /\ Deliver(reply.iface, fds - 1)
    BY <1>2 DEF Send
  <2>2. Memory'
    BY <2>1 DEF IInv, Memory
  <2>3. Heads' /\ Handled' /\ Told'
    BY <2>1 DEF IInv, Heads, Packets, Heard, Handled, Told
  <2>4. Forwards'
    BY <2>1 DEF IInv, Forwards
  <2>5. Replies'
    BY <2>1 DEF IInv, Replies, Answered
  <2> QED
    BY <2>2, <2>3, <2>4, <2>5 DEF IInv
<1> QED
  BY <1>1, <1>2

LEMMA NextIInv == IInv /\ [Next]_vars => IInv'
<1> SUFFICES ASSUME IInv, [Next]_vars PROVE IInv'
  OBVIOUS
<1>1. CASE \E i \in Ifaces : Sniffing(i)
  BY <1>1, CaptureStep, InsertStep, InsertedStep, SocketStep, ForwardStep DEF Sniffing
<1>2. CASE Receive
  BY <1>2, ReceiveStep
<1>3. CASE Stray
  BY <1>3, EndsStep DEF Stray
<1>4. CASE Serving
  BY <1>4, ServingStep, SendStep DEF Serving
<1>5. CASE ClientSends
  BY <1>5, ClientSendsStep
<1>6. CASE Restart
  BY <1>6, FreshStep DEF Restart, world
<1>7. CASE UNCHANGED vars
  <2> USE <1>7 DEF vars, world, history, counts
  <2>1. Memory'
    BY DEF IInv, Memory
  <2>2. Heads' /\ Handled' /\ Told'
    BY DEF IInv, Heads, Packets, Heard, Handled, Told
  <2>3. Forwards' /\ Replies'
    BY DEF IInv, Forwards, Replies, Answered
  <2> QED
    BY <2>1, <2>2, <2>3 DEF IInv
<1> QED
  BY <1>1, <1>2, <1>3, <1>4, <1>5, <1>6, <1>7 DEF Next

LEMMA Invariance == Spec => []IInv
BY InitIInv, NextIInv, PTL DEF Spec

(* What the relay passes on answers, on the link it was heard on, a client *)
(* with that address, and what it sends to the server is a client's: on    *)
(* any number of interfaces and for any number of clients, messages,       *)
(* answers and restarts, whichever addresses are in use on two links, and  *)
(* also when threads race in the map (handle_packet_from_client and        *)
(* process_msg_from_server).                                               *)
THEOREM DeliveryInvariant == Spec => []Delivery
BY Invariance, InvDelivery, PTL
-----------------------------------------------------------------------------
(* What the relay logs, for every number of interfaces and clients: the    *)
(* text of a hardware address on its way from the static buffer of         *)
(* ether_ntoa() through mac_addr_map to the log.                           *)

(* The text of the address in message n, or what takes its place when two  *)
(* threads meet in ether_ntoa().                                           *)
Names(mac, n) ==
  mac = sent[n] \/ \E k \in heard : << n, k >> \in met /\ mac \in {sent[k], None}

Excused == raced \/ starts > 1

Buffer == \A i \in Ifaces : sniffer[i] = "insert" => Names(asc, packet[i].n)
Copies == \A i \in Ifaces : sniffer[i] = "inserting" => Names(packet[i].mac, packet[i].n)
Entries ==
  \A a \in DOMAIN mac_addr_map : \E m \in heard : Address[sent[m]] = a /\ Names(mac_addr_map[a], m)

(* An address is in the map before a message from it is forwarded, unless  *)
(* an insert was lost; and before it can be asked for, unless the map is   *)
(* that of another start.                                                  *)
Known ==
  status = "runs" /\ ~ raced =>
    /\ \A m \in passed : Address[sent[m]] \in DOMAIN mac_addr_map
    /\ \A i \in Ifaces : sniffer[i] \in {"socket", "sendto"} => Peer(packet[i]) \in DOMAIN mac_addr_map
    /\ starts = 1 => /\ \A f \in toServer : f.peer \in DOMAIN mac_addr_map
                     /\ service # "recvfrom" => reply.peer \in DOMAIN mac_addr_map

Started == starts \in Nat /\ starts > 0

Texts == Buffer /\ Copies /\ Entries

LInv == IInv /\ Texts /\ Known /\ Started

LEMMA InitLInv == Init => LInv
<1> SUFFICES ASSUME Init PROVE LInv
  OBVIOUS
<1>1. Buffer /\ Copies
  BY DEF Init, Buffer, Copies
<1>2. Entries
  <2>1. DOMAIN mac_addr_map = {}
    BY DEF Init
  <2> QED
    BY <2>1 DEF Entries
<1>4. Known
  BY DEF Init, Known
<1>5. Started
  BY DEF Init, Started
<1> QED
  BY <1>1, <1>2, <1>4, <1>5, InitIInv DEF LInv, Texts

(* What was a text of a message remains one.                               *)
LEMMA NamesKept ==
  ASSUME IInv, heard \subseteq heard', met \subseteq met', \A n \in DOMAIN sent : sent'[n] = sent[n],
         NEW mac, NEW n \in DOMAIN sent, Names(mac, n)
  PROVE  Names(mac, n)'
BY DEF Names, IInv, Told

(* Threads that carry a text neither take another nor lose theirs.         *)
LEMMA TextsKept ==
  ASSUME IInv, Texts, heard \subseteq heard', met \subseteq met', \A n \in DOMAIN sent : sent'[n] = sent[n],
         asc' = asc, mac_addr_map' = mac_addr_map,
         \A i \in Ifaces : sniffer'[i] \in {"insert", "inserting"} =>
            sniffer'[i] = sniffer[i] /\ packet'[i] = packet[i]
  PROVE  Texts'
<1>1. \A i \in Ifaces : sniffer[i] # "capture" => packet[i].n \in DOMAIN sent
  BY DEF IInv, Told
<1>2. Buffer' /\ Copies'
  BY <1>1, NamesKept DEF Texts, Buffer, Copies
<1>3. Entries'
  <2> SUFFICES ASSUME NEW a \in DOMAIN mac_addr_map
               PROVE  \E m \in heard' : Address[sent'[m]] = a /\ Names(mac_addr_map[a], m)'
    BY DEF Entries, Names
  <2>1. PICK m \in heard : Address[sent[m]] = a /\ Names(mac_addr_map[a], m)
    BY DEF Texts, Entries
  <2>2. m \in DOMAIN sent
    BY DEF IInv, Told
  <2>3. Names(mac_addr_map[a], m)'
    BY <2>1, <2>2, NamesKept
  <2> QED
    BY <2>1, <2>2, <2>3
<1> QED
  BY <1>2, <1>3 DEF Texts

LEMMA FreshTexts == ASSUME Fresh PROVE Texts'
<1>1. Buffer' /\ Copies'
  BY DEF Fresh, Buffer, Copies
<1>2. Entries'
  BY FreshMemory DEF Entries
<1> QED
  BY <1>1, <1>2 DEF Texts

LEMMA EndsLInv ==
  ASSUME LInv, NEW how \in {"crashed", "socket", "sendto", "stray", "no address"}, Ends(how)
  PROVE  LInv'
<1>1. IInv'
  BY EndsStep DEF LInv
<1>2. Texts'
  BY FreshTexts DEF Ends
<1>3. Known'
  BY DEF Ends, Known
<1>4. Started'
  BY DEF LInv, Started, Ends, counts
<1> QED
  BY <1>1, <1>2, <1>3, <1>4 DEF LInv

LEMMA CaptureTexts == ASSUME LInv, NEW i \in Ifaces, Capture(i) PROVE Texts'
<1> PICK p \in captured[i] :
      /\ Sniffs(i, "capture", IF Relayed(p) THEN "insert" ELSE "capture")
      /\ packet' = [packet EXCEPT ![i] = IF Relayed(p) THEN p ELSE None]
      /\ IF Relayed(p) THEN Converted(i, p) ELSE UNCHANGED << asc, heard, met >>
      /\ UNCHANGED << world, mac_addr_map >>
  BY DEF Capture
<1>1. sniffer' = [sniffer EXCEPT ![i] = IF Relayed(p) THEN "insert" ELSE "capture"] /\ sent' = sent
  BY DEF Sniffs, world
<1>2. DOMAIN sniffer = Ifaces /\ DOMAIN packet = Ifaces
  BY DEF LInv, IInv, Memory, Handled
<1>3. CASE ~ Relayed(p)
  BY <1>1, <1>2, <1>3, TextsKept DEF LInv
<1>4. CASE Relayed(p)
  <2> DEFINE others == {packet[k].n : k \in {k \in Ifaces \ {i} : sniffer[k] = "insert"}}
  <2>1. Heard(p.n, i) /\ Mac(p) = sent[p.n]
    BY <1>4 DEF LInv, IInv, Heads, Relayed, Mac
  <2>2. /\ heard' = heard \cup {p.n}
        /\ met' = met \cup ({p.n} \X others) \cup (others \X {p.n})
        /\ asc' = sent[p.n] \/ (asc' = None /\ \E k \in Ifaces \ {i} : sniffer[k] = "insert")
    BY <1>4, <2>1 DEF Converted, Converting
  <2>3. ASSUME NEW k \in Ifaces \ {i}, sniffer[k] = "insert"
        PROVE  /\ packet[k].n \in heard /\ packet[k].n \in DOMAIN sent
               /\ << p.n, packet[k].n >> \in met' /\ << packet[k].n, p.n >> \in met'
    <3>1. packet[k].n \in heard /\ packet[k].n \in DOMAIN sent /\ packet[k].n \in others
      BY <2>3 DEF LInv, IInv, Told
    <3> HIDE DEF others
    <3> QED
      BY <2>2, <3>1
  <2> HIDE DEF others
  <2>4. Names(asc, p.n)'
    BY <1>1, <2>2, <2>3 DEF Names
  <2>5. ASSUME NEW k \in Ifaces \ {i}, sniffer[k] = "insert" PROVE Names(asc, packet[k].n)'
    <3>1. << packet[k].n, p.n >> \in met' /\ p.n \in heard'
      BY <2>2, <2>3, <2>5
    <3>2. packet'[k] = packet[k] /\ asc' \in {sent'[p.n], None}
      BY <1>1, <1>2, <2>2
    <3> QED
      BY <3>1, <3>2 DEF Names
  <2>6. Buffer'
    BY <1>1, <1>2, <1>4, <2>4, <2>5 DEF Buffer
  <2>7. heard \subseteq heard' /\ met \subseteq met' /\ \A n \in DOMAIN sent : sent'[n] = sent[n]
    BY <1>1, <2>2
  <2>8. Copies'
    <3> SUFFICES ASSUME NEW k \in Ifaces, sniffer'[k] = "inserting" PROVE Names(packet[k].mac, packet[k].n)'
      BY DEF Copies
    <3>1. sniffer[k] = "inserting" /\ packet'[k] = packet[k]
      BY <1>1, <1>2, <1>4
    <3>2. packet[k].n \in DOMAIN sent /\ Names(packet[k].mac, packet[k].n)
      BY <3>1 DEF LInv, IInv, Told, Texts, Copies
    <3> QED
      BY <2>7, <3>1, <3>2, NamesKept DEF LInv
  <2>9. Entries'
    <3>1. mac_addr_map' = mac_addr_map
      OBVIOUS
    <3> SUFFICES ASSUME NEW a \in DOMAIN mac_addr_map
                 PROVE  \E m \in heard' : Address[sent'[m]] = a /\ Names(mac_addr_map[a], m)'
      BY <3>1 DEF Entries, Names
    <3>2. PICK m \in heard : Address[sent[m]] = a /\ Names(mac_addr_map[a], m)
      BY DEF LInv, Texts, Entries
    <3>3. m \in DOMAIN sent
      BY DEF LInv, IInv, Told
    <3>4. Names(mac_addr_map[a], m)'
      BY <2>7, <3>1, <3>2, <3>3, NamesKept DEF LInv
    <3> QED
      BY <2>7, <3>2, <3>3, <3>4
  <2> QED
    BY <2>6, <2>8, <2>9 DEF Texts
<1> QED
  BY <1>3, <1>4

LEMMA InsertTexts == ASSUME LInv, NEW i \in Ifaces, Insert(i) PROVE Texts'
<1>1. /\ sniffer[i] = "insert" /\ sniffer' = [sniffer EXCEPT ![i] = "inserting"]
      /\ asc' = IF Converting(i) THEN asc ELSE None
      /\ UNCHANGED << sent, heard, met, mac_addr_map >>
  BY DEF Insert, Sniffs, world, history
<1>2. PICK mac \in Copied(i) : packet' = [packet EXCEPT ![i] = [type |-> @.type, n |-> @.n, mac |-> mac]]
  BY DEF Insert
<1>3. DOMAIN sniffer = Ifaces /\ DOMAIN packet = Ifaces
  BY DEF LInv, IInv, Memory, Handled
<1>4. Names(mac, packet[i].n)
  <2>1. Names(asc, packet[i].n) /\ Mac(packet[i]) = sent[packet[i].n]
    BY <1>1 DEF LInv, IInv, Handled, Texts, Buffer, Mac
  <2>2. mac = asc \/ (mac = None /\ asc # sent[packet[i].n])
    BY <2>1 DEF Copied
  <2> QED
    BY <2>1, <2>2 DEF Names
<1>5. Buffer'
  <2> SUFFICES ASSUME NEW k \in Ifaces, sniffer'[k] = "insert"
               PROVE  Names(asc, packet[k].n) /\ asc' = asc /\ packet'[k] = packet[k]
    BY <1>1 DEF Buffer, Names
  <2>1. k # i /\ sniffer[k] = "insert"
    BY <1>1, <1>3
  <2> QED
    BY <1>1, <1>2, <1>3, <2>1 DEF Converting, LInv, Texts, Buffer
<1>6. Copies'
  <2> SUFFICES ASSUME NEW k \in Ifaces, sniffer'[k] = "inserting" PROVE Names(packet'[k].mac, packet'[k].n)
    BY <1>1 DEF Copies, Names
  <2>1. CASE k = i
    BY <2>1, <1>2, <1>3, <1>4
  <2>2. CASE k # i
    BY <2>2, <1>1, <1>2, <1>3 DEF LInv, Texts, Copies
  <2> QED
    BY <2>1, <2>2
<1>7. Entries'
  BY <1>1 DEF LInv, Texts, Entries, Names
<1> QED
  BY <1>5, <1>6, <1>7 DEF Texts

LEMMA InsertedTexts ==
  ASSUME LInv, NEW i \in Ifaces, Inserted(i), ~ Ends("crashed") PROVE Texts'
<1>1. /\ sniffer[i] = "inserting"
      /\ \/ sniffer' = [sniffer EXCEPT ![i] = "socket"]
         \/ sniffer' = [sniffer EXCEPT ![i] = "hung"]
      /\ Enters(Peer(packet[i]), packet[i].mac)
      /\ UNCHANGED << sent, heard, met, asc, packet >>
  BY Inserts
<1>2. DOMAIN sniffer = Ifaces
  BY DEF LInv, IInv, Memory
<1>3. Buffer' /\ Copies'
  BY <1>1, <1>2 DEF LInv, Texts, Buffer, Copies, Names
<1>4. Entries'
  <2>1. packet[i].n \in heard /\ Peer(packet[i]) = Address[sent[packet[i].n]]
    BY <1>1 DEF LInv, IInv, Handled, Told, Peer
  <2>2. Names(packet[i].mac, packet[i].n)
    BY <1>1 DEF LInv, Texts, Copies
  <2> SUFFICES ASSUME NEW a \in DOMAIN mac_addr_map'
               PROVE  \E m \in heard : Address[sent[m]] = a /\ Names(mac_addr_map'[a], m)
    BY <1>1 DEF Entries, Names
  <2>3. CASE a = Peer(packet[i]) /\ mac_addr_map'[a] = packet[i].mac
    BY <2>1, <2>2, <2>3
  <2>4. CASE a \in DOMAIN mac_addr_map /\ mac_addr_map'[a] = mac_addr_map[a]
    BY <2>4 DEF LInv, Texts, Entries
  <2> QED
    BY <1>1, <2>3, <2>4 DEF Enters
<1> QED
  BY <1>3, <1>4 DEF Texts

(* Neither the map nor what is to be looked up in it has changed.          *)
LEMMA KnownKept ==
  ASSUME Known, \A f \in toServer' : f \in toServer, \A m \in passed' : m \in passed /\ sent'[m] = sent[m],
         status' = status, raced => raced', starts' = starts, mac_addr_map' = mac_addr_map,
         service' # "recvfrom" => service # "recvfrom" /\ reply' = reply,
         \A i \in Ifaces : sniffer'[i] \in {"socket", "sendto"} =>
            sniffer[i] \in {"socket", "sendto"} /\ Peer(packet[i])' = Peer(packet[i])
  PROVE  Known'
BY DEF Known

LEMMA CaptureLInv == ASSUME LInv, NEW i \in Ifaces, Capture(i) PROVE LInv'
<1>1. PICK p \in captured[i] :
        /\ sniffer' = [sniffer EXCEPT ![i] = IF Relayed(p) THEN "insert" ELSE "capture"]
        /\ packet' = [packet EXCEPT ![i] = IF Relayed(p) THEN p ELSE None]
        /\ UNCHANGED << sent, toServer, passed, mac_addr_map, raced, service, reply, starts, status >>
  BY DEF Capture, Sniffs, world, counts
<1>2. Known'
  <2>1. ASSUME NEW k \in Ifaces, sniffer'[k] \in {"socket", "sendto"}
        PROVE  sniffer'[k] = sniffer[k] /\ packet'[k] = packet[k]
    BY <1>1, <2>1 DEF LInv, IInv, Memory, Handled
  <2> QED
    BY <1>1, <2>1, KnownKept DEF LInv, Peer
<1> QED
  BY <1>1, <1>2, CaptureStep, CaptureTexts DEF LInv, Started

LEMMA InsertLInv == ASSUME LInv, NEW i \in Ifaces, Insert(i) PROVE LInv'
<1>1. /\ sniffer' = [sniffer EXCEPT ![i] = "inserting"]
      /\ \E mac \in Copied(i) : packet' = [packet EXCEPT ![i] = [type |-> @.type, n |-> @.n, mac |-> mac]]
      /\ UNCHANGED << sent, toServer, passed, mac_addr_map, service, reply, starts, status >> /\ (raced => raced')
  BY DEF Insert, Sniffs, world, history, counts
<1>2. Known'
  <2>1. ASSUME NEW k \in Ifaces, sniffer'[k] \in {"socket", "sendto"}
        PROVE  sniffer'[k] = sniffer[k] /\ packet'[k] = packet[k]
    BY <1>1, <2>1 DEF LInv, IInv, Memory, Handled
  <2> QED
    BY <1>1, <2>1, KnownKept DEF LInv, Peer
<1> QED
  BY <1>1, <1>2, InsertStep, InsertTexts DEF LInv, Started

LEMMA InsertedLInv == ASSUME LInv, NEW i \in Ifaces, Inserted(i) PROVE LInv'
<1>1. CASE Ends("crashed")
  BY <1>1, EndsLInv
<1>2. CASE ~ Ends("crashed")
  <2>1. /\ \/ sniffer' = [sniffer EXCEPT ![i] = "socket"]
           \/ raced /\ sniffer' = [sniffer EXCEPT ![i] = "hung"]
        /\ raced \/ DOMAIN mac_addr_map' = DOMAIN mac_addr_map \cup {Peer(packet[i])}
        /\ UNCHANGED << sent, toServer, passed, raced, packet, service, reply, starts, status >>
    BY <1>2, Inserts
  <2>2. Known'
    <3>1. CASE raced
      BY <2>1, <3>1 DEF Known
    <3>2. CASE ~ raced
      <4>1. DOMAIN mac_addr_map' = DOMAIN mac_addr_map \cup {Peer(packet[i])}
        BY <2>1, <3>2
      <4>2. \A k \in Ifaces : Peer(packet[k])' = Peer(packet[k])
        BY <2>1 DEF Peer
      <4>3. \A k \in Ifaces \ {i} : sniffer'[k] = sniffer[k]
        BY <2>1 DEF LInv, IInv, Memory
      <4> QED
        BY <2>1, <4>1, <4>2, <4>3 DEF LInv, Known
    <3> QED
      BY <3>1, <3>2
  <2> QED
    BY <1>2, <2>1, <2>2, InsertedStep, InsertedTexts DEF LInv, Started
<1> QED
  BY <1>1, <1>2

LEMMA SocketLInv == ASSUME LInv, NEW i \in Ifaces, Socket(i) PROVE LInv'
<1>1. CASE Ends("socket")
  BY <1>1, EndsLInv
<1>2. CASE ~ Ends("socket")
  <2>1. /\ sniffer[i] = "socket" /\ sniffer' = [sniffer EXCEPT ![i] = "sendto"]
        /\ UNCHANGED << sent, toServer, heard, met, passed, asc, mac_addr_map, raced, packet, service, reply,
                        starts, status >>
    BY <1>2 DEF Socket, Sniffs, world, history, counts
  <2>2. \A k \in Ifaces : sniffer'[k] = sniffer[k] \/ (sniffer[k] = "socket" /\ sniffer'[k] = "sendto")
    BY <2>1 DEF LInv, IInv, Memory
  <2>3. Texts'
    BY <2>1, <2>2, TextsKept DEF LInv
  <2>4. Known'
    BY <2>1, <2>2, KnownKept DEF LInv, Peer
  <2> QED
    BY <2>1, <2>3, <2>4, SocketStep DEF LInv, Started
<1> QED
  BY <1>1, <1>2

LEMMA ForwardLInv == ASSUME LInv, NEW i \in Ifaces, Forward(i) PROVE LInv'
<1>1. CASE Ends("sendto")
  BY <1>1, EndsLInv
<1>2. CASE ~ Ends("sendto")
  <2> DEFINE new == [type |-> packet[i].type, n |-> packet[i].n, peer |-> Peer(packet[i]), iface |-> i]
  <2>1. /\ sniffer[i] = "sendto" /\ sniffer' = [sniffer EXCEPT ![i] = "capture"]
        /\ packet' = [packet EXCEPT ![i] = None]
        /\ toServer' = toServer \cup {new}
        /\ passed' = passed \cup {packet[i].n}
        /\ UNCHANGED << sent, heard, met, asc, mac_addr_map, raced, service, reply, starts, status >>
    BY <1>2 DEF Forward, Sniffs, counts
  <2>2. \A k \in Ifaces : sniffer'[k] # "capture" => k # i /\ sniffer'[k] = sniffer[k] /\ packet'[k] = packet[k]
    BY <2>1 DEF LInv, IInv, Memory, Handled
  <2>3. Texts'
    BY <2>1, <2>2, TextsKept DEF LInv
  <2>4. Known'
    <3>1. \A k \in Ifaces : sniffer'[k] # "capture" => Peer(packet[k])' = Peer(packet[k])
      BY <2>1, <2>2 DEF Peer
    <3>2. Peer(packet[i]) = Address[sent[packet[i].n]]
      BY <2>1 DEF LInv, IInv, Handled, Peer
    <3> QED
      BY <2>1, <2>2, <3>1, <3>2 DEF LInv, Known
  <2> QED
    BY <2>1, <2>3, <2>4, ForwardStep DEF LInv, Started
<1> QED
  BY <1>1, <1>2

LEMMA ReceiveLInv == ASSUME LInv, Receive PROVE LInv'
<1>1. PICK f \in toServer :
        /\ \E iface : reply' = [n |-> f.n, peer |-> f.peer, iface |-> iface]
        /\ UNCHANGED << sent, toServer, heard, met, passed, asc, mac_addr_map, raced, sniffer, packet, starts, status >>
  BY DEF Receive, Receives, Serves, world, history
<1>2. Texts'
  BY <1>1, TextsKept DEF LInv
<1>3. Known'
  <2>1. reply'.peer = f.peer
    BY <1>1
  <2> QED
    BY <1>1, <2>1 DEF LInv, Known, Peer
<1> QED
  BY <1>1, <1>2, <1>3, ReceiveStep DEF LInv, Started

LEMMA ServingLInv == ASSUME LInv, Serving PROVE LInv'
<1>1. CASE Ends("crashed") \/ Ends("socket") \/ Ends("sendto")
  BY <1>1, EndsLInv
<1>2. CASE ~ (Ends("crashed") \/ Ends("socket") \/ Ends("sendto"))
  <2>1. /\ service # "recvfrom" /\ (service' # "recvfrom" => reply' = reply)
        /\ UNCHANGED << sent, toServer, heard, met, passed, asc, mac_addr_map, sniffer, packet, starts, status >>
        /\ raced => raced'
    <3> USE DEF Serves, world, history, counts
    <3>1. CASE Find
      BY <3>1 DEF Find
    <3>2. CASE Found
      BY <1>2, <3>2 DEF Found
    <3>3. CASE ServiceSocket
      BY <1>2, <3>3 DEF ServiceSocket
    <3>4. CASE Send
      BY <1>2, <3>4 DEF Send, Deliver
    <3> QED
      BY <3>1, <3>2, <3>3, <3>4 DEF Serving
  <2>2. Texts'
    BY <2>1, TextsKept DEF LInv
  <2>3. Known'
    BY <2>1, KnownKept DEF LInv, Peer
  <2> QED
    BY <2>1, <2>2, <2>3, ServingStep, SendStep DEF LInv, Started, Serving
<1> QED
  BY <1>1, <1>2

LEMMA ClientSendsLInv == ASSUME LInv, ClientSends PROVE LInv'
<1>1. UNCHANGED << toServer, heard, met, passed, asc, mac_addr_map, raced, sniffer, packet, service, reply, starts,
                   status >>
  BY DEF ClientSends, history, counts
<1>2. PICK c \in Clients : sent' = Append(sent, c)
  BY DEF ClientSends
<1>3. \A n \in DOMAIN sent : sent'[n] = sent[n]
  <2>1. sent \in Seq(Clients)
    BY DEF LInv, IInv, Memory
  <2> QED
    BY <1>2, <2>1, AppendProperties
<1>4. \A i \in Ifaces : sniffer[i] # "capture" => Peer(packet[i])' = Peer(packet[i])
  BY <1>1, <1>3 DEF LInv, IInv, Handled, Heard, Peer
<1>5. \A m \in passed : m \in DOMAIN sent
  BY DEF LInv, IInv, Told
<1>6. Known'
  BY <1>1, <1>3, <1>4, <1>5, KnownKept DEF LInv
<1>7. Texts'
  BY <1>1, <1>3, TextsKept DEF LInv
<1> QED
  BY <1>1, <1>6, <1>7, ClientSendsStep DEF LInv, Started

LEMMA RestartLInv == ASSUME LInv, Restart PROVE LInv'
<1>1. starts' = starts + 1 /\ Fresh /\ UNCHANGED world /\ status' = "runs"
  BY DEF Restart, world
<1>2. Started' /\ starts' > 1
  BY <1>1 DEF LInv, Started
<1>3. Known'
  BY <1>1, <1>2 DEF Fresh, Known, Started
<1>4. Texts'
  BY <1>1, FreshTexts
<1> QED
  BY <1>1, <1>2, <1>3, <1>4, FreshStep DEF LInv

LEMMA NextLInv == LInv /\ [Next]_vars => LInv'
<1> SUFFICES ASSUME LInv, [Next]_vars PROVE LInv'
  OBVIOUS
<1>1. CASE \E i \in Ifaces : Sniffing(i)
  BY <1>1, CaptureLInv, InsertLInv, InsertedLInv, SocketLInv, ForwardLInv DEF Sniffing
<1>2. CASE Receive
  BY <1>2, ReceiveLInv
<1>3. CASE Stray
  BY <1>3, EndsLInv DEF Stray
<1>4. CASE Serving
  BY <1>4, ServingLInv
<1>5. CASE ClientSends
  BY <1>5, ClientSendsLInv
<1>6. CASE Restart
  BY <1>6, RestartLInv
<1>7. CASE UNCHANGED vars
  <2> USE <1>7 DEF vars, world, history, counts
  <2>1. Texts'
    BY TextsKept DEF LInv
  <2>2. Known'
    BY KnownKept DEF LInv, Peer
  <2> QED
    BY <2>1, <2>2, NextIInv DEF LInv, Started
<1> QED
  BY <1>1, <1>2, <1>3, <1>4, <1>5, <1>6, <1>7 DEF Next

LEMMA LogInvariance == Spec => []LInv
BY InitLInv, NextLInv, PTL DEF Spec

(* Only process_msg_from_server() writes a line, and it tells the truth.   *)
LEMMA FoundTruth ==
  ASSUME LInv, Found, log' # log, log' # None
  PROVE  Truthful(log')
<1> PICK line : line = log'
  OBVIOUS
<1> DEFINE alike == {m \in heard : Address[sent[m]] = Address[sent[line.n]]}
           beside == {k \in heard : \E m \in alike : << m, k >> \in met}
<1>1. status = "runs" /\ service = "finding" /\ line.n = reply.n
  BY DEF Found, Serves, Ends, Fresh
<1>2. reply.n \in DOMAIN sent /\ reply.peer = Address[sent[reply.n]]
  BY <1>1 DEF LInv, IInv, Replies, Answered
<1>3. CASE reply.peer \in DOMAIN mac_addr_map /\ line.mac = mac_addr_map[reply.peer]
  <2>1. PICK m \in heard : Address[sent[m]] = reply.peer /\ Names(line.mac, m)
    BY <1>3 DEF LInv, Texts, Entries
  <2>2. m \in alike
    BY <1>1, <1>2, <2>1
  <2>3. CASE line.mac = sent[m]
    BY <2>2, <2>3 DEF Truthful
  <2>4. CASE \E k \in heard : << m, k >> \in met /\ line.mac \in {sent[k], None}
    <3>1. PICK k \in heard : << m, k >> \in met /\ line.mac \in {sent[k], None}
      BY <2>4
    <3>2. k \in beside
      BY <2>2, <3>1
    <3> HIDE DEF beside
    <3>3. \/ \E j \in alike \cup beside : line.mac = sent[j]
          \/ line.mac = None /\ beside # {}
      BY <3>1, <3>2
    <3> USE DEF beside
    <3> QED
      BY <3>3 DEF Truthful
  <2> QED
    BY <2>1, <2>3, <2>4 DEF Names
<1>4. CASE (raced \/ reply.peer \notin DOMAIN mac_addr_map) /\ line.mac = None
  <2>1. raced \/ alike \cap passed = {}
    BY <1>1, <1>2, <1>4 DEF LInv, Known
  <2> QED
    BY <1>4, <2>1 DEF Truthful
<1>5. \/ reply.peer \in DOMAIN mac_addr_map /\ line.mac = mac_addr_map[reply.peer]
      \/ (raced \/ reply.peer \notin DOMAIN mac_addr_map) /\ line.mac = None
  BY DEF Found, Serves, Ends, Fresh
<1> QED
  BY <1>3, <1>4, <1>5

LEMMA NextTruth == LInv /\ [Next]_vars => (log' # log => log' = None \/ Truthful(log'))
<1> SUFFICES ASSUME LInv, [Next]_vars, log' # log, log' # None PROVE Truthful(log')
  OBVIOUS
<1> USE DEF Ends, Fresh
<1>1. ASSUME NEW i \in Ifaces, Sniffing(i) PROVE FALSE
  BY <1>1 DEF Sniffing, Capture, Insert, Inserted, Socket, Forward
<1>2. ~ Receive /\ ~ Stray
  BY DEF Receive, Receives, Stray
<1>3. ~ Find /\ ~ ServiceSocket /\ ~ Send
  BY DEF Find, ServiceSocket, Send, Deliver
<1>4. ~ ClientSends /\ ~ Restart
  BY DEF ClientSends, Restart
<1>5. ~ UNCHANGED vars
  BY DEF vars
<1> QED
  BY <1>1, <1>2, <1>3, <1>4, <1>5, FoundTruth DEF Next, Serving

(* Whatever the interleaving of the threads, the answers and the restarts, *)
(* a logged address is that of a client the answer may be for, or one of   *)
(* the excused ones: the text that handle_packet_from_client() copies from *)
(* ether_ntoa() is only ever confused with one converted at the same time, *)
(* and the entry of another address is never taken.                        *)
THEOREM LogTruthInvariant == Spec => LogTruth
BY LogInvariance, NextTruth, PTL DEF Spec, LogTruth
-----------------------------------------------------------------------------
(* Why the relay ends, for every number of interfaces and clients: its     *)
(* descriptors are counted by the messages that have used one.             *)

Takes(i, n) ==
  \/ [type |-> "client", n |-> n] \in captured[i]
  \/ sniffer[i] \in {"insert", "inserting", "socket"} /\ packet[i].n = n

(* Every descriptor is that of a message that is past its socket(), but    *)
(* for the one of the answer that is being sent.                           *)
Accounts(used) ==
  /\ fds = Cardinality(used) + (IF service = "sendto" THEN 1 ELSE 0)
  /\ \A i \in Ifaces, n \in used : ~ Takes(i, n)

Counted == status = "runs" => \E used \in SUBSET DOMAIN sent : Accounts(used)

(* No message is heard twice.                                              *)
Single ==
  \A i \in Ifaces : sniffer[i] # "capture" => [type |-> "client", n |-> packet[i].n] \notin captured[i]

EInv == LInv /\ Single /\ Counted /\ EndReasons


LEMMA Messages ==
  ASSUME sent \in Seq(Clients), NEW used \in SUBSET DOMAIN sent
  PROVE  /\ Len(sent) \in Nat
         /\ Cardinality(used) \in Nat /\ Cardinality(used) <= Len(sent)
         /\ \A n \in DOMAIN sent \ used :
              /\ Cardinality(used \cup {n}) = Cardinality(used) + 1
              /\ Cardinality(used \cup {n}) <= Len(sent)
<1>1. Len(sent) \in Nat /\ DOMAIN sent = 1 .. Len(sent)
  BY LenProperties
<1>2. IsFiniteSet(DOMAIN sent) /\ Cardinality(DOMAIN sent) = Len(sent)
  BY <1>1, FS_Interval
<1>3. \A T \in SUBSET DOMAIN sent : IsFiniteSet(T) /\ Cardinality(T) \in Nat /\ Cardinality(T) <= Len(sent)
  BY <1>2, FS_Subset, FS_CardinalityType
<1>4. ASSUME NEW n \in DOMAIN sent \ used PROVE Cardinality(used \cup {n}) = Cardinality(used) + 1
  BY <1>3, FS_AddElement
<1>5. \A n \in DOMAIN sent \ used : used \cup {n} \in SUBSET DOMAIN sent
  OBVIOUS
<1> QED
  BY <1>1, <1>3, <1>4, <1>5

LEMMA FreshCounted ==
  ASSUME Fresh PROVE Counted' /\ Single'
<1>1. Cardinality({}) = 0
  BY FS_EmptySet
<1>2. fds' = 0 /\ service' = "recvfrom"
  BY DEF Fresh
<1>3. Accounts({})'
  BY <1>1, <1>2 DEF Accounts
<1>4. Single'
  BY DEF Fresh, Single
<1> QED
  BY <1>3, <1>4 DEF Counted

LEMMA InitEInv == Init => EInv
<1> SUFFICES ASSUME Init PROVE EInv
  OBVIOUS
<1>1. Cardinality({}) = 0
  BY FS_EmptySet
<1>2. fds = 0 /\ service = "recvfrom"
  BY DEF Init
<1>3. Accounts({})
  BY <1>1, <1>2 DEF Accounts
<1>4. Single /\ EndReasons
  BY DEF Init, Single, EndReasons
<1> QED
  BY <1>3, <1>4, InitLInv DEF Counted, EInv

LEMMA EndsEInv ==
  ASSUME EInv, LInv', NEW how, Ends(how), how = "crashed" => Excused, how = "socket" => Len(sent) >= MaxFds
  PROVE  EInv'
<1>1. EndReasons'
  BY DEF Ends, Fresh, world, counts, Excused, EndReasons
<1> QED
  BY <1>1, FreshCounted DEF Ends, EInv

(* As long as it goes on, there is no reason to state.                     *)
LEMMA EndReasonsKept ==
  ASSUME EInv, status' = status, sent' = sent, raced => raced', starts' = starts,
         service' = "hung" => service = "hung" \/ raced,
         \A i \in Ifaces : sniffer'[i] = "hung" => sniffer[i] = "hung" \/ raced
  PROVE  EndReasons'
BY DEF EInv, EndReasons

(* A thread that sniffs takes up only the message that it has captured.    *)
LEMMA CountedKept ==
  ASSUME EInv, fds' = fds, sent' = sent, status' = status,
         service' = "sendto" <=> service = "sendto",
         \A i \in Ifaces, n \in DOMAIN sent : Takes(i, n)' => Takes(i, n)
  PROVE  Counted'
BY DEF EInv, Counted, Accounts

LEMMA CaptureEInv == ASSUME EInv, NEW i \in Ifaces, Capture(i) PROVE EInv'
<1>1. PICK p \in captured[i] :
        /\ sniffer' = [sniffer EXCEPT ![i] = IF Relayed(p) THEN "insert" ELSE "capture"]
        /\ captured' = [captured EXCEPT ![i] = @ \ {p}]
        /\ packet' = [packet EXCEPT ![i] = IF Relayed(p) THEN p ELSE None]
        /\ UNCHANGED << sent, fds, raced, service, starts, status >>
  BY DEF Capture, Sniffs, world, counts
<1>2. DOMAIN sniffer = Ifaces /\ DOMAIN packet = Ifaces /\ DOMAIN captured = Ifaces /\ p \in Packets
  BY DEF EInv, LInv, IInv, Memory, Handled, Heads
<1>3. Relayed(p) => p = [type |-> "client", n |-> p.n]
  BY <1>2 DEF Packets, Relayed
<1>4. Single'
  BY <1>1, <1>2, <1>3 DEF EInv, Single
<1>5. \A k \in Ifaces, n \in DOMAIN sent : Takes(k, n)' => Takes(k, n)
  BY <1>1, <1>2, <1>3 DEF Takes
<1>6. Counted' /\ EndReasons'
  BY <1>1, <1>5, CountedKept, EndReasonsKept
<1> QED
  BY <1>4, <1>6, CaptureLInv DEF EInv

LEMMA InsertEInv == ASSUME EInv, NEW i \in Ifaces, Insert(i) PROVE EInv'
<1>1. PICK mac :
        /\ sniffer[i] = "insert" /\ sniffer' = [sniffer EXCEPT ![i] = "inserting"]
        /\ packet' = [packet EXCEPT ![i] = [type |-> @.type, n |-> @.n, mac |-> mac]]
        /\ UNCHANGED << sent, captured, fds, service, starts, status >> /\ (raced => raced')
  BY DEF Insert, Sniffs, world, counts
<1>2. DOMAIN sniffer = Ifaces /\ DOMAIN packet = Ifaces
  BY DEF EInv, LInv, IInv, Memory, Handled
<1>3. \A k \in Ifaces : sniffer'[k] # "capture" => sniffer[k] # "capture" /\ packet'[k].n = packet[k].n
  BY <1>1, <1>2
<1>4. Single'
  BY <1>1, <1>3 DEF EInv, Single
<1>5. \A k \in Ifaces, n \in DOMAIN sent : Takes(k, n)' => Takes(k, n)
  BY <1>1, <1>2 DEF Takes
<1>6. Counted' /\ EndReasons'
  BY <1>1, <1>5, CountedKept, EndReasonsKept
<1> QED
  BY <1>4, <1>6, InsertLInv DEF EInv

LEMMA InsertedEInv == ASSUME EInv, NEW i \in Ifaces, Inserted(i) PROVE EInv'
<1>1. LInv'
  BY InsertedLInv DEF EInv
<1>2. CASE raced /\ Ends("crashed")
  BY <1>1, <1>2, EndsEInv DEF Excused
<1>3. CASE ~ (raced /\ Ends("crashed"))
  <2>1. /\ sniffer[i] = "inserting"
        /\ \/ sniffer' = [sniffer EXCEPT ![i] = "socket"]
           \/ raced /\ sniffer' = [sniffer EXCEPT ![i] = "hung"]
        /\ UNCHANGED << sent, captured, packet, fds, raced, service, starts, status >>
    <3>1. CASE Ends("crashed")
      BY <1>3, <3>1 DEF Inserted, Sniffs, Ends
    <3> QED
      BY <3>1, Inserts
  <2>2. DOMAIN sniffer = Ifaces
    BY DEF EInv, LInv, IInv, Memory
  <2>3. Single'
    BY <2>1, <2>2 DEF EInv, Single
  <2>4. \A k \in Ifaces, n \in DOMAIN sent : Takes(k, n)' => Takes(k, n)
    BY <2>1, <2>2 DEF Takes
  <2>5. Counted'
    BY <2>1, <2>4, CountedKept
  <2>6. EndReasons'
    BY <2>1, <2>2, EndReasonsKept
  <2> QED
    BY <1>1, <2>3, <2>5, <2>6 DEF EInv
<1> QED
  BY <1>2, <1>3

(* A message is heard on the link of its sender, so on one only.           *)
LEMMA TakesHeard == ASSUME IInv, NEW i \in Ifaces, NEW n, Takes(i, n) PROVE Heard(n, i)
BY DEF Takes, IInv, Heads, Handled

LEMMA SocketEInv == ASSUME EInv, NEW i \in Ifaces, Socket(i) PROVE EInv'
<1>1. LInv' /\ IInv
  BY SocketLInv DEF EInv, LInv
<1>2. status = "runs" /\ sniffer[i] = "socket"
  BY DEF Socket, Sniffs
<1>3. PICK used \in SUBSET DOMAIN sent : Accounts(used)
  BY <1>2 DEF EInv, Counted
<1> PICK n : n = packet[i].n
  OBVIOUS
<1> DEFINE open == IF service = "sendto" THEN 1 ELSE 0
<1>4. Takes(i, n)
  BY <1>2 DEF Takes
<1>5. Heard(n, i) /\ n \in DOMAIN sent \ used
  BY <1>1, <1>3, <1>4, TakesHeard DEF Heard, Accounts
<1>6. sent \in Seq(Clients)
  BY <1>1 DEF IInv, Memory
<1>7. /\ Len(sent) \in Nat /\ Cardinality(used) \in Nat
      /\ Cardinality(used \cup {n}) = Cardinality(used) + 1
      /\ Cardinality(used \cup {n}) <= Len(sent)
  BY <1>5, <1>6, Messages
<1>8. fds = Cardinality(used) + open /\ open \in {0, 1}
  BY <1>3 DEF Accounts
<1>9. CASE fds = MaxFds /\ Ends("socket")
  <2> HIDE DEF open
  <2>1. Len(sent) >= MaxFds
    BY <1>7, <1>8, <1>9
  <2> QED
    BY <1>1, <1>9, <2>1, EndsEInv
<1>10. CASE ~ (fds = MaxFds /\ Ends("socket"))
  <2>1. /\ sniffer' = [sniffer EXCEPT ![i] = "sendto"] /\ fds' = fds + 1
        /\ UNCHANGED << sent, captured, packet, raced, service, starts, status >>
    BY <1>10 DEF Socket, Sniffs, world, counts
  <2>2. DOMAIN sniffer = Ifaces
    BY <1>1 DEF IInv, Memory
  <2>3. Single'
    BY <1>2, <2>1, <2>2 DEF EInv, Single
  <2>4. \A k \in Ifaces, m \in DOMAIN sent : Takes(k, m)' => Takes(k, m)
    BY <2>1, <2>2 DEF Takes
  <2>5. ASSUME NEW k \in Ifaces PROVE ~ Takes(k, n)'
    <3>1. CASE k = i
      BY <1>2, <2>1, <2>2, <3>1 DEF EInv, Single, Takes
    <3>2. CASE k # i
      <4>1. ~ Takes(k, n)
        BY <1>1, <1>5, <3>2, TakesHeard DEF Heard
      <4> QED
        BY <1>5, <2>4, <4>1
    <3> QED
      BY <3>1, <3>2
  <2>6. fds' = Cardinality(used \cup {n}) + open
    <3> HIDE DEF open
    <3> QED
      BY <1>7, <1>8, <2>1
  <2>7. \A k \in Ifaces, m \in used \cup {n} : ~ Takes(k, m)'
    BY <1>3, <2>4, <2>5 DEF Accounts
  <2>8. Counted'
    BY <1>5, <2>1, <2>6, <2>7 DEF Counted, Accounts, Takes
  <2>9. EndReasons'
    BY <2>1, EndReasonsKept
  <2> QED
    BY <1>1, <2>3, <2>8, <2>9 DEF EInv
<1> QED
  BY <1>9, <1>10

LEMMA ForwardEInv == ASSUME EInv, NEW i \in Ifaces, Forward(i) PROVE EInv'
<1>1. LInv'
  BY ForwardLInv DEF EInv
<1>2. CASE Ends("sendto")
  BY <1>1, <1>2, EndsEInv
<1>3. CASE ~ Ends("sendto")
  <2> DEFINE echo == [type |-> "forward", n |-> packet[i].n]
  <2>1. /\ sniffer' = [sniffer EXCEPT ![i] = "capture"] /\ packet' = [packet EXCEPT ![i] = None]
        /\ \/ captured' = captured
           \/ \E k \in Ifaces : captured' = [captured EXCEPT ![k] = @ \cup {echo}]
        /\ UNCHANGED << sent, fds, raced, service, starts, status >>
    BY <1>3 DEF Forward, Sniffs, world, counts
  <2>2. DOMAIN sniffer = Ifaces /\ DOMAIN packet = Ifaces /\ DOMAIN captured = Ifaces
    BY DEF EInv, LInv, IInv, Memory, Handled, Heads
  <2>3. \A m : [type |-> "client", n |-> m] # echo
    OBVIOUS
  <2>4. ASSUME NEW k \in Ifaces, NEW m, [type |-> "client", n |-> m] \in captured'[k]
        PROVE  [type |-> "client", n |-> m] \in captured[k]
    <3> HIDE DEF echo
    <3> QED
      BY <2>1, <2>2, <2>3, <2>4
  <2>5. \A k \in Ifaces : sniffer'[k] # "capture" => sniffer'[k] = sniffer[k] /\ packet'[k] = packet[k]
    BY <2>1, <2>2
  <2>6. Single'
    BY <2>4, <2>5 DEF EInv, Single
  <2>7. \A k \in Ifaces, m \in DOMAIN sent : Takes(k, m)' => Takes(k, m)
    BY <2>4, <2>5 DEF Takes
  <2>8. Counted' /\ EndReasons'
    BY <2>1, <2>7, CountedKept, EndReasonsKept
  <2> QED
    BY <1>1, <2>6, <2>8 DEF EInv
<1> QED
  BY <1>2, <1>3

LEMMA ServiceSocketEInv == ASSUME EInv, ServiceSocket PROVE EInv'
<1>1. LInv'
  BY ServingLInv DEF EInv, Serving
<1>2. status = "runs" /\ service = "socket"
  BY DEF ServiceSocket, Serves
<1>3. PICK used \in SUBSET DOMAIN sent : Accounts(used)
  BY <1>2 DEF EInv, Counted
<1>4. sent \in Seq(Clients)
  BY DEF EInv, LInv, IInv, Memory
<1>5. Len(sent) \in Nat /\ Cardinality(used) \in Nat /\ Cardinality(used) <= Len(sent)
  BY <1>4, Messages
<1>6. fds = Cardinality(used)
  <2>1. fds = Cardinality(used) + 0
    BY <1>2, <1>3 DEF Accounts
  <2> QED
    BY <1>5, <2>1
<1>7. CASE fds = MaxFds /\ Ends("socket")
  <2>1. Len(sent) >= MaxFds
    BY <1>5, <1>6, <1>7
  <2> QED
    BY <1>1, <1>7, <2>1, EndsEInv
<1>8. CASE ~ (fds = MaxFds /\ Ends("socket"))
  <2>1. /\ service' = "sendto" /\ fds' = fds + 1
        /\ UNCHANGED << sent, captured, sniffer, packet, raced, starts, status >>
    BY <1>8 DEF ServiceSocket, Serves, world, counts
  <2>2. Counted'
    BY <1>3, <1>6, <2>1 DEF Counted, Accounts, Takes
  <2>3. Single' /\ EndReasons'
    BY <2>1, EndReasonsKept DEF EInv, Single
  <2> QED
    BY <1>1, <2>2, <2>3 DEF EInv
<1> QED
  BY <1>7, <1>8

LEMMA SendEInv == ASSUME EInv, Send PROVE EInv'
<1>1. LInv'
  BY ServingLInv DEF EInv, Serving
<1>2. CASE Ends("sendto")
  BY <1>1, <1>2, EndsEInv
<1>3. CASE ~ Ends("sendto")
  <2>1. /\ status = "runs" /\ service = "sendto" /\ service' = "recvfrom" /\ fds' = fds - 1
        /\ UNCHANGED << sent, captured, sniffer, packet, raced, starts, status >>
    BY <1>3 DEF Send, Deliver, Serves, counts
  <2>2. PICK used \in SUBSET DOMAIN sent : Accounts(used)
    BY <2>1 DEF EInv, Counted
  <2>3. Cardinality(used) \in Nat
    BY Messages DEF EInv, LInv, IInv, Memory
  <2>4. fds = Cardinality(used) + 1
    BY <2>1, <2>2 DEF Accounts
  <2>5. fds' = Cardinality(used) + 0
    BY <2>1, <2>3, <2>4
  <2>6. Counted'
    BY <2>1, <2>2, <2>5 DEF Counted, Accounts, Takes
  <2>7. Single' /\ EndReasons'
    BY <2>1, EndReasonsKept DEF EInv, Single
  <2> QED
    BY <1>1, <2>6, <2>7 DEF EInv
<1> QED
  BY <1>2, <1>3

LEMMA ServiceEInv == ASSUME EInv, Receive \/ Find \/ Found PROVE EInv'
<1>1. LInv'
  BY ReceiveLInv, ServingLInv DEF EInv, Serving
<1>2. CASE Found /\ Ends("crashed")
  <2>1. Excused
    BY <1>2 DEF Found, Serves, EInv, LInv, Known, Started, Ends, Fresh, Excused
  <2> QED
    BY <1>1, <1>2, <2>1, EndsEInv
<1>3. CASE ~ (Found /\ Ends("crashed"))
  <2>1. /\ service # "sendto" /\ service' # "sendto" /\ (service' = "hung" => raced)
        /\ UNCHANGED << sent, captured, fds, sniffer, packet, starts, status >> /\ (raced => raced')
    <3> USE DEF Serves, world, counts
    <3>1. CASE Receive
      BY <3>1 DEF Receive, Receives
    <3>2. CASE Find
      BY <3>2 DEF Find
    <3>3. CASE Found
      BY <1>3, <3>3 DEF Found
    <3> QED
      BY <3>1, <3>2, <3>3
  <2>2. Single' /\ EndReasons'
    BY <2>1, EndReasonsKept DEF EInv, Single
  <2>3. \A k \in Ifaces, m \in DOMAIN sent : Takes(k, m)' => Takes(k, m)
    BY <2>1 DEF Takes
  <2>4. Counted'
    BY <2>1, <2>3, CountedKept
  <2> QED
    BY <1>1, <2>2, <2>4 DEF EInv
<1> QED
  BY <1>2, <1>3

LEMMA ClientSendsEInv == ASSUME EInv, ClientSends PROVE EInv'
<1>1. LInv'
  BY ClientSendsLInv DEF EInv
<1>2. PICK c \in Clients :
        /\ sent' = Append(sent, c)
        /\ \/ captured' = captured
           \/ captured' = [captured EXCEPT ![Link[c]] = @ \cup {[type |-> "client", n |-> Len(sent')]}]
        /\ UNCHANGED << fds, raced, sniffer, packet, service, starts, status >>
  BY DEF ClientSends, counts
<1>3. sent \in Seq(Clients)
  BY DEF EInv, LInv, IInv, Memory
<1>4. Len(sent') = Len(sent) + 1 /\ Len(sent) \in Nat /\ DOMAIN sent = 1 .. Len(sent)
  BY <1>2, <1>3, AppendProperties, LenProperties
<1>5. DOMAIN sent \subseteq DOMAIN sent' /\ Len(sent') \notin DOMAIN sent
  BY <1>2, <1>3, <1>4, AppendProperties
<1>6. ASSUME NEW k \in Ifaces, NEW m \in DOMAIN sent, [type |-> "client", n |-> m] \in captured'[k]
      PROVE  [type |-> "client", n |-> m] \in captured[k]
  <2>1. [type |-> "client", n |-> m] # [type |-> "client", n |-> Len(sent')]
    BY <1>5
  <2>2. DOMAIN captured = Ifaces
    BY DEF EInv, LInv, IInv, Heads
  <2> QED
    BY <1>2, <1>6, <2>1, <2>2
<1>7. Single'
  <2>1. \A k \in Ifaces : sniffer[k] # "capture" => packet[k].n \in DOMAIN sent
    BY DEF EInv, LInv, IInv, Handled, Heard
  <2> QED
    BY <1>2, <1>6, <2>1 DEF EInv, Single
<1>8. Counted'
  <2>1. ASSUME NEW used \in SUBSET DOMAIN sent, Accounts(used) PROVE Accounts(used)'
    BY <1>2, <1>6, <2>1 DEF Accounts, Takes
  <2> QED
    BY <1>2, <1>5, <2>1 DEF EInv, Counted
<1>9. EndReasons'
  BY <1>2, <1>4 DEF EInv, EndReasons
<1> QED
  BY <1>1, <1>7, <1>8, <1>9 DEF EInv

LEMMA NextEInv == EInv /\ [Next]_vars => EInv'
<1> SUFFICES ASSUME EInv, [Next]_vars PROVE EInv'
  OBVIOUS
<1>1. CASE \E i \in Ifaces : Sniffing(i)
  BY <1>1, CaptureEInv, InsertEInv, InsertedEInv, SocketEInv, ForwardEInv DEF Sniffing
<1>2. CASE Receive
  BY <1>2, ServiceEInv
<1>3. CASE Stray
  <2>1. LInv'
    BY <1>3, EndsLInv DEF Stray, EInv
  <2> QED
    BY <1>3, <2>1, EndsEInv DEF Stray
<1>4. CASE Serving
  BY <1>4, ServiceEInv, ServiceSocketEInv, SendEInv DEF Serving
<1>5. CASE ClientSends
  BY <1>5, ClientSendsEInv
<1>6. CASE Restart
  <2>1. Fresh /\ status' = "runs"
    BY <1>6 DEF Restart
  <2>2. EndReasons'
    BY <2>1 DEF Fresh, EndReasons
  <2> QED
    BY <1>6, <2>1, <2>2, RestartLInv, FreshCounted DEF EInv
<1>7. CASE UNCHANGED vars
  <2> USE <1>7 DEF vars, world, counts
  <2>1. LInv'
    BY NextLInv DEF EInv
  <2>2. \A k \in Ifaces, m \in DOMAIN sent : Takes(k, m)' => Takes(k, m)
    BY DEF Takes
  <2>3. Counted' /\ EndReasons'
    BY <2>2, CountedKept, EndReasonsKept
  <2>4. Single'
    BY DEF EInv, Single
  <2> QED
    BY <2>1, <2>3, <2>4 DEF EInv
<1> QED
  BY <1>1, <1>2, <1>3, <1>4, <1>5, <1>6, <1>7 DEF Next

LEMMA EndInvariance == Spec => []EInv
BY InitEInv, NextEInv, PTL DEF Spec

(* The relay crashes on an answer it knows no client for only when it has  *)
(* been restarted or an insert was lost to a race, and it runs out of      *)
(* descriptors only after as many messages as there were descriptors:      *)
(* handle_packet_from_client() leaks one each, process_msg_from_server()   *)
(* none.                                                                   *)
THEOREM EndReasonsInvariant == Spec => []EndReasons
<1>1. EInv => EndReasons
  BY DEF EInv
<1> QED
  BY <1>1, EndInvariance, PTL
=============================================================================
