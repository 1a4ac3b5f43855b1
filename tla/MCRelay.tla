------------------------------ MODULE MCRelay -------------------------------
(* An instance of Relay for TLC: two links, on each a client with the same *)
(* link-local address, and on the first another one; beside it, Answer     *)
(* with one or two options in a reply.  which says what a behaviour is of. *)
EXTENDS Relay, SequencesExt

CONSTANTS client1, client2, client3, shared, own, eth0, eth1, leased, prefix, MaxReceived

MCAddress == client1 :> shared @@ client2 :> shared @@ client3 :> own
MCLink == client1 :> eth0 @@ client2 :> eth1 @@ client3 :> eth0

Association(kind, coded, holds) == [kind |-> kind, status |-> coded, address |-> holds]

Associations ==
  { Association("server", FALSE, None),
    Association("NA", FALSE, None), Association("NA", TRUE, None),
    Association("NA", FALSE, leased), Association("NA", TRUE, leased),
    Association("TA", FALSE, None), Association("TA", FALSE, leased),
    Association("PD", FALSE, prefix) }

MCMessages ==
  [type : {"reply"}, iface : {eth0}, nameFirst : BOOLEAN, options : BoundedSeq(Associations, 2) \ {<< >>}]
    \cup [type : {"advertise"}, iface : {eth1, None}, nameFirst : BOOLEAN, options : BoundedSeq(Associations, 1)]

VARIABLES
  which,
  buffer, read_count, answer, i, interface_name, relay_message, address_option, added_ipv6, pc,
  outcome, line, received

A == INSTANCE Answer WITH Messages <- MCMessages, sent <- outcome, log <- line

ASSUME A!AnswerAssumption

answering == << buffer, read_count, answer, i, interface_name, relay_message, address_option,
                added_ipv6, pc, outcome, line, received >>

all == << which, vars, answering >>

MCInit == which \in {"relay", "answer"} /\ Init /\ A!Init

Relays(step) == which = "relay" /\ step /\ UNCHANGED << which, answering >>

MCNext ==
  \/ Relays(Next)
  \/ which = "answer" /\ A!Next /\ UNCHANGED << which, vars >>

(* Every thread of the relay goes on when it can.                          *)
MCSpec ==
  /\ MCInit /\ [][MCNext]_all
  /\ \A iface \in Ifaces : WF_all(Relays(Sniffing(iface)))
  /\ WF_all(Relays(Serving))

Understood == A!Understood
=============================================================================
