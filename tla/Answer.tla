------------------------------- MODULE Answer -------------------------------
(***************************************************************************)
(* What d6r (sem_5/isa/proj/d6r.cpp) reads in an answer of the server:     *)
(* process_msg_from_server(), one step per option its three loops visit.   *)
(* The rest of the relay, and what becomes of the answer, is in Relay.     *)
(*                                                                         *)
(* The buffer maps the offsets where a field begins to the field.  It is   *)
(* not erased between two answers: behind a short one are the fields of    *)
(* those before it.                                                        *)
(*                                                                         *)
(* An operator with a suffixed name (IAOffsetSame, ...) is a slip the      *)
(* properties must notice.                                                 *)
(***************************************************************************)
EXTENDS Naturals, Sequences, Functions, TLC

CONSTANTS
  Messages,    \* what the server may answer: types and options, see RelayReply
  None,
  MaxReceived  \* how many answers are received

(* Assumed of the constants, by the module that instantiates this one: a  *)
(* reply identifies the server, so that it has an option.                  *)
AnswerAssumption ==
  /\ MaxReceived \in Nat
  /\ \A m \in Messages : m.type = "reply" => m.options # << >>

VARIABLES
  buffer, read_count,
  answer,          \* the message received
  i,               \* the offset of option
  interface_name, relay_message, address_option, added_ipv6,  \* 0: NULL
  pc,
  sent, log,       \* what became of the answer
  received

vars == << buffer, read_count, answer, i, interface_name, relay_message, address_option,
           added_ipv6, pc, sent, log, received >>
message == << buffer, read_count, answer, received >>

-----------------------------------------------------------------------------
(* The format of messages, by RFC 8415.  A field is a width in octets and  *)
(* a value: the code and length of an option, or data.                     *)

Field(width, value) == << [width |-> width, value |-> << "data", value >>] >>

(* Where each field begins, and after the last one where it ends.          *)
Offsets(fields) ==
  LET at[k \in 1 .. Len(fields) + 1] == IF k = 1 THEN 0 ELSE at[k - 1] + fields[k - 1].width IN at
Width(fields) == Offsets(fields)[Len(fields) + 1]
Lay(fields) ==
  LET at == Offsets(fields)
  IN  [o \in {at[k] : k \in DOMAIN fields} |-> fields[CHOOSE k \in DOMAIN fields : at[k] = o].value]

Option(code, fields) == << [width |-> 4, value |-> << "option", code, Width(fields) >>] >> \o fields

(* The identity association of a reply: with a status code or not, and     *)
(* with an address or prefix or not; or another option.                    *)
Association(ia) ==
  LET status == IF ia.status THEN Option(13, Field(2, "status")) ELSE << >>
      address == IF ia.address = None THEN << >>
                 ELSE IF ia.kind = "PD"
                   THEN Option(26, Field(8, "lifetimes") \o Field(1, "length") \o Field(16, ia.address))
                   ELSE Option(5, Field(16, ia.address) \o Field(8, "lifetimes"))
  IN  CASE ia.kind = "NA" -> Option(3, Field(12, "IAID, T1, T2") \o status \o address)
        [] ia.kind = "PD" -> Option(25, Field(12, "IAID, T1, T2") \o status \o address)
        [] ia.kind = "TA" -> Option(4, Field(4, "IAID") \o status \o address)
        [] OTHER -> Option(1, Field(10, "identifier"))

ClientMessage(m) ==
  LET first[n \in 0 .. Len(m.options)] ==
        IF n = 0 THEN Field(1, m.type) \o Field(3, "transaction")
                 ELSE first[n - 1] \o Association(m.options[n])
  IN  first[Len(m.options)]

RelayReply(m) ==
  LET name == IF m.iface = None THEN << >> ELSE Option(18, Field(16, m.iface))
      relayed == Option(9, ClientMessage(m))
  IN  Field(34, "relay-reply") \o (IF m.nameFirst THEN name \o relayed ELSE relayed \o name)

Datagrams ==
  {[message |-> m, width |-> Width(RelayReply(m)), octets |-> Lay(RelayReply(m))] : m \in Messages}

-----------------------------------------------------------------------------
Init ==
  /\ buffer = << >> /\ read_count = 0 /\ answer = None
  /\ i = 0 /\ interface_name = None
  /\ relay_message = 0 /\ address_option = 0 /\ added_ipv6 = 0
  /\ pc = "recvfrom"
  /\ sent = None /\ log = None
  /\ received = 0

(* recvfrom() overwrites the beginning of the buffer.                      *)
Receive ==
  /\ pc = "recvfrom" /\ received < MaxReceived
  /\ \E d \in Datagrams :
       /\ answer' = d.message /\ read_count' = d.width
       /\ buffer' = d.octets @@ Restrict(buffer, {o \in DOMAIN buffer : o >= d.width})
  /\ i' = 34
  /\ interface_name' = None /\ relay_message' = 0 /\ address_option' = 0 /\ added_ipv6' = 0
  /\ pc' = "options"
  /\ sent' = None /\ log' = None
  /\ received' = received + 1

(* The code and length of the option at i.  Where none begins any code may *)
(* be read (its length does not matter, see Understood).                   *)
IsOption(o) == o \in DOMAIN buffer /\ buffer[o][1] = "option"
Codes == {1, 3, 4, 5, 9, 13, 18, 25, 26}
OptionRead == IF IsOption(i) THEN {buffer[i]} ELSE {<< "option", code, 0 >> : code \in Codes}
Data(o) == IF o \in DOMAIN buffer THEN buffer[o][2] ELSE None

Behind(option) == i + option[3] + 4

(* Looks for the name of the interface and the message.                    *)
RelayOption == pc = "options" /\ \E option \in OptionRead :
  /\ interface_name' = IF option[2] = 18 THEN Data(i + 4) ELSE interface_name
  /\ relay_message' = IF option[2] = 9 THEN i ELSE relay_message
  /\ i' = Behind(option)
  /\ pc' = IF i' >= read_count \/ (relay_message' # 0 /\ interface_name' # None)
             THEN "found" ELSE "options"
  /\ UNCHANGED << message, address_option, added_ipv6, sent, log >>

Found ==
  /\ pc = "found"
  /\ IF relay_message = 0 THEN pc' = "no message" /\ i' = i
     ELSE IF Data(relay_message + 4) = "reply" THEN pc' = "reply" /\ i' = relay_message + 8
     ELSE pc' = "send" /\ i' = i
  /\ UNCHANGED << message, interface_name, relay_message, address_option, added_ipv6, sent, log >>

IAOffsetSame(option) == 16

IAOffset(option) == IF option[2] = 4 THEN 8 ELSE 16

(* Looks for the first identity association of the reply.                  *)
ReplyOption == pc = "reply" /\ \E option \in OptionRead :
  /\ address_option' = IF option[2] \in {3, 4, 25} THEN i ELSE address_option
  /\ IF address_option' # 0 THEN i' = i + IAOffset(option) /\ pc' = "ia"
     ELSE /\ i' = Behind(option)
          /\ pc' = IF i' >= read_count THEN "send" ELSE "reply"
  /\ UNCHANGED << message, interface_name, relay_message, added_ipv6, sent, log >>

(* Looks for an address or a prefix in it, and behind it as well.          *)
IAOption == pc = "ia" /\ \E option \in OptionRead :
  /\ added_ipv6' = CASE option[2] = 5 -> i + 4 [] option[2] = 26 -> i + 13 [] OTHER -> added_ipv6
  /\ i' = Behind(option)
  /\ pc' = IF i' >= read_count \/ added_ipv6' # 0 THEN "log" ELSE "ia"
  /\ UNCHANGED << message, interface_name, relay_message, address_option, sent, log >>

(* inet_ntop() of NULL, if no address was found, is a crash.               *)
Log ==
  /\ pc = "log"
  /\ IF added_ipv6 = 0 THEN pc' = "crashed" /\ log' = log
                       ELSE pc' = "send" /\ log' = Data(added_ipv6)
  /\ UNCHANGED << message, i, interface_name, relay_message, address_option, added_ipv6, sent >>

(* The option_data of the message, as long as its length says.             *)
Payload(o) ==
  LET at == o + 4
      inside == {k \in DOMAIN buffer : k >= at /\ k < at + buffer[o][3]}
  IN  [k \in {l - at : l \in inside} |-> buffer[k + at]]

Send ==
  /\ pc = "send"
  /\ sent' = [iface |-> interface_name, payload |-> Payload(relay_message)]
  /\ pc' = "recvfrom"
  /\ UNCHANGED << message, i, interface_name, relay_message, address_option, added_ipv6, log >>

Next == Receive \/ RelayOption \/ Found \/ ReplyOption \/ IAOption \/ Log \/ Send

Spec == Init /\ [][Next]_vars

-----------------------------------------------------------------------------
TypeOK ==
  /\ answer \in Messages \cup {None} /\ received \in 0 .. MaxReceived
  /\ pc \in {"recvfrom", "options", "found", "reply", "ia", "log", "send", "crashed", "no message"}
  /\ {relay_message, address_option} \subseteq 0 .. read_count

(* The identity associations of an answer, if it is a reply.               *)
Associations(m) ==
  IF m.type = "reply" THEN SelectSeq(m.options, LAMBDA o : o.kind \in {"NA", "TA", "PD"}) ELSE << >>

FirstAddress(m) == Associations(m)[1].address
LacksAddress(m) == Associations(m) # << >> /\ FirstAddress(m) = None

(* What a client is sent is the message that the answer carries, over the  *)
(* interface it names, in whatever order these are and whatever answer was *)
(* in the buffer before; the line logged for a reply has the first address *)
(* of the first association, and other messages are not logged.  The walks *)
(* leave the options only at the end of the answer.  An association        *)
(* without an address is the exception: the relay crashes, or it takes an  *)
(* address from behind the answer.                                         *)
Understood ==
  /\ TypeOK
  /\ pc \in {"options", "reply", "ia"} /\ i < read_count => IsOption(i)
  /\ pc = "recvfrom" /\ answer # None =>
       /\ sent = [iface |-> answer.iface, payload |-> Lay(ClientMessage(answer))]
       /\ ~ LacksAddress(answer) =>
            log = IF Associations(answer) = << >> THEN None ELSE FirstAddress(answer)
  /\ pc # "no message"
  /\ pc = "crashed" => LacksAddress(answer)
=============================================================================
