-------------------------------- MODULE Http --------------------------------
(***************************************************************************)
(* The DNS-over-HTTP server of sem_6/ipk/proj1: Server accepts connections *)
(* and starts a thread with a Handler for each, which parses one Request,  *)
(* resolves the names it asks for (DnsRequest) and sends one Response.     *)
(*                                                                         *)
(* What a client sends is a sequence of tokens: the request line, header   *)
(* lines, the empty line, and the texts and newlines of the body.  Tokens  *)
(* arrive one by one; the reader of a handler takes over all that have     *)
(* arrived whenever it runs out, so whether a body is read whole depends   *)
(* on when it comes.  A client may stop, close or reset the connection     *)
(* anywhere.  A text of the body is a line of it or a part cut off at its  *)
(* end; requests never hold two texts in a row.  Content-Length counts     *)
(* tokens here, and there is always memory for a body of Spare of them.    *)
(*                                                                         *)
(* An operator with a suffixed name (AcceptInline, ...) is a slip the      *)
(* properties must notice.                                                 *)
(***************************************************************************)
EXTENDS Integers, Sequences, FiniteSets, SequencesExt

CONSTANTS
  Conns,      \* the connections
  Requests,   \* what the client of each may send
  Query,      \* the texts with a colon: the name and the type they ask for
  None,       \* null
  NaN,        \* the value of a Content-Length that is not a number
  Spare       \* the longest body there is always memory for

(* The tokens of a request, and what the first of them say.                *)
IsRequest(r) ==
  /\ r.tokens \in Nat
  /\ r.headers \in Seq([name : STRING, value : Nat \cup {None, NaN}])
  /\ \A i \in DOMAIN r.headers :
       r.headers[i].name = "content-length" => r.headers[i].value # None
  /\ r.body \in Seq(STRING)
  /\ \A i \in DOMAIN r.body : i > 1 => r.body[i] = "\n" \/ r.body[i - 1] = "\n"

(* What may be asked of a name (DnsRequest).                               *)
Types == {"A", "PTR"}

ASSUME HttpAssumption ==
  /\ None # NaN /\ {None, NaN} \cap (Nat \cup Types \cup DOMAIN Query) = {}
  /\ "\n" \notin DOMAIN Query /\ Spare \in Nat
  /\ \A c \in Conns : \A r \in Requests[c] : IsRequest(r)

VARIABLES
  server,    \* "accepts", or "ended" when the loop of Server.run() has
  request,   \* what the client of each connection sends
  client,    \* "off", "open", "closed" or "reset"
  arrived,   \* how many of its tokens have arrived at the server
  handler,   \* the Handler of each connection and its Request and Response
  out        \* what the server has written: statuses and answers

vars == << server, request, client, arrived, handler, out >>

Idle == [pc |-> "waiting", filled |-> 0, read |-> 0, length |-> None,
         body |-> << >>, line |-> 1, answers |-> << >>]

Init ==
  /\ server = "accepts"
  /\ request \in {r \in [Conns -> UNION {Requests[c] : c \in Conns}] :
                    \A c \in Conns : r[c] \in Requests[c]}
  /\ client = [c \in Conns |-> "off"]
  /\ arrived = [c \in Conns |-> 0]
  /\ handler = [c \in Conns |-> Idle]
  /\ out = [c \in Conns |-> << >>]

(* The head of a request and its empty line, and all of it, in tokens.     *)
HeadLen(r) == 2 + Len(r.headers)
AllLen(r) == HeadLen(r) + Len(r.body)

-----------------------------------------------------------------------------
(* The client and the network.                                             *)

Connect(c) ==
  /\ client[c] = "off"
  /\ client' = [client EXCEPT ![c] = "open"]
  /\ UNCHANGED << server, request, arrived, handler, out >>

Arrive(c) ==
  /\ client[c] = "open" /\ arrived[c] < AllLen(request[c])
  /\ arrived' = [arrived EXCEPT ![c] = @ + 1]
  /\ UNCHANGED << server, request, client, handler, out >>

Leave(c) ==
  /\ client[c] = "open" /\ handler[c].pc # "closed"
  /\ \E how \in {"closed", "reset"} : client' = [client EXCEPT ![c] = how]
  /\ UNCHANGED << server, request, arrived, handler, out >>

-----------------------------------------------------------------------------
(* Server.run(): a thread for each connection.  When accept() throws, for  *)
(* want of descriptors for one, or the thread cannot be started, the loop  *)
(* ends for good: the handlers go on, those who wait are never accepted.   *)

AcceptInline(c) ==
  /\ server = "accepts"
  /\ client[c] # "off" /\ handler[c].pc = "waiting"
  /\ \A d \in Conns : handler[d].pc \in {"waiting", "closed"}
  /\ handler' = [handler EXCEPT ![c].pc = "line"]
  /\ UNCHANGED << server, request, client, arrived, out >>

Accept(c) ==
  /\ server = "accepts"
  /\ client[c] # "off" /\ handler[c].pc = "waiting"
  /\ handler' = [handler EXCEPT ![c].pc = "line"]
  /\ UNCHANGED << server, request, client, arrived, out >>

AcceptFails ==
  /\ server = "accepts" /\ server' = "ended"
  /\ UNCHANGED << request, client, arrived, handler, out >>

-----------------------------------------------------------------------------
(* How a step of a handler ends.                                           *)

Goes(c, h) == handler' = [handler EXCEPT ![c] = h] /\ UNCHANGED << server, request, client, arrived, out >>

(* respond() or send(), and finally the end of the connection.  When the   *)
(* client has reset it the write fails, and so does the one of status 500. *)
Writes(c, what) ==
  /\ out' = IF client[c] = "reset" THEN out ELSE [out EXCEPT ![c] = @ \o what]
  /\ handler' = [handler EXCEPT ![c].pc = "closed"]
  /\ UNCHANGED << server, request, client, arrived >>

Responds(c, status) == Writes(c, << [status |-> status, body |-> << >>] >>)

(* An exception other than IOException, or an error: the thread ends and   *)
(* the connection with it.                                                 *)
Throws(c) == Goes(c, [handler[c] EXCEPT !.pc = "closed"])

-----------------------------------------------------------------------------
(* Request.parse(): what it reads, when a token is there.                  *)

At(c, pc) == handler[c].pc = pc
Buffered(c) == handler[c].read < handler[c].filled

(* The reader takes what has arrived, the end of the input, or an error.   *)
Fill(c) ==
  /\ \E pc \in {"line", "headers", "body"} : At(c, pc)
  /\ ~ Buffered(c)
  /\ client[c] # "reset" /\ arrived[c] > handler[c].filled
  /\ Goes(c, [handler[c] EXCEPT !.filled = arrived[c]])

EndOfInput(c) == ~ Buffered(c) /\ client[c] = "closed" /\ arrived[c] = handler[c].filled

ReadFails(c) ==
  /\ \E pc \in {"line", "headers", "body"} : At(c, pc)
  /\ ~ Buffered(c) /\ client[c] = "reset"
  /\ Responds(c, 500)

RequestLine(c) ==
  /\ At(c, "line") /\ Buffered(c)
  /\ IF request[c].tokens < 3
       THEN Responds(c, 400)
       ELSE Goes(c, [handler[c] EXCEPT !.pc = "headers", !.read = @ + 1])

NoLine(c) == At(c, "line") /\ EndOfInput(c) /\ Responds(c, 400)

InHead(c) == At(c, "headers") /\ Buffered(c)
Token(c) == handler[c].read
HeaderLine(c) == InHead(c) /\ Token(c) <= Len(request[c].headers)

Header(c) ==
  /\ HeaderLine(c)
  /\ LET h == request[c].headers[Token(c)] IN
     IF h.name = "no colon"
       THEN Responds(c, 400)
       ELSE Goes(c, [handler[c] EXCEPT !.read = @ + 1,
                       !.length = IF h.name = "content-length" THEN h.value ELSE @])

(* A text with a colon is longer than one character; a newline and a text  *)
(* without a colon are one.  Content-Length must be two characters.        *)
Width(token) == IF token \in DOMAIN Query THEN 3 ELSE 1
Cut(b, n) == IF n < Len(b) THEN SubSeq(b, 1, n) ELSE b
Promised(c) == Cut(request[c].body, handler[c].length)
TooShort(c) ==
  \/ handler[c].length = 0
  \/ handler[c].length = 1 /\ \E token \in Range(Promised(c)) : Width(token) = 1

(* The empty line.  There may be no memory for the body that is promised.  *)
HeadersEnd(c) ==
  /\ InHead(c) /\ ~ HeaderLine(c)
  /\ IF request[c].method # "POST" \/ handler[c].length = None
       THEN Goes(c, [handler[c] EXCEPT !.pc = "process", !.read = @ + 1])
     ELSE IF handler[c].length = NaN THEN Throws(c)
     ELSE IF TooShort(c) THEN Responds(c, 400)
     ELSE \/ Goes(c, [handler[c] EXCEPT !.pc = "body", !.read = @ + 1])
          \/ handler[c].length > Spare /\ Throws(c)

(* readLine() answers null, of which the length is asked.                  *)
NoHeader(c) == At(c, "headers") /\ EndOfInput(c) /\ Throws(c)

-----------------------------------------------------------------------------
(* The body: one read(), which takes what the reader holds, at least one   *)
(* token, and goes on only while more has arrived already.                 *)

BodyEndBeyond(c) == HeadLen(request[c]) + handler[c].length + 1

BodyEnd(c) == HeadLen(request[c]) + handler[c].length

(* A newline as the last but one character goes, and the last one with it. *)
Trimmed(b) ==
  IF Len(b) >= 2 /\ b[Len(b) - 1] = "\n" /\ Width(Last(b)) = 1
    THEN SubSeq(b, 1, Len(b) - 2) ELSE b

NoBody(c) == At(c, "body") /\ EndOfInput(c) /\ Responds(c, 400)

Reads(c, end) ==
  /\ At(c, "body") /\ Buffered(c)
  /\ Goes(c, IF end = BodyEnd(c)
               THEN [handler[c] EXCEPT !.read = end, !.pc = "process", !.body = Trimmed(Promised(c))]
               ELSE [handler[c] EXCEPT !.read = end, !.pc = "more"])

Body(c) == Reads(c, IF handler[c].filled < BodyEnd(c) THEN handler[c].filled ELSE BodyEnd(c))

(* ready(), which is false of an ended or a reset connection too.          *)
More(c) ==
  /\ At(c, "more")
  /\ IF client[c] # "reset" /\ arrived[c] > handler[c].filled
       THEN Goes(c, [handler[c] EXCEPT !.pc = "body", !.filled = arrived[c]])
       ELSE Responds(c, 400)

-----------------------------------------------------------------------------
(* DnsRequest: what a lookup may answer.  A name is a domain name, an      *)
(* address of either kind, or None, for which getAllByName answers the     *)
(* loopback address.  With nothing but IPv6 addresses the answer is empty. *)

Answer(query, value) == [name |-> query.name, type |-> query.type, value |-> value]

Results(query) ==
  CASE query.name = "IPv6" -> {Answer(query, "")}
    [] query.name = None   -> {Answer(query, "found")}
    [] query.name = "IPv4" -> {None} \cup IF query.type = "PTR" THEN {Answer(query, "found")} ELSE {}
    [] OTHER -> {None, Answer(query, "")} \cup IF query.type = "A" THEN {Answer(query, "found")} ELSE {}

-----------------------------------------------------------------------------
(* Handler.processGet(), and methods the server does not know.             *)

Method(c, method) == At(c, "process") /\ request[c].method = method

Parameters(r) ==
  [key \in {p[1] : p \in Range(r.params)} |->
     Last(SelectSeq(r.params, LAMBDA p : p[1] = key))[2]]

Resolves(c, name, type) ==
  \E result \in Results([name |-> name, type |-> type]) :
    IF result = None THEN Responds(c, 404)
    ELSE Writes(c, << [status |-> 200, body |-> << result >>] >>)

Gets(c, badtype) ==
  /\ Method(c, "GET")
  /\ LET P == Parameters(request[c]) IN
     IF request[c].path # "/resolve" \/ DOMAIN P # {"name", "type"} THEN Responds(c, 400)
     ELSE IF P["type"] = None THEN Throws(c)
     ELSE IF P["type"] \notin Types THEN badtype
     ELSE IF P["name"] = None /\ P["type"] = "A" THEN Throws(c)
     ELSE Resolves(c, P["name"], P["type"])

ProcessGetUncaught(c) == Gets(c, Throws(c))

(* A type without a value is dereferenced, and so is a name when an        *)
(* address is asked for; a wrong type is an exception that is caught.      *)
ProcessGet(c) == Gets(c, Responds(c, 400))

NotAllowed(c) ==
  /\ At(c, "process") /\ request[c].method \notin {"GET", "POST"}
  /\ Responds(c, 405)

-----------------------------------------------------------------------------
(* Handler.processPost(): a lookup for each line, in order.  lines() gives *)
(* one line at a time: it begins at line, and ends before a newline or at  *)
(* the end of the body.                                                    *)

ProcessPost(c) ==
  /\ Method(c, "POST")
  /\ IF request[c].path # "/dns-query" \/ handler[c].length = None
       THEN Responds(c, 400)
       ELSE Goes(c, [handler[c] EXCEPT !.pc = "lines"])

AnyLeft(c) == handler[c].line <= Len(handler[c].body)
Text(c) == handler[c].body[handler[c].line]
Rest(c) == [handler[c] EXCEPT !.line = @ + IF Text(c) = "\n" THEN 1 ELSE 2]

IsQuery(text) == text \in DOMAIN Query /\ Query[text].type \in Types
LineIs(c, good) == At(c, "lines") /\ AnyLeft(c) /\ good = IsQuery(Text(c))

LinePrepended(c) ==
  /\ LineIs(c, TRUE)
  /\ \E result \in Results(Query[Text(c)]) :
       Goes(c, [Rest(c) EXCEPT !.answers = IF result = None THEN @ ELSE << result >> \o @])

Line(c) ==
  /\ LineIs(c, TRUE)
  /\ \E result \in Results(Query[Text(c)]) :
       Goes(c, [Rest(c) EXCEPT !.answers = IF result = None THEN @ ELSE Append(@, result)])

BadLineSkipped(c) == LineIs(c, FALSE) /\ Goes(c, Rest(c))

BadLine(c) == LineIs(c, FALSE) /\ Responds(c, 400)

LinesDone(c) ==
  /\ At(c, "lines") /\ ~ AnyLeft(c)
  /\ IF handler[c].answers = << >>
       THEN Responds(c, 404)
       ELSE Writes(c, << [status |-> 200, body |-> handler[c].answers] >>)

-----------------------------------------------------------------------------
Handles(c) ==
  \/ Fill(c) \/ ReadFails(c)
  \/ RequestLine(c) \/ NoLine(c) \/ Header(c) \/ HeadersEnd(c) \/ NoHeader(c)
  \/ Body(c) \/ More(c) \/ NoBody(c)
  \/ ProcessGet(c) \/ NotAllowed(c) \/ ProcessPost(c)
  \/ Line(c) \/ BadLine(c) \/ LinesDone(c)

Next ==
  \/ AcceptFails
  \/ \E c \in Conns : Connect(c) \/ Arrive(c) \/ Leave(c) \/ Accept(c) \/ Handles(c)

Spec == Init /\ [][Next]_vars

(* The accept loop goes on until it ends, and the threads do; the clients  *)
(* need not.                                                               *)
FairSpec == Spec /\ \A c \in Conns : WF_vars(Accept(c)) /\ WF_vars(Handles(c))

-----------------------------------------------------------------------------
TypeOK ==
  /\ server \in {"accepts", "ended"}
  /\ client \in [Conns -> {"off", "open", "closed", "reset"}]
  /\ \A c \in Conns :
       /\ request[c] \in Requests[c]
       /\ At(c, "waiting") \/ At(c, "line") \/ At(c, "headers") \/ At(c, "body") \/ At(c, "more")
            \/ At(c, "process") \/ At(c, "lines") \/ At(c, "closed")
       /\ handler[c].read <= handler[c].filled
       /\ handler[c].filled <= arrived[c] /\ arrived[c] <= AllLen(request[c])

(* The format the readme describes: a proper head, and either the two      *)
(* parameters and no other, or a body of lines, each a query.              *)
LengthOf(r) ==
  LET lengths == {i \in DOMAIN r.headers : r.headers[i].name = "content-length"}
  IN  IF lengths = {} THEN None ELSE r.headers[Max(lengths)].value
Covered(r) == Cut(r.body, LengthOf(r))

GoodHead(r) == r.tokens >= 3 /\ \A h \in Range(r.headers) : h.name # "no colon"

GoodLines(b) ==
  /\ \E i \in DOMAIN b : b[i] # "\n"
  /\ \A i \in DOMAIN b :
       IF b[i] = "\n" THEN i > 1 /\ b[i - 1] # "\n" ELSE IsQuery(b[i])

GoodGet(r) ==
  /\ GoodHead(r) /\ r.method = "GET" /\ r.path = "/resolve"
  /\ DOMAIN Parameters(r) = {"name", "type"}
  /\ Parameters(r)["name"] # None /\ Parameters(r)["type"] \in Types

GoodPost(r) ==
  /\ GoodHead(r) /\ r.method = "POST" /\ r.path = "/dns-query"
  /\ LengthOf(r) \in 1 .. Len(r.body) /\ GoodLines(Covered(r))

Needed(r) == HeadLen(r) + IF r.method = "POST" THEN LengthOf(r) ELSE 0

Status(c) == IF out[c] = << >> THEN 0 ELSE Head(out[c]).status
Answered(c) == Status(c) \in {200, 404}

(* Only requests of the described format are resolved, but for two kinds:  *)
(* a name without a value is looked up backwards as the server itself, and *)
(* of a body that ends in a line of one character, which should be 400,    *)
(* that line is dropped with the newline before it, since the newline is   *)
(* looked for in front of the last character (Request.java:97).            *)
Accepted ==
  \A c \in Conns : LET r == request[c] IN
    Answered(c) =>
      \/ GoodGet(r)
      \/ GoodPost(r)
      \/ /\ r.method = "GET" /\ GoodHead(r)
         /\ Parameters(r) = [name |-> None, type |-> "PTR"]
      \/ /\ r.method = "POST" /\ GoodHead(r)
         /\ LET b == Covered(r)
                rest == SubSeq(b, 1, Len(b) - 2)
            IN  /\ b # << >> /\ Width(Last(b)) = 1
                /\ rest = << >> \/ GoodLines(rest)

(* A request of the described format is resolved, unless the client gave   *)
(* up or the handler did not get to the end of it: its body came in parts  *)
(* and the handler was faster (Request.java:95), or there was no memory    *)
(* for it.                                                                 *)
Fulfilled ==
  \A c \in Conns : LET r == request[c] IN
    At(c, "closed") /\ client[c] # "reset" /\ (GoodGet(r) \/ GoodPost(r)) =>
      Answered(c) \/ handler[c].read < Needed(r)

(* The answers to a POST are those of its lines, in their order, each once *)
(* or not at all; a connection has one response.                           *)
AnswersOf(given, b) ==
  \E of \in [DOMAIN given -> DOMAIN b] :
    /\ \A k, l \in DOMAIN given : k < l => of[k] < of[l]
    /\ \A k \in DOMAIN given :
         /\ b[of[k]] \in DOMAIN Query
         /\ given[k].name = Query[b[of[k]]].name /\ given[k].type = Query[b[of[k]]].type

Answers ==
  TypeOK /\ \A c \in Conns :
    /\ Len(out[c]) <= 1
    /\ Status(c) = 200 /\ request[c].method = "POST" =>
         AnswersOf(Head(out[c]).body, Covered(request[c]))

(* The readme promises 400 for a request that has not the right format.    *)
(* The server says nothing at all only if the client reset the connection  *)
(* or closed it within the head, to a Content-Length that is not a number  *)
(* or more than there is memory for, and to a parameter without a value.   *)
Unanswered ==
  \A c \in Conns : LET r == request[c] IN
    At(c, "closed") /\ out[c] = << >> =>
      \/ client[c] = "reset"
      \/ client[c] = "closed" /\ arrived[c] < HeadLen(r)
      \/ r.method = "POST" /\ (LengthOf(r) = NaN \/ LengthOf(r) > Spare)
      \/ r.method = "GET" /\ None \in Range(Parameters(r))

(* Whatever the other clients do, or leave undone, a client that sent its  *)
(* whole request, or went away, is done with: there is a thread for each.  *)
(* The exceptions are a body that was promised and of which nothing came,  *)
(* and who is not accepted when the accept loop ends (Server.java:21-30);  *)
(* those who were accepted are done with, also when it has ended.          *)
Served ==
  \A c \in Conns :
    (/\ client[c] # "off"
     /\ \/ client[c] \in {"closed", "reset"}
        \/ /\ arrived[c] = AllLen(request[c])
           /\ request[c].method = "POST" => request[c].body # << >>)
      ~> (At(c, "closed") \/ (At(c, "waiting") /\ server = "ended"))
=============================================================================
