----------------------------- MODULE HttpProofs -----------------------------
(* Theorems about Http, for any number of connections, every request a     *)
(* client may send, and every table of what may be asked.                  *)
EXTENDS Http, SequenceTheorems, TLAPS

(* What Http says of each connection is proved of the values it has in a   *)
(* state: r is the request, cl where the client is, n how much of it has   *)
(* arrived, h the handler and o what was written.                          *)
Clients == {"off", "open", "closed", "reset"}
GivenFor(text) == {Answer(Query[text], value) : value \in {"", "found"}}
Given == UNION {GivenFor(text) : text \in DOMAIN Query}
Places == {"waiting", "line", "headers", "body", "more", "process", "lines", "closed"}
Handler ==
  [pc : Places, filled : Nat, read : Nat, length : Nat \cup {None, NaN},
   body : Seq(STRING), line : Nat \ {0}, answers : Seq(Given)]

Typed(r, cl, n, h) ==
  /\ cl \in Clients /\ h \in Handler
  /\ n \in 0 .. AllLen(r) /\ h.read <= h.filled /\ h.filled <= n

(* The first m headers have a colon, and v is the last Content-Length.     *)
HeadersRead(r, m, v) ==
  /\ \A i \in 1 .. m : r.headers[i].name # "no colon"
  /\ \/ v = None /\ \A i \in 1 .. m : r.headers[i].name # "content-length"
     \/ \E k \in 1 .. m :
          /\ r.headers[k].name = "content-length" /\ r.headers[k].value = v
          /\ \A i \in k + 1 .. m : r.headers[i].name # "content-length"

(* What a handler has read of the head, in each place.                     *)
InHeadOf(r, h) ==
  /\ h.pc \in {"waiting", "line"} => h.read = 0 /\ h.length = None
  /\ h.pc = "headers" =>
       /\ r.tokens >= 3
       /\ h.read \in 1 .. Len(r.headers) + 1
       /\ HeadersRead(r, h.read - 1, h.length)
  /\ h.pc \in {"body", "more", "process", "lines"} => GoodHead(r) /\ h.length = LengthOf(r)
  /\ h.pc \in {"body", "more"} =>
       r.method = "POST" /\ h.length \in Nat \ {0} /\ h.read < HeadLen(r) + h.length

(* What was given answers the lines of b before line, in their order.      *)
Answering(given, b, line) ==
  \E of \in [DOMAIN given -> {i \in DOMAIN b : i < line}] :
    /\ \A k, l \in DOMAIN given : k < l => of[k] < of[l]
    /\ \A k \in DOMAIN given :
         /\ b[of[k]] \in DOMAIN Query
         /\ given[k].name = Query[b[of[k]]].name /\ given[k].type = Query[b[of[k]]].type

(* A token of a body whose lines are queries, each ended by a newline.     *)
GoodAt(b, i) == IF b[i] = "\n" THEN i > 1 /\ b[i - 1] # "\n" ELSE IsQuery(b[i])

GoodBefore(b, line) ==
  /\ line \in 2 .. Len(b) => b[line - 1] = "\n"
  /\ \A i \in DOMAIN b : i < line => GoodAt(b, i)

(* What it has of the body, and where it is in it.                         *)
InBodyOf(r, h) ==
  /\ h.pc = "lines" \/ (h.pc = "process" /\ r.method = "POST" /\ h.length # None) =>
       /\ r.method = "POST" /\ h.length \in 1 .. Len(r.body)
       /\ h.body = Trimmed(Covered(r))
  /\ h.pc \notin {"lines", "closed"} => h.line = 1 /\ h.answers = << >>
  /\ h.pc = "lines" =>
       /\ r.path = "/dns-query"
       /\ GoodBefore(h.body, h.line)
       /\ Answering(h.answers, h.body, h.line)

(* What Http says of a connection that has ended.                          *)
StatusOf(o) == IF o = << >> THEN 0 ELSE Head(o).status

WhyAnswered(r) ==
  \/ GoodGet(r)
  \/ GoodPost(r)
  \/ /\ r.method = "GET" /\ GoodHead(r)
     /\ Parameters(r) = [name |-> None, type |-> "PTR"]
  \/ /\ r.method = "POST" /\ GoodHead(r)
     /\ LET b == Covered(r)
            rest == SubSeq(b, 1, Len(b) - 2)
        IN  /\ b # << >> /\ Width(Last(b)) = 1
            /\ rest = << >> \/ GoodLines(rest)

WhySilent(r, cl, n) ==
  \/ cl = "reset"
  \/ cl = "closed" /\ n < HeadLen(r)
  \/ r.method = "POST" /\ (LengthOf(r) = NaN \/ LengthOf(r) > Spare)
  \/ r.method = "GET" /\ None \in Range(Parameters(r))

WhyRefused(r, cl, h) == cl # "reset" /\ (GoodGet(r) \/ GoodPost(r)) => h.read < Needed(r)

Ended(r, cl, n, h, o) ==
  /\ StatusOf(o) \in {200, 404} => WhyAnswered(r)
  /\ o = << >> => WhySilent(r, cl, n)
  /\ StatusOf(o) \notin {200, 404} => WhyRefused(r, cl, h)
  /\ StatusOf(o) = 200 /\ r.method = "POST" => AnswersOf(Head(o).body, Covered(r))

Connection(r, cl, n, h, o) ==
  /\ IsRequest(r)
  /\ Typed(r, cl, n, h)
  /\ InHeadOf(r, h) /\ InBodyOf(r, h)
  /\ IF h.pc = "closed" THEN Len(o) <= 1 /\ Ended(r, cl, n, h, o) ELSE o = << >>

(* The inductive invariant.                                                *)
IInv ==
  /\ server \in {"accepts", "ended"}
  /\ client = [c \in Conns |-> client[c]] /\ arrived = [c \in Conns |-> arrived[c]]
  /\ handler = [c \in Conns |-> handler[c]] /\ out = [c \in Conns |-> out[c]]
  /\ \A c \in Conns :
       /\ request[c] \in Requests[c]
       /\ Connection(request[c], client[c], arrived[c], handler[c], out[c])

-----------------------------------------------------------------------------
(* Requests.                                                               *)

LEMMA Lengths ==
  ASSUME NEW r, IsRequest(r)
  PROVE  /\ Len(r.headers) \in Nat /\ Len(r.body) \in Nat
         /\ HeadLen(r) = 2 + Len(r.headers) /\ AllLen(r) = HeadLen(r) + Len(r.body)
         /\ HeadLen(r) \in Nat /\ AllLen(r) \in Nat
         /\ DOMAIN r.headers = 1 .. Len(r.headers) /\ DOMAIN r.body = 1 .. Len(r.body)
  <1>1. \A S : r.headers \in Seq(S) => Len(r.headers) \in Nat /\ DOMAIN r.headers = 1 .. Len(r.headers)
    BY LenProperties
  <1>2. Len(r.headers) \in Nat /\ DOMAIN r.headers = 1 .. Len(r.headers)
    BY <1>1 DEF IsRequest
  <1>3. Len(r.body) \in Nat /\ DOMAIN r.body = 1 .. Len(r.body)
    BY LenProperties DEF IsRequest
  <1>4. HeadLen(r) = 2 + Len(r.headers) /\ HeadLen(r) \in Nat
    BY <1>2 DEF HeadLen
  <1>5. AllLen(r) = HeadLen(r) + Len(r.body)
    BY DEF AllLen
  <1>6. AllLen(r) \in Nat
    <2>1. PICK x \in Nat : x = Len(r.body)
      BY <1>3
    <2>2. PICK y \in Nat : y = HeadLen(r)
      BY <1>4
    <2> QED
      BY <1>5, <2>1, <2>2
  <1> QED
    BY <1>2, <1>3, <1>4, <1>5, <1>6

(* When all headers were read, the value kept is the Content-Length.       *)
LEMMA HeadersAll ==
  ASSUME NEW r, IsRequest(r), r.tokens >= 3, NEW v, HeadersRead(r, Len(r.headers), v)
  PROVE  GoodHead(r) /\ v = LengthOf(r)
  <1>1. DOMAIN r.headers = 1 .. Len(r.headers) /\ Len(r.headers) \in Nat
    BY Lengths
  <1>2. GoodHead(r)
    BY <1>1 DEF GoodHead, HeadersRead, Range
  <1> DEFINE lengths == {i \in DOMAIN r.headers : r.headers[i].name = "content-length"}
  <1>3. CASE v = None /\ \A i \in 1 .. Len(r.headers) : r.headers[i].name # "content-length"
    <2>1. lengths = {}
      BY <1>1, <1>3
    <2> QED
      BY <1>2, <1>3, <2>1 DEF LengthOf
  <1>4. ASSUME NEW k \in 1 .. Len(r.headers),
               r.headers[k].name = "content-length", r.headers[k].value = v,
               \A i \in k + 1 .. Len(r.headers) : r.headers[i].name # "content-length"
        PROVE  v = LengthOf(r)
    <2>1. k \in lengths /\ \A i \in lengths : k >= i /\ i \in Nat
      BY <1>1, <1>4
    <2>2. Max(lengths) = k
      <3>1. \A m \in lengths : (\A y \in lengths : m >= y) => m = k
        BY <1>1, <2>1
      <3> QED
        BY <2>1, <3>1 DEF Max
    <2> QED
      BY <1>4, <2>1, <2>2 DEF LengthOf
  <1> QED
    BY <1>2, <1>3, <1>4 DEF HeadersRead

(* The beginning of a body.                                                *)
Begins(p, b, n) ==
  /\ p \in Seq(STRING) /\ Len(p) = n /\ DOMAIN p = 1 .. n
  /\ \A i \in 1 .. n : p[i] = b[i]

LEMMA SubSeqBegins ==
  ASSUME NEW b \in Seq(STRING), NEW n \in 0 .. Len(b)
  PROVE  Begins(SubSeq(b, 1, n), b, n)
  <1>1. \A i \in 1 .. n : b[i] \in STRING
    OBVIOUS
  <1>2. /\ SubSeq(b, 1, n) \in Seq(STRING)
        /\ Len(SubSeq(b, 1, n)) = IF 1 <= n THEN n - 1 + 1 ELSE 0
        /\ \A i \in 1 .. n - 1 + 1 : SubSeq(b, 1, n)[i] = b[1 + i - 1]
    BY <1>1, SubSeqProperties
  <1> QED
    BY <1>2 DEF Begins

(* What is promised of a body, and what is left of that.                   *)
LEMMA CoveredBegins ==
  ASSUME NEW r, IsRequest(r), LengthOf(r) \in 1 .. Len(r.body)
  PROVE  Begins(Covered(r), r.body, LengthOf(r))
  <1>1. r.body \in Seq(STRING) /\ Len(r.body) \in Nat
    BY Lengths DEF IsRequest
  <1>2. CASE LengthOf(r) < Len(r.body)
    BY <1>1, <1>2, SubSeqBegins DEF Covered, Cut
  <1>3. CASE LengthOf(r) = Len(r.body)
    BY <1>1, <1>3 DEF Covered, Cut, Begins
  <1> QED
    BY <1>1, <1>2, <1>3

Shortened(b) == Len(b) >= 2 /\ b[Len(b) - 1] = "\n" /\ Width(Last(b)) = 1

LEMMA TrimmedBegins ==
  ASSUME NEW b \in Seq(STRING)
  PROVE  Begins(Trimmed(b), b, IF Shortened(b) THEN Len(b) - 2 ELSE Len(b))
  <1>1. Len(b) \in Nat
    OBVIOUS
  <1>2. CASE Shortened(b)
    <2>1. Len(b) - 2 \in 0 .. Len(b)
      BY <1>1, <1>2 DEF Shortened
    <2> QED
      BY <1>2, <2>1, SubSeqBegins DEF Trimmed, Shortened
  <1>3. CASE ~ Shortened(b)
    BY <1>1, <1>3 DEF Trimmed, Shortened, Begins
  <1> QED
    BY <1>2, <1>3

(* What is left of what was promised of a body begins the body too.        *)
LEMMA LeftBegins ==
  ASSUME NEW r, IsRequest(r), LengthOf(r) \in 1 .. Len(r.body)
  PROVE  /\ Begins(Covered(r), r.body, LengthOf(r))
         /\ Begins(Trimmed(Covered(r)), r.body, Len(Trimmed(Covered(r))))
         /\ Len(Trimmed(Covered(r))) \in 0 .. LengthOf(r)
         /\ Shortened(Covered(r)) \/ Trimmed(Covered(r)) = Covered(r)
  <1>1. Begins(Covered(r), r.body, LengthOf(r))
    BY CoveredBegins
  <1>2. PICK b \in Seq(STRING) : b = Covered(r) /\ Len(b) = LengthOf(r) /\ Len(b) \in Nat
    BY <1>1 DEF Begins
  <1>3. Begins(Trimmed(b), b, IF Shortened(b) THEN Len(b) - 2 ELSE Len(b))
    BY TrimmedBegins
  <1>4. Len(Trimmed(b)) \in 0 .. Len(b)
    BY <1>2, <1>3 DEF Begins, Shortened
  <1>5. Begins(Trimmed(b), r.body, Len(Trimmed(b)))
    BY <1>1, <1>2, <1>3, <1>4 DEF Begins
  <1>6. Shortened(b) \/ Trimmed(b) = b
    BY DEF Shortened, Trimmed
  <1> QED
    BY <1>1, <1>2, <1>4, <1>5, <1>6

(* The constants that stand for no value are none.                         *)
LEMMA NoValues ==
  /\ None # NaN /\ None \notin Nat /\ NaN \notin Nat
  /\ None \notin Types /\ "\n" \notin DOMAIN Query
  BY HttpAssumption

LEMMA EnoughHead ==
  ASSUME NEW r, IsRequest(r), GoodGet(r) \/ GoodPost(r)
  PROVE  HeadLen(r) \in Nat /\ Needed(r) \in Nat /\ HeadLen(r) <= Needed(r)
  <1>1. HeadLen(r) \in Nat
    BY Lengths
  <1>2. CASE GoodGet(r)
    BY <1>1, <1>2 DEF GoodGet, Needed
  <1>3. CASE GoodPost(r)
    BY <1>1, <1>3 DEF GoodPost, Needed
  <1> QED
    BY <1>1, <1>2, <1>3

-----------------------------------------------------------------------------
(* How the steps of one connection preserve the invariant of all.          *)

LEMMA ConnectionStep ==
  ASSUME IInv, NEW c \in Conns, UNCHANGED << server, request >>,
         NEW cl, client' = [client EXCEPT ![c] = cl],
         NEW n, arrived' = [arrived EXCEPT ![c] = n],
         NEW h, handler' = [handler EXCEPT ![c] = h],
         NEW o, out' = [out EXCEPT ![c] = o],
         Connection(request[c], cl, n, h, o)
  PROVE  IInv'
  <1>1. /\ client' = [d \in Conns |-> IF d = c THEN cl ELSE client[d]]
        /\ arrived' = [d \in Conns |-> IF d = c THEN n ELSE arrived[d]]
        /\ handler' = [d \in Conns |-> IF d = c THEN h ELSE handler[d]]
        /\ out' = [d \in Conns |-> IF d = c THEN o ELSE out[d]]
    BY DEF IInv
  <1>2. /\ client' = [d \in Conns |-> client'[d]] /\ arrived' = [d \in Conns |-> arrived'[d]]
        /\ handler' = [d \in Conns |-> handler'[d]] /\ out' = [d \in Conns |-> out'[d]]
    BY <1>1
  <1>3. ASSUME NEW d \in Conns
        PROVE  /\ request'[d] \in Requests[d]
               /\ Connection(request'[d], client'[d], arrived'[d], handler'[d], out'[d])
    <2>1. CASE d = c
      BY <1>1, <2>1 DEF IInv
    <2>2. CASE d # c
      BY <1>1, <2>2 DEF IInv
    <2> QED
      BY <2>1, <2>2
  <1> QED
    BY <1>2, <1>3 DEF IInv

LEMMA GoesKeeps ==
  ASSUME IInv, NEW c \in Conns, NEW h, Goes(c, h),
         Connection(request[c], client[c], arrived[c], h, out[c])
  PROVE  IInv'
  <1>1. /\ client' = [client EXCEPT ![c] = client[c]] /\ arrived' = [arrived EXCEPT ![c] = arrived[c]]
        /\ handler' = [handler EXCEPT ![c] = h] /\ out' = [out EXCEPT ![c] = out[c]]
        /\ UNCHANGED << server, request >>
    BY DEF IInv, Goes
  <1> QED
    BY <1>1, ConnectionStep

(* A handler that ends leaves nothing but how its connection ended.        *)
LEMMA Closes ==
  ASSUME NEW r, NEW cl, NEW n, NEW h, NEW o, NEW p, Connection(r, cl, n, h, o),
         Len(p) <= 1, Ended(r, cl, n, [h EXCEPT !.pc = "closed"], p)
  PROVE  Connection(r, cl, n, [h EXCEPT !.pc = "closed"], p)
  <1>1. PICK g : g = [h EXCEPT !.pc = "closed"]
    OBVIOUS
  <1>2. g \in Handler /\ g.pc = "closed" /\ g.read = h.read /\ g.filled = h.filled
    BY <1>1 DEF Connection, Typed, Handler, Places
  <1>3. Typed(r, cl, n, g)
    BY <1>2 DEF Connection, Typed
  <1>4. InHeadOf(r, g) /\ InBodyOf(r, g)
    BY <1>2 DEF InHeadOf, InBodyOf
  <1> QED
    BY <1>1, <1>2, <1>3, <1>4 DEF Connection

(* What a status may say of the request.                                   *)
Justified(r, cl, h, status, body) ==
  /\ status \in {200, 404} => WhyAnswered(r)
  /\ status \notin {200, 404} => status # 0 /\ WhyRefused(r, cl, h)
  /\ status = 200 /\ r.method = "POST" => AnswersOf(body, Covered(r))

LEMMA WritesKeeps ==
  ASSUME IInv, NEW c \in Conns, handler[c].pc # "closed", NEW status, NEW body,
         Writes(c, << [status |-> status, body |-> body] >>),
         Justified(request[c], client[c], handler[c], status, body)
  PROVE  IInv'
  <1>1. Connection(request[c], client[c], arrived[c], handler[c], << >>) /\ out[c] = << >>
    BY DEF IInv, Connection
  <1>2. PICK w : w = << [status |-> status, body |-> body] >>
    OBVIOUS
  <1>3. Len(w) <= 1 /\ w # << >> /\ StatusOf(w) = status /\ Head(w).body = body
    BY <1>2 DEF StatusOf
  <1>4. << >> \o w = w
    BY <1>2
  <1>5. PICK h : h = [handler[c] EXCEPT !.pc = "closed"]
    OBVIOUS
  <1>6. h.read = handler[c].read
    BY <1>1, <1>5 DEF Connection, Typed, Handler
  <1>7. UNCHANGED << server, request >>
    BY DEF Writes
  <1>8. /\ client' = [client EXCEPT ![c] = client[c]] /\ arrived' = [arrived EXCEPT ![c] = arrived[c]]
        /\ handler' = [handler EXCEPT ![c] = h]
    BY <1>5 DEF IInv, Writes
  <1>9. CASE client[c] = "reset"
    <2>1. out' = [out EXCEPT ![c] = << >>]
      BY <1>1, <1>9 DEF IInv, Writes
    <2>2. Ended(request[c], client[c], arrived[c], h, << >>)
      BY <1>9 DEF Ended, StatusOf, WhySilent, WhyRefused
    <2>3. Connection(request[c], client[c], arrived[c], h, << >>)
      BY <1>1, <1>5, <2>2, Closes
    <2> QED
      BY <1>7, <1>8, <2>1, <2>3, ConnectionStep
  <1>10. CASE client[c] # "reset"
    <2>1. out' = [out EXCEPT ![c] = w]
      BY <1>1, <1>2, <1>4, <1>10 DEF IInv, Writes
    <2>2. Ended(request[c], client[c], arrived[c], h, w)
      BY <1>3, <1>6 DEF Ended, Justified, WhyRefused
    <2>3. Connection(request[c], client[c], arrived[c], h, w)
      BY <1>1, <1>3, <1>5, <2>2, Closes
    <2> QED
      BY <1>7, <1>8, <2>1, <2>3, ConnectionStep
  <1> QED
    BY <1>9, <1>10

(* A response that refuses a request.                                      *)
LEMMA RefusesKeeps ==
  ASSUME IInv, NEW c \in Conns, handler[c].pc # "closed",
         NEW status \in {400, 405, 500}, Responds(c, status),
         WhyRefused(request[c], client[c], handler[c])
  PROVE  IInv'
  <1>1. Justified(request[c], client[c], handler[c], status, << >>)
    BY DEF Justified
  <1> QED
    BY <1>1, WritesKeeps DEF Responds

LEMMA ThrowsKeeps ==
  ASSUME IInv, NEW c \in Conns, handler[c].pc # "closed", Throws(c),
         WhySilent(request[c], client[c], arrived[c]),
         WhyRefused(request[c], client[c], handler[c])
  PROVE  IInv'
  <1>1. Connection(request[c], client[c], arrived[c], handler[c], << >>) /\ out[c] = << >>
    BY DEF IInv, Connection
  <1>2. PICK h : h = [handler[c] EXCEPT !.pc = "closed"]
    OBVIOUS
  <1>3. h.read = handler[c].read
    BY <1>1, <1>2 DEF Connection, Typed, Handler
  <1>4. Ended(request[c], client[c], arrived[c], h, << >>) /\ Len(<< >>) <= 1
    BY <1>3 DEF Ended, StatusOf, WhyRefused
  <1>5. Connection(request[c], client[c], arrived[c], h, out[c])
    BY <1>1, <1>2, <1>4, Closes
  <1> QED
    BY <1>2, <1>5, GoesKeeps DEF Throws

-----------------------------------------------------------------------------
(* The client, and the accept loop.                                        *)

LEMMA ConnectKeeps ==
  ASSUME IInv, NEW c \in Conns, Connect(c)
  PROVE  IInv'
  <1>1. Connection(request[c], "off", arrived[c], handler[c], out[c])
    BY DEF IInv, Connect
  <1>2. Connection(request[c], "open", arrived[c], handler[c], out[c])
    BY <1>1 DEF Connection, Typed, Clients, Ended, WhySilent, WhyRefused
  <1>3. /\ client' = [client EXCEPT ![c] = "open"] /\ arrived' = [arrived EXCEPT ![c] = arrived[c]]
        /\ handler' = [handler EXCEPT ![c] = handler[c]] /\ out' = [out EXCEPT ![c] = out[c]]
        /\ UNCHANGED << server, request >>
    BY DEF IInv, Connect
  <1> QED
    BY <1>2, <1>3, ConnectionStep

LEMMA ArriveKeeps ==
  ASSUME IInv, NEW c \in Conns, Arrive(c)
  PROVE  IInv'
  <1>1. Connection(request[c], "open", arrived[c], handler[c], out[c]) /\ arrived[c] < AllLen(request[c])
    BY DEF IInv, Arrive
  <1>2. AllLen(request[c]) \in Nat /\ arrived[c] \in Nat
    BY <1>1, Lengths DEF Connection, Typed
  <1>3. PICK n \in Nat : n = arrived[c] + 1
    BY <1>2
  <1>4. handler[c] \in Handler /\ handler[c].filled \in Nat
    BY <1>1 DEF Connection, Typed, Handler
  <1>5. Typed(request[c], "open", n, handler[c])
    BY <1>1, <1>2, <1>3, <1>4 DEF Connection, Typed
  <1>6. Connection(request[c], "open", n, handler[c], out[c])
    BY <1>1, <1>5 DEF Connection, Ended, WhySilent, WhyRefused
  <1>7. /\ client' = [client EXCEPT ![c] = "open"] /\ arrived' = [arrived EXCEPT ![c] = n]
        /\ handler' = [handler EXCEPT ![c] = handler[c]] /\ out' = [out EXCEPT ![c] = out[c]]
        /\ UNCHANGED << server, request >>
    BY <1>3 DEF IInv, Arrive
  <1> QED
    BY <1>6, <1>7, ConnectionStep

LEMMA LeaveKeeps ==
  ASSUME IInv, NEW c \in Conns, Leave(c)
  PROVE  IInv'
  <1>1. PICK how \in {"closed", "reset"} : client' = [client EXCEPT ![c] = how]
    BY DEF Leave
  <1>2. Connection(request[c], client[c], arrived[c], handler[c], out[c]) /\ handler[c].pc # "closed"
    BY DEF IInv, Leave
  <1>3. Connection(request[c], how, arrived[c], handler[c], out[c])
    BY <1>2 DEF Connection, Typed, Clients
  <1>4. /\ arrived' = [arrived EXCEPT ![c] = arrived[c]]
        /\ handler' = [handler EXCEPT ![c] = handler[c]] /\ out' = [out EXCEPT ![c] = out[c]]
        /\ UNCHANGED << server, request >>
    BY DEF IInv, Leave
  <1> QED
    BY <1>1, <1>3, <1>4, ConnectionStep

LEMMA AcceptKeeps ==
  ASSUME IInv, NEW c \in Conns, Accept(c)
  PROVE  IInv'
  <1>1. Connection(request[c], client[c], arrived[c], handler[c], out[c]) /\ handler[c].pc = "waiting"
    BY DEF IInv, Accept
  <1>2. PICK h : h = [handler[c] EXCEPT !.pc = "line"]
    OBVIOUS
  <1>3. /\ h \in Handler /\ h.pc = "line" /\ h.read = handler[c].read /\ h.filled = handler[c].filled
        /\ h.length = handler[c].length /\ h.line = handler[c].line /\ h.answers = handler[c].answers
    BY <1>1, <1>2 DEF Connection, Typed, Handler, Places
  <1>4. Connection(request[c], client[c], arrived[c], h, out[c])
    BY <1>1, <1>3 DEF Connection, Typed, InHeadOf, InBodyOf
  <1> QED
    BY <1>2, <1>4, GoesKeeps DEF Accept, Goes

LEMMA AcceptFailsKeeps ==
  ASSUME IInv, AcceptFails
  PROVE  IInv'
  BY DEF IInv, AcceptFails

-----------------------------------------------------------------------------
(* The handler: what it reads of the head.                                 *)

(* What is known where a handler stands.                                   *)
LEMMA Stands ==
  ASSUME IInv, NEW c \in Conns, handler[c].pc # "closed"
  PROVE  /\ Connection(request[c], client[c], arrived[c], handler[c], out[c]) /\ out[c] = << >>
         /\ IsRequest(request[c]) /\ handler[c] \in Handler
         /\ handler[c].read \in Nat /\ handler[c].filled \in Nat /\ arrived[c] \in Nat
         /\ handler[c].read <= handler[c].filled /\ handler[c].filled <= arrived[c]
         /\ arrived[c] <= AllLen(request[c])
         /\ InHeadOf(request[c], handler[c]) /\ InBodyOf(request[c], handler[c])
  <1>1. Connection(request[c], client[c], arrived[c], handler[c], out[c]) /\ out[c] = << >>
    BY DEF IInv, Connection
  <1>2. AllLen(request[c]) \in Nat
    BY <1>1, Lengths DEF Connection
  <1> QED
    BY <1>1, <1>2 DEF Connection, Typed, Handler

LEMMA FillKeeps ==
  ASSUME IInv, NEW c \in Conns, Fill(c)
  PROVE  IInv'
  <1>1. handler[c].pc \in {"line", "headers", "body"} /\ arrived[c] > handler[c].filled
    BY DEF Fill, At
  <1>2. PICK h : h = [handler[c] EXCEPT !.filled = arrived[c]]
    OBVIOUS
  <1>3. h.pc = handler[c].pc /\ h.read = handler[c].read /\ h.length = handler[c].length
        /\ h.line = handler[c].line /\ h.answers = handler[c].answers
        /\ h \in Handler /\ h.filled = arrived[c]
    BY <1>1, <1>2, Stands DEF Handler
  <1>4. Typed(request[c], client[c], arrived[c], h)
    BY <1>1, <1>3, Stands DEF Connection, Typed
  <1>5. InHeadOf(request[c], h) /\ InBodyOf(request[c], h)
    BY <1>1, <1>3, Stands DEF InHeadOf, InBodyOf
  <1>6. Connection(request[c], client[c], arrived[c], h, out[c])
    BY <1>1, <1>3, <1>4, <1>5, Stands DEF Connection
  <1> QED
    BY <1>2, <1>6, GoesKeeps DEF Fill

LEMMA ReadFailsKeeps ==
  ASSUME IInv, NEW c \in Conns, ReadFails(c)
  PROVE  IInv'
  BY RefusesKeeps DEF ReadFails, At, WhyRefused

(* A handler that is still in the head of a good request has not read what *)
(* it needs.                                                               *)
LEMMA HeadRefused ==
  ASSUME IInv, NEW c \in Conns, handler[c].pc # "closed", handler[c].read < HeadLen(request[c])
  PROVE  WhyRefused(request[c], client[c], handler[c])
  BY Stands, EnoughHead DEF WhyRefused

LEMMA RequestLineKeeps ==
  ASSUME IInv, NEW c \in Conns, RequestLine(c)
  PROVE  IInv'
  <1>1. handler[c].pc = "line" /\ handler[c].read < handler[c].filled
    BY DEF RequestLine, At, Buffered
  <1>2. CASE request[c].tokens < 3
    <2>1. ~ GoodHead(request[c])
      <3>1. PICK t \in Nat : t = request[c].tokens
        BY <1>1, Stands DEF IsRequest
      <3>2. ~ (request[c].tokens >= 3)
        BY <1>2, <3>1
      <3> QED
        BY <3>2 DEF GoodHead
    <2>2. ~ GoodGet(request[c]) /\ ~ GoodPost(request[c])
      BY <2>1 DEF GoodGet, GoodPost
    <2> QED
      BY <1>1, <1>2, <2>2, RefusesKeeps DEF RequestLine, WhyRefused
  <1>3. CASE ~ (request[c].tokens < 3)
    <2>1. PICK h : h = [handler[c] EXCEPT !.pc = "headers", !.read = handler[c].read + 1]
      OBVIOUS
    <2>2. Goes(c, h)
      BY <1>3, <2>1 DEF RequestLine
    <2>3. handler[c].read = 0 /\ handler[c].length = None /\ handler[c].line = 1 /\ handler[c].answers = << >>
      BY <1>1, Stands DEF InHeadOf, InBodyOf
    <2>4. /\ h \in Handler /\ h.pc = "headers" /\ h.read = 1 /\ h.length = None /\ h.line = 1
          /\ h.answers = << >> /\ h.filled = handler[c].filled
      <3>1. handler[c] \in Handler /\ handler[c].read + 1 \in Nat
        BY <1>1, Stands
      <3>2. h \in Handler
        BY <2>1, <3>1 DEF Handler, Places
      <3>3. /\ h.pc = "headers" /\ h.read = handler[c].read + 1 /\ h.length = handler[c].length
            /\ h.line = handler[c].line /\ h.answers = handler[c].answers /\ h.filled = handler[c].filled
        BY <2>1, <3>1 DEF Handler
      <3> QED
        BY <2>3, <3>2, <3>3
    <2>5. request[c].tokens >= 3 /\ Len(request[c].headers) \in Nat
      BY <1>1, <1>3, Stands, Lengths DEF IsRequest
    <2>6. HeadersRead(request[c], 0, None)
      BY DEF HeadersRead
    <2>7. InHeadOf(request[c], h)
      BY <2>4, <2>5, <2>6 DEF InHeadOf
    <2>8. InBodyOf(request[c], h)
      BY <2>4 DEF InBodyOf
    <2>9. Typed(request[c], client[c], arrived[c], h)
      BY <1>1, <2>3, <2>4, Stands DEF Connection, Typed
    <2>10. Connection(request[c], client[c], arrived[c], h, out[c])
      BY <1>1, <2>4, <2>7, <2>8, <2>9, Stands DEF Connection
    <2> QED
      BY <2>2, <2>10, GoesKeeps
  <1> QED
    BY <1>2, <1>3

LEMMA NoLineKeeps ==
  ASSUME IInv, NEW c \in Conns, NoLine(c)
  PROVE  IInv'
  <1>1. handler[c].pc = "line" /\ Responds(c, 400)
    BY DEF NoLine, At
  <1>2. handler[c].read = 0 /\ IsRequest(request[c])
    BY <1>1, Stands DEF InHeadOf
  <1>3. 0 < HeadLen(request[c])
    BY <1>2, Lengths
  <1> QED
    BY <1>1, <1>2, <1>3, HeadRefused, RefusesKeeps

LEMMA OneMore ==
  ASSUME NEW m \in Nat
  PROVE  /\ \A k \in Nat : \A i \in k + 1 .. m + 1 : i \in k + 1 .. m \/ i = m + 1
         /\ \A i \in 1 .. m + 1 : i \in 1 .. m \/ i = m + 1
         /\ \A k \in 1 .. m : k \in 1 .. m + 1 /\ k \in Nat
         /\ m + 1 \in 1 .. m + 1 /\ \A i \in m + 1 + 1 .. m + 1 : FALSE
  OBVIOUS

LEMMA HeadersMore ==
  ASSUME NEW r, IsRequest(r), NEW m \in Nat, m + 1 \in DOMAIN r.headers, NEW v, NEW w,
         HeadersRead(r, m, v), r.headers[m + 1].name # "no colon",
         w = IF r.headers[m + 1].name = "content-length" THEN r.headers[m + 1].value ELSE v
  PROVE  HeadersRead(r, m + 1, w)
  <1>1. \A i \in 1 .. m + 1 : i \in 1 .. m \/ i = m + 1
    BY OneMore
  <1>2. \A i \in 1 .. m + 1 : r.headers[i].name # "no colon"
    BY <1>1 DEF HeadersRead
  <1>3. CASE r.headers[m + 1].name = "content-length"
    <2>1. m + 1 \in 1 .. m + 1 /\ \A i \in m + 1 + 1 .. m + 1 : FALSE
      BY OneMore
    <2> QED
      BY <1>2, <1>3, <2>1 DEF HeadersRead
  <1>4. CASE r.headers[m + 1].name # "content-length" /\ v = None
             /\ \A i \in 1 .. m : r.headers[i].name # "content-length"
    BY <1>1, <1>2, <1>4 DEF HeadersRead
  <1>5. ASSUME r.headers[m + 1].name # "content-length", NEW k \in 1 .. m,
               r.headers[k].name = "content-length", r.headers[k].value = v,
               \A i \in k + 1 .. m : r.headers[i].name # "content-length"
        PROVE  HeadersRead(r, m + 1, w)
    <2>1. k \in 1 .. m + 1 /\ \A i \in k + 1 .. m + 1 : i \in k + 1 .. m \/ i = m + 1
      BY OneMore
    <2>2. \A i \in k + 1 .. m + 1 : r.headers[i].name # "content-length"
      BY <1>5, <2>1
    <2> QED
      BY <1>2, <1>5, <2>1, <2>2 DEF HeadersRead
  <1> QED
    BY <1>3, <1>4, <1>5 DEF HeadersRead

LEMMA HeaderKeeps ==
  ASSUME IInv, NEW c \in Conns, Header(c)
  PROVE  IInv'
  <1>1. /\ handler[c].pc = "headers" /\ handler[c].read < handler[c].filled
        /\ handler[c].read <= Len(request[c].headers)
    BY DEF Header, HeaderLine, InHead, At, Buffered, Token
  <1>2. /\ IsRequest(request[c]) /\ request[c].tokens >= 3
        /\ handler[c].read \in 1 .. Len(request[c].headers) + 1
        /\ HeadersRead(request[c], handler[c].read - 1, handler[c].length)
        /\ handler[c].line = 1 /\ handler[c].answers = << >>
    BY <1>1, Stands DEF InHeadOf, InBodyOf
  <1>3. PICK k : k = handler[c].read
    OBVIOUS
  <1>4. k \in DOMAIN request[c].headers /\ k \in 1 .. Len(request[c].headers)
        /\ k \in Nat /\ Len(request[c].headers) \in Nat
    BY <1>1, <1>2, <1>3, Lengths
  <1>5. PICK x : x = request[c].headers[k]
    OBVIOUS
  <1>6. x.value \in Nat \cup {None, NaN}
    <2>1. PICK s : s = request[c].headers
      OBVIOUS
    <2>2. s \in Seq([name : STRING, value : Nat \cup {None, NaN}])
      BY <1>2, <2>1 DEF IsRequest
    <2>3. k \in 1 .. Len(s)
      BY <1>4, <2>1
    <2>4. s[k] \in [name : STRING, value : Nat \cup {None, NaN}]
      BY <2>2, <2>3, ElementOfSeq
    <2> QED
      BY <1>5, <2>1, <2>4
  <1>7. CASE x.name = "no colon"
    <2>1. ~ GoodHead(request[c])
      BY <1>4, <1>5, <1>7 DEF GoodHead, Range
    <2>2. ~ GoodGet(request[c]) /\ ~ GoodPost(request[c])
      BY <2>1 DEF GoodGet, GoodPost
    <2>3. Responds(c, 400)
      BY <1>3, <1>5, <1>7 DEF Header, Token
    <2> QED
      BY <1>1, <2>2, <2>3, RefusesKeeps DEF WhyRefused
  <1>8. CASE x.name # "no colon"
    <2>1. PICK v : v = IF x.name = "content-length" THEN x.value ELSE handler[c].length
      OBVIOUS
    <2>2. PICK h : h = [handler[c] EXCEPT !.read = k + 1, !.length = v]
      OBVIOUS
    <2>3. Goes(c, h)
      BY <1>3, <1>5, <1>8, <2>1, <2>2 DEF Header, Token
    <2>4. handler[c] \in Handler /\ v \in Nat \cup {None, NaN} /\ k + 1 \in Nat
      BY <1>1, <1>4, <1>6, <2>1, Stands DEF Handler
    <2>5. h \in Handler
      BY <2>2, <2>4 DEF Handler
    <2>6. /\ h.pc = "headers" /\ h.read = k + 1 /\ h.length = v
          /\ h.line = handler[c].line /\ h.answers = handler[c].answers /\ h.filled = handler[c].filled
      BY <1>1, <2>2, <2>4 DEF Handler
    <2>7. HeadersRead(request[c], k, v)
      <3>1. PICK m \in Nat : m = k - 1 /\ k = m + 1
        BY <1>4
      <3>2. HeadersRead(request[c], m, handler[c].length)
        BY <1>2, <1>3, <3>1
      <3>3. m + 1 \in DOMAIN request[c].headers /\ x = request[c].headers[m + 1]
        BY <1>4, <1>5, <3>1
      <3>4. HeadersRead(request[c], m + 1, v)
        BY <1>2, <1>8, <2>1, <3>2, <3>3, HeadersMore
      <3> QED
        BY <3>1, <3>4
    <2>8. k = h.read - 1 /\ h.read \in 1 .. Len(request[c].headers) + 1
      BY <1>4, <2>6
    <2>9. InHeadOf(request[c], h) /\ InBodyOf(request[c], h)
      BY <1>2, <2>6, <2>7, <2>8 DEF InHeadOf, InBodyOf
    <2>10. Typed(request[c], client[c], arrived[c], h)
      BY <1>1, <1>3, <1>4, <2>5, <2>6, Stands DEF Connection, Typed
    <2>11. Connection(request[c], client[c], arrived[c], h, out[c])
      BY <1>1, <2>6, <2>9, <2>10, Stands DEF Connection
    <2> QED
      BY <2>3, <2>11, GoesKeeps
  <1> QED
    BY <1>7, <1>8

LEMMA HeadersEndKeeps ==
  ASSUME IInv, NEW c \in Conns, HeadersEnd(c)
  PROVE  IInv'
  <1>1. /\ handler[c].pc = "headers" /\ handler[c].read < handler[c].filled
        /\ ~ (handler[c].read <= Len(request[c].headers))
    BY DEF HeadersEnd, HeaderLine, InHead, At, Buffered, Token
  <1>2. /\ IsRequest(request[c]) /\ request[c].tokens >= 3
        /\ handler[c].read \in 1 .. Len(request[c].headers) + 1
        /\ HeadersRead(request[c], handler[c].read - 1, handler[c].length)
        /\ handler[c].line = 1 /\ handler[c].answers = << >>
        /\ handler[c] \in Handler
    BY <1>1, Stands DEF InHeadOf, InBodyOf
  <1>3. Len(request[c].headers) \in Nat /\ HeadLen(request[c]) = 2 + Len(request[c].headers)
    BY <1>2, Lengths
  <1>4. /\ handler[c].read - 1 = Len(request[c].headers)
        /\ handler[c].read < HeadLen(request[c]) /\ handler[c].read + 1 = HeadLen(request[c])
    <2>1. PICK k \in Nat : k = handler[c].read
      BY <1>1, Stands
    <2>2. PICK n \in Nat : n = Len(request[c].headers)
      BY <1>3
    <2>3. k = n + 1
      BY <1>1, <1>2, <2>1, <2>2
    <2> QED
      BY <1>3, <2>1, <2>2, <2>3
  <1>5. GoodHead(request[c]) /\ handler[c].length = LengthOf(request[c])
    BY <1>2, <1>4, HeadersAll
  <1>6. WhyRefused(request[c], client[c], handler[c])
    BY <1>1, <1>4, HeadRefused
  <1>7. ASSUME NEW pc \in {"process", "body"}, Goes(c, [handler[c] EXCEPT !.pc = pc, !.read = handler[c].read + 1]),
               \/ pc = "process" /\ (request[c].method # "POST" \/ handler[c].length = None)
               \/ pc = "body" /\ request[c].method = "POST" /\ handler[c].length \in Nat \ {0}
        PROVE  IInv'
    <2>1. PICK h : h = [handler[c] EXCEPT !.pc = pc, !.read = handler[c].read + 1]
      OBVIOUS
    <2>2. handler[c].read + 1 \in Nat
      BY <1>1, Stands
    <2>3. h \in Handler
      BY <1>2, <2>1, <2>2 DEF Handler, Places
    <2>4. /\ h.pc = pc /\ h.read = HeadLen(request[c]) /\ h.length = handler[c].length
          /\ h.line = 1 /\ h.answers = << >> /\ h.filled = handler[c].filled
      BY <1>2, <1>4, <2>1 DEF Handler
    <2>5. HeadLen(request[c]) <= handler[c].filled
      BY <1>1, <1>4, <2>2, Stands
    <2>6. Typed(request[c], client[c], arrived[c], h)
      BY <1>1, <2>3, <2>4, <2>5, Stands DEF Connection, Typed
    <2>7. \A m \in Nat \ {0} : HeadLen(request[c]) < HeadLen(request[c]) + m
      BY <1>3
    <2>8. InHeadOf(request[c], h)
      BY <1>5, <1>7, <2>4, <2>7 DEF InHeadOf
    <2>9. InBodyOf(request[c], h)
      BY <1>7, <2>4 DEF InBodyOf
    <2>10. Connection(request[c], client[c], arrived[c], h, out[c])
      BY <1>1, <1>7, <2>4, <2>6, <2>8, <2>9, Stands DEF Connection
    <2> QED
      BY <1>7, <2>1, <2>10, GoesKeeps
  <1>8. CASE request[c].method # "POST" \/ handler[c].length = None
    <2>1. Goes(c, [handler[c] EXCEPT !.pc = "process", !.read = handler[c].read + 1])
      BY <1>8 DEF HeadersEnd
    <2> QED
      BY <1>7, <1>8, <2>1
  <1>9. CASE request[c].method = "POST" /\ handler[c].length # None
    <2>1. CASE handler[c].length = NaN
      <3>1. Throws(c)
        BY <1>9, <2>1 DEF HeadersEnd
      <3>2. WhySilent(request[c], client[c], arrived[c])
        BY <1>5, <1>9, <2>1 DEF WhySilent
      <3> QED
        BY <1>1, <1>6, <3>1, <3>2, ThrowsKeeps
    <2>2. CASE handler[c].length # NaN /\ TooShort(c)
      <3>1. Responds(c, 400)
        BY <1>9, <2>2 DEF HeadersEnd
      <3> QED
        BY <1>1, <1>6, <3>1, RefusesKeeps
    <2>3. CASE handler[c].length # NaN /\ ~ TooShort(c)
      <3>1. \/ Goes(c, [handler[c] EXCEPT !.pc = "body", !.read = handler[c].read + 1])
            \/ handler[c].length > Spare /\ Throws(c)
        BY <1>9, <2>3 DEF HeadersEnd
      <3>2. handler[c].length \in Nat \cup {None, NaN}
        BY <1>2 DEF Handler
      <3>3. handler[c].length \in Nat \ {0}
        BY <1>9, <2>3, <3>2 DEF TooShort
      <3>4. CASE Goes(c, [handler[c] EXCEPT !.pc = "body", !.read = handler[c].read + 1])
        BY <1>7, <1>9, <3>3, <3>4
      <3>5. CASE handler[c].length > Spare /\ Throws(c)
        <4>1. WhySilent(request[c], client[c], arrived[c])
          BY <1>5, <1>9, <3>5 DEF WhySilent
        <4> QED
          BY <1>1, <1>6, <3>5, <4>1, ThrowsKeeps
      <3> QED
        BY <3>1, <3>4, <3>5
    <2> QED
      BY <2>1, <2>2, <2>3
  <1> QED
    BY <1>8, <1>9

LEMMA NoHeaderKeeps ==
  ASSUME IInv, NEW c \in Conns, NoHeader(c)
  PROVE  IInv'
  <1>1. /\ handler[c].pc = "headers" /\ ~ (handler[c].read < handler[c].filled)
        /\ client[c] = "closed" /\ arrived[c] = handler[c].filled /\ Throws(c)
    BY DEF NoHeader, At, EndOfInput, Buffered
  <1>2. IsRequest(request[c]) /\ handler[c].read \in 1 .. Len(request[c].headers) + 1
    BY <1>1, Stands DEF InHeadOf
  <1>3. Len(request[c].headers) \in Nat /\ HeadLen(request[c]) = 2 + Len(request[c].headers)
    BY <1>2, Lengths
  <1>4. handler[c].read < HeadLen(request[c]) /\ arrived[c] < HeadLen(request[c])
    BY <1>1, <1>2, <1>3, Stands
  <1>5. WhySilent(request[c], client[c], arrived[c])
    BY <1>1, <1>4 DEF WhySilent
  <1>6. WhyRefused(request[c], client[c], handler[c])
    BY <1>1, <1>4, HeadRefused
  <1> QED
    BY <1>1, <1>5, <1>6, ThrowsKeeps

-----------------------------------------------------------------------------
(* The handler: the body.                                                  *)

(* A handler that has not read a body to its end has not read what it      *)
(* needs.                                                                  *)
LEMMA BodyStands ==
  ASSUME IInv, NEW c \in Conns, handler[c].pc \in {"body", "more"}
  PROVE  /\ GoodHead(request[c]) /\ request[c].method = "POST"
         /\ handler[c].length = LengthOf(request[c]) /\ handler[c].length \in Nat \ {0}
         /\ BodyEnd(c) = HeadLen(request[c]) + handler[c].length
         /\ BodyEnd(c) \in Nat /\ handler[c].read < BodyEnd(c)
         /\ handler[c].line = 1 /\ handler[c].answers = << >>
         /\ WhyRefused(request[c], client[c], handler[c])
  <1>1. /\ GoodHead(request[c]) /\ request[c].method = "POST"
        /\ handler[c].length = LengthOf(request[c]) /\ handler[c].length \in Nat \ {0}
        /\ handler[c].read < HeadLen(request[c]) + handler[c].length
        /\ handler[c].line = 1 /\ handler[c].answers = << >>
    BY Stands DEF InHeadOf, InBodyOf
  <1>2. BodyEnd(c) = HeadLen(request[c]) + handler[c].length
    BY DEF BodyEnd
  <1>3. HeadLen(request[c]) \in Nat
    BY Stands, Lengths
  <1>4. BodyEnd(c) \in Nat
    BY <1>1, <1>2, <1>3
  <1>5. WhyRefused(request[c], client[c], handler[c])
    BY <1>1 DEF WhyRefused, Needed
  <1> QED
    BY <1>1, <1>2, <1>4, <1>5

LEMMA BodyKeeps ==
  ASSUME IInv, NEW c \in Conns, Body(c)
  PROVE  IInv'
  <1>1. handler[c].pc = "body" /\ handler[c].read < handler[c].filled
    BY DEF Body, Reads, At, Buffered
  <1>2. PICK r : r = request[c]
    OBVIOUS
  <1>3. /\ IsRequest(r) /\ handler[c] \in Handler /\ r.method = "POST" /\ GoodHead(r)
        /\ handler[c].length = LengthOf(r) /\ LengthOf(r) \in Nat \ {0}
        /\ BodyEnd(c) = HeadLen(r) + LengthOf(r)
    BY <1>1, <1>2, Stands, BodyStands
  <1>4. /\ HeadLen(r) \in Nat /\ Len(r.body) \in Nat
        /\ AllLen(r) = HeadLen(r) + Len(r.body) /\ r.body \in Seq(STRING)
    BY <1>3, Lengths DEF IsRequest
  <1>5. CASE handler[c].filled < BodyEnd(c)
    <2>1. PICK h : h = [handler[c] EXCEPT !.read = handler[c].filled, !.pc = "more"]
      OBVIOUS
    <2>2. handler[c].filled # BodyEnd(c)
      BY <1>1, <1>5, Stands, BodyStands
    <2>3. Goes(c, h)
      BY <1>5, <2>1, <2>2 DEF Body, Reads
    <2>4. h \in Handler
      BY <1>1, <1>3, <2>1, Stands DEF Handler, Places
    <2>5. /\ h.pc = "more" /\ h.read = handler[c].filled /\ h.length = handler[c].length
          /\ h.line = handler[c].line /\ h.answers = handler[c].answers /\ h.filled = handler[c].filled
      BY <1>3, <2>1 DEF Handler
    <2>6. InHeadOf(r, h)
      BY <1>3, <1>5, <2>5 DEF InHeadOf
    <2>7. InBodyOf(r, h)
      BY <1>1, <2>5, BodyStands DEF InBodyOf
    <2>8. Typed(r, client[c], arrived[c], h)
      BY <1>1, <1>2, <2>4, <2>5, Stands DEF Connection, Typed
    <2>9. Connection(request[c], client[c], arrived[c], h, out[c])
      BY <1>1, <1>2, <2>5, <2>6, <2>7, <2>8, Stands DEF Connection
    <2> QED
      BY <2>3, <2>9, GoesKeeps
  <1>6. CASE ~ (handler[c].filled < BodyEnd(c))
    <2>1. PICK h : h = [handler[c] EXCEPT !.read = BodyEnd(c), !.pc = "process", !.body = Trimmed(Promised(c))]
      OBVIOUS
    <2>2. Goes(c, h)
      BY <1>6, <2>1 DEF Body, Reads
    <2>3. LengthOf(r) \in 1 .. Len(r.body)
      <3>1. BodyEnd(c) <= AllLen(r)
        BY <1>1, <1>2, <1>4, <1>6, Stands, BodyStands
      <3> QED
        BY <1>3, <1>4, <3>1
    <2>4. Promised(c) = Covered(r)
      BY <1>2, <1>3 DEF Promised, Covered
    <2>5. Trimmed(Promised(c)) \in Seq(STRING)
      BY <1>3, <2>3, <2>4, LeftBegins DEF Begins
    <2>6. h \in Handler
      BY <1>1, <1>3, <2>1, <2>5, BodyStands DEF Handler, Places
    <2>7. /\ h.pc = "process" /\ h.read = BodyEnd(c) /\ h.length = handler[c].length
          /\ h.line = handler[c].line /\ h.answers = handler[c].answers /\ h.filled = handler[c].filled
          /\ h.body = Trimmed(Covered(r))
      BY <1>3, <2>1, <2>4 DEF Handler
    <2>8. InHeadOf(r, h)
      BY <1>3, <2>7 DEF InHeadOf
    <2>9. InBodyOf(r, h)
      BY <1>1, <1>3, <2>3, <2>7, BodyStands DEF InBodyOf
    <2>10. BodyEnd(c) <= handler[c].filled
      BY <1>1, <1>6, Stands, BodyStands
    <2>11. Typed(r, client[c], arrived[c], h)
      BY <1>1, <1>2, <2>6, <2>7, <2>10, Stands DEF Connection, Typed
    <2>12. Connection(request[c], client[c], arrived[c], h, out[c])
      BY <1>1, <1>2, <2>7, <2>8, <2>9, <2>11, Stands DEF Connection
    <2> QED
      BY <2>2, <2>12, GoesKeeps
  <1> QED
    BY <1>5, <1>6

LEMMA MoreKeeps ==
  ASSUME IInv, NEW c \in Conns, More(c)
  PROVE  IInv'
  <1>1. handler[c].pc = "more"
    BY DEF More, At
  <1>2. CASE client[c] # "reset" /\ arrived[c] > handler[c].filled
    <2>1. PICK h : h = [handler[c] EXCEPT !.pc = "body", !.filled = arrived[c]]
      OBVIOUS
    <2>2. Goes(c, h)
      BY <1>2, <2>1 DEF More
    <2>3. h \in Handler
      BY <1>1, <2>1, Stands DEF Handler, Places
    <2>4. /\ h.pc = "body" /\ h.read = handler[c].read /\ h.length = handler[c].length
          /\ h.line = handler[c].line /\ h.answers = handler[c].answers /\ h.filled = arrived[c]
      BY <1>1, <2>1, Stands DEF Handler
    <2>5. InHeadOf(request[c], h)
      BY <1>1, <2>4, Stands DEF InHeadOf
    <2>6. InBodyOf(request[c], h)
      BY <1>1, <2>4, Stands DEF InBodyOf
    <2>7. Typed(request[c], client[c], arrived[c], h)
      BY <1>1, <1>2, <2>3, <2>4, Stands DEF Connection, Typed
    <2>8. Connection(request[c], client[c], arrived[c], h, out[c])
      BY <1>1, <2>4, <2>5, <2>6, <2>7, Stands DEF Connection
    <2> QED
      BY <2>2, <2>8, GoesKeeps
  <1>3. CASE ~ (client[c] # "reset" /\ arrived[c] > handler[c].filled)
    <2>1. Responds(c, 400)
      BY <1>3 DEF More
    <2> QED
      BY <1>1, <2>1, BodyStands, RefusesKeeps
  <1> QED
    BY <1>2, <1>3

LEMMA NoBodyKeeps ==
  ASSUME IInv, NEW c \in Conns, NoBody(c)
  PROVE  IInv'
  <1>1. handler[c].pc = "body" /\ Responds(c, 400)
    BY DEF NoBody, At
  <1> QED
    BY <1>1, BodyStands, RefusesKeeps

-----------------------------------------------------------------------------
(* The handler: GET, and what it does not know.                            *)

LEMMA ParametersFunction ==
  ASSUME NEW r
  PROVE  Parameters(r) = [key \in DOMAIN Parameters(r) |-> Parameters(r)[key]]
  BY DEF Parameters

LEMMA ProcessStands ==
  ASSUME IInv, NEW c \in Conns, handler[c].pc = "process"
  PROVE  /\ GoodHead(request[c]) /\ handler[c].length = LengthOf(request[c])
         /\ handler[c].line = 1 /\ handler[c].answers = << >>
  BY Stands DEF InHeadOf, InBodyOf

LEMMA ResolvesKeeps ==
  ASSUME IInv, NEW c \in Conns, handler[c].pc # "closed", NEW name, NEW type, Resolves(c, name, type),
         WhyAnswered(request[c]), request[c].method # "POST"
  PROVE  IInv'
  <1>1. PICK result \in Results([name |-> name, type |-> type]) :
           IF result = None THEN Responds(c, 404)
           ELSE Writes(c, << [status |-> 200, body |-> << result >>] >>)
    BY DEF Resolves
  <1>2. /\ Justified(request[c], client[c], handler[c], 404, << >>)
        /\ Justified(request[c], client[c], handler[c], 200, << result >>)
    BY DEF Justified
  <1>3. CASE result = None
    BY <1>1, <1>2, <1>3, WritesKeeps DEF Responds
  <1>4. CASE result # None
    BY <1>1, <1>2, <1>4, WritesKeeps
  <1> QED
    BY <1>3, <1>4

LEMMA ProcessGetKeeps ==
  ASSUME IInv, NEW c \in Conns, ProcessGet(c)
  PROVE  IInv'
  <1>1. handler[c].pc = "process" /\ request[c].method = "GET" /\ handler[c].pc # "closed"
    BY DEF ProcessGet, Gets, Method, At
  <1>2. GoodHead(request[c])
    BY <1>1, ProcessStands
  <1>3. PICK P : P = Parameters(request[c])
    OBVIOUS
  <1>4. P = [key \in DOMAIN P |-> P[key]]
    BY <1>3, ParametersFunction
  <1>5. ~ GoodPost(request[c])
    BY <1>1 DEF GoodPost
  <1>6. CASE request[c].path # "/resolve" \/ DOMAIN P # {"name", "type"}
    <2>1. Responds(c, 400)
      BY <1>3, <1>6 DEF ProcessGet, Gets
    <2>2. ~ GoodGet(request[c])
      BY <1>3, <1>6 DEF GoodGet
    <2> QED
      BY <1>1, <1>5, <2>1, <2>2, RefusesKeeps DEF WhyRefused
  <1>7. CASE request[c].path = "/resolve" /\ DOMAIN P = {"name", "type"}
    <2>1. CASE P["type"] = None
      <3>1. Throws(c)
        BY <1>3, <1>7, <2>1 DEF ProcessGet, Gets
      <3>2. ~ GoodGet(request[c])
        BY <1>3, <2>1, NoValues DEF GoodGet
      <3>3. None \in Range(P)
        BY <1>7, <2>1 DEF Range
      <3> QED
        BY <1>1, <1>3, <1>5, <3>1, <3>2, <3>3, ThrowsKeeps DEF WhySilent, WhyRefused
    <2>2. CASE P["type"] # None /\ P["type"] \notin Types
      <3>1. Responds(c, 400)
        BY <1>3, <1>7, <2>2 DEF ProcessGet, Gets
      <3>2. ~ GoodGet(request[c])
        BY <1>3, <2>2 DEF GoodGet
      <3> QED
        BY <1>1, <1>5, <3>1, <3>2, RefusesKeeps DEF WhyRefused
    <2>3. CASE P["type"] \in Types /\ P["type"] # None /\ P["name"] = None /\ P["type"] = "A"
      <3>1. Throws(c)
        BY <1>3, <1>7, <2>3 DEF ProcessGet, Gets
      <3>2. ~ GoodGet(request[c])
        BY <1>3, <2>3 DEF GoodGet
      <3>3. None \in Range(P)
        BY <1>7, <2>3 DEF Range
      <3> QED
        BY <1>1, <1>3, <1>5, <3>1, <3>2, <3>3, ThrowsKeeps DEF WhySilent, WhyRefused
    <2>4. CASE P["type"] \in Types /\ P["type"] # None /\ ~ (P["name"] = None /\ P["type"] = "A")
      <3>1. Resolves(c, P["name"], P["type"])
        BY <1>3, <1>7, <2>4 DEF ProcessGet, Gets
      <3>2. CASE P["name"] # None
        BY <1>1, <1>2, <1>3, <1>7, <2>4, <3>1, <3>2, ResolvesKeeps DEF WhyAnswered, GoodGet
      <3>3. CASE P["name"] = None
        <4>1. P["type"] = "PTR"
          BY <2>4, <3>3 DEF Types
        <4>2. P = [name |-> None, type |-> "PTR"]
          BY <1>4, <1>7, <3>3, <4>1
        <4> QED
          BY <1>1, <1>2, <1>3, <3>1, <4>2, ResolvesKeeps DEF WhyAnswered
      <3> QED
        BY <3>2, <3>3
    <2> QED
      BY <2>1, <2>2, <2>3, <2>4
  <1> QED
    BY <1>6, <1>7

LEMMA NotAllowedKeeps ==
  ASSUME IInv, NEW c \in Conns, NotAllowed(c)
  PROVE  IInv'
  <1>1. handler[c].pc # "closed" /\ request[c].method \notin {"GET", "POST"} /\ Responds(c, 405)
    BY DEF NotAllowed, At
  <1> QED
    BY <1>1, RefusesKeeps DEF WhyRefused, GoodGet, GoodPost

-----------------------------------------------------------------------------
(* The handler: POST.                                                      *)

LEMMA ProcessPostKeeps ==
  ASSUME IInv, NEW c \in Conns, ProcessPost(c)
  PROVE  IInv'
  <1>1. handler[c].pc = "process" /\ request[c].method = "POST" /\ handler[c].pc # "closed"
    BY DEF ProcessPost, Method, At
  <1>2. /\ GoodHead(request[c]) /\ handler[c].length = LengthOf(request[c])
        /\ handler[c].line = 1 /\ handler[c].answers = << >>
    BY <1>1, ProcessStands
  <1>3. CASE request[c].path # "/dns-query" \/ handler[c].length = None
    <2>1. Responds(c, 400)
      BY <1>3 DEF ProcessPost
    <2>2. ~ GoodGet(request[c])
      BY <1>1 DEF GoodGet
    <2>3. ~ GoodPost(request[c])
      BY <1>2, <1>3, NoValues DEF GoodPost
    <2> QED
      BY <1>1, <2>1, <2>2, <2>3, RefusesKeeps DEF WhyRefused
  <1>4. CASE request[c].path = "/dns-query" /\ handler[c].length # None
    <2>1. PICK h : h = [handler[c] EXCEPT !.pc = "lines"]
      OBVIOUS
    <2>2. Goes(c, h)
      BY <1>4, <2>1 DEF ProcessPost
    <2>3. h \in Handler
      BY <1>1, <2>1, Stands DEF Handler, Places
    <2>4. /\ h.pc = "lines" /\ h.read = handler[c].read /\ h.length = handler[c].length
          /\ h.line = 1 /\ h.answers = << >> /\ h.filled = handler[c].filled /\ h.body = handler[c].body
      BY <1>1, <1>2, <2>1, Stands DEF Handler
    <2>5. InHeadOf(request[c], h)
      BY <1>2, <2>4 DEF InHeadOf
    <2>6. /\ h.length \in 1 .. Len(request[c].body) /\ h.body = Trimmed(Covered(request[c]))
      BY <1>1, <1>4, <2>4, Stands DEF InBodyOf
    <2>7. LengthOf(request[c]) \in 1 .. Len(request[c].body) /\ IsRequest(request[c])
      BY <1>1, <1>2, <2>4, <2>6, Stands
    <2>8. Begins(h.body, request[c].body, Len(h.body)) /\ Len(h.body) \in Nat
      BY <2>6, <2>7, LeftBegins, Lengths
    <2>9. GoodBefore(h.body, 1)
      BY <2>8 DEF GoodBefore, Begins
    <2>10. Answering(<< >>, h.body, 1)
      <3>1. << >> \in [DOMAIN << >> -> {i \in DOMAIN h.body : i < 1}] /\ DOMAIN << >> = {}
        OBVIOUS
      <3> QED
        BY <3>1 DEF Answering
    <2>11. InBodyOf(request[c], h)
      BY <1>1, <1>4, <2>4, <2>6, <2>9, <2>10 DEF InBodyOf
    <2>12. Typed(request[c], client[c], arrived[c], h)
      BY <1>1, <2>3, <2>4, Stands DEF Connection, Typed
    <2>13. Connection(request[c], client[c], arrived[c], h, out[c])
      BY <1>1, <2>4, <2>5, <2>11, <2>12, Stands DEF Connection
    <2> QED
      BY <2>2, <2>13, GoesKeeps
  <1> QED
    BY <1>3, <1>4

(* What is known while the lines are looked up: the body that is left      *)
(* begins what was promised, and no two texts follow each other in it.     *)
LEMMA LinesStands ==
  ASSUME IInv, NEW c \in Conns, handler[c].pc = "lines"
  PROVE  /\ GoodHead(request[c]) /\ request[c].method = "POST" /\ request[c].path = "/dns-query"
         /\ handler[c].length = LengthOf(request[c]) /\ LengthOf(request[c]) \in 1 .. Len(request[c].body)
         /\ handler[c].body = Trimmed(Covered(request[c]))
         /\ handler[c].line \in Nat \ {0} /\ handler[c].answers \in Seq(Given)
         /\ Len(handler[c].body) \in 0 .. LengthOf(request[c])
         /\ DOMAIN handler[c].body = 1 .. Len(handler[c].body)
         /\ DOMAIN Covered(request[c]) = 1 .. LengthOf(request[c])
         /\ Len(Covered(request[c])) = LengthOf(request[c])
         /\ \A i \in DOMAIN handler[c].body :
              /\ i \in DOMAIN Covered(request[c])
              /\ handler[c].body[i] = Covered(request[c])[i]
              /\ i > 1 => handler[c].body[i] = "\n" \/ handler[c].body[i - 1] = "\n"
         /\ GoodBefore(handler[c].body, handler[c].line)
         /\ Answering(handler[c].answers, handler[c].body, handler[c].line)
  <1>1. /\ GoodHead(request[c]) /\ request[c].method = "POST" /\ request[c].path = "/dns-query"
        /\ handler[c].length = LengthOf(request[c]) /\ LengthOf(request[c]) \in 1 .. Len(request[c].body)
        /\ handler[c].body = Trimmed(Covered(request[c]))
        /\ GoodBefore(handler[c].body, handler[c].line)
        /\ Answering(handler[c].answers, handler[c].body, handler[c].line)
        /\ IsRequest(request[c])
    BY Stands DEF InHeadOf, InBodyOf
  <1>2. handler[c].line \in Nat \ {0} /\ handler[c].answers \in Seq(Given)
    BY Stands DEF Handler
  <1>3. PICK r : r = request[c] /\ IsRequest(r) /\ LengthOf(r) \in 1 .. Len(r.body)
    BY <1>1
  <1>4. PICK b : b = handler[c].body /\ b = Trimmed(Covered(r))
    BY <1>1, <1>3
  <1>5. /\ Begins(Covered(r), r.body, LengthOf(r)) /\ Begins(b, r.body, Len(b))
        /\ Len(b) \in 0 .. LengthOf(r)
    BY <1>3, <1>4, LeftBegins
  <1>6. LengthOf(r) \in Nat /\ Len(b) \in Nat /\ Len(r.body) \in Nat
    BY <1>3, <1>5, Lengths
  <1>7. /\ DOMAIN b = 1 .. Len(b) /\ DOMAIN Covered(r) = 1 .. LengthOf(r) /\ Len(Covered(r)) = LengthOf(r)
        /\ \A i \in 1 .. Len(b) : b[i] = r.body[i]
        /\ \A i \in 1 .. LengthOf(r) : Covered(r)[i] = r.body[i]
    BY <1>5 DEF Begins
  <1>8. ASSUME NEW i \in DOMAIN b
        PROVE  /\ i \in DOMAIN Covered(r) /\ b[i] = Covered(r)[i]
               /\ i > 1 => b[i] = "\n" \/ b[i - 1] = "\n"
    <2>1. i \in 1 .. LengthOf(r) /\ i \in 1 .. Len(r.body) /\ i \in Nat
      BY <1>3, <1>5, <1>6, <1>7, <1>8
    <2>2. i > 1 => i - 1 \in 1 .. Len(b)
      BY <1>6, <1>7, <1>8, <2>1
    <2>3. i > 1 => r.body[i] = "\n" \/ r.body[i - 1] = "\n"
      BY <1>3, <2>1, Lengths DEF IsRequest
    <2> QED
      BY <1>7, <1>8, <2>1, <2>2, <2>3
  <1> QED
    BY <1>1, <1>2, <1>3, <1>4, <1>5, <1>7, <1>8

LEMMA ResultsAnswer ==
  ASSUME NEW query, NEW result \in Results(query), result # None
  PROVE  \E value \in {"", "found"} : result = Answer(query, value)
  BY DEF Results

LEMMA AnswerGiven ==
  ASSUME NEW text \in DOMAIN Query, NEW value \in {"", "found"}
  PROVE  Answer(Query[text], value) \in Given
  <1>1. Answer(Query[text], value) \in GivenFor(text)
    BY DEF GivenFor
  <1> QED
    BY <1>1 DEF Given

LEMMA GoodAfter ==
  ASSUME NEW b, NEW n \in Nat, DOMAIN b = 1 .. n, Len(b) = n, NEW line \in 1 .. n,
         \A i \in DOMAIN b : i > 1 => b[i] = "\n" \/ b[i - 1] = "\n",
         GoodBefore(b, line), IsQuery(b[line])
  PROVE  GoodBefore(b, line + 2) /\ b[line] # "\n"
  <1>1. b[line] # "\n"
    BY NoValues DEF IsQuery
  <1>2. line + 2 \in 2 .. n => b[line + 2 - 1] = "\n"
    <2>1. SUFFICES ASSUME line + 2 <= n PROVE b[line + 1] = "\n"
      OBVIOUS
    <2>2. line + 1 \in DOMAIN b /\ line + 1 > 1 /\ line + 1 - 1 = line
      BY <2>1
    <2> QED
      BY <1>1, <2>2
  <1>3. ASSUME NEW i \in DOMAIN b, i < line + 2
        PROVE  GoodAt(b, i)
    <2>1. CASE i < line
      BY <2>1 DEF GoodBefore
    <2>2. CASE i = line
      BY <1>1, <2>2 DEF GoodAt
    <2>3. CASE i = line + 1
      <3>1. i > 1 /\ i - 1 = line
        BY <2>3
      <3> QED
        BY <1>1, <1>3, <3>1 DEF GoodAt
    <2> QED
      BY <1>3, <2>1, <2>2, <2>3
  <1> QED
    BY <1>1, <1>2, <1>3 DEF GoodBefore

LEMMA AnsweringMore ==
  ASSUME NEW S, NEW given \in Seq(S), NEW result \in S, NEW b, NEW n \in Nat, DOMAIN b = 1 .. n,
         NEW line \in 1 .. n, Answering(given, b, line), b[line] \in DOMAIN Query,
         result.name = Query[b[line]].name, result.type = Query[b[line]].type
  PROVE  Answering(given, b, line + 2) /\ Answering(Append(given, result), b, line + 2)
  <1>1. PICK of \in [DOMAIN given -> {i \in DOMAIN b : i < line}] :
           /\ \A k, l \in DOMAIN given : k < l => of[k] < of[l]
           /\ \A k \in DOMAIN given :
                /\ b[of[k]] \in DOMAIN Query
                /\ given[k].name = Query[b[of[k]]].name /\ given[k].type = Query[b[of[k]]].type
    BY DEF Answering
  <1>2. {i \in DOMAIN b : i < line} \subseteq {i \in DOMAIN b : i < line + 2}
    OBVIOUS
  <1>3. of \in [DOMAIN given -> {i \in DOMAIN b : i < line + 2}]
    BY <1>2
  <1>4. Answering(given, b, line + 2)
    BY <1>1, <1>3 DEF Answering
  <1>5. PICK m \in Nat : m = Len(given) /\ DOMAIN given = 1 .. m
    BY LenProperties
  <1>6. PICK g : g = Append(given, result)
    OBVIOUS
  <1>7. /\ DOMAIN g = 1 .. m + 1 /\ g[m + 1] = result
        /\ \A k \in 1 .. m : g[k] = given[k]
    BY <1>5, <1>6, AppendProperties
  <1>8. PICK to : to = [k \in 1 .. m + 1 |-> IF k = m + 1 THEN line ELSE of[k]]
    OBVIOUS
  <1>9. \A k \in 1 .. m + 1 : k = m + 1 \/ k \in 1 .. m
    OBVIOUS
  <1>10. \A k \in 1 .. m : of[k] \in DOMAIN b /\ of[k] < line /\ to[k] = of[k]
    BY <1>1, <1>5, <1>8
  <1>11. to[m + 1] = line
    BY <1>8
  <1>12. to \in [DOMAIN g -> {i \in DOMAIN b : i < line + 2}]
    <2>1. line \in DOMAIN b /\ line < line + 2
      OBVIOUS
    <2>2. \A k \in 1 .. m + 1 : to[k] \in {i \in DOMAIN b : i < line + 2}
      BY <1>2, <1>9, <1>10, <1>11, <2>1
    <2> QED
      BY <1>7, <1>8, <2>2
  <1>13. ASSUME NEW k \in 1 .. m + 1, NEW l \in 1 .. m + 1, k < l
         PROVE  to[k] < to[l]
    <2>1. k \in 1 .. m
      BY <1>13
    <2>2. CASE l = m + 1
      BY <1>10, <1>11, <2>1, <2>2
    <2>3. CASE l \in 1 .. m
      BY <1>1, <1>5, <1>10, <1>13, <2>1, <2>3
    <2> QED
      BY <1>9, <2>2, <2>3
  <1>14. ASSUME NEW k \in 1 .. m + 1
         PROVE  /\ b[to[k]] \in DOMAIN Query
                /\ g[k].name = Query[b[to[k]]].name /\ g[k].type = Query[b[to[k]]].type
    <2>1. CASE k = m + 1
      BY <1>7, <1>11, <2>1
    <2>2. CASE k \in 1 .. m
      BY <1>1, <1>5, <1>7, <1>10, <2>2
    <2> QED
      BY <1>9, <2>1, <2>2
  <1>15. Answering(g, b, line + 2)
    BY <1>7, <1>12, <1>13, <1>14 DEF Answering
  <1> QED
    BY <1>4, <1>6, <1>15

LEMMA LineKeeps ==
  ASSUME IInv, NEW c \in Conns, Line(c)
  PROVE  IInv'
  <1>1. handler[c].pc = "lines" /\ AnyLeft(c) /\ IsQuery(Text(c))
    BY DEF Line, LineIs, At
  <1>2. PICK b : b = handler[c].body
    OBVIOUS
  <1>3. PICK line \in Nat \ {0} : line = handler[c].line
    BY <1>1, LinesStands
  <1>4. PICK given \in Seq(Given) : given = handler[c].answers
    BY <1>1, LinesStands
  <1>5. PICK n \in Nat : n = Len(b) /\ DOMAIN b = 1 .. n
    <2>1. Len(b) \in Nat
      BY <1>1, <1>2, LinesStands, Stands, Lengths
    <2> QED
      BY <1>1, <1>2, <2>1, LinesStands
  <1>6. line \in 1 .. n /\ Text(c) = b[line]
    BY <1>1, <1>2, <1>3, <1>5 DEF AnyLeft, Text
  <1>7. PICK query : query = Query[b[line]]
    OBVIOUS
  <1>8. b[line] \in DOMAIN Query /\ IsQuery(b[line])
    BY <1>1, <1>6 DEF IsQuery
  <1>9. GoodBefore(b, line) /\ Answering(given, b, line)
        /\ \A i \in DOMAIN b : i > 1 => b[i] = "\n" \/ b[i - 1] = "\n"
    BY <1>1, <1>2, <1>3, <1>4, LinesStands
  <1>10. GoodBefore(b, line + 2) /\ b[line] # "\n"
    BY <1>5, <1>6, <1>8, <1>9, GoodAfter
  <1>11. PICK result \in Results(query) :
            Goes(c, [Rest(c) EXCEPT !.answers = IF result = None THEN @ ELSE Append(@, result)])
    BY <1>6, <1>7 DEF Line
  <1>12. PICK a : a = IF result = None THEN given ELSE Append(given, result)
    OBVIOUS
  <1>13. a \in Seq(Given) /\ Answering(a, b, line + 2)
    <2>1. CASE result = None
      <3>1. PICK other : other = Answer(query, "")
        OBVIOUS
      <3>2. other \in Given
        BY <1>7, <1>8, <3>1, AnswerGiven
      <3>3. other.name = query.name /\ other.type = query.type
        BY <3>1 DEF Answer
      <3>4. Answering(given, b, line + 2)
        BY <1>5, <1>6, <1>7, <1>8, <1>9, <3>2, <3>3, AnsweringMore
      <3> QED
        BY <1>12, <2>1, <3>4
    <2>2. CASE result # None
      <3>1. PICK value \in {"", "found"} : result = Answer(query, value)
        BY <2>2, ResultsAnswer
      <3>2. result \in Given
        BY <1>7, <1>8, <3>1, AnswerGiven
      <3>3. result.name = query.name /\ result.type = query.type
        BY <3>1 DEF Answer
      <3>4. Answering(Append(given, result), b, line + 2)
        BY <1>5, <1>6, <1>7, <1>8, <1>9, <3>2, <3>3, AnsweringMore
      <3>5. Append(given, result) \in Seq(Given)
        BY <3>2, AppendProperties
      <3> QED
        BY <1>12, <2>2, <3>4, <3>5
    <2> QED
      BY <2>1, <2>2
  <1>14. PICK h : h = [handler[c] EXCEPT !.line = line + 2, !.answers = a]
    OBVIOUS
  <1>15. handler[c] \in Handler /\ line + 2 \in Nat \ {0}
    BY <1>1, Stands
  <1>16. Goes(c, h)
    <2>1. Rest(c) = [handler[c] EXCEPT !.line = line + 2]
      BY <1>3, <1>6, <1>10 DEF Rest
    <2>2. [Rest(c) EXCEPT !.answers = IF result = None THEN @ ELSE Append(@, result)] = h
      BY <1>4, <1>12, <1>14, <1>15, <2>1 DEF Handler
    <2> QED
      BY <1>11, <2>2
  <1>17. h \in Handler
    BY <1>13, <1>14, <1>15 DEF Handler
  <1>18. /\ h.pc = "lines" /\ h.read = handler[c].read /\ h.length = handler[c].length
         /\ h.line = line + 2 /\ h.answers = a /\ h.filled = handler[c].filled /\ h.body = b
    BY <1>1, <1>2, <1>14, <1>15 DEF Handler
  <1>19. InHeadOf(request[c], h)
    BY <1>1, <1>18, LinesStands DEF InHeadOf
  <1>20. InBodyOf(request[c], h)
    BY <1>1, <1>2, <1>10, <1>13, <1>18, LinesStands DEF InBodyOf
  <1>21. Typed(request[c], client[c], arrived[c], h)
    BY <1>1, <1>17, <1>18, Stands DEF Connection, Typed
  <1>22. Connection(request[c], client[c], arrived[c], h, out[c])
    BY <1>1, <1>18, <1>19, <1>20, <1>21, Stands DEF Connection
  <1> QED
    BY <1>16, <1>22, GoesKeeps

LEMMA BadLineKeeps ==
  ASSUME IInv, NEW c \in Conns, BadLine(c)
  PROVE  IInv'
  <1>1. handler[c].pc = "lines" /\ AnyLeft(c) /\ ~ IsQuery(Text(c)) /\ Responds(c, 400)
    BY DEF BadLine, LineIs, At
  <1>2. PICK b : b = handler[c].body
    OBVIOUS
  <1>3. PICK line \in Nat \ {0} : line = handler[c].line
    BY <1>1, LinesStands
  <1>4. PICK n \in Nat : n = Len(b) /\ DOMAIN b = 1 .. n
    <2>1. Len(b) \in Nat
      BY <1>1, <1>2, LinesStands, Stands, Lengths
    <2> QED
      BY <1>1, <1>2, <2>1, LinesStands
  <1>5. line \in 1 .. n /\ Text(c) = b[line]
    BY <1>1, <1>2, <1>3, <1>4 DEF AnyLeft, Text
  <1>6. PICK all : all = Covered(request[c])
    OBVIOUS
  <1>7. \A i \in 1 .. n : i \in DOMAIN all /\ b[i] = all[i]
    BY <1>1, <1>2, <1>4, <1>6, LinesStands
  <1>8. GoodBefore(b, line)
    BY <1>1, <1>2, <1>3, LinesStands
  <1>9. ~ GoodLines(all)
    <2>1. SUFFICES ASSUME GoodLines(all) PROVE FALSE
      OBVIOUS
    <2>2. all[line] = "\n" /\ line > 1 /\ all[line - 1] # "\n"
      BY <1>1, <1>5, <1>7, <2>1 DEF GoodLines
    <2>3. line \in 2 .. n /\ line - 1 \in 1 .. n
      BY <1>5, <2>2
    <2>4. b[line - 1] = "\n"
      BY <1>4, <1>8, <2>3 DEF GoodBefore
    <2> QED
      BY <1>7, <2>2, <2>3, <2>4
  <1>10. ~ GoodPost(request[c])
    BY <1>6, <1>9 DEF GoodPost
  <1>11. ~ GoodGet(request[c])
    BY <1>1, LinesStands DEF GoodGet
  <1> QED
    BY <1>1, <1>10, <1>11, RefusesKeeps DEF WhyRefused

LEMMA LinesDoneKeeps ==
  ASSUME IInv, NEW c \in Conns, LinesDone(c)
  PROVE  IInv'
  <1>1. handler[c].pc = "lines" /\ ~ AnyLeft(c)
    BY DEF LinesDone, At
  <1>2. PICK b : b = handler[c].body
    OBVIOUS
  <1>3. PICK line \in Nat \ {0} : line = handler[c].line
    BY <1>1, LinesStands
  <1>4. PICK given : given = handler[c].answers
    OBVIOUS
  <1>5. PICK n \in Nat : n = Len(b) /\ DOMAIN b = 1 .. n
    <2>1. Len(b) \in Nat
      BY <1>1, <1>2, LinesStands, Stands, Lengths
    <2> QED
      BY <1>1, <1>2, <2>1, LinesStands
  <1>6. PICK r : r = request[c]
    OBVIOUS
  <1>7. PICK all : all = Covered(r)
    OBVIOUS
  <1>8. /\ GoodHead(r) /\ r.method = "POST" /\ r.path = "/dns-query"
        /\ LengthOf(r) \in 1 .. Len(r.body) /\ b = Trimmed(all) /\ Len(all) = LengthOf(r)
        /\ DOMAIN all = 1 .. Len(all) /\ n \in 0 .. Len(all)
        /\ \A i \in DOMAIN b : i \in DOMAIN all /\ b[i] = all[i]
        /\ GoodBefore(b, line) /\ Answering(given, b, line) /\ IsRequest(r)
    BY <1>1, <1>2, <1>3, <1>4, <1>5, <1>6, <1>7, LinesStands, Stands
  <1>9. \A i \in DOMAIN b : i < line
    BY <1>1, <1>2, <1>3, <1>5 DEF AnyLeft
  <1>10. b = << >> \/ GoodLines(b)
    <2>1. CASE n = 0
      <3>1. b \in Seq(STRING)
        BY <1>1, <1>2, Stands DEF Handler
      <3> QED
        BY <1>5, <2>1, <3>1, EmptySeq
    <2>2. CASE n # 0
      <3>1. \A i \in DOMAIN b : GoodAt(b, i)
        BY <1>8, <1>9 DEF GoodBefore
      <3>2. 1 \in DOMAIN b
        BY <1>5, <2>2
      <3>3. b[1] # "\n"
        BY <3>1, <3>2 DEF GoodAt
      <3> QED
        BY <3>1, <3>2, <3>3 DEF GoodLines, GoodAt
    <2> QED
      BY <2>1, <2>2
  <1>11. WhyAnswered(r)
    <2>1. LengthOf(r) \in Nat /\ Len(all) \in Nat /\ Len(all) >= 1
      BY <1>8, Lengths
    <2>2. CASE Shortened(all)
      <3>1. b = SubSeq(all, 1, Len(all) - 2)
        BY <1>8, <2>2 DEF Trimmed, Shortened
      <3>2. all # << >> /\ Width(Last(all)) = 1
        BY <2>1, <2>2 DEF Shortened
      <3> QED
        BY <1>7, <1>8, <1>10, <3>1, <3>2 DEF WhyAnswered
    <2>3. CASE ~ Shortened(all)
      <3>1. b = all
        BY <1>8, <2>3 DEF Trimmed, Shortened
      <3>2. b # << >>
        BY <2>1, <3>1
      <3> QED
        BY <1>7, <1>8, <1>10, <3>1, <3>2 DEF WhyAnswered, GoodPost
    <2> QED
      BY <2>2, <2>3
  <1>12. AnswersOf(given, all)
    <2>1. PICK of \in [DOMAIN given -> {i \in DOMAIN b : i < line}] :
             /\ \A k, l \in DOMAIN given : k < l => of[k] < of[l]
             /\ \A k \in DOMAIN given :
                  /\ b[of[k]] \in DOMAIN Query
                  /\ given[k].name = Query[b[of[k]]].name /\ given[k].type = Query[b[of[k]]].type
      BY <1>8 DEF Answering
    <2>2. of \in [DOMAIN given -> DOMAIN all]
      BY <1>8, <2>1
    <2>3. \A k \in DOMAIN given : b[of[k]] = all[of[k]]
      BY <1>8, <2>1
    <2> QED
      BY <2>1, <2>2, <2>3 DEF AnswersOf
  <1>13. CASE given = << >>
    <2>1. Responds(c, 404)
      BY <1>4, <1>13 DEF LinesDone
    <2>2. Justified(r, client[c], handler[c], 404, << >>)
      BY <1>11 DEF Justified
    <2> QED
      BY <1>1, <1>6, <2>1, <2>2, WritesKeeps DEF Responds
  <1>14. CASE given # << >>
    <2>1. Writes(c, << [status |-> 200, body |-> given] >>)
      BY <1>4, <1>14 DEF LinesDone
    <2>2. Justified(r, client[c], handler[c], 200, given)
      BY <1>7, <1>11, <1>12 DEF Justified
    <2> QED
      BY <1>1, <1>6, <2>1, <2>2, WritesKeeps
  <1> QED
    BY <1>13, <1>14

-----------------------------------------------------------------------------
(* The invariant, and what it says of every state.                         *)

LEMMA InitIInv ==
  ASSUME Init
  PROVE  IInv
  <1>1. ASSUME NEW c \in Conns
        PROVE  request[c] \in Requests[c] /\ Connection(request[c], client[c], arrived[c], handler[c], out[c])
    <2>1. request[c] \in Requests[c]
      BY DEF Init
    <2>2. IsRequest(request[c])
      BY <2>1, HttpAssumption
    <2>3. client[c] = "off" /\ arrived[c] = 0 /\ handler[c] = Idle /\ out[c] = << >>
      BY DEF Init
    <2>4. AllLen(request[c]) \in Nat
      BY <2>2, Lengths
    <2>5. << >> \in Seq(STRING) /\ << >> \in Seq(Given)
      OBVIOUS
    <2>6. Idle \in Handler
      BY <2>5 DEF Idle, Handler, Places
    <2>7. /\ Idle.pc = "waiting" /\ Idle.read = 0 /\ Idle.filled = 0 /\ Idle.length = None
          /\ Idle.line = 1 /\ Idle.answers = << >>
      BY DEF Idle
    <2>8. Typed(request[c], "off", 0, Idle)
      BY <2>4, <2>6, <2>7 DEF Typed, Clients
    <2>9. InHeadOf(request[c], Idle) /\ InBodyOf(request[c], Idle)
      BY <2>7 DEF InHeadOf, InBodyOf
    <2> QED
      BY <2>1, <2>2, <2>3, <2>7, <2>8, <2>9 DEF Connection
  <1>2. /\ client = [c \in Conns |-> client[c]] /\ arrived = [c \in Conns |-> arrived[c]]
        /\ handler = [c \in Conns |-> handler[c]] /\ out = [c \in Conns |-> out[c]]
        /\ server \in {"accepts", "ended"}
    BY DEF Init
  <1> QED
    BY <1>1, <1>2 DEF IInv

LEMMA NextIInv ==
  ASSUME IInv, [Next]_vars
  PROVE  IInv'
  <1>1. CASE UNCHANGED vars
    BY <1>1 DEF vars, IInv
  <1>2. ASSUME NEW c \in Conns, Handles(c)
        PROVE  IInv'
    <2>1. CASE Fill(c)
      BY <2>1, FillKeeps
    <2>2. CASE ReadFails(c)
      BY <2>2, ReadFailsKeeps
    <2>3. CASE RequestLine(c)
      BY <2>3, RequestLineKeeps
    <2>4. CASE NoLine(c)
      BY <2>4, NoLineKeeps
    <2>5. CASE Header(c)
      BY <2>5, HeaderKeeps
    <2>6. CASE HeadersEnd(c)
      BY <2>6, HeadersEndKeeps
    <2>7. CASE NoHeader(c)
      BY <2>7, NoHeaderKeeps
    <2>8. CASE Body(c)
      BY <2>8, BodyKeeps
    <2>9. CASE More(c)
      BY <2>9, MoreKeeps
    <2>10. CASE NoBody(c)
      BY <2>10, NoBodyKeeps
    <2>11. CASE ProcessGet(c)
      BY <2>11, ProcessGetKeeps
    <2>12. CASE NotAllowed(c)
      BY <2>12, NotAllowedKeeps
    <2>13. CASE ProcessPost(c)
      BY <2>13, ProcessPostKeeps
    <2>14. CASE Line(c)
      BY <2>14, LineKeeps
    <2>15. CASE BadLine(c)
      BY <2>15, BadLineKeeps
    <2>16. CASE LinesDone(c)
      BY <2>16, LinesDoneKeeps
    <2> QED
      BY <1>2, <2>1, <2>2, <2>3, <2>4, <2>5, <2>6, <2>7, <2>8, <2>9, <2>10, <2>11, <2>12,
         <2>13, <2>14, <2>15, <2>16 DEF Handles
  <1> QED
    BY <1>1, <1>2, ConnectKeeps, ArriveKeeps, LeaveKeeps, AcceptKeeps, AcceptFailsKeeps DEF Next

LEMMA Invariance == Spec => []IInv
  BY InitIInv, NextIInv, PTL DEF Spec

LEMMA EndedOf ==
  ASSUME IInv, NEW c \in Conns
  PROVE  /\ handler[c].pc # "closed" => out[c] = << >> /\ Status(c) = 0
         /\ handler[c].pc = "closed" =>
              /\ Len(out[c]) <= 1
              /\ Ended(request[c], client[c], arrived[c], handler[c], out[c])
         /\ Status(c) = StatusOf(out[c])
  BY DEF IInv, Connection, Status, StatusOf

(* Only requests of the described format are resolved, but for the two     *)
(* kinds that Accepted names (Handler.processGet, processPost, parse).     *)
THEOREM AcceptedInvariant == Spec => []Accepted
  <1>1. ASSUME IInv, NEW c \in Conns, Answered(c)
        PROVE  WhyAnswered(request[c])
    BY <1>1, EndedOf DEF Answered, Ended
  <1>2. IInv => Accepted
    BY <1>1 DEF Accepted, WhyAnswered
  <1> QED
    BY <1>2, Invariance, PTL

(* A request of the described format is resolved, unless its client reset  *)
(* the connection or the handler did not get to the end of the body: the   *)
(* read() of Request.parse that goes on only while more has arrived.       *)
THEOREM FulfilledInvariant == Spec => []Fulfilled
  <1>1. ASSUME IInv, NEW c \in Conns, At(c, "closed"), client[c] # "reset",
               GoodGet(request[c]) \/ GoodPost(request[c])
        PROVE  Answered(c) \/ handler[c].read < Needed(request[c])
    BY <1>1, EndedOf DEF At, Answered, Ended, WhyRefused
  <1>2. IInv => Fulfilled
    BY <1>1 DEF Fulfilled
  <1> QED
    BY <1>2, Invariance, PTL

(* The answers to a POST are those of its lines, in their order, each once *)
(* or not at all, and a connection has one response (processPost).         *)
THEOREM AnswersInvariant == Spec => []Answers
  <1>1. ASSUME IInv, NEW c \in Conns
        PROVE  /\ Len(out[c]) <= 1
               /\ Status(c) = 200 /\ request[c].method = "POST" =>
                    AnswersOf(Head(out[c]).body, Covered(request[c]))
    BY <1>1, EndedOf DEF Ended
  <1>2. ASSUME IInv
        PROVE  TypeOK
    <2>1. client \in [Conns -> {"off", "open", "closed", "reset"}]
      <3>1. \A c \in Conns : client[c] \in Clients
        BY <1>2 DEF IInv, Connection, Typed
      <3> QED
        BY <1>2, <3>1 DEF IInv, Clients
    <2>2. ASSUME NEW c \in Conns
          PROVE  /\ request[c] \in Requests[c]
                 /\ At(c, "waiting") \/ At(c, "line") \/ At(c, "headers") \/ At(c, "body") \/ At(c, "more")
                      \/ At(c, "process") \/ At(c, "lines") \/ At(c, "closed")
                 /\ handler[c].read <= handler[c].filled
                 /\ handler[c].filled <= arrived[c] /\ arrived[c] <= AllLen(request[c])
      <3>1. /\ request[c] \in Requests[c] /\ IsRequest(request[c])
            /\ Typed(request[c], client[c], arrived[c], handler[c])
        BY <1>2 DEF IInv, Connection
      <3>2. AllLen(request[c]) \in Nat
        BY <3>1, Lengths
      <3>3. handler[c].pc \in Places
        BY <3>1 DEF Typed, Handler
      <3> QED
        BY <3>1, <3>2, <3>3 DEF Typed, Places, At
    <2> QED
      BY <1>2, <2>1, <2>2 DEF TypeOK, IInv
  <1>3. IInv => Answers
    BY <1>1, <1>2 DEF Answers
  <1> QED
    BY <1>3, Invariance, PTL

(* A client gets no response only if it reset the connection or closed it  *)
(* within the head, and to a Content-Length that is not a number or more   *)
(* than there is memory for, or a parameter without a value: what          *)
(* Handler.run does not catch.                                             *)
THEOREM UnansweredInvariant == Spec => []Unanswered
  <1>1. ASSUME IInv, NEW c \in Conns, At(c, "closed"), out[c] = << >>
        PROVE  WhySilent(request[c], client[c], arrived[c])
    BY <1>1, EndedOf DEF At, Ended
  <1>2. IInv => Unanswered
    BY <1>1 DEF Unanswered, WhySilent
  <1> QED
    BY <1>2, Invariance, PTL

=============================================================================
