------------------------------- MODULE MCHttp -------------------------------
(* An instance of Http for TLC: a client that may send anything, and one   *)
(* that sends a good GET.                                                  *)
EXTENDS Http, TLC

CONSTANTS any, good

MCQuery ==
  "host:A" :> [name |-> "host", type |-> "A"] @@ "IPv4:PTR" :> [name |-> "IPv4", type |-> "PTR"]
    @@ "IPv6:A" :> [name |-> "IPv6", type |-> "A"] @@ "host:MX" :> [name |-> "host", type |-> "MX"]

Req(tokens, method, path, params, headers, body) ==
  [tokens |-> tokens, method |-> method, path |-> path, params |-> params, headers |-> headers, body |-> body]

Header1(name, value) == << [name |-> name, value |-> value] >>
Length(n) == Header1("content-length", n)
Other == Header1("host", None)

Get(params) == Req(3, "GET", "/resolve", params, << >>, << >>)
Post(headers, body) == Req(3, "POST", "/dns-query", << >>, headers, body)

GoodParams == << <<"name", "host">>, <<"type", "A">> >>

Gets1 ==
  {Get(<< <<"type", t>>, <<"name", n>> >>) : t \in {"A", "PTR", None}, n \in {"host", "IPv4", None}}
  \cup {Get(<< <<"type", "A">>, <<"name", "IPv6">> >>), Get(<< <<"type", "MX">>, <<"name", "host">> >>)}
  \cup {Get(p) : p \in {<< >>, << <<"name", "host">> >>, Append(GoodParams, <<"class", "IN">>),
                       Append(GoodParams, <<"type", "PTR">>)}}
  \cup {[Get(GoodParams) EXCEPT !.headers = h] : h \in {Other, Header1("no colon", None)}}
  \cup {[Get(GoodParams) EXCEPT !.path = "/"], [Get(GoodParams) EXCEPT !.tokens = 2],
        [Get(GoodParams) EXCEPT !.method = "PUT"]}

Bodies ==
  {<< >>, <<"\n">>, <<"j">>, <<"\n", "\n">>, <<"\n", "j">>,
   <<"host:A">>, <<"host:MX">>, <<"IPv6:A", "\n">>, <<"host:A", "\n", "\n">>, <<"host:A", "\n", "j">>,
   <<"host:A", "\n", "IPv4:PTR">>, <<"j", "\n", "host:A">>}

Posts ==
  {Post(Length(n), <<"host:A", "\n">>) : n \in {1, 3, 4}}
  \cup {Post(Length(1), b) : b \in {<< >>, <<"j">>}}
  \cup {Post(Length(Len(b)), b) : b \in Bodies}
  \cup {Post(h, <<"host:A">>) : h \in {<< >>, Other, Length(NaN), Length(2) \o Length(1)}}
  \cup {[Post(Length(1), <<"host:A">>) EXCEPT !.path = "/"]}

MCRequests == any :> (Gets1 \cup Posts) @@ good :> {Get(GoodParams)}
=============================================================================
