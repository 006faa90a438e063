----------------------------- MODULE MCExchange -----------------------------
(***************************************************************************)
(* Exchanges in three families, each varying one side: what the client and *)
(* the configuration say, what upstream answers, what is asked.  Library   *)
(* calls with documents of up to three levels: arrays of up to three parts *)
(* and objects with the keys "k" and "0", and up to three ignored paths in *)
(* any order.  Existing cassettes of up to four interactions over two      *)
(* requests, and of one interaction over every small document.             *)
(***************************************************************************)
EXTENDS Exchange

MCIndexTokens == <<"0", "1", "2", "3">>
MCPaddedTokens == {"00", "01"}

Scalar(v) == [p \in {<<>>} |-> v]

(* A container from its children, a function from tokens to documents.     *)
Container(kind, children) ==
  LET paths == {<<>>} \cup
        UNION {{<<t>> \o q : q \in DOMAIN children[t]} : t \in DOMAIN children}
  IN  [p \in paths |-> IF p = <<>> THEN kind ELSE children[p[1]][Tail(p)]]

Array(parts) ==
  Container("array", [t \in {IndexTokens[i] : i \in DOMAIN parts} |-> parts[IndexOf(t)]])
Object(children) == Container("object", children)

Parts == {Scalar("x"), Array(<<Scalar("x"), Scalar("y")>>),
          Object([t \in {"k", "0"} |-> Scalar(t)])}

(* Any two parts, or three of which the outer two are alike. *)
Few == UNION {[1..n -> Parts] : n \in 0..2} \cup {<<p, q, p>> : p \in Parts, q \in Parts}

SmallDocuments ==
  {Array(parts) : parts \in Few}
    \cup UNION {{Object(f) : f \in [keys -> Parts]} : keys \in SUBSET {"k", "0"}}
    \cup {Array(<<Array(<<Scalar("x"), Scalar("y"), Scalar("z")>>)>>)}

Pointers == {<<"0">>, <<"1">>, <<"2">>, <<"k">>, <<"0", "0">>, <<"0", "1">>,
             <<"1", "0">>, <<"k", "0">>, <<"0", "0", "1">>}

SmallConfigs ==
  UNION {[1..n -> Pointers] : n \in 0..3} \cup {<<<<"0">>, <<"01">>>>, <<<<"1", "k">>>>}

CallsOfTheLibrary ==
  {[body |-> d, ignored |-> p] : d \in SmallDocuments, p \in SmallConfigs}

-----------------------------------------------------------------------------
Header(n, v) == [name |-> n, value |-> v]

MCSpellings == [n \in {"X-Hop", "Authorization", "X-TRACE", "Host", "Set-Cookie"} |->
  CASE n = "X-Hop" -> "x-hop" [] n = "Authorization" -> "authorization"
    [] n = "X-TRACE" -> "x-trace" [] n = "Host" -> "host" [] n = "Set-Cookie" -> "set-cookie"]

MCListed == [v \in {"close, X-Hop,,Authorization", "keep-alive"} |->
  IF v = "keep-alive" THEN {"keep-alive"} ELSE {"close", "X-Hop", "", "Authorization"}]

MCEncoded == [v \in {"\\xff"} |-> "%FF"]

(* The headers that are always there, and any of the others, in order.     *)
With(always, others) ==
  {always \o SelectSeq(others, LAMBDA h : h \in some) : some \in SUBSET ToSet(others)}

ClientHeaders ==
  With(<<Header("host", "h"), Header("te", "trailers")>>,
       <<Header("authorization", "client"), Header("connection", "close, X-Hop,,Authorization"),
         Header("x-hop", "1"), Header("x-trace", "\\xff"), Header("x-trace", "2")>>)

Extra ==
  With(<<>>, <<Header("Authorization", "extra"), Header("Host", "other"),
               Header("X-Hop", "2"), Header("bad name", "3")>>)

Drops == {{}, {"authorization"}, {"Authorization", "X-TRACE", "Set-Cookie"}}

AnswerHeaders ==
  With(<<Header("content-length", "9"), Header("x-trace", "2")>>,
       <<Header("content-type", "json"), Header("connection", "close, X-Hop,,Authorization"),
         Header("x-hop", "1"), Header("x-trace", "\\xff"), Header("set-cookie", "c")>>)

Base == [path |-> <<"api", "v1", "">>, query |-> <<>>]
Bases == {Base, [path |-> <<"">>, query |-> <<<<Escaped(39)>>>>], [path |-> <<>>, query |-> <<>>]}

Config(key, base, extra, drop) ==
  [key |-> key, base |-> base, extra |-> extra, drop |-> drop]
PlainConfig == Config(TRUE, Base, <<>>, {"authorization"})

Exchanged(r, c, a) == [request |-> r, config |-> c, answer |-> a]

Asking(headers, query, body) == [headers |-> headers, query |-> query, body |-> body]

Prompt(stream) == Object([t \in {"stream", "k"} |-> Scalar(IF t = "stream" THEN stream ELSE "x")])

Ok == [status |-> 200, headers |-> <<Header("content-type", "json")>>]

RequestSide ==
  {Exchanged(Asking(h, <<>>, Prompt("false")), Config(TRUE, Base, x, d), Ok) :
     h \in ClientHeaders, x \in Extra, d \in Drops}

ResponseSide ==
  {Exchanged(Asking(<<>>, <<>>, Prompt(s)), Config(TRUE, Base, <<>>, d),
             [status |-> n, headers |-> h]) :
     s \in {"true", "false"}, d \in Drops, n \in {200, 404, 799}, h \in AnswerHeaders}

(* a=1, a=2, %61=%31, an apostrophe and it before =, a%3D1 and the empty   *)
(* segment.  A URL's query spells an apostrophe %27.                       *)
Segments ==
  {<<Plain(97), Plain(61), Plain(49)>>, <<Plain(97), Plain(61), Plain(50)>>,
   <<Escaped(97), Plain(61), Escaped(49)>>, <<Plain(39)>>, <<Plain(39), Plain(61)>>,
   <<Plain(97), Escaped(61), Plain(49)>>, <<>>}

Queries(n) == UNION {[1..k -> Segments] : k \in 0..n} \ {<<<<>>>>}

QuerySide ==
  {Exchanged(Asking(<<>>, q, b), Config(k, base, <<>>, {}), Ok) :
     q \in Queries(2), b \in {Prompt("false"), NotJson}, k \in BOOLEAN, base \in Bases}
  \cup {Exchanged(Asking(<<>>, q, Prompt("false")), PlainConfig, Ok) : q \in Queries(3)}

MCExchanges == RequestSide \cup ResponseSide \cup QuerySide

-----------------------------------------------------------------------------
Values == {Object([t \in {"k"} |-> v]) : v \in {Scalar("0.0"), Scalar("1.0")} \cup Parts}

ResentBodies ==
  {Prompt("true"), Prompt("false"), Null, NotJson} \cup Values
    \cup {Array(p) : p \in UNION {[1..n -> Parts] : n \in 0..2}}

MCResent ==
  {[query |-> q, body |-> Prompt("false")] : q \in Queries(2)}
    \cup {[query |-> <<>>, body |-> b] : b \in ResentBodies}

FormOf(body) == CanonicalRequestValue(<<>>, body)

UpToFour(S) == UNION {[0..(n - 1) -> S] : n \in 0..4}

MCCassettes ==
  UpToFour({[hash |-> FormOf(b), shape |-> "NonStream"] : b \in {Prompt("false"), Null}})
    \cup {[i \in {0} |-> [hash |-> FormOf(b), shape |-> "NonStream"]] :
            b \in SmallDocuments \cup Values}

(* A body with the other zero. *)
NegativeZero == Object([t \in {"k"} |-> Scalar("-0.0")])
ZeroCassettes == {[i \in {0} |-> [hash |-> FormOf(NegativeZero), shape |-> "NonStream"]]}
=============================================================================
