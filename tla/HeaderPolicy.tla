---------------------------- MODULE HeaderPolicy ----------------------------
(***************************************************************************)
(* Which headers of an exchange are forwarded, returned and persisted, and *)
(* in which form.  Headers are a sequence of names and values, as a header *)
(* map iterates: names in lower case, the values of a name side by side.   *)
(* Configured names and the names a Connection value lists come in any     *)
(* spelling.                                                               *)
(***************************************************************************)
EXTENDS Naturals, Sequences, SequencesExt

CONSTANTS
  Spellings,      \* the lower case of every name spelled otherwise
  Listed,         \* the header names each Connection value lists, as spelled
  Encoded,        \* the percent encoding of every value that is no text
  InvalidNames    \* configured names that are no header names

LowerCase(name) == IF name \in DOMAIN Spellings THEN Spellings[name] ELSE name

HopByHop ==
  {"connection", "keep-alive", "proxy-authenticate", "proxy-authorization",
   "te", "trailer", "transfer-encoding", "upgrade"}

RequestOnlyExcluded == {"host", "content-length", "accept-encoding"}
ResponseOnlyExcluded == {"content-length"}

(* Mutant: names are compared as the Connection value spells them. *)
ConnectionTokensAsSpelled(headers) ==
  (UNION {Listed[headers[k].value] :
            k \in {k \in DOMAIN headers : headers[k].name = "connection"}}) \ {""}

(* Empty tokens between two commas are no names. *)
ConnectionTokens(headers) ==
  (UNION {{LowerCase(n) : n \in Listed[headers[k].value]} :
            k \in {k \in DOMAIN headers : headers[k].name = "connection"}}) \ {""}

Disallowed(headers, excluded) == ConnectionTokens(headers) \cup HopByHop \cup excluded

(* Names and values; in a header map, no name is empty or spelled otherwise.*)
IsHeaderList(headers) ==
  headers \in Seq({[name |-> headers[k].name, value |-> headers[k].value] : k \in DOMAIN headers})

IsHeaderMap(headers) ==
  /\ IsHeaderList(headers)
  /\ \A k \in DOMAIN headers : headers[k].name # "" /\ LowerCase(headers[k].name) = headers[k].name

NamesIn(headers) == {headers[k].name : k \in DOMAIN headers}

(* Headers without those of some names, in order. *)
Dropping(headers, names) ==
  LET kept[n \in 0..Len(headers)] ==
        IF n = 0 THEN <<>>
        ELSE IF headers[n].name \in names THEN kept[n - 1]
        ELSE Append(kept[n - 1], headers[n])
  IN  kept[Len(headers)]

SelectedHeaderBytes(headers, excluded) == Dropping(headers, Disallowed(headers, excluded))

HeaderValueString(value) == IF value \in DOMAIN Encoded THEN Encoded[value] ELSE value

AsText(headers) ==
  [k \in DOMAIN headers |-> [headers[k] EXCEPT !.value = HeaderValueString(@)]]

SelectedHeaders(headers, excluded) == AsText(SelectedHeaderBytes(headers, excluded))

RedactHeaders(headers, drop) ==
  LET dropped == {LowerCase(n) : n \in drop}
  IN  Dropping(headers, {n \in NamesIn(headers) : LowerCase(n) \in dropped})

-----------------------------------------------------------------------------
(* What is sent upstream: the bearer token, then the client's headers,     *)
(* then the configured ones, in the order of their names.                  *)
ShouldForward(name) == LowerCase(name) # "authorization"

ForbiddenExtra ==
  {"host", "connection", "keep-alive", "proxy-authenticate", "proxy-authorization",
   "te", "trailer", "transfer-encoding", "upgrade", "content-length", "accept-encoding"}

BearerAuth(key) == <<[name |-> "authorization", value |-> key]>>

(* Mutant: the client's own credentials go along. *)
ForwardedWithCredentials(headers) == headers

ForwardedHeaders(headers) ==
  Dropping(headers, {n \in NamesIn(headers) : ~ShouldForward(n)})

(* One name that is forbidden or no header name refuses the whole request. *)
ExtraRefused(extra) ==
  \E k \in DOMAIN extra :
    /\ ShouldForward(extra[k].name)
    /\ LowerCase(extra[k].name) \in ForbiddenExtra \cup InvalidNames

ExtraHeaders(extra) ==
  LET sent == Dropping(extra, {n \in NamesIn(extra) : ~ShouldForward(n)})
  IN  [k \in DOMAIN sent |-> [sent[k] EXCEPT !.name = LowerCase(@)]]

OutboundHeaders(key, headers, extra) ==
  BearerAuth(key) \o ForwardedHeaders(headers) \o ExtraHeaders(extra)

-----------------------------------------------------------------------------
(* The URL: an empty last segment of the base path, as a trailing slash    *)
(* leaves, is replaced; the client's query follows the base's own, and     *)
(* set_query spells what a URL's query may not hold as percent escapes.    *)
ChatCompletionsPath(segments) ==
  (IF Last(segments) = "" THEN Front(segments) ELSE segments) \o <<"chat", "completions">>

(* The codes that url's QUERY and SPECIAL_QUERY sets escape.                *)
QueryEncodeSet == (0..32) \cup {34, 35, 39, 60, 62} \cup (127..255)

EncodedByte(b) == IF b.code \in QueryEncodeSet THEN [b EXCEPT !.escaped = TRUE] ELSE b
EncodedText(text) == [n \in DOMAIN text |-> EncodedByte(text[n])]
SetQuery(query) == [k \in DOMAIN query |-> EncodedText(query[k])]

ChatCompletionsUrl(base, query) ==
  [path  |-> ChatCompletionsPath(base.path),
   query |-> IF query = <<>> THEN base.query ELSE SetQuery(base.query \o query)]

(* Statuses the adapters can answer with; others become 502.               *)
BadGateway == 502
ResponseStatus(status) == IF status \in 100..599 THEN status ELSE BadGateway
=============================================================================
