------------------------------ MODULE Exchange ------------------------------
(***************************************************************************)
(* One exchange from end to end.  Record mode captures a request, sends it *)
(* upstream with the credentials and headers of its configuration, returns *)
(* the answer and persists the two; replay mode loads the interaction,     *)
(* matches requests by their canonical form, and answers from it or        *)
(* explains how they differ.                                               *)
(*                                                                         *)
(* Three things can happen in this module: an exchange is recorded and     *)
(* then replayed; an existing cassette is replayed; a caller of the        *)
(* library canonicalises a request with ignored body paths, for which the  *)
(* harness itself has no setting.  Which interaction is consumed, and how, *)
(* is ReplayEngineCalls; concurrency is left to the modules of the two     *)
(* services, and the bodies of streams to StreamRecorder.                  *)
(***************************************************************************)
EXTENDS Integers, HeaderPolicy, CanonicalRequest

CONSTANTS
  Exchanges,     \* records of a request, a configuration, an upstream answer
  LibraryCalls,  \* records of a body and the paths to ignore in it
  Cassettes,     \* cassettes that exist before the harness starts
  Resent,        \* the requests a client of the replay server may send
  ApiKey,        \* the bearer token in the environment, where there is one
  NoHash, Nothing

(* Requests and answers come in header maps, bodies are documents; a       *)
(* cassette counts its interactions from zero.                             *)
ASSUME ExchangesAssumption ==
  \A x \in Exchanges :
    /\ IsHeaderMap(x.request.headers) /\ IsHeaderMap(x.answer.headers)
    /\ IsHeaderList(x.config.extra)
    /\ IsQuery(x.request.query) /\ IsQuery(x.config.base.query)
    /\ IsDocument(x.request.body)

(* A path to ignore starts with a slash, so it has a token at least. *)
ASSUME LibraryCallsAssumption ==
  \A call \in LibraryCalls :
    /\ IsDocument(call.body) /\ ArraysHaveNoGaps(call.body)
    /\ call.ignored \in Seq(Seq(STRING) \ {<<>>})

ASSUME ResentAssumption == \A r \in Resent : IsQuery(r.query) /\ IsDocument(r.body)

ASSUME CassettesAssumption ==
  \A c \in Cassettes : DOMAIN c \subseteq Nat /\ \A i \in DOMAIN c : IsDocument(c[i].hash.body)

VARIABLES
  stage,        \* "received", "sent", "returned", "ended", "library",
                \* "populated", "refused", "replaying"
  request,      \* ObservedRequest: headers, query, body
  config,       \* the upstream and redaction settings
  answer,       \* what upstream answers
  outbound,     \* what upstream received
  live,         \* what the client of record mode received
  interaction,  \* what was appended to the cassette
  ignored, canonical,   \* a library call's IgnorePathConfig, and its result
  cassette, mode, sequential_cursor, consumed, peeked, handed

exchangeVars == <<request, config, answer, outbound, live, interaction, ignored, canonical>>
engineVars == <<cassette, mode, sequential_cursor, consumed, peeked, handed>>
vars == <<stage, exchangeVars, engineVars>>

Form(r) == CanonicalRequestValue(r.query, r.body)

(* Replay rejects a body that is no JSON before it asks the engine. *)
Hashes == {Form(r) : r \in {r \in Resent : ParsesAsJson(r.body)}}

Calls == INSTANCE ReplayEngineCalls

Existing(c) == stage = "replaying" /\ cassette = c

Init ==
  /\ outbound = Nothing /\ live = Nothing /\ interaction = Nothing
  /\ canonical = Nothing
  /\ mode \in Calls!Modes
  /\ sequential_cursor = 0 /\ consumed = {}
  /\ peeked = -1 /\ handed = <<>>
  /\ \/ \E x \in Exchanges :
          /\ stage = "received" /\ ignored = <<>> /\ cassette = [i \in {} |-> 0]
          /\ request = x.request /\ config = x.config /\ answer = x.answer
     \/ \E call \in LibraryCalls :
          /\ stage = "library" /\ ignored = call.ignored /\ cassette = [i \in {} |-> 0]
          /\ request = [headers |-> <<>>, query |-> <<>>, body |-> call.body]
          /\ config = Nothing /\ answer = Nothing /\ mode = "Keyed"
     \/ \E c \in Cassettes :
          /\ Existing(c) /\ ignored = <<>>
          /\ request = Nothing /\ config = Nothing /\ answer = Nothing

-----------------------------------------------------------------------------
(* Record mode. *)
ForwardHeaders(r) == SelectedHeaderBytes(r.headers, RequestOnlyExcluded)

Response(status, headers) == [status |-> status, headers |-> headers]

ErrorResponse ==
  Response(BadGateway, <<[name |-> "content-type", value |-> "application/json"]>>)

ResolveApiKeyFails ==
  /\ stage = "received" /\ ~config.key
  /\ live' = ErrorResponse
  /\ stage' = "ended"
  /\ UNCHANGED <<request, config, answer, outbound, interaction, ignored, canonical, engineVars>>

(* A base URL without a path to extend, or an extra header that is not     *)
(* allowed, fails the request before anything is sent.                     *)
BuildOutboundFails ==
  /\ stage = "received" /\ config.key
  /\ config.base.path = <<>> \/ ExtraRefused(config.extra)
  /\ live' = ErrorResponse
  /\ stage' = "ended"
  /\ UNCHANGED <<request, config, answer, outbound, interaction, ignored, canonical, engineVars>>

SendUpstream ==
  /\ stage = "received" /\ config.key
  /\ config.base.path # <<>> /\ ~ExtraRefused(config.extra)
  /\ outbound' = [url     |-> ChatCompletionsUrl(config.base, request.query),
                  headers |-> OutboundHeaders(ApiKey, ForwardHeaders(request), config.extra),
                  body    |-> request.body]
  /\ stage' = "sent"
  /\ UNCHANGED <<request, config, answer, live, interaction, ignored, canonical, engineVars>>

UpstreamFails ==
  /\ stage = "sent"
  /\ live' = ErrorResponse
  /\ stage' = "ended"
  /\ UNCHANGED <<request, config, answer, outbound, interaction, ignored, canonical, engineVars>>

ProxyHeaders(a) == SelectedHeaderBytes(a.headers, ResponseOnlyExcluded)

(* The client's answer does not depend on whether recording succeeds.      *)
UpstreamAnswers ==
  /\ stage = "sent"
  /\ live' = Response(ResponseStatus(answer.status), ProxyHeaders(answer))
  /\ stage' = "returned"
  /\ UNCHANGED <<request, config, answer, outbound, interaction, ignored, canonical, engineVars>>

RecordedRequest ==
  [headers   |-> RedactHeaders(SelectedHeaders(request.headers, RequestOnlyExcluded), config.drop),
   canonical |-> Form(request)]

RecordedResponse ==
  [shape   |-> IF IsStreaming(request.body) THEN "Stream" ELSE "NonStream",
   status  |-> answer.status,
   headers |-> RedactHeaders(SelectedHeaders(answer.headers, ResponseOnlyExcluded), config.drop)]

Persist ==
  /\ stage = "returned"
  /\ interaction' = [request |-> RecordedRequest, response |-> RecordedResponse]
  /\ stage' = "ended"
  /\ UNCHANGED <<request, config, answer, outbound, live, ignored, canonical, engineVars>>

(* The clock, the offset, the transcript or the append may fail.           *)
RecordingFails ==
  /\ stage = "returned"
  /\ stage' = "ended"
  /\ UNCHANGED <<exchangeVars, engineVars>>

-----------------------------------------------------------------------------
(* The library call. *)
PopulateCanonicalFields ==
  /\ stage = "library"
  /\ LET c == CanonicalizeBody(request.body, ignored)
     IN  /\ stage' = IF c.valid THEN "populated" ELSE "refused"
         /\ canonical' = IF c.valid THEN c.body ELSE Nothing
  /\ UNCHANGED <<request, config, answer, outbound, live, interaction, ignored, engineVars>>

-----------------------------------------------------------------------------
(* Replay mode. *)
LoadCassette ==
  /\ stage = "ended"
  /\ stage' = "replaying"
  /\ cassette' = IF interaction = Nothing THEN [i \in {} |-> 0]
                 ELSE [i \in {0} |-> [hash  |-> interaction.request.canonical,
                                      shape |-> interaction.response.shape]]
  /\ UNCHANGED <<exchangeVars, mode, sequential_cursor, consumed, peeked, handed>>

CallEngine ==
  /\ stage = "replaying"
  /\ Calls!Next
  /\ UNCHANGED <<stage, exchangeVars>>

EventStream == <<[name |-> "content-type", value |-> "text/event-stream"]>>

(* Mutant: every stream gets the default content type. *)
ReplayHeadersAlwaysDefault(recorded) ==
  recorded.headers \o (IF recorded.shape = "Stream" THEN EventStream ELSE <<>>)

ReplayHeaders(recorded) ==
  recorded.headers \o
    (IF /\ recorded.shape = "Stream"
        /\ \A k \in DOMAIN recorded.headers : recorded.headers[k].name # "content-type"
     THEN EventStream ELSE <<>>)

ReplayResponse(recorded) ==
  Response(ResponseStatus(recorded.status), ReplayHeaders(recorded))

Next ==
  \/ ResolveApiKeyFails \/ BuildOutboundFails \/ SendUpstream
  \/ UpstreamFails \/ UpstreamAnswers \/ Persist \/ RecordingFails
  \/ PopulateCanonicalFields
  \/ LoadCassette \/ CallEngine

Spec == Init /\ [][Next]_vars

-----------------------------------------------------------------------------
(* The names that must not pass on from one hop to the next. *)
ForThisHop(headers) ==
  HopByHop \cup {n \in NamesIn(headers) :
                   \E k \in DOMAIN headers :
                     /\ headers[k].name = "connection"
                     /\ \E s \in Listed[headers[k].value] : LowerCase(s) = n}

ToDrop == {LowerCase(n) : n \in config.drop}

(* Header names that must stay out stay out: redacted ones out of the      *)
(* cassette however they are spelled, those of one hop out of the next hop *)
(* and the cassette, the client's credentials out of the upstream request, *)
(* which carries the configured token alone.                               *)
SecretsStayOut ==
  /\ interaction # Nothing =>
       /\ NamesIn(interaction.request.headers)
            \cap (ToDrop \cup ForThisHop(request.headers)) = {}
       /\ NamesIn(interaction.response.headers)
            \cap (ToDrop \cup ForThisHop(answer.headers)) = {}
  /\ outbound # Nothing =>
       /\ \A k \in DOMAIN outbound.headers :
            outbound.headers[k].name = "authorization" => outbound.headers[k].value = ApiKey
       /\ NamesIn(outbound.headers) \cap ForThisHop(request.headers)
            \subseteq ({"authorization"} \cup {LowerCase(n) : n \in NamesIn(config.extra)})
                        \ HopByHop
  /\ live # Nothing /\ live # ErrorResponse =>
       NamesIn(live.headers) \cap ForThisHop(answer.headers) = {}

(* The recorded request is what the client sent, not what was made of it   *)
(* for upstream: apart from credentials, redacted names, and the configured*)
(* headers at its end, upstream received the recorded headers in order,    *)
(* and reads the recorded parameters in order behind the base URL's own,   *)
(* although some of their bytes are spelled otherwise.                     *)
RecordedIsWhatTheClientSent ==
  interaction # Nothing =>
    LET fromClient == SubSeq(outbound.headers, 2,
                             Len(outbound.headers) - Len(ExtraHeaders(config.extra)))
        sent == outbound.url.query
        own  == Len(config.base.query)
    IN  /\ AsText(Dropping(fromClient, ToDrop))
             = Dropping(interaction.request.headers, {"authorization"})
        /\ Len(sent) = own + Len(request.query)
        /\ \A k \in DOMAIN request.query :
             QueryPair(sent[own + k]) = QueryPair(request.query[k])

(* Replay answers a handed out interaction as record mode answered it:     *)
(* same status, same headers, less the redacted ones, values that are no   *)
(* text in their encoding, and a content type for a stream without one.    *)
ReplayRepeatsTheResponse ==
  interaction # Nothing /\ handed # <<>> =>
    LET replayed == ReplayResponse(interaction.response)
        kept     == AsText(Dropping(live.headers, ToDrop))
        typed    == "content-type" \in NamesIn(kept)
    IN  /\ replayed.status = live.status
        /\ replayed.headers =
             IF IsStreaming(request.body) /\ ~typed THEN kept \o EventStream ELSE kept

Occurrences(pairs, p) == Cardinality({k \in DOMAIN pairs : pairs[k] = p})

SameQuery(q, r) ==
  LET ps == ParseQueryPairs(q)
      rs == ParseQueryPairs(r)
  IN  \A p \in ToSet(ps) \cup ToSet(rs) : Occurrences(ps, p) = Occurrences(rs, p)

(* A body that is no JSON is recorded, and matched, as null. *)
SameBody(b, c) == b = c \/ (b = NotJson /\ c = Null)

(* A fresh replay answers a request exactly when it asks what was recorded:*)
(* the same parameters however ordered and escaped, and the same body.     *)
MatchedMeansSameRequest ==
  stage = "replaying" /\ interaction # Nothing /\ handed = <<>> =>
    \A r \in {r \in Resent : ParsesAsJson(r.body)} :
      Calls!IsMatch(Calls!PeekMatch(Form(r))) <=>
        SameQuery(request.query, r.query) /\ SameBody(request.body, r.body)

-----------------------------------------------------------------------------
(* What a strict replay reports of a mismatch, whose interaction is next.  *)
Reported(h) == CanonicalDiff(cassette[sequential_cursor].hash, h)

Mismatches(h) ==
  stage = "replaying" /\ Calls!PeekMatch(h).kind = "request_hash_mismatch"

DiffersAt(expected, observed, p) ==
  ~(/\ Holds(expected, p) /\ Holds(observed, p)
    /\ SameScalar(expected[p], observed[p]))

(* The diff of a mismatch is exact: it names a difference and nothing      *)
(* else, every difference lies at or below a path it names, and none of    *)
(* them repeats another.  The sign of a zero is no difference to it.       *)
DiffNamesEveryDifference ==
  \A h \in Hashes : Mismatches(h) =>
    LET expected == cassette[sequential_cursor].hash
        named    == {c.path : c \in Reported(h).body}
    IN  /\ Reported(h).query = (expected.query # h.query)
        /\ \A p \in named : DiffersAt(expected.body, h.body, p)
        /\ \A p \in DOMAIN expected.body \cup DOMAIN h.body :
             DiffersAt(expected.body, h.body, p) => \E q \in named : IsPrefix(q, p)
        /\ \A p, q \in named : IsPrefix(p, q) => p = q
        /\ Cardinality(named) = Cardinality(Reported(h).body)

(* "mismatch should include a diff"                                        *)
(* (src/src/cassette/matching_tests/sequential.rs:63).                     *)
MismatchIncludesADiff == \A h \in Hashes : Mismatches(h) => ~NoDiff(Reported(h))

(* The canonical body has lost exactly the nodes its ignored paths address *)
(* in the body as received, in whatever order the paths are configured,    *)
(* and keeps every other node, value and array order; it is refused        *)
(* exactly when a path is malformed or walks into an array of the received *)
(* body by a key.                                                          *)
ExactlyIgnoredPathsAreGone ==
  /\ stage = "populated" =>
       IsWithout(canonical, request.body, ignored) /\ ~MustRefuse(request.body, ignored)
  /\ stage = "refused" => MustRefuse(request.body, ignored)

(* However the engine's calls are mixed, and however stale the peek a      *)
(* commit acts on, no interaction is handed out twice, the engine has      *)
(* consumed what it handed out, and in sequential-strict mode that is a    *)
(* beginning of the cassette, without a gap.                               *)
HandedOutOnceInOrder == Calls!NothingHandedOutTwice /\ Calls!StrictOrderHasNoGaps
=============================================================================
