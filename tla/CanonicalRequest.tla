-------------------------- MODULE CanonicalRequest --------------------------
(***************************************************************************)
(* The canonical form a request is matched by, and the diff that explains  *)
(* to the client of a strict replay how two of them differ.                *)
(*                                                                         *)
(* SHA-256 of the serialised form is modelled as the form itself.  Method  *)
(* and path are the same for every request of the one route, so the form   *)
(* is the sorted query and the body; a body that is no JSON is null.       *)
(*                                                                         *)
(* A byte of a query text is its ASCII code and whether it is spelled as a *)
(* percent escape; a text is a sequence of them, a segment the text        *)
(* between two "&", a query the sequence of its segments.                  *)
(***************************************************************************)
EXTENDS CanonicalBody

Plain(code) == [code |-> code, escaped |-> FALSE]
Escaped(code) == [code |-> code, escaped |-> TRUE]

EqualsSign == Plain(61)

IsQuery(query) == query \in Seq(Seq([code : 0..255, escaped : BOOLEAN]))

Bytes(text) == [k \in DOMAIN text |-> text[k].code]

(* split_once('='): an escaped "=" does not split; without one the value   *)
(* is empty.                                                               *)
QueryPair(segment) ==
  LET splits == {k \in DOMAIN segment : segment[k] = EqualsSign}
      at     == CHOOSE k \in splits : \A l \in splits : k <= l
  IN  IF splits = {} THEN [key |-> Bytes(segment), value |-> <<>>]
      ELSE [key   |-> Bytes(SubSeq(segment, 1, at - 1)),
            value |-> Bytes(SubSeq(segment, at + 1, Len(segment)))]

AddPair(pairs, segment) ==
  IF segment = <<>> THEN pairs ELSE Append(pairs, QueryPair(segment))

ParseQueryPairs(query) == FoldLeft(AddPair, <<>>, query)

TextBefore(s, t) ==
  \E k \in DOMAIN t :
    /\ k <= Len(s) + 1
    /\ SubSeq(s, 1, k - 1) = SubSeq(t, 1, k - 1)
    /\ k > Len(s) \/ s[k] < t[k]

(* Mutant: sorted by key alone, as observed within a key. *)
PairBeforeByKey(p, q) == TextBefore(p.key, q.key)

PairBefore(p, q) ==
  \/ TextBefore(p.key, q.key)
  \/ p.key = q.key /\ TextBefore(p.value, q.value)

(* Insertion keeps the pairs sorted; equal pairs look the same.  The code  *)
(* sorts their percent-encoded forms, which is another total order.        *)
InsertPair(pairs, p) ==
  LET before == {k \in DOMAIN pairs : ~PairBefore(p, pairs[k])}
  IN  InsertAt(pairs, Cardinality(before) + 1, p)

SortPairs(pairs) == FoldLeft(InsertPair, <<>>, pairs)

CanonicalizeQuery(query) == SortPairs(ParseQueryPairs(query))

(* Bodies: a document, or bytes that are no JSON. *)
NotJson == [p \in {} |-> "not JSON"]
Null == [p \in {<<>>} |-> "null"]

ParsesAsJson(body) == body # NotJson

CanonicalRequestValue(query, body) ==
  [query |-> CanonicalizeQuery(query),
   body  |-> IF ParsesAsJson(body) THEN body ELSE Null]

IsStreaming(body) ==
  /\ Holds(body, <<"stream">>)
  /\ body[<<>>] = "object"
  /\ body[<<"stream">>] = "true"

-----------------------------------------------------------------------------
(* canonical_diff_summary.  Values are compared as serde_json compares     *)
(* them, where the two zeros are equal, although they are serialised       *)
(* differently.                                                            *)
Zeros == {"0.0", "-0.0"}
SameScalar(v, w) == v = w \/ {v, w} = Zeros

(* Both sides hold the same kind of container at every step up to path.    *)
SameContainers(expected, observed, path) ==
  \A k \in 0..(Len(path) - 1) :
    LET q == SubSeq(path, 1, k)
    IN  /\ Holds(expected, q) /\ Holds(observed, q)
        /\ expected[q] = observed[q] /\ expected[q] \in {"object", "array"}

Compared(expected, observed) ==
  {p \in DOMAIN expected \cup DOMAIN observed : SameContainers(expected, observed, p)}

Change(p, kind) == [path |-> p, kind |-> kind]

Removed(expected, observed) ==
  {Change(p, "removed") : p \in {q \in Compared(expected, observed) : ~Holds(observed, q)}}

(* Mutant: arrays are compared as far as the expected one goes. *)
AddedToObjects(expected, observed) ==
  {Change(p, "added") :
     p \in {q \in Compared(expected, observed) :
              ~Holds(expected, q) /\ ~IsArray(expected, Front(q))}}

Added(expected, observed) ==
  {Change(p, "added") : p \in {q \in Compared(expected, observed) : ~Holds(expected, q)}}

Changed(expected, observed) ==
  {Change(p, "changed") :
     p \in {q \in Compared(expected, observed) :
              Holds(expected, q) /\ Holds(observed, q)
                /\ ~SameScalar(expected[q], observed[q])}}

BodyDiff(expected, observed) ==
  Removed(expected, observed) \cup Added(expected, observed) \cup Changed(expected, observed)

CanonicalDiff(expected, observed) ==
  [query |-> expected.query # observed.query,
   body  |-> BodyDiff(expected.body, observed.body)]

NoDiff(diff) == ~diff.query /\ diff.body = {}
=============================================================================
