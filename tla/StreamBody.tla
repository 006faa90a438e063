----------------------------- MODULE StreamBody -----------------------------
(***************************************************************************)
(* How replay renders recorded stream events as a response body: each      *)
(* event in canonical framing, the body eager while it fits the buffer     *)
(* limit and streamed from the event that crosses it.                      *)
(***************************************************************************)
EXTENDS Naturals, Sequences, SequencesExt

CONSTANT EagerLimit   \* the buffer limit, in tokens

ASSUME EagerLimitAssumption == EagerLimit \in Nat

(* The lines of a text are what its LF tokens separate: prefix each, end   *)
(* each with LF and the event with a blank line.                           *)
SerializeLines(prefix, text) ==
  FoldLeft(LAMBDA bytes, t :
             IF t = "LF" THEN bytes \o <<"LF">> \o prefix ELSE Append(bytes, t),
           prefix, text)
    \o <<"LF", "LF">>

SerializeEvent(event) ==
  SerializeLines(IF event.kind = "Comment" THEN <<"colon", "space">>
                 ELSE <<"data", "colon", "space">>, event.text)

AppendChunk(bytes, chunk) == bytes \o chunk
Concat(chunks) == FoldLeft(AppendChunk, <<>>, chunks)

SerializeAll(events) == [k \in DOMAIN events |-> SerializeEvent(events[k])]

(* The length of the first n serialized events. *)
TotalLen(events, n) == Len(Concat(SerializeAll(SubSeq(events, 1, n))))

(* How many events are buffered before one would cross the limit.          *)
Buffered(events) ==
  LET fitting == {n \in 0..Len(events) : TotalLen(events, n) <= EagerLimit}
  IN  CHOOSE n \in fitting : \A m \in fitting : m <= n

(* Mutant: the event that crosses the limit is lost. *)
BuildStreamBodyDropsOverflow(events) ==
  LET n == Buffered(events) IN
  IF n = Len(events) THEN <<Concat(SerializeAll(events))>>
  ELSE SerializeAll(SubSeq(events, 1, n)) \o SerializeAll(SubSeq(events, n + 2, Len(events)))

(* The chunks of the body: one when everything fits, otherwise the         *)
(* buffered events, the one that overflowed, and the remaining ones.       *)
BuildStreamBody(events) ==
  LET n == Buffered(events) IN
  IF n = Len(events) THEN <<Concat(SerializeAll(events))>>
  ELSE SerializeAll(SubSeq(events, 1, n))
         \o <<SerializeEvent(events[n + 1])>>
         \o SerializeAll(SubSeq(events, n + 2, Len(events)))
=============================================================================
