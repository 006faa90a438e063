----------------------------- MODULE SseParser ------------------------------
(***************************************************************************)
(* The incremental parser of server-sent event streams (SseParser).        *)
(*                                                                         *)
(* A byte stream is a sequence of tokens: the two terminators, the field   *)
(* name "data", the colon and the space that framing gives a meaning, and  *)
(* a two-byte UTF-8 character as its two bytes, which a chunk boundary may *)
(* part.  "data" also stands for plain text wherever it is not a name.     *)
(***************************************************************************)
EXTENDS Integers, Sequences, SequencesExt, FiniteSets

Tokens == {"CR", "LF", "data", "colon", "space", "lead", "cont"}
Terminators == {"CR", "LF"}

VARIABLES
  buffer,       \* incomplete bytes retained across chunks
  data_lines    \* data fields awaiting a blank line

parserVars == <<buffer, data_lines>>

ParserInit == buffer = <<>> /\ data_lines = <<>>

Comment(text) == [kind |-> "Comment", text |-> text]
Data(raw) == [kind |-> "Data", text |-> raw]

-----------------------------------------------------------------------------
(* Mutant: a trailing CR ends its line at once. *)
LineEndsWithTrailingCR(b) ==
  {i \in DOMAIN b :
     b[i] = "LF" \/ (b[i] = "CR" /\ (i = Len(b) \/ b[i + 1] # "LF"))}

(* Where lines end: at LF, alone or behind a CR, and at a CR that another  *)
(* byte follows.  A trailing CR is deferred: it may be half of a CRLF.     *)
LineEnds(b) ==
  {i \in DOMAIN b :
     b[i] = "LF" \/ (b[i] = "CR" /\ i < Len(b) /\ b[i + 1] # "LF")}

(* The end of the k-th complete line; the 0-th ends before the buffer.     *)
LineEnd(b, k) ==
  IF k = 0 THEN 0
  ELSE CHOOSE i \in LineEnds(b) : Cardinality({j \in LineEnds(b) : j <= i}) = k

(* A line from its first byte to its end, without the terminator there.    *)
LineText(b, first, end) ==
  SubSeq(b, first, IF b[end] = "LF" /\ end > first /\ b[end - 1] = "CR"
                   THEN end - 2 ELSE end - 1)

CompleteLines(b) ==
  [k \in 1..Cardinality(LineEnds(b)) |-> LineText(b, LineEnd(b, k - 1) + 1, LineEnd(b, k))]

ValidUtf8(line) ==
  \A i \in DOMAIN line :
    /\ line[i] = "lead" => i < Len(line) /\ line[i + 1] = "cont"
    /\ line[i] = "cont" => i > 1 /\ line[i - 1] = "lead"

StripOptionalSpace(value) ==
  IF value # <<>> /\ value[1] = "space" THEN Tail(value) ELSE value

(* field_value(line, "data"): the name is all that precedes the colon.     *)
IsDataField(line) == line[1] = "data" /\ (Len(line) > 1 => line[2] = "colon")
DataValue(line) == StripOptionalSpace(SubSeq(line, 3, Len(line)))

JoinLine(joined, line) == joined \o <<"LF">> \o line
JoinLines(lines) == FoldLeft(JoinLine, Head(lines), Tail(lines))

(* What parsing has in hand: the pending data lines and the events so far. *)
DispatchEvent(p) ==
  IF p.data = <<>> THEN p
  ELSE [data |-> <<>>, events |-> Append(p.events, Data(JoinLines(p.data)))]

(* Mutant: a comment abandons the event whose data lines are pending. *)
ConsumeLineCommentAbandons(p, line) ==
  CASE line = <<>> -> DispatchEvent(p)
    [] line # <<>> /\ line[1] = "colon" ->
         [data   |-> <<>>,
          events |-> Append(p.events, Comment(StripOptionalSpace(Tail(line))))]
    [] line # <<>> /\ IsDataField(line) ->
         [p EXCEPT !.data = Append(@, DataValue(line))]
    [] OTHER -> p

ConsumeLine(p, line) ==
  CASE line = <<>> -> DispatchEvent(p)
    [] line # <<>> /\ line[1] = "colon" ->
         [p EXCEPT !.events = Append(@, Comment(StripOptionalSpace(Tail(line))))]
    [] line # <<>> /\ IsDataField(line) ->
         [p EXCEPT !.data = Append(@, DataValue(line))]
    [] OTHER -> p

-----------------------------------------------------------------------------
(* feed: pops and consumes every complete line of the extended buffer, up  *)
(* to the first that is not UTF-8, which fails the call and its events.    *)
Feed(bytes) ==
  LET b      == buffer \o bytes
      lines  == CompleteLines(b)
      sound  == {k \in 0..Len(lines) : \A j \in 1..k : ValidUtf8(lines[j])}
      popped == CHOOSE k \in sound : \A j \in sound : j <= k
      parsed == FoldLeft(ConsumeLine, [data |-> data_lines, events |-> <<>>],
                         SubSeq(lines, 1, popped))
  IN  [ok     |-> popped = Len(lines),
       buffer |-> SubSeq(b, LineEnd(b, popped) + 1, Len(b)),
       data   |-> parsed.data,
       events |-> parsed.events]

(* Mutant: a trailing CR is not a blank line at the end of the stream. *)
FinishIgnoresTrailingCR ==
  [ok     |-> buffer = <<>> /\ data_lines = <<>>,
   buffer |-> buffer,
   data   |-> data_lines,
   events |-> <<>>]

(* finish: a CR alone in the buffer was a blank line after all.            *)
Finish ==
  LET pending == [data |-> data_lines, events |-> <<>>]
      parsed  == IF buffer = <<"CR">> THEN DispatchEvent(pending) ELSE pending
      rest    == IF buffer = <<"CR">> THEN <<>> ELSE buffer
  IN  [ok     |-> rest = <<>> /\ parsed.data = <<>>,
       buffer |-> rest,
       data   |-> parsed.data,
       events |-> parsed.events]

KeepParserState(result) ==
  buffer' = result.buffer /\ data_lines' = result.data
=============================================================================
