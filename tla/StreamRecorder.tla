--------------------------- MODULE StreamRecorder ---------------------------
(***************************************************************************)
(* What the recorder keeps of one upstream stream (StreamRecordingState),  *)
(* while its bytes arrive in chunks of any size, cut anywhere, and what    *)
(* replay later makes of it.                                               *)
(***************************************************************************)
EXTENDS SseParser, StreamBody

CONSTANTS
  Alphabet,     \* the tokens upstream sends
  MaxTokens,    \* bound on the length of a stream
  MaxChunk,     \* bound on the length of a chunk
  MaxElapsed    \* bound on the clock

ASSUME StreamAssumption ==
  /\ Alphabet \subseteq Tokens
  /\ MaxTokens \in Nat /\ MaxChunk \in Nat \ {0} /\ MaxElapsed \in Nat

VARIABLES
  stage,              \* "streaming", then "recorded" or "failed"
  elapsed,            \* milliseconds since upstream_start
  raw_transcript,
  events,
  chunk_offsets_ms,
  ttft_ms,            \* time of the first chunk, or None
  arrivals            \* history: when each byte of the transcript arrived

recorderVars == <<stage, elapsed, raw_transcript, events, chunk_offsets_ms,
                  ttft_ms, arrivals>>
vars == <<parserVars, recorderVars>>

None == -1

Init ==
  /\ ParserInit
  /\ stage = "streaming"
  /\ elapsed = 0
  /\ raw_transcript = <<>> /\ events = <<>>
  /\ chunk_offsets_ms = <<>> /\ ttft_ms = None
  /\ arrivals = <<>>

ClockTicks ==
  /\ stage = "streaming"
  /\ elapsed < MaxElapsed
  /\ elapsed' = elapsed + 1
  /\ UNCHANGED <<parserVars, stage, raw_transcript, events, chunk_offsets_ms,
                 ttft_ms, arrivals>>

Repeat(x, n) == [k \in 1..n |-> x]

(* Mutant: an event is stamped with the time of the first chunk. *)
KeepEventsAtFirstChunk(new) ==
  /\ events' = events \o new
  /\ chunk_offsets_ms' = chunk_offsets_ms
       \o Repeat(IF ttft_ms = None THEN elapsed ELSE ttft_ms, Len(new))

(* Every event a call completes is stamped with the time of that call.     *)
KeepEvents(new) ==
  /\ events' = events \o new
  /\ chunk_offsets_ms' = chunk_offsets_ms \o Repeat(elapsed, Len(new))

(* observe_chunk: the chunk joins the transcript, then the parser; when it *)
(* does not parse, its events are lost and the recording has failed.       *)
ObserveChunk(chunk) ==
  LET fed == Feed(chunk) IN
  /\ stage = "streaming"
  /\ Len(raw_transcript) + Len(chunk) <= MaxTokens
  /\ ttft_ms' = IF ttft_ms = None THEN elapsed ELSE ttft_ms
  /\ raw_transcript' = raw_transcript \o chunk
  /\ arrivals' = arrivals \o Repeat(elapsed, Len(chunk))
  /\ KeepParserState(fed)
  /\ IF fed.ok
     THEN KeepEvents(fed.events) /\ UNCHANGED stage
     ELSE stage' = "failed" /\ UNCHANGED <<events, chunk_offsets_ms>>
  /\ UNCHANGED elapsed

(* finish_recording, up to the point where the interaction is built.       *)
FinishRecording ==
  LET finished == Finish IN
  /\ stage = "streaming"
  /\ KeepParserState(finished)
  /\ IF finished.ok
     THEN stage' = "recorded" /\ KeepEvents(finished.events)
     ELSE stage' = "failed" /\ UNCHANGED <<events, chunk_offsets_ms>>
  /\ UNCHANGED <<elapsed, raw_transcript, ttft_ms, arrivals>>

Chunks == UNION {[1..n -> Alphabet] : n \in 1..MaxChunk}

Next == ClockTicks \/ FinishRecording \/ \E chunk \in Chunks : ObserveChunk(chunk)

Spec == Init /\ [][Next]_vars

-----------------------------------------------------------------------------
(* Reference: the EventSource rules read one byte at a time over a whole   *)
(* transcript, with no buffer and no chunks.  A CR ends its line at once,  *)
(* and an LF right behind a CR is the rest of that terminator.             *)
ReadByte(s, t) ==
  IF t \notin Terminators
  THEN [s EXCEPT !.line = Append(@, t), !.afterCR = FALSE]
  ELSE IF t = "LF" /\ s.afterCR
  THEN [s EXCEPT !.afterCR = FALSE]
  ELSE LET p == ConsumeLine([data |-> s.data, events |-> s.events], s.line) IN
       [line    |-> <<>>,
        afterCR |-> t = "CR",
        sound   |-> s.sound /\ ValidUtf8(s.line),
        data    |-> p.data,
        events  |-> p.events]

NothingRead ==
  [line |-> <<>>, afterCR |-> FALSE, sound |-> TRUE, data |-> <<>>, events |-> <<>>]

ReadAll(transcript) == FoldLeft(ReadByte, NothingRead, transcript)

IsComplete(s) == s.sound /\ s.line = <<>> /\ s.data = <<>>

(* What of a transcript is settled while more of it may come: all of it    *)
(* but a trailing CR.                                                      *)
Settled(transcript) ==
  IF transcript # <<>> /\ Last(transcript) = "CR" THEN Front(transcript) ELSE transcript

(* However the stream is cut into chunks, between the bytes of a CRLF, of  *)
(* a character or of a field, the events recorded are those of the bytes   *)
(* read as one, and only a stream of whole events in UTF-8 is recorded.    *)
ChunkingNeverShows ==
  /\ stage = "streaming" =>
       LET read == ReadAll(Settled(raw_transcript))
       IN  read.sound /\ events = read.events
  /\ stage = "recorded" =>
       LET read == ReadAll(raw_transcript)
       IN  IsComplete(read) /\ events = read.events

(* A stream of whole events is not lost: it is refused only for a byte     *)
(* that is not UTF-8, a part of a line, or an event without a blank line.  *)
(* (A last line that a CR alone ends counts as a part of a line.)          *)
WholeStreamsAreRecorded ==
  stage = "failed" =>
    \/ ~IsComplete(ReadAll(raw_transcript))
    \/ Last(raw_transcript) = "CR" /\ ReadAll(Front(raw_transcript)).line # <<>>

(* The offsets say when the events were complete: by any time, exactly the *)
(* events of the bytes that had settled by then carry no greater offset.   *)
(* The end of the stream settles all of them; an event that only finish    *)
(* completes, as behind a last CR, carries the time of the end.            *)
OffsetsSayWhenEventsArrived ==
  stage # "failed" =>
    /\ Len(chunk_offsets_ms) = Len(events)
    /\ \A t \in 0..elapsed :
         LET heard == SubSeq(raw_transcript, 1,
                             Cardinality({k \in DOMAIN arrivals : arrivals[k] <= t}))
             known == IF stage = "recorded" /\ t = elapsed THEN heard ELSE Settled(heard)
         IN  \A k \in DOMAIN events :
               chunk_offsets_ms[k] <= t <=> k <= Len(ReadAll(known).events)

(* canonicalize_events under StreamCanonicalPolicy, and the transcript as  *)
(* it would be had the provider sent no comment lines.                     *)
KeepUnlessComment(kept, e) == IF e.kind = "Comment" THEN kept ELSE Append(kept, e)

CanonicalizeEvents(es, ignore_comments) ==
  IF ignore_comments THEN FoldLeft(KeepUnlessComment, <<>>, es) ELSE es

IsCommentLine(line) == line # <<>> /\ line[1] = "colon"

CopyUnlessComment(bytes, line) ==
  IF IsCommentLine(line) THEN bytes ELSE bytes \o line \o <<"LF">>

WithoutComments(transcript) ==
  FoldLeft(CopyUnlessComment, <<>>, CompleteLines(Append(transcript, "LF")))

(* Comments may drift freely: wherever they stand, between the data lines  *)
(* of one event too, a recording canonicalised without them is what would  *)
(* have been recorded had they not been sent.                              *)
CommentsNeverTouchData ==
  stage = "recorded" =>
    CanonicalizeEvents(events, TRUE) = ReadAll(WithoutComments(raw_transcript)).events

(* Replay of a recorded stream is the recorded stream: the body, eager or  *)
(* streamed, reads back as the same events, and reads back whole.          *)
ReplayedBodyReadsBack ==
  stage = "recorded" =>
    LET read == ReadAll(Concat(BuildStreamBody(events)))
    IN  IsComplete(read) /\ read.events = events
=============================================================================
