------------------------ MODULE StreamRecorderProofs ------------------------
(***************************************************************************)
(* Proofs about the recording of streams, of any length, cut into any      *)
(* chunks, over any time: the parser of chunks keeps pace with a reading   *)
(* of the whole transcript byte by byte (KeepsPace), and reading is        *)
(* understood by induction over the bytes.                                 *)
(***************************************************************************)
EXTENDS StreamRecorder, CommonLemmas, FiniteSetTheorems

LineTokens == Tokens \ Terminators
Bytes == Seq(Tokens)
Text == Seq(LineTokens)           \* what is on one line
Texts == Seq(Tokens \ {"CR"})     \* lines joined by LF
Lines == Seq(Text)

CommentEvents == [kind : {"Comment"}, text : Text]
DataEvents == [kind : {"Data"}, text : Texts]
Events == CommentEvents \cup DataEvents
EventLists == Seq(Events)

ParseStates == [data : Lines, events : EventLists]
ReadStates == [line : Text, afterCR : BOOLEAN, sound : BOOLEAN,
               data : Lines, events : EventLists]

-----------------------------------------------------------------------------
(* Joining lines. *)
LEMMA TextIsPlain ==
  Text \subseteq Texts /\ Texts \subseteq Bytes /\ Text \subseteq Bytes
BY DEF Text, Texts, Bytes, LineTokens, Tokens, Terminators

JoinStep == [p \in Texts \X Text |-> JoinLine(p[1], p[2])]

LEMMA JoinFolds ==
  ASSUME NEW b \in Texts, NEW s \in Seq(Text)
  PROVE  /\ FoldLeft(JoinLine, b, <<>>) = b /\ FoldLeft(JoinLine, b, s) \in Texts
         /\ \A x \in Text : FoldLeft(JoinLine, b, Append(s, x)) = JoinLine(FoldLeft(JoinLine, b, s), x)
<1>1. JoinStep \in Steps(Text, Texts) /\ b \in Texts
  <2> SUFFICES ASSUME NEW a \in Texts, NEW x \in Text PROVE JoinLine(a, x) \in Texts
    BY DEF JoinStep, Steps
  <2>1. <<"LF">> \in Texts /\ x \in Texts BY TextIsPlain DEF Texts, Tokens
  <2> QED BY <2>1 DEF JoinLine, Texts
<1>2. ASSUME NEW q \in Seq(Text)
      PROVE  FoldLeft(JoinLine, b, q) = Folded(JoinStep, b, q)
  <2> DEFINE N == 1..Len(q)
             StepOn(t, U) == JoinLine(t[U \ {Max(U)}], q[Max(U)])
             IsFold(t) == t = [U \in SUBSET DOMAIN q |-> IF U = {} THEN b ELSE StepOn(t, U)]
             c == CHOOSE t : IsFold(t)
  <2>0. DOMAIN q = N OBVIOUS
  <2>1. PICK f \in Tables(q, Texts) : IsTable(f, JoinStep, b, q)
    BY <1>1, FoldHasTable
  <2>2. \A U \in SUBSET N : f[U] = IF U = {} THEN b ELSE StepOn(f, U)
    BY <2>1, TablesAreTyped DEF IsTable, Tables, JoinStep
  <2>3. IsFold(f)
    <3> HIDE DEF StepOn
    <3>1. f = [U \in SUBSET N |-> f[U]] BY DEF Tables
    <3> QED BY <2>0, <2>2, <3>1
  <2>4. IsFold(c) BY <2>3
  <2>5. FoldLeft(JoinLine, b, q) = c[DOMAIN q] BY DEF FoldLeft, MapThenFoldSet
  <2> HIDE DEF c
  <2>6. c[{}] = b BY <2>4
  <2>7. TakesSteps(c, Texts, JoinStep, q)
    BY <2>0, <2>4, TablesAreTyped DEF JoinStep, TakesSteps
  <2>8. c[N] = Folded(JoinStep, b, q)
    BY <1>1, <2>6, <2>7, WhatFolds
  <2> QED BY <2>0, <2>5, <2>8
<1>3. <<>> \in Seq(Text) /\ \A x \in Text : Append(s, x) \in Seq(Text) OBVIOUS
<1>4. Folded(JoinStep, b, <<>>) = b /\ Folded(JoinStep, b, s) \in Texts
  BY <1>1, FoldingOn
<1>5. ASSUME NEW x \in Text
      PROVE  Folded(JoinStep, b, Append(s, x)) = JoinLine(Folded(JoinStep, b, s), x)
  <2>1. Folded(JoinStep, b, Append(s, x)) = JoinStep[<<Folded(JoinStep, b, s), x>>]
    BY <1>1, FoldingOn
  <2> QED BY <1>4, <2>1 DEF JoinStep
<1> QED BY <1>2, <1>3, <1>4, <1>5

(* Joined lines, of one line and of one line more. *)
LEMMA Joining ==
  ASSUME NEW ls \in Lines, NEW l \in Text
  PROVE  /\ JoinLines(Append(ls, l)) \in Texts
         /\ JoinLines(Append(ls, l)) =
              IF ls = <<>> THEN l ELSE JoinLines(ls) \o <<"LF">> \o l
<1>0. ls \in Seq(Text) BY DEF Lines
<1>1. CASE ls = <<>>
  <2>1. Head(Append(ls, l)) = l /\ Tail(Append(ls, l)) = <<>> BY <1>1
  <2>2. l \in Texts /\ <<>> \in Seq(Text) BY TextIsPlain
  <2> QED BY <1>1, <2>1, <2>2, JoinFolds DEF JoinLines
<1>2. CASE ls # <<>>
  <2> DEFINE h == Head(ls)
             r == Tail(ls)
  <2>1. h \in Text /\ r \in Seq(Text) BY <1>0, <1>2
  <2>2. h \in Texts BY <2>1, TextIsPlain
  <2>3. Head(Append(ls, l)) = h /\ Tail(Append(ls, l)) = Append(r, l)
    BY <1>0, <1>2
  <2> HIDE DEF h, r
  <2>4. /\ FoldLeft(JoinLine, h, Append(r, l)) = JoinLine(FoldLeft(JoinLine, h, r), l)
        /\ FoldLeft(JoinLine, h, Append(r, l)) \in Texts
    <3>1. Append(r, l) \in Seq(Text) BY <2>1
    <3> QED BY <2>1, <2>2, <3>1, JoinFolds
  <2>5. JoinLines(Append(ls, l)) = FoldLeft(JoinLine, h, Append(r, l))
    BY <2>3 DEF JoinLines
  <2>6. JoinLines(ls) = FoldLeft(JoinLine, h, r) BY DEF JoinLines, h, r
  <2> QED BY <1>2, <2>4, <2>5, <2>6 DEF JoinLine
<1> QED BY <1>1, <1>2

-----------------------------------------------------------------------------
(* Consuming lines and reading bytes keep to their types. *)
LEMMA PiecesOfText ==
  ASSUME NEW l \in Text
  PROVE  /\ StripOptionalSpace(l) \in Text
         /\ l # <<>> => Tail(l) \in Text
         /\ DataValue(l) \in Text
<1>1. ASSUME NEW v \in Text PROVE StripOptionalSpace(v) \in Text
  BY <1>1 DEF StripOptionalSpace, Text
<1>2. l # <<>> => Tail(l) \in Text BY DEF Text
<1>3. SubSeq(l, 3, Len(l)) \in Text BY DEF Text
<1> QED BY <1>1, <1>2, <1>3 DEF DataValue

LEMMA JoinedLines ==
  ASSUME NEW ls \in Lines, ls # <<>>
  PROVE  JoinLines(ls) \in Texts
<1>1. PICK m \in Lines, l \in Text : ls = Append(m, l)
  BY SequenceEmptyOrAppend DEF Lines
<1> QED BY <1>1, Joining

LEMMA DispatchTyped ==
  ASSUME NEW p \in ParseStates
  PROVE  DispatchEvent(p) \in ParseStates
<1>1. CASE p.data = <<>> BY <1>1 DEF DispatchEvent
<1>2. CASE p.data # <<>>
  <2>1. p.data \in Lines /\ p.events \in EventLists BY DEF ParseStates
  <2>2. JoinLines(p.data) \in Texts BY <1>2, <2>1, JoinedLines
  <2>3. Data(JoinLines(p.data)) \in Events BY <2>2 DEF Data, Events, DataEvents
  <2>4. <<>> \in Lines BY DEF Lines
  <2> QED BY <1>2, <2>1, <2>3, <2>4 DEF DispatchEvent, ParseStates, EventLists
<1> QED BY <1>1, <1>2

(* What consuming a line does, by the kind of line. *)
LEMMA ConsumeLineKinds ==
  ASSUME NEW p \in ParseStates, NEW l \in Text
  PROVE  /\ ConsumeLine(p, l) \in ParseStates
         /\ l = <<>> => ConsumeLine(p, l) = DispatchEvent(p)
         /\ IsCommentLine(l) =>
              /\ ConsumeLine(p, l) =
                   [data   |-> p.data,
                    events |-> Append(p.events, Comment(StripOptionalSpace(Tail(l))))]
              /\ Comment(StripOptionalSpace(Tail(l))) \in Events
         /\ l # <<>> /\ IsDataField(l) /\ ~IsCommentLine(l) =>
              ConsumeLine(p, l) = [data |-> Append(p.data, DataValue(l)), events |-> p.events]
         /\ l # <<>> /\ ~IsDataField(l) /\ ~IsCommentLine(l) => ConsumeLine(p, l) = p
<1>0. /\ p = [data |-> p.data, events |-> p.events]
      /\ p.data \in Lines /\ p.events \in EventLists
  BY DEF ParseStates
<1>1. CASE l = <<>>
  <2>1. ConsumeLine(p, l) = DispatchEvent(p) BY <1>1 DEF ConsumeLine
  <2> QED BY <1>1, <2>1, DispatchTyped DEF IsCommentLine
<1>2. CASE IsCommentLine(l)
  <2> DEFINE e == Comment(StripOptionalSpace(Tail(l)))
  <2>1. ConsumeLine(p, l) = [p EXCEPT !.events = Append(@, e)]
    <3>1. l # <<>> /\ l[1] = "colon" /\ ~IsDataField(l)
      BY <1>2 DEF IsCommentLine, IsDataField
    <3> QED BY <3>1 DEF ConsumeLine
  <2>2. ConsumeLine(p, l) = [data |-> p.data, events |-> Append(p.events, e)]
    <3> HIDE DEF e
    <3> QED BY <1>0, <2>1
  <2>3. StripOptionalSpace(Tail(l)) \in Text
    <3>1. Tail(l) \in Text BY <1>2, PiecesOfText DEF IsCommentLine
    <3> QED BY <3>1, PiecesOfText
  <2>4. e \in Events BY <2>3 DEF Comment, Events, CommentEvents
  <2> HIDE DEF e
  <2>5. ConsumeLine(p, l) \in ParseStates BY <1>0, <2>2, <2>4 DEF ParseStates, EventLists
  <2>6. l # <<>> BY <1>2 DEF IsCommentLine
  <2> QED BY <1>2, <2>2, <2>4, <2>5, <2>6 DEF e
<1>3. CASE l # <<>> /\ IsDataField(l) /\ ~IsCommentLine(l)
  <2>1. ConsumeLine(p, l) = [p EXCEPT !.data = Append(@, DataValue(l))]
    BY <1>3 DEF ConsumeLine, IsCommentLine
  <2>2. DataValue(l) \in Text BY PiecesOfText
  <2>3. ConsumeLine(p, l) = [data |-> Append(p.data, DataValue(l)), events |-> p.events]
    BY <1>0, <2>1
  <2>4. ConsumeLine(p, l) \in ParseStates BY <1>0, <2>2, <2>3 DEF ParseStates, Lines
  <2> QED BY <1>3, <2>3, <2>4
<1>4. CASE l # <<>> /\ ~IsDataField(l) /\ ~IsCommentLine(l)
  <2>1. ConsumeLine(p, l) = p BY <1>4 DEF ConsumeLine, IsCommentLine
  <2> QED BY <1>4, <2>1
<1> QED BY <1>1, <1>2, <1>3, <1>4 DEF IsCommentLine

ConsumeStep == [p \in ParseStates \X Text |-> ConsumeLine(p[1], p[2])]

(* Lines consumed one after the other. *)
LEMMA Consuming ==
  ASSUME NEW b \in ParseStates, NEW s \in Seq(Text)
  PROVE  /\ FoldLeft(ConsumeLine, b, <<>>) = b /\ FoldLeft(ConsumeLine, b, s) \in ParseStates
         /\ \A x \in Text : FoldLeft(ConsumeLine, b, Append(s, x)) = ConsumeLine(FoldLeft(ConsumeLine, b, s), x)
<1>1. ConsumeStep \in Steps(Text, ParseStates) /\ b \in ParseStates
  BY ConsumeLineKinds DEF ConsumeStep, Steps
<1>2. ASSUME NEW q \in Seq(Text)
      PROVE  FoldLeft(ConsumeLine, b, q) = Folded(ConsumeStep, b, q)
  <2> DEFINE N == 1..Len(q)
             StepOn(t, U) == ConsumeLine(t[U \ {Max(U)}], q[Max(U)])
             IsFold(t) == t = [U \in SUBSET DOMAIN q |-> IF U = {} THEN b ELSE StepOn(t, U)]
             c == CHOOSE t : IsFold(t)
  <2>0. DOMAIN q = N OBVIOUS
  <2>1. PICK f \in Tables(q, ParseStates) : IsTable(f, ConsumeStep, b, q)
    BY <1>1, FoldHasTable
  <2>2. \A U \in SUBSET N : f[U] = IF U = {} THEN b ELSE StepOn(f, U)
    BY <2>1, TablesAreTyped DEF IsTable, Tables, ConsumeStep
  <2>3. IsFold(f)
    <3> HIDE DEF StepOn
    <3>1. f = [U \in SUBSET N |-> f[U]] BY DEF Tables
    <3> QED BY <2>0, <2>2, <3>1
  <2>4. IsFold(c) BY <2>3
  <2>5. FoldLeft(ConsumeLine, b, q) = c[DOMAIN q] BY DEF FoldLeft, MapThenFoldSet
  <2> HIDE DEF c
  <2>6. c[{}] = b BY <2>4
  <2>7. TakesSteps(c, ParseStates, ConsumeStep, q)
    BY <2>0, <2>4, TablesAreTyped DEF ConsumeStep, TakesSteps
  <2>8. c[N] = Folded(ConsumeStep, b, q)
    BY <1>1, <2>6, <2>7, WhatFolds
  <2> QED BY <2>0, <2>5, <2>8
<1>3. <<>> \in Seq(Text) /\ \A x \in Text : Append(s, x) \in Seq(Text) OBVIOUS
<1>4. Folded(ConsumeStep, b, <<>>) = b /\ Folded(ConsumeStep, b, s) \in ParseStates
  BY <1>1, FoldingOn
<1>5. ASSUME NEW x \in Text
      PROVE  Folded(ConsumeStep, b, Append(s, x)) = ConsumeLine(Folded(ConsumeStep, b, s), x)
  <2>1. Folded(ConsumeStep, b, Append(s, x)) = ConsumeStep[<<Folded(ConsumeStep, b, s), x>>]
    BY <1>1, FoldingOn
  <2> QED BY <1>4, <2>1 DEF ConsumeStep
<1> QED BY <1>2, <1>3, <1>4, <1>5

(* The lines on which a transcript's reader has consumed so far. *)
Parsed(s) == [data |-> s.data, events |-> s.events]

(* n continues the line of s with t, or ends it, or is s again. *)
Continues(n, s, t) ==
  n.line = Append(s.line, t) /\ n.sound = s.sound /\ Parsed(n) = Parsed(s)

EndsLine(n, s) ==
  /\ n.line = <<>>
  /\ n.sound = (s.sound /\ ValidUtf8(s.line))
  /\ Parsed(n) = ConsumeLine(Parsed(s), s.line)

Stays(n, s) == n.line = s.line /\ n.sound = s.sound /\ Parsed(n) = Parsed(s)

LEMMA StateTyped ==
  ASSUME NEW s \in ReadStates
  PROVE  /\ s = [line |-> s.line, afterCR |-> s.afterCR, sound |-> s.sound,
                 data |-> s.data, events |-> s.events]
         /\ s.line \in Text /\ s.afterCR \in BOOLEAN /\ s.sound \in BOOLEAN
         /\ s.data \in Lines /\ s.events \in EventLists
         /\ Parsed(s) \in ParseStates
         /\ Parsed(s).data = s.data /\ Parsed(s).events = s.events
BY DEF ReadStates, Parsed, ParseStates

(* What reading a byte does, by the kind of byte. *)
LEMMA ReadByteKinds ==
  ASSUME NEW s \in ReadStates, NEW t \in Tokens
  PROVE  /\ ReadByte(s, t) \in ReadStates
         /\ t \in LineTokens => Continues(ReadByte(s, t), s, t)
         /\ t = "CR" => EndsLine(ReadByte(s, t), s)
         /\ t = "LF" /\ ~s.afterCR => EndsLine(ReadByte(s, t), s)
         /\ t = "LF" /\ s.afterCR => Stays(ReadByte(s, t), s)
         /\ ReadByte(s, t).afterCR <=> t = "CR"
<1> DEFINE n == ReadByte(s, t)
           p == ConsumeLine(Parsed(s), s.line)
<1>0. /\ s = [line |-> s.line, afterCR |-> s.afterCR, sound |-> s.sound,
              data |-> s.data, events |-> s.events]
      /\ s.line \in Text /\ s.afterCR \in BOOLEAN /\ s.sound \in BOOLEAN
      /\ s.data \in Lines /\ s.events \in EventLists
      /\ Parsed(s) \in ParseStates
  BY StateTyped
<1>1. p \in ParseStates BY <1>0, ConsumeLineKinds
<1>2. p.data \in Lines /\ p.events \in EventLists /\ p = [data |-> p.data, events |-> p.events]
  BY <1>1 DEF ParseStates
<1> HIDE DEF p
<1>3. CASE t \in LineTokens
  <2>1. t \notin Terminators /\ t # "CR" /\ t # "LF" BY <1>3 DEF LineTokens, Terminators
  <2>2. n = [s EXCEPT !.line = Append(@, t), !.afterCR = FALSE]
    BY <2>1 DEF ReadByte
  <2>3. n = [line |-> Append(s.line, t), afterCR |-> FALSE,
             sound |-> s.sound, data |-> s.data, events |-> s.events]
    BY <1>0, <2>2
  <2>4. Append(s.line, t) \in Text BY <1>0, <1>3 DEF Text
  <2>5. n \in ReadStates BY <1>0, <2>3, <2>4 DEF ReadStates
  <2>6. Continues(n, s, t) /\ ~n.afterCR BY <2>3 DEF Continues, Parsed
  <2> QED BY <2>1, <2>5, <2>6
<1>4. CASE t = "CR" \/ (t = "LF" /\ ~s.afterCR)
  <2>1. t \in Terminators /\ ~(t = "LF" /\ s.afterCR) /\ t \notin LineTokens
    BY <1>4 DEF Terminators, LineTokens
  <2>2. n = [line |-> <<>>, afterCR |-> t = "CR",
             sound |-> s.sound /\ ValidUtf8(s.line), data |-> p.data, events |-> p.events]
    BY <2>1 DEF ReadByte, p, Parsed
  <2>3. (s.sound /\ ValidUtf8(s.line)) \in BOOLEAN /\ (t = "CR") \in BOOLEAN /\ <<>> \in Text
    BY DEF Text
  <2>4. n \in ReadStates BY <1>2, <2>2, <2>3 DEF ReadStates
  <2>5. n.afterCR <=> t = "CR"
    <3>1. n.afterCR = (t = "CR") BY <2>2
    <3> QED BY <3>1, Zenon
  <2>6. n.line = <<>> /\ n.sound = (s.sound /\ ValidUtf8(s.line))
    BY <2>2
  <2>7. Parsed(n) = [data |-> p.data, events |-> p.events] BY <2>2 DEF Parsed
  <2>8. EndsLine(n, s) BY <1>2, <2>6, <2>7 DEF EndsLine, p
  <2> HIDE DEF n
  <2> QED BY <1>4, <2>1, <2>4, <2>5, <2>8 DEF n
<1>5. CASE t = "LF" /\ s.afterCR
  <2>1. t \in Terminators /\ t # "CR" /\ t \notin LineTokens BY <1>5 DEF LineTokens, Terminators
  <2>2. n = [s EXCEPT !.afterCR = FALSE] BY <1>5, <2>1 DEF ReadByte
  <2>3. n = [line |-> s.line, afterCR |-> FALSE,
             sound |-> s.sound, data |-> s.data, events |-> s.events]
    BY <1>0, <2>2
  <2>4. n \in ReadStates BY <1>0, <2>3 DEF ReadStates
  <2>5. Stays(n, s) /\ ~n.afterCR BY <2>3 DEF Stays, Parsed
  <2> QED BY <1>5, <2>1, <2>4, <2>5
<1>6. t \in LineTokens \/ t = "CR" \/ t = "LF" BY DEF LineTokens, Terminators
<1> QED BY <1>0, <1>3, <1>4, <1>5, <1>6

ReadStep == [p \in ReadStates \X Tokens |-> ReadByte(p[1], p[2])]

(* Bytes read one after the other. *)
LEMMA Reading ==
  ASSUME NEW s \in Seq(Tokens)
  PROVE  /\ ReadAll(<<>>) = NothingRead /\ ReadAll(s) \in ReadStates
         /\ \A x \in Tokens : ReadAll(Append(s, x)) = ReadByte(ReadAll(s), x)
<1>1. ReadStep \in Steps(Tokens, ReadStates) /\ NothingRead \in ReadStates
  <2>1. NothingRead \in ReadStates
    BY DEF NothingRead, ReadStates, Text, Lines, EventLists
  <2> QED BY <2>1, ReadByteKinds DEF ReadStep, Steps
<1>2. ASSUME NEW q \in Seq(Tokens)
      PROVE  ReadAll(q) = Folded(ReadStep, NothingRead, q)
  <2> DEFINE N == 1..Len(q)
             StepOn(t, U) == ReadByte(t[U \ {Max(U)}], q[Max(U)])
             IsFold(t) == t = [U \in SUBSET DOMAIN q |-> IF U = {} THEN NothingRead ELSE StepOn(t, U)]
             c == CHOOSE t : IsFold(t)
  <2>0. DOMAIN q = N OBVIOUS
  <2>1. PICK f \in Tables(q, ReadStates) : IsTable(f, ReadStep, NothingRead, q)
    BY <1>1, FoldHasTable
  <2>2. \A U \in SUBSET N : f[U] = IF U = {} THEN NothingRead ELSE StepOn(f, U)
    BY <2>1, TablesAreTyped DEF IsTable, Tables, ReadStep
  <2>3. IsFold(f)
    <3> HIDE DEF StepOn
    <3>1. f = [U \in SUBSET N |-> f[U]] BY DEF Tables
    <3> QED BY <2>0, <2>2, <3>1
  <2>4. IsFold(c) BY <2>3
  <2>5. ReadAll(q) = c[DOMAIN q] BY DEF ReadAll, FoldLeft, MapThenFoldSet
  <2> HIDE DEF c
  <2>6. c[{}] = NothingRead BY <2>4
  <2>7. TakesSteps(c, ReadStates, ReadStep, q)
    BY <2>0, <2>4, TablesAreTyped DEF ReadStep, TakesSteps
  <2>8. c[N] = Folded(ReadStep, NothingRead, q)
    BY <1>1, <2>6, <2>7, WhatFolds
  <2> QED BY <2>0, <2>5, <2>8
<1>3. <<>> \in Seq(Tokens) /\ \A x \in Tokens : Append(s, x) \in Seq(Tokens) OBVIOUS
<1>4. Folded(ReadStep, NothingRead, <<>>) = NothingRead /\ Folded(ReadStep, NothingRead, s) \in ReadStates
  BY <1>1, FoldingOn
<1>5. ASSUME NEW x \in Tokens
      PROVE  Folded(ReadStep, NothingRead, Append(s, x)) = ReadByte(Folded(ReadStep, NothingRead, s), x)
  <2>1. Folded(ReadStep, NothingRead, Append(s, x)) = ReadStep[<<Folded(ReadStep, NothingRead, s), x>>]
    BY <1>1, FoldingOn
  <2> QED BY <1>4, <2>1 DEF ReadStep
<1> QED BY <1>2, <1>3, <1>4, <1>5

-----------------------------------------------------------------------------
(* Reading as far as a transcript is settled: what one byte more does.     *)
Pending(b) == b # <<>> /\ Last(b) = "CR"
SoFar(b) == ReadAll(Settled(b))
Ends(b, t) == Pending(b) \/ t = "LF"

LEMMA SettledOn ==
  ASSUME NEW b \in Bytes, NEW t \in Tokens
  PROVE  /\ Append(b, t) \in Bytes
         /\ Pending(Append(b, t)) <=> t = "CR"
         /\ Settled(Append(b, t)) = IF t = "CR" THEN b ELSE Append(b, t)
<1>1. /\ Append(b, t) \in Seq(Tokens) /\ Append(b, t) # <<>>
      /\ Last(Append(b, t)) = t /\ Front(Append(b, t)) = b
  BY FrontLastOfAppend DEF Bytes
<1> QED BY <1>1 DEF Settled, Pending, Bytes

LEMMA SettledOfNothing ==
  /\ <<>> \in Bytes /\ ~Pending(<<>>) /\ Settled(<<>>) = <<>> /\ SoFar(<<>>) = NothingRead
<1>1. <<>> \in Seq(Tokens) OBVIOUS
<1>2. ReadAll(<<>>) = NothingRead BY <1>1, Reading
<1> QED BY <1>1, <1>2 DEF Bytes, Pending, Settled, SoFar

LEMMA SettledTyped ==
  ASSUME NEW b \in Bytes
  PROVE  /\ Settled(b) \in Bytes /\ ReadAll(b) \in ReadStates /\ SoFar(b) \in ReadStates
         /\ ~Pending(b) => SoFar(b) = ReadAll(b)
         /\ Pending(b) => b = Append(Settled(b), "CR")
<1>1. CASE Pending(b)
  <2>1. PICK f \in Bytes, x \in Tokens : b = Append(f, x)
    BY <1>1, SequenceEmptyOrAppend DEF Pending, Bytes
  <2>2. x = "CR" /\ Settled(b) = f BY <1>1, <2>1, SettledOn
  <2> QED BY <1>1, <2>1, <2>2, Reading DEF SoFar, Bytes
<1>2. CASE ~Pending(b)
  <2>1. Settled(b) = b BY <1>2 DEF Settled, Pending
  <2> QED BY <1>2, <2>1, Reading DEF SoFar, Bytes
<1> QED BY <1>1, <1>2

LEMMA AfterCRMeansPending ==
  ASSUME NEW b \in Bytes
  PROVE  ReadAll(b).afterCR <=> Pending(b)
<1> DEFINE G == {s \in Bytes : ReadAll(s).afterCR <=> Pending(s)}
<1>1. <<>> \in G
  BY SettledOfNothing, Reading DEF NothingRead, Bytes
<1>2. \A s \in Bytes : \A t \in Tokens : s \in G => Append(s, t) \in G
  <2> SUFFICES ASSUME NEW s \in Bytes, NEW t \in Tokens
               PROVE  Append(s, t) \in G
    OBVIOUS
  <2>1. ReadAll(Append(s, t)) = ReadByte(ReadAll(s), t) /\ ReadAll(s) \in ReadStates
    BY Reading DEF Bytes
  <2>2. ReadByte(ReadAll(s), t).afterCR <=> t = "CR" BY <2>1, ReadByteKinds
  <2> QED BY <2>1, <2>2, SettledOn
<1> HIDE DEF G
<1>3. Bytes \subseteq G BY <1>1, <1>2, InductionOnSequences DEF Bytes
<1> QED BY <1>3 DEF G

LEMMA SoFarOn ==
  ASSUME NEW b \in Bytes, NEW t \in Tokens
  PROVE  LET r == SoFar(b)
             n == SoFar(Append(b, t))
         IN  IF Ends(b, t)
             THEN /\ n.line = IF t \in Terminators THEN <<>> ELSE <<t>>
                  /\ n.sound = (r.sound /\ ValidUtf8(r.line))
                  /\ Parsed(n) = ConsumeLine(Parsed(r), r.line)
             ELSE IF t = "CR" THEN Stays(n, r) ELSE Continues(n, r, t)
<1> DEFINE r == SoFar(b)
           n == SoFar(Append(b, t))
           all == ReadAll(b)
<1>0. /\ Settled(b) \in Bytes /\ r \in ReadStates /\ all \in ReadStates
      /\ "CR" \in Tokens
  BY SettledTyped DEF Tokens
<1>1. t \in LineTokens \/ t = "CR" \/ t = "LF" BY DEF LineTokens, Terminators
<1>2. /\ t \in LineTokens => t \notin Terminators /\ t # "CR" /\ t # "LF"
      /\ "CR" \in Terminators /\ "LF" \in Terminators
  BY DEF LineTokens, Terminators
<1>3. t = "CR" => n = all BY SettledOn DEF SoFar
<1>4. t # "CR" => n = ReadByte(all, t) BY SettledOn, Reading DEF SoFar, Bytes
<1> HIDE DEF r, n, all
<1>5. CASE Pending(b)
  <2>1. EndsLine(all, r)
    <3>1. b = Append(Settled(b), "CR") BY <1>5, SettledTyped
    <3>2. all = ReadByte(r, "CR") BY <1>0, <3>1, Reading DEF SoFar, Bytes, all, r
    <3> QED BY <1>0, <3>2, ReadByteKinds
  <2>2. all.afterCR BY <1>5, AfterCRMeansPending DEF all
  <2>3. t = "LF" => Stays(n, all) BY <1>0, <1>4, <2>2, ReadByteKinds
  <2>4. t \in LineTokens => Continues(n, all, t) BY <1>0, <1>2, <1>4, ReadByteKinds
  <2>5. t \in Terminators => n.line = <<>>
    BY <1>1, <1>2, <1>3, <2>1, <2>3 DEF EndsLine, Stays
  <2>6. t \in LineTokens => n.line = <<t>>
    <3>1. Append(<<>>, t) = <<t>> OBVIOUS
    <3> QED BY <2>1, <2>4, <3>1 DEF EndsLine, Continues
  <2>7. n.sound = all.sound /\ Parsed(n) = Parsed(all)
    BY <1>1, <1>3, <2>3, <2>4 DEF Continues, Stays
  <2> QED BY <1>1, <1>2, <1>5, <2>1, <2>5, <2>6, <2>7 DEF Ends, EndsLine, r, n
<1>6. CASE ~Pending(b)
  <2>1. r = all /\ ~all.afterCR BY <1>6, SettledTyped, AfterCRMeansPending DEF r, all
  <2>2. t = "CR" => Stays(n, r) BY <1>3, <2>1 DEF Stays
  <2>3. t = "LF" => EndsLine(n, r) BY <1>0, <1>4, <2>1, ReadByteKinds
  <2>4. t \in LineTokens => Continues(n, r, t) BY <1>0, <1>2, <1>4, <2>1, ReadByteKinds
  <2> QED BY <1>1, <1>2, <1>6, <2>2, <2>3, <2>4 DEF Ends, EndsLine, r, n
<1> QED BY <1>5, <1>6

-----------------------------------------------------------------------------
(* Where lines end: the elements of a set of positions by their rank.      *)
UpTo(S, i) == {j \in S : j <= i}
HasRank(S, i, k) == i \in S /\ Cardinality(UpTo(S, i)) = k

Ranked(S) ==
  /\ S \in SUBSET Nat /\ IsFiniteSet(S)
  /\ \A k \in 1..Cardinality(S) : \E i \in S : HasRank(S, i, k)

(* No two elements have the same rank. *)
LEMMA RanksDiffer ==
  ASSUME NEW S \in SUBSET Nat, IsFiniteSet(S), NEW i \in S, NEW j \in S, i < j
  PROVE  Cardinality(UpTo(S, i)) # Cardinality(UpTo(S, j))
<1>1. UpTo(S, j) \subseteq S /\ IsFiniteSet(UpTo(S, j))
  <2>1. UpTo(S, j) \subseteq S BY DEF UpTo
  <2> QED BY <2>1, FS_Subset
<1>2. UpTo(S, i) \subseteq UpTo(S, j) /\ j \in UpTo(S, j) /\ j \notin UpTo(S, i)
  <2>1. i \in Nat /\ j \in Nat /\ ~(j <= i) /\ \A h \in S : h \in Nat /\ (h <= i => h <= j)
    OBVIOUS
  <2>2. j \in UpTo(S, j) BY <2>1 DEF UpTo
  <2>3. j \notin UpTo(S, i) BY <2>1 DEF UpTo
  <2>4. UpTo(S, i) \subseteq UpTo(S, j) BY <2>1 DEF UpTo
  <2> QED BY <2>2, <2>3, <2>4
<1>3. Cardinality(UpTo(S, i)) < Cardinality(UpTo(S, j))
  <2>1. UpTo(S, i) # UpTo(S, j) BY <1>2
  <2>2. /\ IsFiniteSet(UpTo(S, i)) /\ Cardinality(UpTo(S, i)) <= Cardinality(UpTo(S, j))
        /\ Cardinality(UpTo(S, i)) = Cardinality(UpTo(S, j)) => UpTo(S, i) = UpTo(S, j)
    BY <1>1, <1>2, FS_Subset
  <2>3. Cardinality(UpTo(S, i)) \in Nat /\ Cardinality(UpTo(S, j)) \in Nat
    BY <1>1, <2>2, FS_CardinalityType
  <2> QED BY <2>1, <2>2, <2>3
<1>4. IsFiniteSet(UpTo(S, i)) BY <1>1, <1>2, FS_Subset
<1> QED BY <1>1, <1>3, <1>4, FS_CardinalityType

LEMMA OneOfRank ==
  ASSUME NEW S \in SUBSET Nat, IsFiniteSet(S), NEW k, NEW i, NEW j,
         HasRank(S, i, k), HasRank(S, j, k)
  PROVE  i = j
<1>1. i \in S /\ j \in S /\ i \in Nat /\ j \in Nat BY DEF HasRank
<1>2. ~(i < j) BY <1>1, RanksDiffer DEF HasRank
<1>3. ~(j < i) BY <1>1, RanksDiffer DEF HasRank
<1> QED BY <1>1, <1>2, <1>3

(* A position beyond all others comes last, and leaves their ranks alone.  *)
LEMMA OneMoreRank ==
  ASSUME NEW S, Ranked(S), NEW e \in Nat, \A i \in S : i < e
  PROVE  LET M == S \cup {e} IN
         /\ Ranked(M) /\ Cardinality(M) = Cardinality(S) + 1 /\ Cardinality(S) \in Nat
         /\ HasRank(M, e, Cardinality(S) + 1)
         /\ \A i \in S : \A k : HasRank(S, i, k) => HasRank(M, i, k)
<1> DEFINE M == S \cup {e}
           n == Cardinality(S)
<1>1. S \in SUBSET Nat /\ IsFiniteSet(S) /\ e \notin S BY DEF Ranked
<1>2. n \in Nat BY <1>1, FS_CardinalityType
<1>3. IsFiniteSet(M) /\ Cardinality(M) = n + 1 BY <1>1, FS_AddElement
<1>4. \A i \in S : UpTo(M, i) = UpTo(S, i)
  <2>1. \A i \in S : ~(e <= i) BY <1>1
  <2> QED BY <2>1 DEF UpTo
<1>5. UpTo(M, e) = M
  <2>1. \A i \in M : i <= e BY <1>1
  <2> QED BY <2>1 DEF UpTo
<1>6. HasRank(M, e, n + 1) BY <1>3, <1>5 DEF HasRank
<1>7. \A i \in S : \A k : HasRank(S, i, k) => HasRank(M, i, k)
  BY <1>4 DEF HasRank
<1>8. ASSUME NEW k \in 1..Cardinality(M) PROVE \E i \in M : HasRank(M, i, k)
  <2>1. CASE k = n + 1 BY <1>6, <2>1
  <2>2. CASE k # n + 1
    <3>1. k \in 1..n BY <1>2, <1>3, <2>2
    <3>2. PICK i \in S : HasRank(S, i, k) BY <3>1 DEF Ranked
    <3> QED BY <1>7, <3>2
  <2> QED BY <2>1, <2>2
<1>9. Ranked(M) BY <1>1, <1>3, <1>8 DEF Ranked
<1> QED BY <1>2, <1>3, <1>6, <1>7, <1>9

(* What one byte more ends. *)
EndsAt(b, t) == IF t = "LF" THEN Len(b) + 1 ELSE Len(b)

LEMMA LineEndsOn ==
  ASSUME NEW b \in Bytes, NEW t \in Tokens
  PROVE  /\ LineEnds(b) \in SUBSET (1..Len(b))
         /\ Ends(b, t) =>
              /\ LineEnds(Append(b, t)) = LineEnds(b) \cup {EndsAt(b, t)}
              /\ EndsAt(b, t) \in Nat /\ \A i \in LineEnds(b) : i < EndsAt(b, t)
         /\ ~Ends(b, t) => LineEnds(Append(b, t)) = LineEnds(b)
<1> DEFINE n == Len(b)
           m == Append(b, t)
<1>1. /\ b \in Seq(Tokens) /\ n \in Nat /\ DOMAIN b = 1..n
      /\ DOMAIN m = 1..(n + 1) /\ Len(m) = n + 1
      /\ \A i \in 1..n : m[i] = b[i]
      /\ m[n + 1] = t
  BY DEF Bytes
<1>2. Pending(b) <=> n # 0 /\ b[n] = "CR"
  <2>1. b # <<>> <=> n # 0 BY <1>1
  <2> QED BY <2>1 DEF Pending, Last
<1>3. LineEnds(b) \in SUBSET (1..n) BY <1>1 DEF LineEnds
<1> HIDE DEF m, n
<1>4. ASSUME NEW i \in 1..(n + 1)
      PROVE  i \in LineEnds(m) <=> \/ i \in LineEnds(b)
                                   \/ (i = n /\ n # 0 /\ b[n] = "CR" /\ t # "LF")
                                   \/ (i = n + 1 /\ t = "LF")
  <2>1. i \in LineEnds(m) <=> (m[i] = "LF" \/ (m[i] = "CR" /\ i < n + 1 /\ m[i + 1] # "LF"))
    BY <1>1 DEF LineEnds
  <2>2. i \in LineEnds(b) <=> (i \in 1..n /\ (b[i] = "LF" \/ (b[i] = "CR" /\ i < n /\ b[i + 1] # "LF")))
    BY <1>1 DEF LineEnds, n
  <2>3. CASE i = n + 1
    <3>1. i \notin 1..n /\ ~(i < n + 1) /\ i # n BY <1>1, <2>3
    <3> QED BY <1>1, <2>1, <2>2, <2>3, <3>1
  <2>4. CASE i = n
    <3>1. i \in 1..n /\ n # 0 /\ m[i] = b[n] /\ m[i + 1] = t /\ i < n + 1 /\ ~(i < n) /\ i # n + 1
      BY <1>1, <2>4
    <3> QED BY <2>1, <2>2, <2>4, <3>1
  <2>5. CASE i # n /\ i # n + 1
    <3>1. i \in 1..n /\ i < n /\ i < n + 1 /\ m[i] = b[i] /\ m[i + 1] = b[i + 1]
      BY <1>1, <2>5
    <3> QED BY <2>1, <2>2, <2>5, <3>1
  <2> QED BY <2>3, <2>4, <2>5
<1>5. LineEnds(m) \in SUBSET (1..(n + 1)) BY <1>1 DEF LineEnds
<1>6. ASSUME ~Ends(b, t) PROVE LineEnds(m) = LineEnds(b)
  <2>1. t # "LF" /\ ~(n # 0 /\ b[n] = "CR") BY <1>2, <1>6 DEF Ends
  <2>2. \A i \in 1..(n + 1) : i \in LineEnds(m) <=> i \in LineEnds(b)
    BY <1>4, <2>1
  <2>3. LineEnds(b) \in SUBSET (1..(n + 1)) BY <1>1, <1>3
  <2> QED BY <1>5, <2>2, <2>3
<1>7. ASSUME Ends(b, t)
      PROVE  /\ LineEnds(m) = LineEnds(b) \cup {EndsAt(b, t)}
             /\ EndsAt(b, t) \in Nat /\ \A i \in LineEnds(b) : i < EndsAt(b, t)
  <2> DEFINE e == EndsAt(b, t)
  <2>1. CASE t = "LF"
    <3>1. e = n + 1 /\ e \in 1..(n + 1) BY <1>1, <2>1 DEF EndsAt, n
    <3>2. \A i \in 1..(n + 1) : i \in LineEnds(m) <=> i \in LineEnds(b) \cup {e}
      BY <1>4, <2>1, <3>1
    <3>3. LineEnds(b) \cup {e} \in SUBSET (1..(n + 1)) BY <1>1, <1>3, <3>1
    <3>4. \A i \in LineEnds(b) : i < e BY <1>1, <1>3, <3>1
    <3> QED BY <1>5, <3>1, <3>2, <3>3, <3>4
  <2>2. CASE t # "LF"
    <3>1. n # 0 /\ b[n] = "CR" /\ e = n /\ e \in 1..(n + 1)
      BY <1>1, <1>2, <1>7, <2>2 DEF Ends, EndsAt, n
    <3>2. \A i \in 1..(n + 1) : i \in LineEnds(m) <=> i \in LineEnds(b) \cup {e}
      BY <1>4, <2>2, <3>1
    <3>3. LineEnds(b) \cup {e} \in SUBSET (1..(n + 1)) BY <1>1, <1>3, <3>1
    <3>4. n \notin LineEnds(b) BY <1>1, <3>1 DEF LineEnds, n
    <3>5. \A i \in LineEnds(b) : i < e
      <4> SUFFICES ASSUME NEW i \in LineEnds(b) PROVE i < n BY <3>1
      <4>1. i \in 1..n /\ i # n BY <1>3, <3>4
      <4> QED BY <1>1, <4>1
    <3> QED BY <1>1, <1>5, <3>1, <3>2, <3>3, <3>5
  <2> QED BY <2>1, <2>2
<1> QED BY <1>3, <1>6, <1>7 DEF m, n

LEMMA LineEndsAreRanked ==
  ASSUME NEW b \in Bytes
  PROVE  Ranked(LineEnds(b)) /\ Cardinality(LineEnds(b)) \in Nat
<1> DEFINE G == {s \in Bytes : Ranked(LineEnds(s))}
<1>1. <<>> \in G
  <2>1. <<>> \in Bytes /\ DOMAIN <<>> = {} BY DEF Bytes
  <2>2. LineEnds(<<>>) = {} BY <2>1 DEF LineEnds
  <2>3. IsFiniteSet({}) /\ Cardinality({}) = 0 BY FS_EmptySet
  <2>4. \A k \in 1..0 : FALSE OBVIOUS
  <2> QED BY <2>1, <2>2, <2>3, <2>4 DEF Ranked
<1>2. \A s \in Bytes : \A t \in Tokens : s \in G => Append(s, t) \in G
  <2> SUFFICES ASSUME NEW s \in Bytes, NEW t \in Tokens, Ranked(LineEnds(s))
               PROVE  Append(s, t) \in Bytes /\ Ranked(LineEnds(Append(s, t)))
    OBVIOUS
  <2>1. CASE Ends(s, t)
    <3> DEFINE e == EndsAt(s, t)
               S == LineEnds(s)
    <3>1. e \in Nat /\ (\A i \in S : i < e) /\ LineEnds(Append(s, t)) = S \cup {e}
      BY <2>1, LineEndsOn
    <3> HIDE DEF e, S
    <3>2. Ranked(S) BY DEF S
    <3>3. Ranked(S \cup {e}) BY <3>1, <3>2, OneMoreRank
    <3> QED BY <3>1, <3>3, SettledOn
  <2>2. CASE ~Ends(s, t) BY <2>2, LineEndsOn, SettledOn
  <2> QED BY <2>1, <2>2
<1> HIDE DEF G
<1>3. Bytes \subseteq G BY <1>1, <1>2, InductionOnSequences DEF Bytes
<1> QED BY <1>3, FS_CardinalityType DEF G, Ranked

(* The k-th line ends at the position of rank k. *)
LEMMA LineEndIs ==
  ASSUME NEW b \in Bytes, NEW k \in Nat, NEW i, HasRank(LineEnds(b), i, k), k # 0
  PROVE  LineEnd(b, k) = i
<1> DEFINE S == LineEnds(b)
           c == CHOOSE j \in S : Cardinality({h \in S : h <= j}) = k
<1>1. S \in SUBSET Nat /\ IsFiniteSet(S) BY LineEndsAreRanked DEF Ranked
<1>2. i \in S /\ Cardinality({h \in S : h <= i}) = k BY DEF HasRank, UpTo
<1>3. LineEnd(b, k) = c BY DEF LineEnd
<1>4. c \in S /\ Cardinality({h \in S : h <= c}) = k BY <1>2
<1> HIDE DEF c, S
<1>5. HasRank(S, c, k) BY <1>4 DEF HasRank, UpTo
<1> QED BY <1>1, <1>3, <1>5, OneOfRank DEF S

LEMMA LineEndHas ==
  ASSUME NEW b \in Bytes, NEW k \in 1..Cardinality(LineEnds(b))
  PROVE  HasRank(LineEnds(b), LineEnd(b, k), k) /\ LineEnd(b, k) \in 1..Len(b)
<1>1. PICK i \in LineEnds(b) : HasRank(LineEnds(b), i, k)
  BY LineEndsAreRanked DEF Ranked
<1>2. k \in Nat /\ k # 0 BY LineEndsAreRanked
<1>3. LineEnd(b, k) = i BY <1>1, <1>2, LineEndIs
<1>4. "CR" \in Tokens BY DEF Tokens
<1> QED BY <1>1, <1>3, <1>4, LineEndsOn

-----------------------------------------------------------------------------
(* The complete lines of a buffer and the bytes behind the last of them.   *)
LinesIn(b) == Cardinality(LineEnds(b))
DoneAt(b) == LineEnd(b, LinesIn(b))
Rest(b) == SubSeq(b, DoneAt(b) + 1, Len(b))

LEMMA PartOf ==
  ASSUME NEW S, NEW s \in Seq(S), NEW d \in Nat, NEW n \in Nat, d <= n, n <= Len(s)
  PROVE  /\ SubSeq(s, d + 1, n) \in Seq(S) /\ Len(SubSeq(s, d + 1, n)) = n - d
         /\ \A i \in 1..(n - d) : SubSeq(s, d + 1, n)[i] = s[i + d]
<1>1. SubSeq(s, d + 1, n) \in Seq(S) /\ Len(SubSeq(s, d + 1, n)) = n - d
  OBVIOUS
<1>2. ASSUME NEW i \in 1..(n - d) PROVE SubSeq(s, d + 1, n)[i] = s[i + d]
  <2>1. SubSeq(s, d + 1, n)[i] = s[i + (d + 1) - 1] OBVIOUS
  <2>2. i + (d + 1) - 1 = i + d OBVIOUS
  <2> QED BY <2>1, <2>2
<1> QED BY <1>1, <1>2

LEMMA LinesInTyped ==
  ASSUME NEW b \in Bytes
  PROVE  /\ LinesIn(b) \in Nat /\ Len(b) \in Nat
         /\ \A k \in 0..LinesIn(b) : LineEnd(b, k) \in 0..Len(b)
         /\ \A k \in 1..LinesIn(b) : LineEnd(b, k) \in 1..Len(b)
         /\ DoneAt(b) \in 0..Len(b)
<1>1. LinesIn(b) \in Nat /\ Len(b) \in Nat BY LineEndsAreRanked DEF LinesIn, Bytes
<1>2. \A k \in 1..LinesIn(b) : LineEnd(b, k) \in 1..Len(b) BY LineEndHas DEF LinesIn
<1>3. LineEnd(b, 0) = 0 BY DEF LineEnd
<1>4. \A k \in 0..LinesIn(b) : LineEnd(b, k) \in 0..Len(b)
  <2> SUFFICES ASSUME NEW k \in 0..LinesIn(b) PROVE LineEnd(b, k) \in 0..Len(b) OBVIOUS
  <2>1. CASE k = 0 BY <1>1, <1>3, <2>1
  <2>2. CASE k # 0
    <3>1. k \in 1..LinesIn(b) BY <1>1, <2>2
    <3> QED BY <1>2, <3>1
  <2> QED BY <2>1, <2>2
<1> QED BY <1>1, <1>2, <1>4 DEF DoneAt

(* One byte more moves no line end there was.                              *)
LEMMA LineEndsStay ==
  ASSUME NEW b \in Bytes, NEW t \in Tokens
  PROVE  /\ \A k \in 0..LinesIn(b) : LineEnd(Append(b, t), k) = LineEnd(b, k)
         /\ ~Ends(b, t) => LinesIn(Append(b, t)) = LinesIn(b)
         /\ Ends(b, t) => /\ LinesIn(Append(b, t)) = LinesIn(b) + 1
                          /\ LineEnd(Append(b, t), LinesIn(b) + 1) = EndsAt(b, t)
<1> DEFINE m == Append(b, t)
           S == LineEnds(b)
           M == LineEnds(m)
           e == EndsAt(b, t)
<1>1. /\ m \in Bytes /\ Ranked(S) /\ LinesIn(b) \in Nat
      /\ LinesIn(b) = Cardinality(S) /\ LinesIn(m) = Cardinality(M)
  BY SettledOn, LineEndsAreRanked DEF LinesIn
<1>2. /\ Ends(b, t) => M = S \cup {e} /\ e \in Nat /\ \A i \in S : i < e
      /\ ~Ends(b, t) => M = S
  BY LineEndsOn
<1> HIDE DEF m, S, M, e
<1>3. Ends(b, t) => /\ Cardinality(M) = Cardinality(S) + 1
                    /\ HasRank(M, e, Cardinality(S) + 1)
                    /\ \A i \in S : \A k : HasRank(S, i, k) => HasRank(M, i, k)
  BY <1>1, <1>2, OneMoreRank
<1>4. \A i : \A k : HasRank(S, i, k) => HasRank(M, i, k)
  BY <1>2, <1>3 DEF HasRank
<1>5. ASSUME NEW k \in 0..LinesIn(b) PROVE LineEnd(m, k) = LineEnd(b, k)
  <2>1. CASE k = 0 BY <2>1 DEF LineEnd
  <2>2. CASE k # 0
    <3>1. k \in Nat /\ k \in 1..Cardinality(S) BY <1>1, <2>2
    <3>2. HasRank(S, LineEnd(b, k), k) BY <3>1, LineEndHas DEF S
    <3>3. HasRank(M, LineEnd(b, k), k) BY <1>4, <3>2
    <3> QED BY <1>1, <2>2, <3>1, <3>3, LineEndIs DEF M
  <2> QED BY <2>1, <2>2
<1>6. Ends(b, t) => LineEnd(m, LinesIn(b) + 1) = e
  <2> SUFFICES ASSUME Ends(b, t) PROVE LineEnd(m, LinesIn(b) + 1) = e OBVIOUS
  <2>1. LinesIn(b) + 1 \in Nat /\ LinesIn(b) + 1 # 0 BY <1>1
  <2>2. HasRank(M, e, LinesIn(b) + 1) BY <1>1, <1>3
  <2> QED BY <1>1, <2>1, <2>2, LineEndIs DEF M
<1>7. ~Ends(b, t) => LinesIn(m) = LinesIn(b) BY <1>1, <1>2
<1>8. Ends(b, t) => LinesIn(m) = LinesIn(b) + 1 BY <1>1, <1>3
<1> QED BY <1>5, <1>6, <1>7, <1>8 DEF m, e

LEMMA LineTextStays ==
  ASSUME NEW b \in Bytes, NEW t \in Tokens, NEW first \in Nat \ {0}, NEW end \in 1..Len(b)
  PROVE  LineText(Append(b, t), first, end) = LineText(b, first, end)
<1> DEFINE m == Append(b, t)
           to == IF b[end] = "LF" /\ end > first /\ b[end - 1] = "CR" THEN end - 2 ELSE end - 1
<1>1. b \in Seq(Tokens) /\ m \in Seq(Tokens) /\ Len(m) = Len(b) + 1 /\ Len(b) \in Nat
  BY DEF Bytes
<1>2. \A i \in 1..Len(b) : m[i] = b[i] BY <1>1
<1> HIDE DEF m
<1>3. m[end] = b[end] /\ (end > first => m[end - 1] = b[end - 1])
  <2>1. end > first => end - 1 \in 1..Len(b) BY <1>1
  <2> QED BY <1>2, <2>1
<1>4. to \in Int /\ to <= end BY <1>1
<1>5. LineText(b, first, end) = SubSeq(b, first, to) BY DEF LineText
<1>6. LineText(m, first, end) = SubSeq(m, first, to) BY <1>3 DEF LineText
<1> HIDE DEF to
<1>7. SubSeq(m, first, to) = SubSeq(b, first, to)
  <2>1. CASE to < first
    <3>1. SubSeq(m, first, to) = <<>> BY <1>1, <1>4, <2>1
    <3>2. SubSeq(b, first, to) = <<>> BY <1>1, <1>4, <2>1
    <3> QED BY <3>1, <3>2
  <2>2. CASE ~(to < first)
    <3> DEFINE d == first - 1
               u == SubSeq(m, d + 1, to)
               v == SubSeq(b, d + 1, to)
    <3>1. d \in Nat /\ to \in Nat /\ d <= to /\ to <= Len(b) /\ to <= Len(m) /\ d + 1 = first
      BY <1>1, <1>4, <2>2
    <3> HIDE DEF d
    <3>2. u \in Seq(Tokens) /\ Len(u) = to - d /\ \A i \in 1..(to - d) : u[i] = m[i + d]
      BY <1>1, <3>1, PartOf
    <3>3. v \in Seq(Tokens) /\ Len(v) = to - d /\ \A i \in 1..(to - d) : v[i] = b[i + d]
      BY <1>1, <3>1, PartOf
    <3>4. \A i \in 1..(to - d) : i + d \in 1..Len(b) BY <1>1, <3>1
    <3> HIDE DEF u, v
    <3>5. \A i \in 1..Len(u) : u[i] = v[i] BY <1>2, <3>2, <3>3, <3>4
    <3>6. u = v BY <3>2, <3>3, <3>5, SeqEqual
    <3> QED BY <3>1, <3>6 DEF u, v
  <2> QED BY <2>1, <2>2
<1> QED BY <1>5, <1>6, <1>7 DEF m

(* The line that one byte more completes, when a line l has been waiting   *)
(* for it, alone or with a CR behind it.                                   *)
Waiting(b, l) == Rest(b) = IF Pending(b) THEN Append(l, "CR") ELSE l

LEMMA LineCompleted ==
  ASSUME NEW b \in Bytes, NEW t \in Tokens, NEW l \in Bytes, Ends(b, t), Waiting(b, l)
  PROVE  LineText(Append(b, t), DoneAt(b) + 1, EndsAt(b, t)) = l
<1> DEFINE m == Append(b, t)
           n == Len(b)
           d == DoneAt(b)
<1>1. /\ b \in Seq(Tokens) /\ m \in Seq(Tokens) /\ Len(m) = n + 1 /\ n \in Nat
      /\ d \in 0..n /\ l \in Seq(Tokens) /\ Len(l) \in Nat
      /\ \A i \in 1..n : m[i] = b[i]
      /\ m[n + 1] = t
  BY LinesInTyped DEF Bytes
<1>2. Pending(b) <=> n # 0 /\ b[n] = "CR"
  <2>1. b # <<>> <=> n # 0 BY <1>1
  <2> QED BY <2>1 DEF Pending, Last
<1>3. Rest(b) = SubSeq(b, d + 1, n) BY DEF Rest
<1> HIDE DEF m, n, d
<1>4. Len(Rest(b)) = n - d /\ \A i \in 1..(n - d) : Rest(b)[i] = b[i + d]
  BY <1>1, <1>3
<1>5. CASE Pending(b)
  <2> DEFINE a == Append(l, "CR")
  <2>1. Rest(b) = a BY <1>5 DEF Waiting
  <2>2. Len(a) = Len(l) + 1 /\ \A i \in 1..Len(l) : a[i] = l[i] BY <1>1
  <2> HIDE DEF a
  <2>3. n - d = Len(l) + 1 /\ \A i \in 1..Len(l) : l[i] = m[i + d]
    <3>1. n - d = Len(l) + 1 BY <1>4, <2>1, <2>2
    <3>2. \A i \in 1..Len(l) : i \in 1..(n - d) /\ i + d \in 1..n BY <1>1, <3>1
    <3> QED BY <1>1, <1>4, <2>1, <2>2, <3>1, <3>2
  <2>4. LineText(m, d + 1, EndsAt(b, t)) = SubSeq(m, d + 1, n - 1)
    <3>1. n \in 1..n /\ m[n] = "CR" BY <1>1, <1>2, <1>5
    <3>2. n + 1 > d + 1 /\ (n + 1) - 1 = n /\ (n + 1) - 2 = n - 1 BY <1>1, <2>3
    <3>3. CASE t = "LF"
      <4>1. EndsAt(b, t) = n + 1 /\ m[n + 1] = "LF" BY <1>1, <3>3 DEF EndsAt, n
      <4> QED BY <3>1, <3>2, <4>1 DEF LineText
    <3>4. CASE t # "LF"
      <4>1. EndsAt(b, t) = n BY <3>4 DEF EndsAt, n
      <4> QED BY <3>1, <4>1 DEF LineText
    <3> QED BY <3>3, <3>4
  <2>5. SubSeq(m, d + 1, n - 1) = l
    <3> DEFINE u == SubSeq(m, d + 1, n - 1)
    <3>1. u \in Seq(Tokens) /\ Len(u) = Len(l) /\ \A i \in 1..Len(l) : u[i] = m[i + d]
      BY <1>1, <2>3
    <3> HIDE DEF u
    <3>2. \A i \in 1..Len(u) : u[i] = l[i] BY <2>3, <3>1
    <3> QED BY <1>1, <3>1, <3>2, SeqEqual DEF u
  <2> QED BY <2>4, <2>5 DEF m, d
<1>6. CASE ~Pending(b)
  <2>1. t = "LF" BY <1>6 DEF Ends
  <2>2. Rest(b) = l BY <1>6 DEF Waiting
  <2>3. LineText(m, d + 1, EndsAt(b, t)) = SubSeq(m, d + 1, n)
    <3>1. EndsAt(b, t) = n + 1 /\ m[n + 1] = "LF" BY <1>1, <2>1 DEF EndsAt, n
    <3>2. (n + 1) - 1 = n BY <1>1
    <3>3. ~(n + 1 > d + 1 /\ m[n] = "CR")
      <4> SUFFICES ASSUME n + 1 > d + 1 PROVE m[n] # "CR" OBVIOUS
      <4>1. n # 0 /\ n \in 1..n BY <1>1
      <4> QED BY <1>1, <1>2, <1>6, <4>1
    <3> QED BY <3>1, <3>2, <3>3 DEF LineText
  <2>4. SubSeq(m, d + 1, n) = SubSeq(b, d + 1, n)
    <3> DEFINE u == SubSeq(m, d + 1, n)
    <3>1. u \in Seq(Tokens) /\ Len(u) = n - d /\ \A i \in 1..(n - d) : u[i] = m[i + d]
      BY <1>1
    <3>2. \A i \in 1..(n - d) : i + d \in 1..n BY <1>1
    <3>3. Rest(b) \in Seq(Tokens) BY <1>1, <1>3
    <3> HIDE DEF u
    <3>4. \A i \in 1..Len(u) : u[i] = Rest(b)[i] BY <1>1, <1>4, <3>1, <3>2
    <3> QED BY <1>3, <1>4, <3>1, <3>3, <3>4, SeqEqual DEF u
  <2> QED BY <1>3, <2>2, <2>3, <2>4 DEF m, d
<1> QED BY <1>5, <1>6

LEMMA LinesOn ==
  ASSUME NEW b \in Bytes, NEW t \in Tokens, NEW l \in Bytes, Waiting(b, l)
  PROVE  /\ Ends(b, t) =>
              /\ CompleteLines(Append(b, t)) = Append(CompleteLines(b), l)
              /\ Rest(Append(b, t)) = IF t = "LF" THEN <<>> ELSE <<t>>
         /\ ~Ends(b, t) =>
              /\ CompleteLines(Append(b, t)) = CompleteLines(b)
              /\ Rest(Append(b, t)) = Append(Rest(b), t)
<1> DEFINE m == Append(b, t)
           n == LinesIn(b)
           Line(a, k) == LineText(a, LineEnd(a, k - 1) + 1, LineEnd(a, k))
<1>1. /\ m \in Bytes /\ b \in Seq(Tokens) /\ m \in Seq(Tokens) /\ Len(m) = Len(b) + 1
      /\ Len(b) \in Nat /\ m[Len(b) + 1] = t /\ \A i \in 1..Len(b) : m[i] = b[i]
  BY SettledOn DEF Bytes
<1>2. n \in Nat /\ DoneAt(b) \in 0..Len(b) BY LinesInTyped
<1>3. /\ CompleteLines(b) = [k \in 1..n |-> Line(b, k)]
      /\ CompleteLines(m) = [k \in 1..LinesIn(m) |-> Line(m, k)]
  BY DEF CompleteLines, LinesIn
<1> HIDE DEF m
<1>4. ASSUME NEW k \in 1..n PROVE Line(m, k) = Line(b, k)
  <2>1. k \in 0..n /\ k - 1 \in 0..n BY <1>2
  <2>2. LineEnd(m, k) = LineEnd(b, k) /\ LineEnd(m, k - 1) = LineEnd(b, k - 1)
    BY <2>1, LineEndsStay DEF m
  <2>3. LineEnd(b, k) \in 1..Len(b) /\ LineEnd(b, k - 1) \in 0..Len(b)
    BY <2>1, LinesInTyped
  <2>4. LineEnd(b, k - 1) + 1 \in Nat \ {0} BY <1>1, <2>3
  <2> QED BY <2>2, <2>3, <2>4, LineTextStays DEF m
<1>5. ASSUME Ends(b, t)
      PROVE  /\ CompleteLines(m) = Append(CompleteLines(b), l)
             /\ Rest(m) = IF t = "LF" THEN <<>> ELSE <<t>>
  <2>1. LinesIn(m) = n + 1 /\ LineEnd(m, n + 1) = EndsAt(b, t)
    BY <1>5, LineEndsStay DEF m
  <2>2. LineEnd(m, n) = DoneAt(b)
    <3>1. n \in 0..n BY <1>2
    <3> QED BY <3>1, LineEndsStay DEF m, DoneAt
  <2>3. Line(m, n + 1) = l
    <3>1. (n + 1) - 1 = n BY <1>2
    <3> QED BY <1>5, <2>1, <2>2, <3>1, LineCompleted DEF m
  <2>4. CompleteLines(m) = Append(CompleteLines(b), l)
    <3> HIDE DEF n, Line
    <3> DEFINE c == [k \in 1..n |-> Line(b, k)]
    <3>1. Len(c) = n BY <1>2
    <3>2. Append(c, l) = [k \in 1..(n + 1) |-> IF k = n + 1 THEN l ELSE c[k]]
      BY <1>2, <3>1
    <3>3. \A k \in 1..(n + 1) : Line(m, k) = IF k = n + 1 THEN l ELSE c[k]
      <4> SUFFICES ASSUME NEW k \in 1..(n + 1), k # n + 1 PROVE Line(m, k) = c[k]
        BY <2>3
      <4>1. k \in 1..n BY <1>2
      <4> QED BY <1>4, <4>1
    <3> QED BY <1>3, <2>1, <3>2, <3>3
  <2>5. Rest(m) = SubSeq(m, EndsAt(b, t) + 1, Len(b) + 1)
    BY <1>1, <2>1 DEF Rest, DoneAt
  <2>6. CASE t = "LF" 
    <3>1. EndsAt(b, t) = Len(b) + 1 BY <2>6 DEF EndsAt
    <3> QED BY <1>1, <2>4, <2>5, <2>6, <3>1
  <2>7. CASE t # "LF"
    <3>1. EndsAt(b, t) = Len(b) BY <2>7 DEF EndsAt
    <3>2. SubSeq(m, Len(b) + 1, Len(b) + 1) = <<t>>
      <4> DEFINE u == SubSeq(m, Len(b) + 1, Len(b) + 1)
      <4>1. /\ u \in Seq(Tokens) /\ Len(u) = Len(b) + 1 - Len(b)
            /\ \A i \in 1..(Len(b) + 1 - Len(b)) : u[i] = m[i + Len(b)]
        <5>1. Len(b) <= Len(b) + 1 /\ Len(b) + 1 \in Nat /\ Len(b) + 1 <= Len(m) BY <1>1
        <5> QED BY <1>1, <5>1, PartOf
      <4>2. Len(b) + 1 - Len(b) = 1 /\ 1 + Len(b) = Len(b) + 1 BY <1>1
      <4> HIDE DEF u
      <4>3. Len(u) = 1 /\ u[1] = t BY <1>1, <4>1, <4>2
      <4>4. u = <<t>> BY <4>1, <4>3
      <4> QED BY <4>4 DEF u
    <3> QED BY <1>1, <2>4, <2>5, <2>7, <3>1, <3>2
  <2> QED BY <2>6, <2>7
<1>6. ASSUME ~Ends(b, t)
      PROVE  CompleteLines(m) = CompleteLines(b) /\ Rest(m) = Append(Rest(b), t)
  <2>1. LinesIn(m) = n BY <1>6, LineEndsStay DEF m
  <2>2. DoneAt(m) = DoneAt(b)
    <3>1. n \in 0..n BY <1>2
    <3> QED BY <2>1, <3>1, LineEndsStay DEF m, DoneAt
  <2>3. CompleteLines(m) = CompleteLines(b)
    <3> HIDE DEF n, Line
    <3> QED BY <1>3, <1>4, <2>1
  <2>4. Rest(m) = Append(Rest(b), t)
    <3> DEFINE d == DoneAt(b)
               u == Rest(m)
               r == Rest(b)
    <3>0. u = SubSeq(m, d + 1, Len(b) + 1) /\ r = SubSeq(b, d + 1, Len(b))
      BY <1>1, <2>2 DEF Rest
    <3>1. /\ u \in Seq(Tokens) /\ Len(u) = Len(b) + 1 - d
          /\ \A i \in 1..(Len(b) + 1 - d) : u[i] = m[i + d]
      <4>1. /\ d \in Nat /\ Len(b) + 1 \in Nat /\ d <= Len(b) + 1 /\ Len(b) + 1 <= Len(m)
        BY <1>1, <1>2
      <4> HIDE DEF d, u, r
      <4>2. /\ SubSeq(m, d + 1, Len(b) + 1) \in Seq(Tokens)
            /\ Len(SubSeq(m, d + 1, Len(b) + 1)) = Len(b) + 1 - d
            /\ \A i \in 1..(Len(b) + 1 - d) : SubSeq(m, d + 1, Len(b) + 1)[i] = m[i + d]
        BY <1>1, <4>1, PartOf
      <4> QED BY <3>0, <4>2
    <3>2. /\ r \in Seq(Tokens) /\ Len(r) = Len(b) - d
          /\ \A i \in 1..(Len(b) - d) : r[i] = b[i + d]
      <4>1. d \in Nat /\ d <= Len(b) BY <1>1, <1>2
      <4> QED BY <1>1, <3>0, <4>1, PartOf
    <3>8. d \in 0..Len(b) BY <1>2
    <3>9. Len(r) + 1 = Len(u) /\ Len(r) \in Nat BY <1>1, <3>1, <3>2, <3>8
    <3> HIDE DEF u, r, d
    <3>3. /\ Append(r, t) \in Seq(Tokens) /\ Len(Append(r, t)) = Len(u)
          /\ \A i \in 1..Len(r) : Append(r, t)[i] = r[i]
          /\ Append(r, t)[Len(r) + 1] = t
      BY <3>2, <3>9
    <3>4. \A i \in 1..Len(u) : u[i] = Append(r, t)[i]
      <4> SUFFICES ASSUME NEW i \in 1..Len(u) PROVE u[i] = Append(r, t)[i] OBVIOUS
      <4>1. CASE i = Len(r) + 1
        <5>1. i + d = Len(b) + 1 BY <1>1, <3>8, <3>2, <4>1
        <5> QED BY <1>1, <3>1, <3>3, <4>1, <5>1
      <4>2. CASE i # Len(r) + 1
        <5>1. i \in 1..Len(r) /\ i + d \in 1..Len(b) /\ i \in 1..(Len(b) - d)
          BY <1>1, <3>8, <3>1, <3>2, <4>2
        <5> QED BY <1>1, <3>1, <3>2, <3>3, <5>1
      <4> QED BY <4>1, <4>2
    <3> QED BY <3>1, <3>3, <3>4, SeqEqual DEF u, r
  <2> QED BY <2>3, <2>4
<1> QED BY <1>5, <1>6 DEF m

-----------------------------------------------------------------------------
(* Parsing keeps pace with reading.                                        *)
LEMMA AppendToConcat ==
  ASSUME NEW S, NEW s \in Seq(S), NEW t \in Seq(S), NEW x \in S
  PROVE  Append(s \o t, x) = s \o Append(t, x) /\ s \o t \in Seq(S)
OBVIOUS

Prepends(q, p, a) == q.data = p.data /\ q.events = a \o p.events

LEMMA ConsumeAfter ==
  ASSUME NEW q \in ParseStates, NEW p \in ParseStates, NEW a \in EventLists,
         Prepends(q, p, a), NEW l \in Text
  PROVE  Prepends(ConsumeLine(q, l), ConsumeLine(p, l), a)
<1>1. /\ q.data \in Lines /\ q.events \in Seq(Events) /\ p.data \in Lines
      /\ p.events \in Seq(Events) /\ a \in Seq(Events)
      /\ q.data = p.data /\ q.events = a \o p.events
  BY DEF ParseStates, EventLists, Prepends
<1>2. \A e \in Events : Append(q.events, e) = a \o Append(p.events, e)
  <2> SUFFICES ASSUME NEW e \in Events PROVE Append(q.events, e) = a \o Append(p.events, e)
    OBVIOUS
  <2> DEFINE es == p.events
  <2>0. a \in Seq(Events) /\ es \in Seq(Events) BY <1>1
  <2> HIDE DEF es
  <2>1. Append(a \o es, e) = a \o Append(es, e) BY ONLY <2>0
  <2> QED BY <1>1, <2>1 DEF es
<1>3. CASE l = <<>>
  <2>1. ConsumeLine(q, l) = DispatchEvent(q) /\ ConsumeLine(p, l) = DispatchEvent(p)
    BY <1>3, ConsumeLineKinds
  <2>2. CASE p.data = <<>>
    BY <1>1, <2>1, <2>2 DEF DispatchEvent, Prepends
  <2>3. CASE p.data # <<>>
    <3> DEFINE e == Data(JoinLines(p.data))
    <3>1. e \in Events
      <4>1. JoinLines(p.data) \in Texts BY <1>1, <2>3, JoinedLines
      <4> QED BY <4>1 DEF Data, Events, DataEvents
    <3>2. DispatchEvent(q) = [data |-> <<>>, events |-> Append(q.events, e)]
      BY <1>1, <2>3 DEF DispatchEvent
    <3>3. DispatchEvent(p) = [data |-> <<>>, events |-> Append(p.events, e)]
      BY <2>3 DEF DispatchEvent
    <3> HIDE DEF e
    <3>4. ConsumeLine(q, l).data = <<>> /\ ConsumeLine(p, l).data = <<>>
      BY <2>1, <3>2, <3>3
    <3>5. ConsumeLine(q, l).events = Append(q.events, e) /\ ConsumeLine(p, l).events = Append(p.events, e)
      BY <2>1, <3>2, <3>3
    <3>6. Append(q.events, e) = a \o Append(p.events, e) BY <1>2, <3>1
    <3> QED BY <3>4, <3>5, <3>6 DEF Prepends
  <2> QED BY <2>2, <2>3
<1>4. CASE IsCommentLine(l)
  <2> DEFINE e == Comment(StripOptionalSpace(Tail(l)))
  <2>1. /\ e \in Events
        /\ ConsumeLine(q, l) = [data |-> q.data, events |-> Append(q.events, e)]
        /\ ConsumeLine(p, l) = [data |-> p.data, events |-> Append(p.events, e)]
    BY <1>4, ConsumeLineKinds
  <2> HIDE DEF e
  <2>2. ConsumeLine(q, l).data = q.data /\ ConsumeLine(p, l).data = p.data BY <2>1
  <2>3. ConsumeLine(q, l).events = Append(q.events, e) /\ ConsumeLine(p, l).events = Append(p.events, e)
    BY <2>1
  <2>4. Append(q.events, e) = a \o Append(p.events, e) BY <1>2, <2>1
  <2> QED BY <1>1, <2>2, <2>3, <2>4 DEF Prepends
<1>5. CASE l # <<>> /\ IsDataField(l) /\ ~IsCommentLine(l)
  <2>1. /\ ConsumeLine(q, l) = [data |-> Append(q.data, DataValue(l)), events |-> q.events]
        /\ ConsumeLine(p, l) = [data |-> Append(p.data, DataValue(l)), events |-> p.events]
    BY <1>5, ConsumeLineKinds
  <2> QED BY <1>1, <2>1 DEF Prepends
<1>6. CASE l # <<>> /\ ~IsDataField(l) /\ ~IsCommentLine(l)
  <2>1. ConsumeLine(q, l) = q /\ ConsumeLine(p, l) = p BY <1>6, ConsumeLineKinds
  <2> QED BY <2>1 DEF Prepends
<1> QED BY <1>3, <1>4, <1>5, <1>6 DEF IsCommentLine

AllValid(lines) == \A k \in DOMAIN lines : ValidUtf8(lines[k])

(* The lines of b, consumed from p0, are what reading w took in after the  *)
(* events ev, and what is left of b is the line that w is in.              *)
Tracks(b, w, p0, ev) ==
  LET r == SoFar(w)
      p == FoldLeft(ConsumeLine, p0, CompleteLines(b))
  IN  /\ CompleteLines(b) \in Lines
      /\ Waiting(b, r.line)
      /\ Pending(b) <=> Pending(w)
      /\ Prepends(Parsed(r), p, ev)
      /\ r.sound <=> AllValid(CompleteLines(b))

LEMMA TracksOn ==
  ASSUME NEW b \in Bytes, NEW w \in Bytes, NEW p0 \in ParseStates, NEW ev \in EventLists,
         Tracks(b, w, p0, ev), NEW t \in Tokens
  PROVE  Tracks(Append(b, t), Append(w, t), p0, ev)
<1> DEFINE r == SoFar(w)
           n == SoFar(Append(w, t))
           ls == CompleteLines(b)
           ms == CompleteLines(Append(b, t))
           p == FoldLeft(ConsumeLine, p0, ls)
           q == FoldLeft(ConsumeLine, p0, ms)
<1>1. /\ ls \in Lines /\ Waiting(b, r.line) /\ (Pending(b) <=> Pending(w))
      /\ Prepends(Parsed(r), p, ev) /\ (r.sound <=> AllValid(ls))
  BY DEF Tracks
<1>2. /\ Append(w, t) \in Bytes /\ Append(b, t) \in Bytes
      /\ Pending(Append(w, t)) <=> t = "CR"
      /\ Pending(Append(b, t)) <=> t = "CR"
  BY SettledOn
<1>3. /\ r \in ReadStates /\ n \in ReadStates /\ r.line \in Text /\ r.line \in Bytes
      /\ Parsed(r) \in ParseStates
  BY <1>2, SettledTyped, StateTyped, TextIsPlain
<1>4. ls \in Seq(Text) /\ p \in ParseStates BY <1>1, Consuming DEF Lines
<1>5. Ends(b, t) <=> Ends(w, t) BY <1>1 DEF Ends
<1>6. CASE Ends(w, t)
  <2>1. ms = Append(ls, r.line) /\ Rest(Append(b, t)) = IF t = "LF" THEN <<>> ELSE <<t>>
    BY <1>1, <1>3, <1>5, <1>6, LinesOn
  <2>2. /\ n.line = IF t \in Terminators THEN <<>> ELSE <<t>>
        /\ n.sound = (r.sound /\ ValidUtf8(r.line))
        /\ Parsed(n) = ConsumeLine(Parsed(r), r.line)
    BY <1>6, SoFarOn
  <2> HIDE DEF r, n, ls, ms
  <2>3. q = ConsumeLine(p, r.line)
    <3>1. FoldLeft(ConsumeLine, p0, Append(ls, r.line))
            = ConsumeLine(FoldLeft(ConsumeLine, p0, ls), r.line)
      BY <1>3, <1>4, Consuming
    <3> QED BY <2>1, <3>1
  <2> HIDE DEF p, q
  <2>4. ms \in Lines BY <1>3, <1>4, <2>1 DEF Lines
  <2>5. Waiting(Append(b, t), n.line)
    <3>1. CASE t = "LF" BY <1>2, <2>1, <2>2, <3>1 DEF Waiting, Terminators
    <3>2. CASE t = "CR"
      <4>1. Append(<<>>, "CR") = <<"CR">> OBVIOUS
      <4> QED BY <1>2, <2>1, <2>2, <3>2, <4>1 DEF Waiting, Terminators
    <3>3. CASE t # "LF" /\ t # "CR" BY <1>2, <2>1, <2>2, <3>3 DEF Waiting, Terminators
    <3> QED BY <3>1, <3>2, <3>3
  <2>6. Prepends(Parsed(n), q, ev) BY <1>1, <1>3, <1>4, <2>2, <2>3, ConsumeAfter
  <2>7. n.sound <=> AllValid(ms)
    <3>1. AllValid(ms) <=> AllValid(ls) /\ ValidUtf8(r.line)
      <4>1. /\ DOMAIN ls = 1..Len(ls) /\ DOMAIN ms = 1..(Len(ls) + 1) /\ Len(ls) \in Nat
            /\ \A k \in 1..Len(ls) : ms[k] = ls[k]
            /\ ms[Len(ls) + 1] = r.line
        BY <1>3, <1>4, <2>1
      <4>2. \A k : k \in DOMAIN ms <=> k \in DOMAIN ls \/ k = Len(ls) + 1
        BY <4>1
      <4> QED BY <4>1, <4>2 DEF AllValid
    <3> QED BY <1>1, <2>2, <3>1, Zenon
  <2> QED BY <1>2, <2>4, <2>5, <2>6, <2>7 DEF Tracks, n, ms, q
<1>7. CASE ~Ends(w, t)
  <2>1. ms = ls /\ Rest(Append(b, t)) = Append(Rest(b), t)
    BY <1>1, <1>3, <1>5, <1>7, LinesOn
  <2>2. Rest(Append(b, t)) = Append(r.line, t)
    BY <1>1, <1>7, <2>1 DEF Waiting, Ends
  <2>3. n.sound = r.sound /\ Parsed(n) = Parsed(r)
    BY <1>7, SoFarOn DEF Stays, Continues
  <2>4. Waiting(Append(b, t), n.line)
    <3>1. CASE t = "CR"
      <4>1. n.line = r.line BY <1>7, <3>1, SoFarOn DEF Stays
      <4> QED BY <1>2, <2>2, <3>1, <4>1 DEF Waiting
    <3>2. CASE t # "CR"
      <4>1. n.line = Append(r.line, t) BY <1>7, <3>2, SoFarOn DEF Continues
      <4> QED BY <1>2, <2>2, <3>2, <4>1 DEF Waiting
    <3> QED BY <3>1, <3>2
  <2> HIDE DEF r, n, ls, ms, p
  <2>5. q = p BY <2>1 DEF p
  <2> HIDE DEF q
  <2> QED BY <1>1, <1>2, <2>1, <2>3, <2>4, <2>5 DEF Tracks, n, ms, q
<1> QED BY <1>6, <1>7

(* From a buffer that tracks a transcript on, through any chunk.           *)
LEMMA TracksChunk ==
  ASSUME NEW b \in Bytes, NEW w \in Bytes, NEW p0 \in ParseStates, NEW ev \in EventLists,
         Tracks(b, w, p0, ev), NEW chunk \in Bytes
  PROVE  Tracks(b \o chunk, w \o chunk, p0, ev)
<1> DEFINE G == {c \in Bytes : Tracks(b \o c, w \o c, p0, ev)}
<1>1. <<>> \in G
  <2>1. <<>> \in Bytes /\ b \o <<>> = b /\ w \o <<>> = w BY DEF Bytes
  <2> QED BY <2>1
<1>2. \A c \in Bytes : \A t \in Tokens : c \in G => Append(c, t) \in G
  <2> SUFFICES ASSUME NEW c \in Bytes, NEW t \in Tokens, Tracks(b \o c, w \o c, p0, ev)
               PROVE  Append(c, t) \in Bytes /\ Tracks(b \o Append(c, t), w \o Append(c, t), p0, ev)
    OBVIOUS
  <2>1. b \o c \in Bytes /\ w \o c \in Bytes /\ Append(c, t) \in Bytes BY DEF Bytes
  <2>2. b \o Append(c, t) = Append(b \o c, t) /\ w \o Append(c, t) = Append(w \o c, t)
    BY DEF Bytes
  <2> QED BY <2>1, <2>2, TracksOn
<1> HIDE DEF G
<1>3. Bytes \subseteq G BY <1>1, <1>2, InductionOnSequences DEF Bytes
<1> QED BY <1>3 DEF G

(* A buffer without a complete line is all rest. *)
LEMMA NoLines ==
  ASSUME NEW l \in Text
  PROVE  /\ l \in Bytes /\ CompleteLines(l) = <<>> /\ Rest(l) = l /\ ~Pending(l)
         /\ Append(l, "CR") \in Bytes /\ CompleteLines(Append(l, "CR")) = <<>>
         /\ Rest(Append(l, "CR")) = Append(l, "CR") /\ Pending(Append(l, "CR"))
<1> DEFINE Bare(b) == LineEnds(b) = {}
<1>1. ASSUME NEW b \in Bytes, Bare(b)
      PROVE  CompleteLines(b) = <<>> /\ Rest(b) = b
  <2>1. LinesIn(b) = 0 BY <1>1, FS_EmptySet DEF LinesIn
  <2>2. CompleteLines(b) = <<>>
    <3>1. CompleteLines(b) = [k \in 1..0 |-> LineText(b, LineEnd(b, k - 1) + 1, LineEnd(b, k))]
      BY <2>1 DEF CompleteLines, LinesIn
    <3> QED BY <3>1
  <2>3. DoneAt(b) = 0 BY <2>1 DEF DoneAt, LineEnd
  <2>4. Rest(b) = SubSeq(b, 1, Len(b)) BY <2>3 DEF Rest
  <2>5. b \in Seq(Tokens) BY DEF Bytes
  <2> QED BY <2>2, <2>4, <2>5, SubSeqFull
<1>2. /\ l \in Bytes /\ l \in Seq(LineTokens) /\ "CR" \in Tokens
      /\ Append(l, "CR") \in Bytes /\ Pending(Append(l, "CR"))
  <2>1. l \in Bytes /\ "CR" \in Tokens BY TextIsPlain DEF Tokens
  <2> QED BY <2>1, SettledOn DEF Text
<1>3. \A i \in 1..Len(l) : l[i] # "LF" /\ l[i] # "CR"
  BY <1>2 DEF LineTokens, Terminators
<1>4. Bare(l)
  <2>1. DOMAIN l = 1..Len(l) BY <1>2
  <2> QED BY <1>3, <2>1 DEF LineEnds
<1>5. ~Pending(l)
  <2>1. l # <<>> => Len(l) \in 1..Len(l) BY <1>2
  <2> QED BY <1>3, <2>1 DEF Pending, Last
<1>6. ~Ends(l, "CR") BY <1>5 DEF Ends
<1>7. Bare(Append(l, "CR")) BY <1>2, <1>4, <1>6, LineEndsOn
<1> QED BY <1>1, <1>2, <1>4, <1>5, <1>7

(* The parser that has fed on a transcript, and the reader of it, agree.   *)
Held(w) == IF Pending(w) THEN Append(SoFar(w).line, "CR") ELSE SoFar(w).line

LEMMA HeldTracks ==
  ASSUME NEW w \in Bytes, SoFar(w).sound
  PROVE  /\ Held(w) \in Bytes
         /\ [data |-> SoFar(w).data, events |-> <<>>] \in ParseStates
         /\ SoFar(w).events \in EventLists
         /\ Tracks(Held(w), w, [data |-> SoFar(w).data, events |-> <<>>], SoFar(w).events)
<1> DEFINE r == SoFar(w)
           p0 == [data |-> r.data, events |-> <<>>]
<1>1. /\ r \in ReadStates /\ r.line \in Text /\ r.data \in Lines /\ r.events \in EventLists
      /\ r.events \in Seq(Events)
  BY SettledTyped, StateTyped DEF EventLists
<1>2. p0 \in ParseStates BY <1>1 DEF ParseStates, EventLists
<1>3. /\ Held(w) \in Bytes /\ CompleteLines(Held(w)) = <<>> /\ Rest(Held(w)) = Held(w)
      /\ Pending(Held(w)) <=> Pending(w)
  BY <1>1, NoLines DEF Held
<1>4. Waiting(Held(w), r.line) BY <1>3 DEF Waiting, Held
<1>5. <<>> \in Seq(Text) OBVIOUS
<1>6. FoldLeft(ConsumeLine, p0, <<>>) = p0 BY <1>2, <1>5, Consuming
<1> HIDE DEF r
<1>7. Prepends(Parsed(r), p0, r.events)
  <2>1. r.events \o <<>> = r.events BY <1>1
  <2> QED BY <2>1 DEF Prepends, Parsed
<1>8. AllValid(<<>>) BY DEF AllValid
<1>9. <<>> \in Lines BY <1>5 DEF Lines
<1> QED BY <1>1, <1>2, <1>3, <1>4, <1>6, <1>7, <1>8, <1>9 DEF Tracks, r

-----------------------------------------------------------------------------
(* What feeding a chunk and finishing return, in terms of what is read.    *)
LEMMA GreatestUpTo ==
  ASSUME NEW n \in Nat, NEW S \in SUBSET (0..n), S # {}
  PROVE  \E k \in S : \A j \in S : j <= k
<1> DEFINE D == {n - k : k \in S}
<1>1. D \in SUBSET Nat /\ D # {}
  <2>1. \A k \in S : n - k \in Nat OBVIOUS
  <2> QED BY <2>1
<1>2. PICK d \in D : \A c \in D : d <= c BY <1>1, LeastElement
<1>3. PICK k \in S : d = n - k OBVIOUS
<1>4. ASSUME NEW j \in S PROVE j <= k
  <2>1. d <= n - j BY <1>2
  <2> QED BY <1>3, <2>1
<1> QED BY <1>4

LEMMA FeedKeepsPace ==
  ASSUME NEW w \in Bytes, NEW chunk \in Bytes, SoFar(w).sound,
         buffer = Held(w), data_lines = SoFar(w).data
  PROVE  LET fed == Feed(chunk)
             n == SoFar(w \o chunk)
         IN  /\ w \o chunk \in Bytes
             /\ fed.ok <=> n.sound
             /\ fed.ok => /\ fed.buffer = Held(w \o chunk)
                          /\ fed.data = n.data
                          /\ fed.events \in EventLists
                          /\ n.events = SoFar(w).events \o fed.events
<1> DEFINE r == SoFar(w)
           n == SoFar(w \o chunk)
           b == buffer \o chunk
           p0 == [data |-> r.data, events |-> <<>>]
           ls == CompleteLines(b)
           sound == {k \in 0..Len(ls) : \A j \in 1..k : ValidUtf8(ls[j])}
           popped == CHOOSE k \in sound : \A j \in sound : j <= k
           parsed == FoldLeft(ConsumeLine, p0, SubSeq(ls, 1, popped))
           fed == Feed(chunk)
<1>1. /\ buffer \in Bytes /\ p0 \in ParseStates /\ r.events \in EventLists
      /\ Tracks(buffer, w, p0, r.events)
  BY HeldTracks
<1>2. /\ b \in Bytes /\ w \o chunk \in Bytes /\ b \in Seq(Tokens)
  BY <1>1 DEF Bytes
<1>3. Tracks(b, w \o chunk, p0, r.events) BY <1>1, TracksChunk
<1>4. /\ ls \in Lines /\ Waiting(b, n.line)
      /\ Pending(b) <=> Pending(w \o chunk)
      /\ Prepends(Parsed(n), FoldLeft(ConsumeLine, p0, ls), r.events)
      /\ n.sound <=> AllValid(ls)
  BY <1>3 DEF Tracks
<1>5. /\ fed.ok = (popped = Len(ls))
      /\ fed.buffer = SubSeq(b, LineEnd(b, popped) + 1, Len(b))
      /\ fed.data = parsed.data /\ fed.events = parsed.events
  BY DEF Feed
<1>6. ls \in Seq(Text) /\ Len(ls) \in Nat /\ Len(ls) = LinesIn(b) /\ DOMAIN ls = 1..Len(ls)
  <2>1. ls \in Seq(Text) BY <1>4 DEF Lines
  <2>2. LinesIn(b) \in Nat BY <1>2, LinesInTyped
  <2>3. ls = [k \in 1..LinesIn(b) |-> LineText(b, LineEnd(b, k - 1) + 1, LineEnd(b, k))]
    BY DEF CompleteLines, LinesIn
  <2>4. Len(ls) = LinesIn(b) BY <2>2, <2>3
  <2> HIDE DEF ls
  <2> QED BY <2>1, <2>2, <2>4
<1>7. FoldLeft(ConsumeLine, p0, ls) \in ParseStates BY <1>1, <1>6, Consuming
<1> HIDE DEF fed, ls, n, r, b, p0
<1>8. popped \in sound /\ \A j \in sound : j <= popped
  <2>1. \A j \in 1..0 : ValidUtf8(ls[j]) OBVIOUS
  <2>2. 0 \in sound BY <1>6, <2>1
  <2>3. sound \in SUBSET (0..Len(ls)) OBVIOUS
  <2> HIDE DEF sound
  <2>4. \E k \in sound : \A j \in sound : j <= k
    <3>1. sound # {} BY <2>2
    <3> QED BY <1>6, <2>3, <3>1, GreatestUpTo
  <2> QED BY <2>4
<1>9. popped = Len(ls) <=> AllValid(ls)
  <2>1. ASSUME popped = Len(ls) PROVE AllValid(ls)
    <3> HIDE DEF popped
    <3> QED BY <1>6, <1>8, <2>1 DEF AllValid
  <2>2. ASSUME AllValid(ls) PROVE popped = Len(ls)
    <3> HIDE DEF popped
    <3>1. Len(ls) \in sound BY <1>6, <2>2 DEF AllValid
    <3>2. Len(ls) <= popped /\ popped \in 0..Len(ls) BY <1>8, <3>1
    <3> QED BY <1>6, <3>2
  <2> QED BY <2>1, <2>2
<1> HIDE DEF popped
<1>10. fed.ok <=> n.sound
  <2>1. fed.ok <=> popped = Len(ls) BY <1>5, Zenon
  <2> QED BY <1>4, <1>9, <2>1
<1>11. ASSUME fed.ok
       PROVE  /\ fed.buffer = Held(w \o chunk)
              /\ fed.data = n.data
              /\ fed.events \in EventLists
              /\ n.events = r.events \o fed.events
  <2>1. popped = LinesIn(b) /\ popped = Len(ls) BY <1>4, <1>6, <1>9, <1>10, <1>11
  <2>2. fed.buffer = Rest(b) BY <1>5, <2>1 DEF Rest, DoneAt
  <2>3. fed.buffer = Held(w \o chunk) BY <1>4, <2>2 DEF Waiting, Held, n
  <2>4. SubSeq(ls, 1, popped) = ls BY <1>6, <2>1, SubSeqFull
  <2>5. parsed = FoldLeft(ConsumeLine, p0, ls) BY <2>4
  <2> DEFINE p == FoldLeft(ConsumeLine, p0, ls)
  <2>6. /\ p.events \in EventLists /\ Prepends(Parsed(n), p, r.events)
        /\ fed.data = p.data /\ fed.events = p.events
    BY <1>4, <1>5, <1>7, <2>5 DEF ParseStates
  <2> HIDE DEF p
  <2>7. Parsed(n).data = n.data /\ Parsed(n).events = n.events BY DEF Parsed
  <2> QED BY <2>3, <2>6, <2>7 DEF Prepends
<1> QED BY <1>2, <1>10, <1>11 DEF fed, n, r

(* Reading to the end: what a trailing CR ends.                            *)
LEMMA ReadToTheEnd ==
  ASSUME NEW w \in Bytes
  PROVE  LET r == SoFar(w)
             all == ReadAll(w)
         IN  /\ ~Pending(w) => all = r
             /\ Pending(w) => /\ all.line = <<>>
                              /\ all.sound = (r.sound /\ ValidUtf8(r.line))
                              /\ Parsed(all) = ConsumeLine(Parsed(r), r.line)
             /\ all.sound => r.sound
<1>1. ~Pending(w) => ReadAll(w) = SoFar(w) BY SettledTyped
<1>2. Pending(w) => EndsLine(ReadAll(w), SoFar(w))
  <2> SUFFICES ASSUME Pending(w) PROVE EndsLine(ReadAll(w), SoFar(w)) OBVIOUS
  <2>1. w = Append(Settled(w), "CR") /\ Settled(w) \in Bytes /\ SoFar(w) \in ReadStates
        /\ "CR" \in Tokens
    BY SettledTyped DEF Tokens
  <2>2. ReadAll(Append(Settled(w), "CR")) = ReadByte(SoFar(w), "CR")
    BY <2>1, Reading DEF SoFar, Bytes
  <2>3. ReadAll(w) = ReadByte(SoFar(w), "CR") BY <2>1, <2>2, Zenon
  <2> QED BY <2>1, <2>3, ReadByteKinds
<1>3. ReadAll(w).sound => SoFar(w).sound
  <2>1. CASE Pending(w)
    <3>1. ReadAll(w).sound = (SoFar(w).sound /\ ValidUtf8(SoFar(w).line))
      BY <1>2, <2>1 DEF EndsLine
    <3> QED BY <3>1, Zenon
  <2>2. CASE ~Pending(w) BY <1>1, <2>2
  <2> QED BY <2>1, <2>2
<1> QED BY <1>1, <1>2, <1>3 DEF EndsLine

LEMMA FinishKeepsPace ==
  ASSUME NEW w \in Bytes, SoFar(w).sound, buffer = Held(w), data_lines = SoFar(w).data
  PROVE  LET all == ReadAll(w) IN
         /\ Finish.ok => /\ IsComplete(all)
                         /\ Finish.events \in EventLists
                         /\ all.events = SoFar(w).events \o Finish.events
         /\ ~Finish.ok => \/ ~IsComplete(all)
                          \/ Last(w) = "CR" /\ ReadAll(Front(w)).line # <<>>
<1> DEFINE r == SoFar(w)
           all == ReadAll(w)
           pending == [data |-> r.data, events |-> <<>>]
           d == DispatchEvent(pending)
<1>1. /\ r \in ReadStates /\ all \in ReadStates
      /\ r.line \in Text /\ r.data \in Lines /\ r.events \in EventLists
      /\ Parsed(r) \in ParseStates /\ r.events \in Seq(Events)
      /\ Parsed(all).data = all.data /\ Parsed(all).events = all.events
  BY SettledTyped, StateTyped DEF EventLists
<1>2. pending \in ParseStates BY <1>1 DEF ParseStates, EventLists
<1>3. Prepends(Parsed(r), pending, r.events)
  <2> HIDE DEF r
  <2>1. r.events \o <<>> = r.events BY <1>1
  <2> QED BY <2>1 DEF Prepends, Parsed
<1>4. \A i \in 1..Len(r.line) : r.line[i] # "CR"
  BY <1>1 DEF Text, LineTokens, Terminators
<1>5. buffer = <<"CR">> <=> Pending(w) /\ r.line = <<>>
  <2> HIDE DEF r
  <2>1. buffer = IF Pending(w) THEN Append(r.line, "CR") ELSE r.line BY DEF Held, r
  <2>2. r.line # <<"CR">>
    <3> SUFFICES ASSUME r.line = <<"CR">> PROVE FALSE OBVIOUS
    <3>1. Len(r.line) = 1 /\ r.line[1] = "CR" OBVIOUS
    <3> QED BY <1>4, <3>1
  <2>3. r.line = <<>> => Append(r.line, "CR") = <<"CR">> OBVIOUS
  <2>4. Append(r.line, "CR") = <<"CR">> => r.line = <<>>
    <3>1. r.line \in Seq(LineTokens) BY <1>1 DEF Text
    <3>2. Len(Append(r.line, "CR")) = Len(r.line) + 1 /\ Len(r.line) \in Nat BY <3>1
    <3>3. Len(<<"CR">>) = 1 OBVIOUS
    <3>4. ASSUME Append(r.line, "CR") = <<"CR">> PROVE Len(r.line) = 0
      <4>1. Len(Append(r.line, "CR")) = 1 BY <3>3, <3>4, Zenon
      <4> QED BY <3>2, <4>1
    <3>5. Len(r.line) = 0 => r.line = <<>> BY <3>1
    <3> QED BY <3>4, <3>5
  <2> QED BY <2>1, <2>2, <2>3, <2>4
<1>6. CASE buffer = <<"CR">>
  <2>1. Pending(w) /\ r.line = <<>> BY <1>5, <1>6
  <2>2. d.data = <<>> /\ d \in ParseStates
    <3>1. d \in ParseStates BY <1>2, DispatchTyped
    <3>2. d.data = <<>> BY DEF DispatchEvent
    <3> QED BY <3>1, <3>2
  <2>3. Finish.ok = (<<>> = <<>> /\ d.data = <<>>) /\ Finish.events = d.events
    BY <1>6 DEF Finish
  <2>4. Finish.ok
    <3> HIDE DEF d
    <3>1. (<<>> = <<>> /\ d.data = <<>>) BY <2>2
    <3> QED BY <2>3, <3>1, Zenon
  <2>5. /\ all.line = <<>> /\ all.sound = (r.sound /\ ValidUtf8(r.line))
        /\ Parsed(all) = ConsumeLine(Parsed(r), r.line)
    BY <2>1, ReadToTheEnd
  <2>6. all.sound
    <3>1. ValidUtf8(<<>>) BY DEF ValidUtf8
    <3>2. r.sound /\ ValidUtf8(r.line) BY <2>1, <3>1
    <3> QED BY <2>5, <3>2, Zenon
  <2>7. ConsumeLine(pending, r.line) = d BY <1>1, <1>2, <2>1, ConsumeLineKinds
  <2>8. Prepends(Parsed(all), d, r.events)
    <3> HIDE DEF d, pending, r, all
    <3> QED BY <1>1, <1>2, <1>3, <2>5, <2>7, ConsumeAfter
  <2> HIDE DEF d, all, r
  <2>9. all.data = <<>> /\ all.events = r.events \o d.events
    BY <1>1, <2>2, <2>8 DEF Prepends
  <2>10. d.events \in EventLists BY <2>2 DEF ParseStates
  <2> QED BY <2>3, <2>4, <2>5, <2>6, <2>9, <2>10 DEF IsComplete, all, r
<1>7. CASE buffer # <<"CR">>
  <2>1. Finish.ok = (buffer = <<>> /\ r.data = <<>>) /\ Finish.events = <<>>
    BY <1>7 DEF Finish
  <2>2. Finish.ok <=> buffer = <<>> /\ r.data = <<>> BY <2>1, Zenon
  <2>3. buffer = IF Pending(w) THEN Append(r.line, "CR") ELSE r.line BY DEF Held
  <2>4. Append(r.line, "CR") # <<>>
    <3>1. r.line \in Seq(LineTokens) BY <1>1 DEF Text
    <3>2. Len(Append(r.line, "CR")) = Len(r.line) + 1 /\ Len(r.line) \in Nat BY <3>1
    <3>3. Len(<<>>) = 0 OBVIOUS
    <3> QED BY <3>2, <3>3
  <2>5. ~Pending(w) => all = r BY ReadToTheEnd
  <2>6. r.events \o <<>> = r.events BY <1>1
  <2>7. <<>> \in EventLists BY DEF EventLists
  <2>8. Pending(w) => Last(w) = "CR" /\ ReadAll(Front(w)) = r
    BY DEF Pending, SoFar, Settled
  <2> HIDE DEF r, all
  <2>9. ASSUME Finish.ok
        PROVE  IsComplete(all) /\ all.events = r.events \o Finish.events
    <3>1. ~Pending(w) /\ r.line = <<>> /\ r.data = <<>> BY <2>2, <2>3, <2>4, <2>9
    <3> QED BY <2>1, <2>5, <2>6, <3>1 DEF IsComplete, r
  <2>10. ASSUME ~Finish.ok
         PROVE  ~IsComplete(all) \/ (Last(w) = "CR" /\ ReadAll(Front(w)).line # <<>>)
    <3>1. CASE Pending(w)
      <4>1. r.line # <<>> BY <1>5, <1>7, <3>1 DEF r
      <4> QED BY <2>8, <3>1, <4>1
    <3>2. CASE ~Pending(w)
      <4>1. r.line # <<>> \/ r.data # <<>> BY <2>2, <2>3, <2>10, <3>2
      <4> QED BY <2>5, <3>2, <4>1 DEF IsComplete
    <3> QED BY <3>1, <3>2
  <2> QED BY <2>1, <2>7, <2>9, <2>10 DEF r, all
<1> QED BY <1>6, <1>7

-----------------------------------------------------------------------------
(* Time: how many events the bytes heard by then had completed.            *)
Heard(a, t) == Cardinality({k \in DOMAIN a : a[k] <= t})
EventsBy(w, a, t) == Len(SoFar(SubSeq(w, 1, Heard(a, t))).events)

Timed(w, a, es, o, now) ==
  /\ Len(a) = Len(w) /\ \A k \in DOMAIN a : a[k] <= now
  /\ Len(o) = Len(es) /\ \A k \in DOMAIN o : o[k] <= now
  /\ \A t \in 0..now :
       /\ EventsBy(w, a, t) <= Len(es)
       /\ \A k \in DOMAIN es : o[k] <= t <=> k <= EventsBy(w, a, t)

(* Once recorded: all was heard in the end, and the end completed the rest.*)
TimedByFinish(w, a, es, o, now) ==
  /\ Len(o) = Len(es) /\ Heard(a, now) = Len(w)
  /\ \A t \in 0..now : \A k \in DOMAIN es :
       o[k] <= t <=> k <= IF t = now THEN Len(es) ELSE EventsBy(w, a, t)

LEMMA HeardTyped ==
  ASSUME NEW a \in Seq(Nat), NEW t \in Nat
  PROVE  /\ Heard(a, t) \in 0..Len(a)
         /\ (\A k \in DOMAIN a : a[k] <= t) => Heard(a, t) = Len(a)
<1> DEFINE S == {k \in DOMAIN a : a[k] <= t}
<1>1. DOMAIN a = 1..Len(a) /\ Len(a) \in Nat OBVIOUS
<1>2. IsFiniteSet(1..Len(a)) /\ Cardinality(1..Len(a)) = Len(a)
  <2>1. IsFiniteSet(1..Len(a)) /\ Cardinality(1..Len(a)) = IF 1 > Len(a) THEN 0 ELSE Len(a) - 1 + 1
    BY <1>1, FS_Interval
  <2> QED BY <1>1, <2>1
<1>3. S \in SUBSET (1..Len(a)) BY <1>1
<1>4. (\A k \in DOMAIN a : a[k] <= t) => S = 1..Len(a) BY <1>1
<1>5. Heard(a, t) = Cardinality(S) BY DEF Heard
<1> HIDE DEF S
<1>6. IsFiniteSet(S) /\ Cardinality(S) <= Cardinality(1..Len(a)) BY <1>2, <1>3, FS_Subset
<1>7. Cardinality(S) \in Nat BY <1>6, FS_CardinalityType
<1> QED BY <1>1, <1>2, <1>4, <1>5, <1>6, <1>7

LEMMA EventsByTyped ==
  ASSUME NEW w \in Bytes, NEW a \in Seq(Nat), Len(a) = Len(w), NEW t \in Nat
  PROVE  /\ EventsBy(w, a, t) \in Nat
         /\ (\A k \in DOMAIN a : a[k] <= t) => EventsBy(w, a, t) = Len(SoFar(w).events)
<1>1. w \in Seq(Tokens) /\ Len(w) \in Nat /\ SubSeq(w, 1, Len(w)) = w
  BY SubSeqFull DEF Bytes
<1>2. Heard(a, t) \in 0..Len(w) BY HeardTyped
<1>3. SubSeq(w, 1, Heard(a, t)) \in Bytes
  <2>1. SubSeq(w, 1, Heard(a, t)) \in Seq(Tokens) BY <1>1, <1>2
  <2> QED BY <2>1 DEF Bytes
<1>4. SoFar(SubSeq(w, 1, Heard(a, t))).events \in Seq(Events)
  BY <1>3, SettledTyped, StateTyped DEF EventLists
<1>5. EventsBy(w, a, t) \in Nat BY <1>4 DEF EventsBy
<1>6. (\A k \in DOMAIN a : a[k] <= t) => Heard(a, t) = Len(w) BY HeardTyped
<1> QED BY <1>1, <1>5, <1>6 DEF EventsBy

(* Nothing changes while the clock ticks. *)
LEMMA TimedLater ==
  ASSUME NEW w \in Bytes, NEW a \in Seq(Nat), NEW es \in EventLists, NEW o \in Seq(Nat),
         NEW now \in Nat, Timed(w, a, es, o, now), es = SoFar(w).events
  PROVE  Timed(w, a, es, o, now + 1)
<1>1. /\ Len(a) = Len(w) /\ \A k \in DOMAIN a : a[k] <= now
      /\ Len(o) = Len(es) /\ \A k \in DOMAIN o : o[k] <= now
      /\ \A t \in 0..now :
           /\ EventsBy(w, a, t) <= Len(es)
           /\ \A k \in DOMAIN es : o[k] <= t <=> k <= EventsBy(w, a, t)
  BY DEF Timed
<1>2. /\ es \in Seq(Events) /\ DOMAIN es = 1..Len(es) /\ DOMAIN o = 1..Len(es)
      /\ Len(es) \in Nat /\ \A k \in DOMAIN o : o[k] \in Nat
      /\ DOMAIN a = 1..Len(a) /\ \A k \in DOMAIN a : a[k] \in Nat
  BY <1>1 DEF EventLists
<1>3. \A k \in DOMAIN a : a[k] <= now + 1 BY <1>1, <1>2
<1>4. \A k \in DOMAIN o : o[k] <= now + 1 BY <1>1, <1>2
<1>5. EventsBy(w, a, now + 1) = Len(es)
  <2>1. now + 1 \in Nat OBVIOUS
  <2> QED BY <1>1, <1>3, <2>1, EventsByTyped
<1>6. ASSUME NEW t \in 0..(now + 1)
      PROVE  /\ EventsBy(w, a, t) <= Len(es)
             /\ \A k \in DOMAIN es : o[k] <= t <=> k <= EventsBy(w, a, t)
  <2>1. CASE t = now + 1 BY <1>2, <1>4, <1>5, <2>1
  <2>2. CASE t # now + 1
    <3>1. t \in 0..now BY <2>2
    <3> QED BY <1>1, <3>1
  <2> QED BY <2>1, <2>2
<1> QED BY <1>1, <1>3, <1>4, <1>6 DEF Timed

LEMMA RepeatTyped ==
  ASSUME NEW x \in Nat, NEW n \in Nat
  PROVE  /\ Repeat(x, n) \in Seq(Nat) /\ Len(Repeat(x, n)) = n
         /\ \A k \in 1..n : Repeat(x, n)[k] = x
BY DEF Repeat

LEMMA ConcatElements ==
  ASSUME NEW S, NEW s \in Seq(S), NEW u \in Seq(S)
  PROVE  /\ s \o u \in Seq(S) /\ Len(s \o u) = Len(s) + Len(u)
         /\ DOMAIN (s \o u) = 1..(Len(s) + Len(u))
         /\ \A k \in 1..Len(s) : (s \o u)[k] = s[k]
         /\ \A k \in (Len(s) + 1)..(Len(s) + Len(u)) : (s \o u)[k] = u[k - Len(s)]
OBVIOUS

LEMMA RepeatBehind ==
  ASSUME NEW s \in Seq(Nat), NEW x \in Nat, NEW n \in Nat
  PROVE  /\ s \o Repeat(x, n) \in Seq(Nat) /\ Len(s \o Repeat(x, n)) = Len(s) + n
         /\ DOMAIN (s \o Repeat(x, n)) = 1..(Len(s) + n)
         /\ \A k \in 1..Len(s) : (s \o Repeat(x, n))[k] = s[k]
         /\ \A k \in (Len(s) + 1)..(Len(s) + n) : (s \o Repeat(x, n))[k] = x
<1> DEFINE rep == Repeat(x, n)
           u == s \o rep
<1>1. rep \in Seq(Nat) /\ Len(rep) = n /\ \A k \in 1..n : rep[k] = x
  BY RepeatTyped
<1> HIDE DEF rep
<1>2. /\ u \in Seq(Nat) /\ Len(u) = Len(s) + n /\ DOMAIN u = 1..(Len(s) + n)
      /\ \A k \in 1..Len(s) : u[k] = s[k]
      /\ \A k \in (Len(s) + 1)..(Len(s) + n) : u[k] = rep[k - Len(s)]
  BY <1>1, ConcatElements
<1> HIDE DEF u
<1>3. \A k \in (Len(s) + 1)..(Len(s) + n) : k - Len(s) \in 1..n OBVIOUS
<1>4. \A k \in (Len(s) + 1)..(Len(s) + n) : u[k] = x BY <1>1, <1>2, <1>3
<1> QED BY <1>2, <1>4 DEF u, rep

(* A chunk and the events it completes carry the time of its call.         *)
LEMMA TimedOn ==
  ASSUME NEW w \in Bytes, NEW a \in Seq(Nat), NEW es \in EventLists, NEW o \in Seq(Nat),
         NEW now \in Nat, Timed(w, a, es, o, now), NEW chunk \in Bytes, NEW new \in EventLists,
         SoFar(w \o chunk).events = es \o new
  PROVE  Timed(w \o chunk, a \o Repeat(now, Len(chunk)), es \o new,
               o \o Repeat(now, Len(new)), now)
<1> DEFINE w2 == w \o chunk
           a2 == a \o Repeat(now, Len(chunk))
           es2 == es \o new
           o2 == o \o Repeat(now, Len(new))
<1>1. /\ Len(a) = Len(w) /\ \A k \in DOMAIN a : a[k] <= now
      /\ Len(o) = Len(es) /\ \A k \in DOMAIN o : o[k] <= now
      /\ \A t \in 0..now :
           /\ EventsBy(w, a, t) <= Len(es)
           /\ \A k \in DOMAIN es : o[k] <= t <=> k <= EventsBy(w, a, t)
  BY DEF Timed
<1>2. /\ w \in Seq(Tokens) /\ chunk \in Seq(Tokens) /\ es \in Seq(Events) /\ new \in Seq(Events)
      /\ Len(w) \in Nat /\ Len(chunk) \in Nat /\ Len(es) \in Nat /\ Len(new) \in Nat
      /\ DOMAIN es = 1..Len(es) /\ DOMAIN o = 1..Len(es) /\ DOMAIN a = 1..Len(w)
  BY <1>1 DEF Bytes, EventLists
<1>3. /\ w2 \in Bytes /\ Len(w2) = Len(w) + Len(chunk) /\ Len(es2) = Len(es) + Len(new)
      /\ \A k \in 1..Len(w) : w2[k] = w[k]
      /\ es2 \in Seq(Events) /\ DOMAIN es2 = 1..(Len(es) + Len(new))
  <2>1. /\ w2 \in Seq(Tokens) /\ Len(w2) = Len(w) + Len(chunk)
        /\ \A k \in 1..Len(w) : w2[k] = w[k]
    BY <1>2, ConcatElements
  <2>2. /\ Len(es2) = Len(es) + Len(new)
        /\ es2 \in Seq(Events) /\ DOMAIN es2 = 1..(Len(es) + Len(new))
    BY <1>2, ConcatElements
  <2> QED BY <2>1, <2>2 DEF Bytes
<1>4. /\ a2 \in Seq(Nat) /\ Len(a2) = Len(w) + Len(chunk) /\ DOMAIN a2 = 1..(Len(w) + Len(chunk))
      /\ \A k \in 1..Len(w) : a2[k] = a[k]
      /\ \A k \in (Len(w) + 1)..(Len(w) + Len(chunk)) : a2[k] = now
  <2> DEFINE m == Len(chunk)
  <2>1. m \in Nat BY <1>2
  <2> HIDE DEF m, a2
  <2> DEFINE u == a \o Repeat(now, m)
  <2>2. u \in Seq(Nat) /\ Len(u) = Len(a) + m /\ DOMAIN u = 1..(Len(a) + m)
    BY <2>1, RepeatBehind
  <2>4. \A k \in 1..Len(a) : u[k] = a[k]
    BY <2>1, RepeatBehind
  <2>5. \A k \in (Len(a) + 1)..(Len(a) + m) : u[k] = now
    BY <2>1, RepeatBehind
  <2> HIDE DEF u
  <2>3. u = a2 BY DEF u, m, a2
  <2> QED BY <1>1, <2>2, <2>3, <2>4, <2>5 DEF m
<1>5. /\ o2 \in Seq(Nat) /\ Len(o2) = Len(es) + Len(new) /\ DOMAIN o2 = 1..(Len(es) + Len(new))
      /\ \A k \in 1..Len(es) : o2[k] = o[k]
      /\ \A k \in (Len(es) + 1)..(Len(es) + Len(new)) : o2[k] = now
  <2> DEFINE m == Len(new)
  <2>1. m \in Nat BY <1>2
  <2> HIDE DEF m, o2
  <2> DEFINE u == o \o Repeat(now, m)
  <2>2. u \in Seq(Nat) /\ Len(u) = Len(o) + m /\ DOMAIN u = 1..(Len(o) + m)
    BY <2>1, RepeatBehind
  <2>4. \A k \in 1..Len(o) : u[k] = o[k]
    BY <2>1, RepeatBehind
  <2>5. \A k \in (Len(o) + 1)..(Len(o) + m) : u[k] = now
    BY <2>1, RepeatBehind
  <2> HIDE DEF u
  <2>3. u = o2 BY DEF u, m, o2
  <2> QED BY <1>1, <2>2, <2>3, <2>4, <2>5 DEF m
<1>6. \A k \in DOMAIN a2 : a2[k] <= now
  <2> SUFFICES ASSUME NEW k \in DOMAIN a2 PROVE a2[k] <= now OBVIOUS
  <2> HIDE DEF a2
  <2>1. k \in 1..Len(w) \/ k \in (Len(w) + 1)..(Len(w) + Len(chunk)) BY <1>2, <1>4
  <2>2. CASE k \in 1..Len(w) BY <1>1, <1>2, <1>4, <2>2
  <2>3. CASE k \in (Len(w) + 1)..(Len(w) + Len(chunk))
    <3>1. a2[k] = now BY <1>4, <2>3
    <3> QED BY <3>1
  <2> QED BY <2>1, <2>2, <2>3
<1>7. \A k \in DOMAIN o2 : o2[k] <= now
  <2> SUFFICES ASSUME NEW k \in DOMAIN o2 PROVE o2[k] <= now OBVIOUS
  <2> HIDE DEF o2
  <2>1. k \in 1..Len(es) \/ k \in (Len(es) + 1)..(Len(es) + Len(new)) BY <1>2, <1>5
  <2>2. CASE k \in 1..Len(es) BY <1>1, <1>2, <1>5, <2>2
  <2>3. CASE k \in (Len(es) + 1)..(Len(es) + Len(new))
    <3>1. o2[k] = now BY <1>5, <2>3
    <3> QED BY <3>1
  <2> QED BY <2>1, <2>2, <2>3
<1> HIDE DEF w2, a2, es2, o2
(* What was heard earlier is what had been heard by then. *)
<1>8. ASSUME NEW t \in 0..now, t # now
      PROVE  EventsBy(w2, a2, t) = EventsBy(w, a, t)
  <2>0. t \in Nat /\ t < now /\ ~(now <= t) BY <1>8
  <2>1. {k \in DOMAIN a2 : a2[k] <= t} = {k \in DOMAIN a : a[k] <= t}
    <3>1. \A k \in DOMAIN a2 : k \in DOMAIN a \/ ~(a2[k] <= t)
      <4> SUFFICES ASSUME NEW k \in DOMAIN a2, k \notin DOMAIN a PROVE ~(a2[k] <= t) OBVIOUS
      <4>1. k \in (Len(w) + 1)..(Len(w) + Len(chunk)) BY <1>2, <1>4
      <4>2. a2[k] = now BY <1>4, <4>1
      <4> QED BY <2>0, <4>2
    <3>2. \A k \in DOMAIN a : k \in DOMAIN a2 /\ a2[k] = a[k] BY <1>2, <1>4
    <3> QED BY <3>1, <3>2
  <2>2. Heard(a2, t) = Heard(a, t) BY <2>1 DEF Heard
  <2>3. Heard(a, t) \in 0..Len(w) BY <1>1, <2>0, HeardTyped
  <2>4. SubSeq(w2, 1, Heard(a, t)) = SubSeq(w, 1, Heard(a, t))
    <3> DEFINE h == Heard(a, t)
               u == SubSeq(w2, 1, h)
               v == SubSeq(w, 1, h)
    <3>1. h \in Nat /\ h <= Len(w) /\ h <= Len(w2) BY <1>2, <1>3, <2>3
    <3> HIDE DEF h
    <3>2. u \in Seq(Tokens) /\ Len(u) = h /\ \A k \in 1..h : u[k] = w2[k]
      BY <1>3, <3>1, InitialPart DEF Bytes
    <3>3. v \in Seq(Tokens) /\ Len(v) = h /\ \A k \in 1..h : v[k] = w[k]
      BY <1>2, <3>1, InitialPart
    <3>4. \A k \in 1..h : k \in 1..Len(w) BY <1>2, <3>1
    <3> HIDE DEF u, v
    <3>5. \A k \in 1..Len(u) : u[k] = v[k] BY <1>3, <3>2, <3>3, <3>4
    <3>6. u = v BY <3>2, <3>3, <3>5, SeqEqual
    <3> QED BY <3>6 DEF u, v, h
  <2> QED BY <2>2, <2>4 DEF EventsBy
<1>9. EventsBy(w2, a2, now) = Len(es2)
  <2>1. Len(a2) = Len(w2) BY <1>3, <1>4
  <2>2. SoFar(w2).events = es2 BY DEF w2, es2
  <2> QED BY <1>3, <1>4, <1>6, <2>1, <2>2, EventsByTyped
<1>10. ASSUME NEW t \in 0..now
       PROVE  /\ EventsBy(w2, a2, t) <= Len(es2)
              /\ \A k \in DOMAIN es2 : o2[k] <= t <=> k <= EventsBy(w2, a2, t)
  <2>1. CASE t = now BY <1>2, <1>3, <1>5, <1>7, <1>9, <2>1
  <2>2. CASE t # now
    <3>1. EventsBy(w2, a2, t) = EventsBy(w, a, t) BY <1>8, <2>2
    <3>2. EventsBy(w, a, t) <= Len(es) /\ EventsBy(w, a, t) \in Nat
      <4>1. t \in Nat OBVIOUS
      <4> QED BY <1>1, <4>1, EventsByTyped
    <3>3. ASSUME NEW k \in DOMAIN es2
          PROVE  o2[k] <= t <=> k <= EventsBy(w, a, t)
      <4>1. CASE k \in 1..Len(es) BY <1>1, <1>2, <1>5, <4>1
      <4>2. CASE k \notin 1..Len(es)
        <5>1. k \in (Len(es) + 1)..(Len(es) + Len(new)) BY <1>2, <1>3, <4>2
        <5>2. o2[k] = now /\ ~(now <= t) BY <1>5, <2>2, <5>1
        <5>3. ~(k <= EventsBy(w, a, t)) BY <1>2, <3>2, <5>1
        <5> QED BY <5>2, <5>3
      <4> QED BY <4>1, <4>2
    <3>4. EventsBy(w, a, t) <= Len(es2) BY <1>2, <1>3, <3>2
    <3> QED BY <3>1, <3>3, <3>4
  <2> QED BY <2>1, <2>2
<1>11. Len(a2) = Len(w2) /\ Len(o2) = Len(es2) BY <1>3, <1>4, <1>5
<1>12. Timed(w2, a2, es2, o2, now) BY <1>6, <1>7, <1>10, <1>11 DEF Timed
<1> QED BY <1>12 DEF w2, a2, es2, o2

(* The events that the end completes carry the time of the end.            *)
LEMMA TimedAtTheEnd ==
  ASSUME NEW w \in Bytes, NEW a \in Seq(Nat), NEW es \in EventLists, NEW o \in Seq(Nat),
         NEW now \in Nat, Timed(w, a, es, o, now), NEW new \in EventLists
  PROVE  TimedByFinish(w, a, es \o new, o \o Repeat(now, Len(new)), now)
<1> DEFINE es2 == es \o new
           n == Len(new)
           o2 == o \o Repeat(now, n)
<1>1. /\ Len(a) = Len(w) /\ \A k \in DOMAIN a : a[k] <= now
      /\ Len(o) = Len(es) /\ \A k \in DOMAIN o : o[k] <= now
      /\ \A t \in 0..now :
           /\ EventsBy(w, a, t) <= Len(es)
           /\ \A k \in DOMAIN es : o[k] <= t <=> k <= EventsBy(w, a, t)
  BY DEF Timed
<1>2. /\ es \in Seq(Events) /\ new \in Seq(Events) /\ Len(es) \in Nat /\ n \in Nat
      /\ DOMAIN es = 1..Len(es) /\ DOMAIN o = 1..Len(es)
  BY <1>1 DEF EventLists
<1>3. Len(es2) = Len(es) + n /\ DOMAIN es2 = 1..(Len(es) + n)
  BY <1>2, ConcatElements
<1> HIDE DEF n, es2, o2
<1>4. /\ Len(o2) = Len(o) + n
      /\ \A k \in 1..Len(o) : o2[k] = o[k]
      /\ \A k \in (Len(o) + 1)..(Len(o) + n) : o2[k] = now
  <2> DEFINE u == o \o Repeat(now, n)
  <2>1. Len(u) = Len(o) + n BY <1>2, RepeatBehind
  <2>2. \A k \in 1..Len(o) : u[k] = o[k] BY <1>2, RepeatBehind
  <2>3. \A k \in (Len(o) + 1)..(Len(o) + n) : u[k] = now BY <1>2, RepeatBehind
  <2> HIDE DEF u
  <2>4. u = o2 BY DEF u, o2
  <2> QED BY <2>1, <2>2, <2>3, <2>4
<1>5. Len(o2) = Len(es2) BY <1>1, <1>3, <1>4
<1>6. Heard(a, now) = Len(w) BY <1>1, HeardTyped
<1>7. ASSUME NEW t \in 0..now, NEW k \in DOMAIN es2
      PROVE  o2[k] <= t <=> k <= IF t = now THEN Len(es2) ELSE EventsBy(w, a, t)
  <2>1. t \in Nat /\ t <= now BY <1>7
  <2>2. EventsBy(w, a, t) <= Len(es) /\ EventsBy(w, a, t) \in Nat
    BY <1>1, <2>1, EventsByTyped
  <2>3. CASE k \in 1..Len(es)
    <3>1. o2[k] = o[k] /\ o[k] <= now /\ k <= Len(es2) BY <1>1, <1>2, <1>3, <1>4, <2>3
    <3>2. o[k] <= t <=> k <= EventsBy(w, a, t) BY <1>1, <1>2, <2>3
    <3> QED BY <3>1, <3>2
  <2>4. CASE k \notin 1..Len(es)
    <3>1. k \in (Len(es) + 1)..(Len(es) + n) BY <1>2, <1>3, <2>4
    <3>2. o2[k] = now /\ k <= Len(es2) BY <1>1, <1>2, <1>3, <1>4, <3>1
    <3>3. ~(k <= EventsBy(w, a, t)) BY <1>2, <2>2, <3>1
    <3>4. now <= t <=> t = now BY <2>1
    <3> QED BY <3>2, <3>3, <3>4
  <2> QED BY <2>3, <2>4
<1> QED BY <1>5, <1>6, <1>7 DEF TimedByFinish, o2, es2, n

-----------------------------------------------------------------------------
(* The inductive invariant: while it streams, the recorder has in its      *)
(* buffer, its data lines and its events what a reading of the settled     *)
(* transcript has, and the offsets so far are right; and how it ended.     *)
RecorderTypeOK ==
  /\ stage \in {"streaming", "recorded", "failed"}
  /\ elapsed \in Nat
  /\ raw_transcript \in Bytes /\ events \in EventLists
  /\ arrivals \in Seq(Nat) /\ chunk_offsets_ms \in Seq(Nat)

KeepsPace ==
  stage = "streaming" =>
    LET read == SoFar(raw_transcript) IN
    /\ read.sound /\ events = read.events
    /\ data_lines = read.data /\ buffer = Held(raw_transcript)

KeepsTime ==
  /\ stage = "streaming" =>
       Timed(raw_transcript, arrivals, events, chunk_offsets_ms, elapsed)
  /\ stage = "recorded" =>
       TimedByFinish(raw_transcript, arrivals, events, chunk_offsets_ms, elapsed)

IInv ==
  RecorderTypeOK /\ KeepsPace /\ KeepsTime /\ ChunkingNeverShows /\ WholeStreamsAreRecorded

LEMMA StreamingSuffices ==
  RecorderTypeOK /\ KeepsPace /\ KeepsTime /\ stage = "streaming" => IInv
BY DEF IInv, ChunkingNeverShows, WholeStreamsAreRecorded, KeepsPace, SoFar

LEMMA InitIInv == Init => IInv
<1> SUFFICES ASSUME Init PROVE IInv OBVIOUS
<1> USE DEF Init, ParserInit
<1>1. RecorderTypeOK BY DEF RecorderTypeOK, Bytes, EventLists
<1>2. KeepsPace BY SettledOfNothing DEF KeepsPace, Held, NothingRead
<1>3. KeepsTime
  <2> DEFINE nil == <<>>
  <2>1. nil \in Bytes /\ nil \in Seq(Nat) /\ Len(nil) = 0 /\ DOMAIN nil = {} BY DEF Bytes
  <2>2. SoFar(nil).events = nil BY SettledOfNothing DEF NothingRead
  <2>3. \A t \in 0..0 : EventsBy(nil, nil, t) = 0
    <3> SUFFICES ASSUME NEW t \in 0..0 PROVE EventsBy(nil, nil, t) = 0 OBVIOUS
    <3>1. t \in Nat OBVIOUS
    <3> HIDE DEF nil
    <3>2. \A k \in DOMAIN nil : nil[k] <= t BY <2>1
    <3> QED BY <2>1, <2>2, <3>1, <3>2, EventsByTyped
  <2> HIDE DEF nil
  <2>4. Timed(nil, nil, nil, nil, 0) BY <2>1, <2>3 DEF Timed
  <2> QED BY <2>4 DEF KeepsTime, nil
<1> QED BY <1>1, <1>2, <1>3, StreamingSuffices

LEMMA NextIInv == IInv /\ [Next]_vars => IInv'
<1> SUFFICES ASSUME IInv, [Next]_vars PROVE IInv' OBVIOUS
<1> DEFINE w == raw_transcript
           r == SoFar(raw_transcript)
<1>1. /\ stage \in {"streaming", "recorded", "failed"} /\ elapsed \in Nat
      /\ w \in Bytes /\ events \in EventLists
      /\ arrivals \in Seq(Nat) /\ chunk_offsets_ms \in Seq(Nat)
  BY DEF IInv, RecorderTypeOK
<1>2. stage = "streaming" =>
        /\ r.sound /\ events = r.events /\ data_lines = r.data /\ buffer = Held(w)
        /\ Timed(w, arrivals, events, chunk_offsets_ms, elapsed)
  BY DEF IInv, KeepsPace, KeepsTime
<1>3. CASE ClockTicks
  <2> USE <1>3 DEF ClockTicks, parserVars
  <2>1. RecorderTypeOK' BY <1>1 DEF RecorderTypeOK
  <2>2. KeepsPace' BY <1>2 DEF KeepsPace
  <2>3. Timed(w, arrivals, events, chunk_offsets_ms, elapsed + 1)
    BY <1>1, <1>2, TimedLater
  <2>4. KeepsTime' BY <2>3 DEF KeepsTime
  <2>5. stage' = "streaming" OBVIOUS
  <2>6. (RecorderTypeOK /\ KeepsPace /\ KeepsTime /\ stage = "streaming")'
    BY <2>1, <2>2, <2>4, <2>5
  <2> QED BY <2>6, StreamingSuffices, PTL
<1>4. CASE FinishRecording
  <2> DEFINE finished == Finish
  <2>1. /\ stage = "streaming"
        /\ IF finished.ok THEN stage' = "recorded" /\ KeepEvents(finished.events)
           ELSE stage' = "failed" /\ UNCHANGED <<events, chunk_offsets_ms>>
        /\ UNCHANGED <<elapsed, raw_transcript, ttft_ms, arrivals>>
    BY <1>4 DEF FinishRecording
  <2>2. /\ Finish.ok => /\ IsComplete(ReadAll(w))
                        /\ Finish.events \in EventLists
                        /\ ReadAll(w).events = r.events \o Finish.events
        /\ ~Finish.ok => \/ ~IsComplete(ReadAll(w))
                         \/ Last(w) = "CR" /\ ReadAll(Front(w)).line # <<>>
    BY <1>1, <1>2, <2>1, FinishKeepsPace
  <2> HIDE DEF finished
  <2>3. CASE finished.ok
    <3>1. /\ stage' = "recorded" /\ events' = events \o finished.events
          /\ chunk_offsets_ms' = chunk_offsets_ms \o Repeat(elapsed, Len(finished.events))
      BY <2>1, <2>3 DEF KeepEvents
    <3>2. finished.events \in EventLists /\ finished.events \in Seq(Events)
          /\ events \in Seq(Events)
      BY <1>1, <2>2, <2>3 DEF finished, EventLists
    <3>3. events' \in EventLists BY <3>1, <3>2 DEF EventLists
    <3>4. chunk_offsets_ms' \in Seq(Nat)
      <4>1. Repeat(elapsed, Len(finished.events)) \in Seq(Nat) BY <1>1, <3>2, RepeatTyped
      <4> QED BY <1>1, <3>1, <4>1
    <3>5. RecorderTypeOK' BY <1>1, <2>1, <3>1, <3>3, <3>4 DEF RecorderTypeOK
    <3>6. events' = ReadAll(w).events /\ IsComplete(ReadAll(w))
      BY <1>2, <2>1, <2>2, <2>3, <3>1 DEF finished
    <3>7. ChunkingNeverShows' BY <2>1, <3>1, <3>6 DEF ChunkingNeverShows
    <3>8. TimedByFinish(w, arrivals, events', chunk_offsets_ms', elapsed)
      BY <1>1, <1>2, <2>1, <3>1, <3>2, TimedAtTheEnd
    <3>9. KeepsTime' BY <2>1, <3>1, <3>8 DEF KeepsTime
    <3> QED BY <3>1, <3>5, <3>7, <3>9 DEF IInv, KeepsPace, WholeStreamsAreRecorded
  <2>4. CASE ~finished.ok
    <3>1. stage' = "failed" /\ UNCHANGED <<events, chunk_offsets_ms>> BY <2>1, <2>4
    <3>2. RecorderTypeOK' BY <1>1, <2>1, <3>1 DEF RecorderTypeOK
    <3>3. WholeStreamsAreRecorded'
      BY <2>1, <2>2, <2>4 DEF WholeStreamsAreRecorded, finished
    <3> QED BY <3>1, <3>2, <3>3 DEF IInv, KeepsPace, KeepsTime, ChunkingNeverShows
  <2> QED BY <2>3, <2>4
<1>5. ASSUME NEW chunk \in Chunks, ObserveChunk(chunk) PROVE IInv'
  <2> DEFINE fed == Feed(chunk)
             n == SoFar(w \o chunk)
  <2>1. chunk \in Bytes /\ chunk \in Seq(Tokens) /\ Len(chunk) \in Nat
    <3>1. PICK m \in 1..MaxChunk : chunk \in [1..m -> Alphabet] BY DEF Chunks
    <3>2. m \in Nat BY StreamAssumption
    <3>3. chunk \in [1..m -> Tokens] BY <3>1, StreamAssumption
    <3>4. chunk \in Seq(Tokens) BY <3>2, <3>3
    <3> QED BY <3>4 DEF Bytes
  <2>2. /\ stage = "streaming" /\ elapsed' = elapsed
        /\ raw_transcript' = w \o chunk
        /\ arrivals' = arrivals \o Repeat(elapsed, Len(chunk))
        /\ buffer' = fed.buffer /\ data_lines' = fed.data
        /\ IF fed.ok THEN KeepEvents(fed.events) /\ UNCHANGED stage
           ELSE stage' = "failed" /\ UNCHANGED <<events, chunk_offsets_ms>>
    BY <1>5 DEF ObserveChunk, KeepParserState
  <2>3. /\ w \o chunk \in Bytes
        /\ fed.ok <=> n.sound
        /\ fed.ok => /\ fed.buffer = Held(w \o chunk)
                     /\ fed.data = n.data
                     /\ fed.events \in EventLists
                     /\ n.events = r.events \o fed.events
    BY <1>1, <1>2, <2>1, <2>2, FeedKeepsPace
  <2>4. arrivals' \in Seq(Nat)
    <3>1. Repeat(elapsed, Len(chunk)) \in Seq(Nat) BY <1>1, <2>1, RepeatTyped
    <3> QED BY <1>1, <2>2, <3>1
  <2> HIDE DEF fed
  <2>5. CASE fed.ok
    <3>1. /\ stage' = "streaming" /\ events' = events \o fed.events
          /\ chunk_offsets_ms' = chunk_offsets_ms \o Repeat(elapsed, Len(fed.events))
      BY <2>2, <2>5 DEF KeepEvents
    <3>2. fed.events \in EventLists /\ fed.events \in Seq(Events) /\ events \in Seq(Events)
      BY <1>1, <2>3, <2>5 DEF EventLists
    <3>3. events' \in EventLists BY <3>1, <3>2 DEF EventLists
    <3>4. chunk_offsets_ms' \in Seq(Nat)
      <4>1. Repeat(elapsed, Len(fed.events)) \in Seq(Nat) BY <1>1, <3>2, RepeatTyped
      <4> QED BY <1>1, <3>1, <4>1
    <3>5. RecorderTypeOK' BY <1>1, <2>2, <2>3, <2>4, <3>1, <3>3, <3>4 DEF RecorderTypeOK
    <3>6. n.events = events \o fed.events BY <1>2, <2>2, <2>3, <2>5
    <3>7. KeepsPace' BY <2>2, <2>3, <2>5, <3>1, <3>6 DEF KeepsPace
    <3>8. Timed(w \o chunk, arrivals \o Repeat(elapsed, Len(chunk)), events \o fed.events,
                chunk_offsets_ms \o Repeat(elapsed, Len(fed.events)), elapsed)
      BY <1>1, <1>2, <2>1, <2>2, <3>2, <3>6, TimedOn
    <3>9. KeepsTime' BY <2>2, <3>1, <3>8 DEF KeepsTime
    <3>10. (RecorderTypeOK /\ KeepsPace /\ KeepsTime /\ stage = "streaming")'
      BY <3>1, <3>5, <3>7, <3>9
    <3> QED BY <3>10, StreamingSuffices, PTL
  <2>6. CASE ~fed.ok
    <3>1. stage' = "failed" /\ UNCHANGED <<events, chunk_offsets_ms>> BY <2>2, <2>6
    <3>2. RecorderTypeOK' BY <1>1, <2>2, <2>3, <2>4, <3>1 DEF RecorderTypeOK
    <3>3. ~ReadAll(w \o chunk).sound BY <2>3, <2>6, ReadToTheEnd
    <3>4. WholeStreamsAreRecorded'
      BY <2>2, <3>3 DEF WholeStreamsAreRecorded, IsComplete
    <3> QED BY <3>1, <3>2, <3>4 DEF IInv, KeepsPace, KeepsTime, ChunkingNeverShows
  <2> QED BY <2>5, <2>6
<1>6. CASE UNCHANGED vars
  BY <1>6 DEF vars, parserVars, recorderVars, IInv, RecorderTypeOK, KeepsPace, KeepsTime,
              ChunkingNeverShows, WholeStreamsAreRecorded
<1> QED BY <1>3, <1>4, <1>5, <1>6 DEF Next

LEMMA Invariance == Spec => []IInv
BY InitIInv, NextIInv, PTL DEF Spec

(* The events recorded are those of the transcript read as one, however it *)
(* was cut into chunks, and only a whole stream in UTF-8 is recorded.      *)
THEOREM ChunkingNeverShowsAlways == Spec => []ChunkingNeverShows
<1>1. IInv => ChunkingNeverShows BY DEF IInv
<1> QED BY <1>1, Invariance, PTL

(* No stream of whole events is refused. *)
THEOREM WholeStreamsAreRecordedAlways == Spec => []WholeStreamsAreRecorded
<1>1. IInv => WholeStreamsAreRecorded BY DEF IInv
<1> QED BY <1>1, Invariance, PTL

(* At any time, the offsets of the events recorded so far say which of     *)
(* them the bytes that had arrived by any earlier time had completed; in   *)
(* the end, which of them only the end completed (finish_recording).       *)
THEOREM OffsetsSayWhenEventsArrivedAlways == Spec => []OffsetsSayWhenEventsArrived
<1>1. ASSUME IInv, stage = "streaming" PROVE OffsetsSayWhenEventsArrived
  BY <1>1 DEF IInv, KeepsTime, Timed, OffsetsSayWhenEventsArrived, EventsBy, Heard, SoFar
<1>2. ASSUME IInv, stage = "recorded" PROVE OffsetsSayWhenEventsArrived
  <2> DEFINE w == raw_transcript
             heard(t) == SubSeq(w, 1, Heard(arrivals, t))
  <2>1. /\ Len(chunk_offsets_ms) = Len(events) /\ Heard(arrivals, elapsed) = Len(w)
        /\ \A t \in 0..elapsed : \A k \in DOMAIN events :
             chunk_offsets_ms[k] <= t <=>
               k <= IF t = elapsed THEN Len(events) ELSE EventsBy(w, arrivals, t)
    BY <1>2 DEF IInv, KeepsTime, TimedByFinish
  <2>2. heard(elapsed) = w
    <3>1. w \in Seq(Tokens) BY <1>2 DEF IInv, RecorderTypeOK, Bytes
    <3> QED BY <2>1, <3>1, SubSeqFull
  <2>3. Len(ReadAll(heard(elapsed)).events) = Len(events)
    BY <1>2, <2>2 DEF IInv, ChunkingNeverShows
  <2>4. \A t : EventsBy(w, arrivals, t) = Len(ReadAll(Settled(heard(t))).events)
    BY DEF EventsBy, SoFar
  <2> HIDE DEF w, heard
  <2>5. \A t \in 0..elapsed :
          LET known == IF stage = "recorded" /\ t = elapsed THEN heard(t) ELSE Settled(heard(t))
          IN  \A k \in DOMAIN events :
                chunk_offsets_ms[k] <= t <=> k <= Len(ReadAll(known).events)
    BY <1>2, <2>1, <2>3, <2>4
  <2> QED BY <2>1, <2>5 DEF OffsetsSayWhenEventsArrived, w, heard, Heard
<1>3. IInv => OffsetsSayWhenEventsArrived
  BY <1>1, <1>2 DEF IInv, RecorderTypeOK, OffsetsSayWhenEventsArrived
<1> QED BY <1>3, Invariance, PTL

-----------------------------------------------------------------------------
(* Reading one whole line after what ended in a line.                      *)
AtLineStart(w) == w \in Bytes /\ ReadAll(w).line = <<>> /\ ~Pending(w)

LEMMA ReadingText ==
  ASSUME NEW w \in Bytes, ~Pending(w), NEW l \in Text
  PROVE  LET s == ReadAll(w)
             n == ReadAll(w \o l)
         IN  /\ w \o l \in Bytes /\ ~Pending(w \o l)
             /\ n.line = s.line \o l /\ n.sound = s.sound /\ Parsed(n) = Parsed(s)
<1> DEFINE s == ReadAll(w)
           Good(k) == /\ w \o k \in Bytes /\ ~Pending(w \o k)
                      /\ ReadAll(w \o k).line = s.line \o k
                      /\ ReadAll(w \o k).sound = s.sound /\ Parsed(ReadAll(w \o k)) = Parsed(s)
           G == {k \in Text : Good(k)}
<1>0. s \in ReadStates /\ s.line \in Seq(LineTokens) /\ w \in Seq(Tokens)
  BY SettledTyped, StateTyped DEF Text, Bytes
<1>1. <<>> \in G
  <2>1. w \o <<>> = w BY <1>0
  <2>2. s.line \o <<>> = s.line
    <3> HIDE DEF s
    <3> QED BY <1>0
  <2>3. <<>> \in Text BY DEF Text
  <2> QED BY <2>1, <2>2, <2>3
<1>2. \A k \in Text : \A t \in LineTokens : k \in G => Append(k, t) \in G
  <2> SUFFICES ASSUME NEW k \in Text, NEW t \in LineTokens, Good(k)
               PROVE  Append(k, t) \in Text /\ Good(Append(k, t))
    OBVIOUS
  <2> DEFINE v == w \o k
             r == ReadAll(v)
  <2>1. k \in Seq(LineTokens) /\ k \in Seq(Tokens) /\ t \in Tokens /\ t # "CR" /\ t # "LF"
    BY TextIsPlain DEF Text, Bytes, LineTokens, Terminators
  <2>2. Append(k, t) \in Text BY <2>1 DEF Text
  <2>3. w \o Append(k, t) = Append(v, t) BY <1>0, <2>1, AppendToConcat
  <2>4. v \in Bytes /\ r.line = s.line \o k /\ r.sound = s.sound /\ Parsed(r) = Parsed(s)
    OBVIOUS
  <2> HIDE DEF v, s
  <2>5. Append(v, t) \in Bytes /\ ~Pending(Append(v, t)) BY <2>1, <2>4, SettledOn
  <2>6. Continues(ReadAll(Append(v, t)), r, t)
    <3>1. r \in ReadStates /\ ReadAll(Append(v, t)) = ReadByte(r, t)
      BY <2>1, <2>4, Reading DEF Bytes
    <3> QED BY <2>1, <3>1, ReadByteKinds
  <2>7. Append(s.line \o k, t) = s.line \o Append(k, t)
    <3> DEFINE sl == s.line
    <3>1. sl \in Seq(LineTokens) BY <1>0
    <3> HIDE DEF sl
    <3>2. Append(sl \o k, t) = sl \o Append(k, t) BY ONLY <2>1, <3>1
    <3> QED BY <3>2 DEF sl
  <2> QED BY <2>2, <2>3, <2>4, <2>5, <2>6, <2>7 DEF Continues
<1> HIDE DEF G
<1>3. Text \subseteq G BY <1>1, <1>2, InductionOnSequences DEF Text
<1> QED BY <1>3 DEF G

LEMMA ReadingLine ==
  ASSUME NEW w, AtLineStart(w), NEW l \in Text
  PROVE  LET s == ReadAll(w)
             n == ReadAll(w \o l \o <<"LF">>)
         IN  /\ AtLineStart(w \o l \o <<"LF">>)
             /\ n.sound = (s.sound /\ ValidUtf8(l))
             /\ Parsed(n) = ConsumeLine(Parsed(s), l)
<1> DEFINE s == ReadAll(w)
           v == w \o l
           r == ReadAll(v)
           n == ReadAll(Append(v, "LF"))
<1>1. /\ w \in Bytes /\ ~Pending(w) /\ s \in ReadStates /\ s.line = <<>>
  BY SettledTyped DEF AtLineStart
<1>2. /\ v \in Bytes /\ ~Pending(v) /\ r.line = s.line \o l /\ r.sound = s.sound
      /\ Parsed(r) = Parsed(s)
  BY <1>1, ReadingText
<1>3. "LF" \in Tokens BY DEF Tokens
<1>4. w \o l \o <<"LF">> = Append(v, "LF")
  <2> HIDE DEF v
  <2>1. v \o <<"LF">> = Append(v, "LF") BY <1>2, <1>3 DEF Bytes
  <2> QED BY <2>1 DEF v
<1>5. r.line = l
  <2>1. l \in Seq(LineTokens) BY DEF Text
  <2>2. <<>> \o l = l BY <2>1
  <2> QED BY <1>1, <1>2, <2>2
<1> HIDE DEF v, s, r
<1>6. Append(v, "LF") \in Bytes /\ ~Pending(Append(v, "LF")) BY <1>2, <1>3, SettledOn
<1>7. EndsLine(n, r)
  <2>1. r \in ReadStates /\ n = ReadByte(r, "LF") BY <1>2, <1>3, Reading DEF Bytes, r
  <2>2. ~r.afterCR BY <1>2, AfterCRMeansPending DEF r
  <2> QED BY <1>3, <2>1, <2>2, ReadByteKinds
<1> HIDE DEF n
<1> QED BY <1>2, <1>4, <1>5, <1>6, <1>7 DEF EndsLine, AtLineStart, n, s

-----------------------------------------------------------------------------
(* Comments: keeping the events that are none, and copying the lines that  *)
(* are none.                                                               *)
KeepStep == [p \in EventLists \X Events |-> KeepUnlessComment(p[1], p[2])]
CopyStep == [p \in Bytes \X Text |-> CopyUnlessComment(p[1], p[2])]

LEMMA Keeping ==
  ASSUME NEW s \in Seq(Events)
  PROVE  /\ FoldLeft(KeepUnlessComment, <<>>, <<>>) = <<>> /\ FoldLeft(KeepUnlessComment, <<>>, s) \in EventLists
         /\ \A x \in Events : FoldLeft(KeepUnlessComment, <<>>, Append(s, x)) = KeepUnlessComment(FoldLeft(KeepUnlessComment, <<>>, s), x)
<1>1. KeepStep \in Steps(Events, EventLists) /\ <<>> \in EventLists
  BY DEF KeepStep, Steps, EventLists, KeepUnlessComment
<1>2. ASSUME NEW q \in Seq(Events)
      PROVE  FoldLeft(KeepUnlessComment, <<>>, q) = Folded(KeepStep, <<>>, q)
  <2> DEFINE N == 1..Len(q)
             StepOn(t, U) == KeepUnlessComment(t[U \ {Max(U)}], q[Max(U)])
             IsFold(t) == t = [U \in SUBSET DOMAIN q |-> IF U = {} THEN <<>> ELSE StepOn(t, U)]
             c == CHOOSE t : IsFold(t)
  <2>0. DOMAIN q = N OBVIOUS
  <2>1. PICK f \in Tables(q, EventLists) : IsTable(f, KeepStep, <<>>, q)
    BY <1>1, FoldHasTable
  <2>2. \A U \in SUBSET N : f[U] = IF U = {} THEN <<>> ELSE StepOn(f, U)
    BY <2>1, TablesAreTyped DEF IsTable, Tables, KeepStep
  <2>3. IsFold(f)
    <3> HIDE DEF StepOn
    <3>1. f = [U \in SUBSET N |-> f[U]] BY DEF Tables
    <3> QED BY <2>0, <2>2, <3>1
  <2>4. IsFold(c) BY <2>3
  <2>5. FoldLeft(KeepUnlessComment, <<>>, q) = c[DOMAIN q] BY DEF FoldLeft, MapThenFoldSet
  <2> HIDE DEF c
  <2>6. c[{}] = <<>> BY <2>4
  <2>7. TakesSteps(c, EventLists, KeepStep, q)
    BY <2>0, <2>4, TablesAreTyped DEF KeepStep, TakesSteps
  <2>8. c[N] = Folded(KeepStep, <<>>, q)
    BY <1>1, <2>6, <2>7, WhatFolds
  <2> QED BY <2>0, <2>5, <2>8
<1>3. <<>> \in Seq(Events) /\ \A x \in Events : Append(s, x) \in Seq(Events) OBVIOUS
<1>4. Folded(KeepStep, <<>>, <<>>) = <<>> /\ Folded(KeepStep, <<>>, s) \in EventLists
  BY <1>1, FoldingOn
<1>5. ASSUME NEW x \in Events
      PROVE  Folded(KeepStep, <<>>, Append(s, x)) = KeepUnlessComment(Folded(KeepStep, <<>>, s), x)
  <2>1. Folded(KeepStep, <<>>, Append(s, x)) = KeepStep[<<Folded(KeepStep, <<>>, s), x>>]
    BY <1>1, FoldingOn
  <2> QED BY <1>4, <2>1 DEF KeepStep
<1> QED BY <1>2, <1>3, <1>4, <1>5

LEMMA Copying ==
  ASSUME NEW s \in Seq(Text)
  PROVE  /\ FoldLeft(CopyUnlessComment, <<>>, <<>>) = <<>> /\ FoldLeft(CopyUnlessComment, <<>>, s) \in Bytes
         /\ \A x \in Text : FoldLeft(CopyUnlessComment, <<>>, Append(s, x)) = CopyUnlessComment(FoldLeft(CopyUnlessComment, <<>>, s), x)
<1>1. CopyStep \in Steps(Text, Bytes) /\ <<>> \in Bytes
  <2>1. <<>> \in Bytes BY DEF Bytes
  <2> SUFFICES ASSUME NEW a \in Bytes, NEW x \in Text PROVE CopyUnlessComment(a, x) \in Bytes
    BY <2>1 DEF CopyStep, Steps
  <2>2. x \in Bytes /\ <<"LF">> \in Bytes BY TextIsPlain DEF Bytes, Tokens
  <2> QED BY <2>2 DEF CopyUnlessComment, Bytes
<1>2. ASSUME NEW q \in Seq(Text)
      PROVE  FoldLeft(CopyUnlessComment, <<>>, q) = Folded(CopyStep, <<>>, q)
  <2> DEFINE N == 1..Len(q)
             StepOn(t, U) == CopyUnlessComment(t[U \ {Max(U)}], q[Max(U)])
             IsFold(t) == t = [U \in SUBSET DOMAIN q |-> IF U = {} THEN <<>> ELSE StepOn(t, U)]
             c == CHOOSE t : IsFold(t)
  <2>0. DOMAIN q = N OBVIOUS
  <2>1. PICK f \in Tables(q, Bytes) : IsTable(f, CopyStep, <<>>, q)
    BY <1>1, FoldHasTable
  <2>2. \A U \in SUBSET N : f[U] = IF U = {} THEN <<>> ELSE StepOn(f, U)
    BY <2>1, TablesAreTyped DEF IsTable, Tables, CopyStep
  <2>3. IsFold(f)
    <3> HIDE DEF StepOn
    <3>1. f = [U \in SUBSET N |-> f[U]] BY DEF Tables
    <3> QED BY <2>0, <2>2, <3>1
  <2>4. IsFold(c) BY <2>3
  <2>5. FoldLeft(CopyUnlessComment, <<>>, q) = c[DOMAIN q] BY DEF FoldLeft, MapThenFoldSet
  <2> HIDE DEF c
  <2>6. c[{}] = <<>> BY <2>4
  <2>7. TakesSteps(c, Bytes, CopyStep, q)
    BY <2>0, <2>4, TablesAreTyped DEF CopyStep, TakesSteps
  <2>8. c[N] = Folded(CopyStep, <<>>, q)
    BY <1>1, <2>6, <2>7, WhatFolds
  <2> QED BY <2>0, <2>5, <2>8
<1>3. <<>> \in Seq(Text) /\ \A x \in Text : Append(s, x) \in Seq(Text) OBVIOUS
<1>4. Folded(CopyStep, <<>>, <<>>) = <<>> /\ Folded(CopyStep, <<>>, s) \in Bytes
  BY <1>1, FoldingOn
<1>5. ASSUME NEW x \in Text
      PROVE  Folded(CopyStep, <<>>, Append(s, x)) = CopyUnlessComment(Folded(CopyStep, <<>>, s), x)
  <2>1. Folded(CopyStep, <<>>, Append(s, x)) = CopyStep[<<Folded(CopyStep, <<>>, s), x>>]
    BY <1>1, FoldingOn
  <2> QED BY <1>4, <2>1 DEF CopyStep
<1> QED BY <1>2, <1>3, <1>4, <1>5

Kept(es) == FoldLeft(KeepUnlessComment, <<>>, es)
Copied(ls) == FoldLeft(CopyUnlessComment, <<>>, ls)

(* q is p without its comments. *)
Keeps(q, p) == q.data = p.data /\ q.events = Kept(p.events)

LEMMA KeepsOn ==
  ASSUME NEW q \in ParseStates, NEW p \in ParseStates, Keeps(q, p), NEW l \in Text
  PROVE  IF IsCommentLine(l) THEN Keeps(q, ConsumeLine(p, l))
         ELSE Keeps(ConsumeLine(q, l), ConsumeLine(p, l))
<1>1. /\ q.data \in Lines /\ q.events \in EventLists /\ p.data \in Lines
      /\ p.events \in Seq(Events) /\ q.data = p.data /\ q.events = Kept(p.events)
  BY DEF ParseStates, Keeps, EventLists
<1>2. \A e \in Events : Kept(Append(p.events, e)) = KeepUnlessComment(q.events, e)
  BY <1>1, Keeping DEF Kept
<1>3. CASE l = <<>>
  <2>1. ConsumeLine(q, l) = DispatchEvent(q) /\ ConsumeLine(p, l) = DispatchEvent(p)
    BY <1>3, ConsumeLineKinds
  <2>2. ~IsCommentLine(l) BY <1>3 DEF IsCommentLine
  <2>3. CASE p.data = <<>>
    <3>1. DispatchEvent(q) = q /\ DispatchEvent(p) = p BY <1>1, <2>3 DEF DispatchEvent
    <3> QED BY <2>1, <2>2, <3>1
  <2>4. CASE p.data # <<>>
    <3> DEFINE e == Data(JoinLines(p.data))
    <3>1. e \in Events /\ e.kind = "Data"
      <4>1. JoinLines(p.data) \in Texts BY <1>1, <2>4, JoinedLines
      <4> QED BY <4>1 DEF Data, Events, DataEvents
    <3>2. DispatchEvent(q) = [data |-> <<>>, events |-> Append(q.events, e)]
      BY <1>1, <2>4 DEF DispatchEvent
    <3>3. DispatchEvent(p) = [data |-> <<>>, events |-> Append(p.events, e)]
      BY <2>4 DEF DispatchEvent
    <3> HIDE DEF e
    <3>4. ConsumeLine(q, l).data = <<>> /\ ConsumeLine(p, l).data = <<>>
      BY <2>1, <3>2, <3>3
    <3>5. /\ ConsumeLine(q, l).events = Append(q.events, e)
          /\ ConsumeLine(p, l).events = Append(p.events, e)
      BY <2>1, <3>2, <3>3
    <3>6. Kept(Append(p.events, e)) = Append(q.events, e)
      BY <1>2, <3>1 DEF KeepUnlessComment
    <3> QED BY <2>2, <3>4, <3>5, <3>6 DEF Keeps
  <2> QED BY <2>3, <2>4
<1>4. CASE IsCommentLine(l)
  <2> DEFINE e == Comment(StripOptionalSpace(Tail(l)))
  <2>1. /\ e \in Events
        /\ ConsumeLine(p, l) = [data |-> p.data, events |-> Append(p.events, e)]
    BY <1>4, ConsumeLineKinds
  <2>2. e.kind = "Comment" BY DEF Comment
  <2> HIDE DEF e
  <2>3. ConsumeLine(p, l).data = p.data /\ ConsumeLine(p, l).events = Append(p.events, e)
    BY <2>1
  <2>4. Kept(Append(p.events, e)) = q.events BY <1>2, <2>1, <2>2 DEF KeepUnlessComment
  <2> QED BY <1>1, <1>4, <2>3, <2>4 DEF Keeps
<1>5. CASE l # <<>> /\ IsDataField(l) /\ ~IsCommentLine(l)
  <2>1. /\ ConsumeLine(q, l) = [data |-> Append(q.data, DataValue(l)), events |-> q.events]
        /\ ConsumeLine(p, l) = [data |-> Append(p.data, DataValue(l)), events |-> p.events]
    BY <1>5, ConsumeLineKinds
  <2> QED BY <1>1, <1>5, <2>1 DEF Keeps
<1>6. CASE l # <<>> /\ ~IsDataField(l) /\ ~IsCommentLine(l)
  <2>1. ConsumeLine(q, l) = q /\ ConsumeLine(p, l) = p BY <1>6, ConsumeLineKinds
  <2> QED BY <1>6, <2>1
<1> QED BY <1>3, <1>4, <1>5, <1>6 DEF IsCommentLine

NothingParsed == [data |-> <<>>, events |-> <<>>]

LEMMA NothingParsedTyped ==
  /\ NothingParsed \in ParseStates /\ Parsed(NothingRead) = NothingParsed
  /\ NothingParsed.data = <<>> /\ NothingParsed.events = <<>>
BY DEF NothingParsed, NothingRead, Parsed, ParseStates, Lines, EventLists

(* Reading the copied lines is parsing them all and keeping no comment.    *)
LEMMA ReadingCopied ==
  ASSUME NEW ls \in Lines
  PROVE  /\ AtLineStart(Copied(ls))
         /\ Keeps(Parsed(ReadAll(Copied(ls))), FoldLeft(ConsumeLine, NothingParsed, ls))
<1> DEFINE Good(k) == /\ AtLineStart(Copied(k))
                      /\ Keeps(Parsed(ReadAll(Copied(k))), FoldLeft(ConsumeLine, NothingParsed, k))
           G == {k \in Lines : Good(k)}
<1>1. <<>> \in G
  <2> DEFINE nil == <<>>
  <2>1. nil \in Seq(Text) /\ nil \in Seq(Events) OBVIOUS
  <2>2. Copied(nil) = <<>> /\ Kept(nil) = <<>> /\ FoldLeft(ConsumeLine, NothingParsed, nil) = NothingParsed
    BY <2>1, NothingParsedTyped, Copying, Keeping, Consuming DEF Copied, Kept
  <2>3. ReadAll(<<>>) = NothingRead /\ ~Pending(<<>>) /\ <<>> \in Bytes
    BY SettledOfNothing, Reading DEF Bytes
  <2>4. NothingRead.line = <<>> BY DEF NothingRead
  <2>5. Keeps(NothingParsed, NothingParsed) BY <2>2, NothingParsedTyped DEF Keeps
  <2> QED BY <2>1, <2>2, <2>3, <2>4, <2>5, NothingParsedTyped DEF AtLineStart, Lines
<1>2. \A k \in Lines : \A l \in Text : k \in G => Append(k, l) \in G
  <2> SUFFICES ASSUME NEW k \in Lines, NEW l \in Text, Good(k)
               PROVE  Append(k, l) \in Lines /\ Good(Append(k, l))
    OBVIOUS
  <2> DEFINE w == Copied(k)
             p == FoldLeft(ConsumeLine, NothingParsed, k)
             q == Parsed(ReadAll(w))
  <2>1. k \in Seq(Text) /\ Append(k, l) \in Lines BY DEF Lines
  <2>2. /\ Copied(Append(k, l)) = CopyUnlessComment(w, l)
        /\ FoldLeft(ConsumeLine, NothingParsed, Append(k, l)) = ConsumeLine(p, l)
        /\ p \in ParseStates
    BY <2>1, NothingParsedTyped, Copying, Consuming DEF Copied
  <2>3. AtLineStart(w) /\ Keeps(q, p) OBVIOUS
  <2> HIDE DEF w, p
  <2>4. q \in ParseStates
    <3>1. ReadAll(w) \in ReadStates BY <2>3, SettledTyped DEF AtLineStart
    <3> QED BY <3>1, StateTyped
  <2>5. CASE IsCommentLine(l)
    <3>1. Copied(Append(k, l)) = w BY <2>2, <2>5 DEF CopyUnlessComment
    <3>2. Keeps(q, ConsumeLine(p, l)) BY <2>2, <2>3, <2>4, <2>5, KeepsOn
    <3> QED BY <2>1, <2>2, <2>3, <3>1, <3>2
  <2>6. CASE ~IsCommentLine(l)
    <3> DEFINE v == w \o l \o <<"LF">>
    <3>1. Copied(Append(k, l)) = v BY <2>2, <2>6 DEF CopyUnlessComment
    <3>2. AtLineStart(v) /\ Parsed(ReadAll(v)) = ConsumeLine(q, l) BY <2>3, ReadingLine
    <3> HIDE DEF q, v
    <3>3. Keeps(ConsumeLine(q, l), ConsumeLine(p, l)) BY <2>2, <2>3, <2>4, <2>6, KeepsOn
    <3> QED BY <2>1, <2>2, <3>1, <3>2, <3>3
  <2> QED BY <2>5, <2>6
<1> HIDE DEF G
<1>3. Lines \subseteq G BY <1>1, <1>2, InductionOnSequences DEF Lines
<1> QED BY <1>3 DEF G

(* The lines of a complete transcript hold all its events. *)
LEMMA LinesOfComplete ==
  ASSUME NEW w \in Bytes, IsComplete(ReadAll(w))
  PROVE  LET ls == CompleteLines(Append(w, "LF")) IN
         /\ ls \in Lines
         /\ FoldLeft(ConsumeLine, NothingParsed, ls).events = ReadAll(w).events
<1> DEFINE m == Append(w, "LF")
           ls == CompleteLines(m)
           p == FoldLeft(ConsumeLine, NothingParsed, ls)
           nil == <<>>
           r == ReadAll(w)
<1>0. "LF" \in Tokens /\ nil \in Bytes /\ w \in Seq(Tokens) BY DEF Tokens, Bytes
<1>1. m \in Bytes /\ ~Pending(m) BY <1>0, SettledOn
<1>2. Tracks(nil, nil, NothingParsed, nil)
  <2>1. SoFar(nil) = NothingRead /\ ~Pending(nil) BY SettledOfNothing
  <2>2. SoFar(nil).sound /\ SoFar(nil).line = nil /\ SoFar(nil).data = nil /\ SoFar(nil).events = nil
    BY <2>1 DEF NothingRead
  <2>3. Held(nil) = nil BY <2>1, <2>2 DEF Held
  <2> HIDE DEF nil
  <2>4. Tracks(nil, nil, [data |-> nil, events |-> <<>>], nil) BY <1>0, <2>2, <2>3, HeldTracks
  <2> QED BY <2>4 DEF NothingParsed, nil
<1>3. Tracks(m, m, NothingParsed, nil)
  <2>1. nil \o m = m BY <1>1 DEF Bytes
  <2>2. nil \in EventLists BY DEF EventLists
  <2> HIDE DEF nil, m
  <2> QED BY <1>0, <1>1, <1>2, <2>1, <2>2, NothingParsedTyped, TracksChunk
<1>4. ls \in Lines /\ Prepends(Parsed(SoFar(m)), p, nil) BY <1>3 DEF Tracks
<1>5. p.events \in Seq(Events)
  <2>1. ls \in Seq(Text) BY <1>4 DEF Lines
  <2>2. p \in ParseStates BY <2>1, NothingParsedTyped, Consuming
  <2> QED BY <2>2 DEF ParseStates, EventLists
<1>6. SoFar(m) = ReadByte(r, "LF") /\ r \in ReadStates
  <2>1. SoFar(m) = ReadAll(m) BY <1>1, SettledTyped
  <2> QED BY <1>0, <2>1, Reading
<1>7. r.line = <<>> /\ r.data = <<>> BY DEF IsComplete
<1> HIDE DEF r, m, p
<1>8. Parsed(ReadByte(r, "LF")) = Parsed(r)
  <2>1. CASE r.afterCR BY <1>0, <1>6, <2>1, ReadByteKinds DEF Stays
  <2>2. CASE ~r.afterCR
    <3>1. Parsed(ReadByte(r, "LF")) = ConsumeLine(Parsed(r), <<>>)
      BY <1>0, <1>6, <1>7, <2>2, ReadByteKinds DEF EndsLine
    <3>2. Parsed(r) \in ParseStates /\ Parsed(r).data = <<>> BY <1>6, <1>7, StateTyped
    <3>3. <<>> \in Text BY DEF Text
    <3>4. ConsumeLine(Parsed(r), <<>>) = DispatchEvent(Parsed(r))
      BY <3>2, <3>3, ConsumeLineKinds
    <3> QED BY <3>1, <3>2, <3>4 DEF DispatchEvent
  <2> QED BY <2>1, <2>2
<1>9. Parsed(r).events = r.events BY DEF Parsed
<1>10. nil \o p.events = p.events BY <1>5
<1> QED BY <1>4, <1>6, <1>8, <1>9, <1>10 DEF Prepends, r, m, p

(* A recording without its comments is the recording of the stream without *)
(* its comments, wherever in the stream they stood.                        *)
THEOREM CommentsNeverTouchDataAlways == Spec => []CommentsNeverTouchData
<1>1. IInv => CommentsNeverTouchData
  <2> SUFFICES ASSUME IInv, stage = "recorded"
               PROVE  CanonicalizeEvents(events, TRUE)
                        = ReadAll(WithoutComments(raw_transcript)).events
    BY DEF CommentsNeverTouchData
  <2> DEFINE w == raw_transcript
             ls == CompleteLines(Append(w, "LF"))
             p == FoldLeft(ConsumeLine, NothingParsed, ls)
  <2>1. w \in Bytes /\ IsComplete(ReadAll(w)) /\ events = ReadAll(w).events
    BY DEF IInv, RecorderTypeOK, ChunkingNeverShows
  <2>2. ls \in Lines /\ p.events = events BY <2>1, LinesOfComplete
  <2>3. Keeps(Parsed(ReadAll(Copied(ls))), p) BY <2>2, ReadingCopied
  <2>4. CanonicalizeEvents(events, TRUE) = Kept(p.events)
    BY <2>2 DEF CanonicalizeEvents, Kept
  <2>5. WithoutComments(w) = Copied(ls) BY DEF WithoutComments, Copied
  <2>6. Parsed(ReadAll(Copied(ls))).events = ReadAll(Copied(ls)).events BY DEF Parsed
  <2> HIDE DEF ls, p
  <2> QED BY <2>3, <2>4, <2>5, <2>6 DEF Keeps
<1> QED BY <1>1, Invariance, PTL

-----------------------------------------------------------------------------
(* What is UTF-8 in lines stays so in the events they make.                *)
LEMMA ValidConcat ==
  ASSUME NEW a \in Bytes, NEW b \in Bytes, ValidUtf8(a), ValidUtf8(b)
  PROVE  a \o b \in Bytes /\ ValidUtf8(a \o b)
<1> DEFINE c == a \o b
           n == Len(a)
           m == Len(b)
<1>1. /\ a \in Seq(Tokens) /\ b \in Seq(Tokens) /\ n \in Nat /\ m \in Nat
      /\ DOMAIN a = 1..n /\ DOMAIN b = 1..m
  BY DEF Bytes
<1>2. /\ c \in Seq(Tokens) /\ Len(c) = n + m /\ DOMAIN c = 1..(n + m)
      /\ \A k \in 1..n : c[k] = a[k]
  BY <1>1, ConcatElements
<1>3. \A k \in (n + 1)..(n + m) : c[k] = b[k - n] BY <1>1, ConcatElements
<1> HIDE DEF c, n, m
<1>4. ASSUME NEW i \in DOMAIN c
      PROVE  /\ c[i] = "lead" => i < Len(c) /\ c[i + 1] = "cont"
             /\ c[i] = "cont" => i > 1 /\ c[i - 1] = "lead"
  <2>1. CASE i \in 1..n
    <3>1. /\ a[i] = "lead" => i < n /\ a[i + 1] = "cont"
          /\ a[i] = "cont" => i > 1 /\ a[i - 1] = "lead"
      BY <1>1, <2>1 DEF ValidUtf8, n
    <3>2. i < n => i + 1 \in 1..n BY <1>1, <2>1
    <3>3. i > 1 => i - 1 \in 1..n BY <1>1, <2>1
    <3>4. i < n => i < n + m BY <1>1, <2>1
    <3> QED BY <1>2, <2>1, <3>1, <3>2, <3>3, <3>4
  <2>2. CASE i \notin 1..n
    <3> DEFINE j == i - n
    <3>1. j \in 1..m /\ i \in (n + 1)..(n + m) /\ i = j + n BY <1>1, <1>2, <2>2
    <3> HIDE DEF j
    <3>2. /\ b[j] = "lead" => j < m /\ b[j + 1] = "cont"
          /\ b[j] = "cont" => j > 1 /\ b[j - 1] = "lead"
      BY <1>1, <3>1 DEF ValidUtf8, m
    <3>3. c[i] = b[j] 
      <4>1. i - n = j BY <1>1, <3>1
      <4> QED BY <1>3, <3>1, <4>1
    <3>4. j < m => i + 1 \in (n + 1)..(n + m) /\ (i + 1) - n = j + 1 /\ i < n + m
      BY <1>1, <3>1
    <3>5. j > 1 => i - 1 \in (n + 1)..(n + m) /\ (i - 1) - n = j - 1 /\ i > 1
      BY <1>1, <3>1
    <3>6. j < m => c[i + 1] = b[j + 1] BY <1>3, <3>4
    <3>7. j > 1 => c[i - 1] = b[j - 1] BY <1>3, <3>5
    <3> QED BY <1>2, <3>2, <3>3, <3>4, <3>5, <3>6, <3>7
  <2> QED BY <2>1, <2>2
<1>5. ValidUtf8(c) BY <1>4 DEF ValidUtf8
<1> QED BY <1>2, <1>5 DEF Bytes, c

(* Cut behind what does not begin a character, the rest is UTF-8 still.    *)
LEMMA ValidAfter ==
  ASSUME NEW l \in Bytes, ValidUtf8(l), NEW d \in 1..Len(l), l[d] # "lead"
  PROVE  ValidUtf8(SubSeq(l, d + 1, Len(l)))
<1> DEFINE u == SubSeq(l, d + 1, Len(l))
           n == Len(l)
<1>1. l \in Seq(Tokens) /\ n \in Nat /\ DOMAIN l = 1..n /\ d \in Nat /\ d <= n BY DEF Bytes
<1>2. u \in Seq(Tokens) /\ Len(u) = n - d /\ \A i \in 1..(n - d) : u[i] = l[i + d]
  <2>1. n <= Len(l) BY <1>1
  <2> HIDE DEF n
  <2>2. /\ SubSeq(l, d + 1, n) \in Seq(Tokens) /\ Len(SubSeq(l, d + 1, n)) = n - d
        /\ \A i \in 1..(n - d) : SubSeq(l, d + 1, n)[i] = l[i + d]
    BY <1>1, <2>1, PartOf
  <2> QED BY <2>2 DEF n
<1> HIDE DEF u, n
<1>3. DOMAIN u = 1..(n - d) BY <1>2
<1>4. ASSUME NEW i \in 1..(n - d)
      PROVE  /\ u[i] = "lead" => i < n - d /\ u[i + 1] = "cont"
             /\ u[i] = "cont" => i > 1 /\ u[i - 1] = "lead"
  <2>1. i + d \in 1..n /\ (i + d) + 1 = (i + 1) + d /\ (i + d) - 1 = (i - 1) + d
    BY <1>1
  <2>2. /\ l[i + d] = "lead" => i + d < n /\ l[(i + d) + 1] = "cont"
        /\ l[i + d] = "cont" => i + d > 1 /\ l[(i + d) - 1] = "lead"
    BY <1>1, <2>1 DEF ValidUtf8, n
  <2>3. i + d < n => i < n - d /\ i + 1 \in 1..(n - d) BY <1>1
  <2>4. i > 1 => i - 1 \in 1..(n - d) BY <1>1
  <2>5. i = 1 => (i - 1) + d = d BY <1>1
  <2>6. i > 1 \/ i = 1 OBVIOUS
  <2>7. u[i] = l[i + d] BY <1>2
  <2>8. u[i] = "lead" => i < n - d /\ u[i + 1] = "cont"
    BY <1>2, <2>1, <2>2, <2>3, <2>7
  <2>9. u[i] = "cont" => i > 1 /\ u[i - 1] = "lead"
    BY <1>2, <2>1, <2>2, <2>4, <2>5, <2>6, <2>7
  <2> QED BY <2>8, <2>9
<1>5. ValidUtf8(u) BY <1>2, <1>3, <1>4 DEF ValidUtf8
<1> QED BY <1>5 DEF u, n

LEMMA ValidNothing == ValidUtf8(<<>>) /\ ValidUtf8(<<"LF">>)
<1>1. ValidUtf8(<<>>) BY DEF ValidUtf8
<1>2. ValidUtf8(<<"LF">>)
  <2>1. DOMAIN <<"LF">> = {1} /\ <<"LF">>[1] = "LF" OBVIOUS
  <2> QED BY <2>1 DEF ValidUtf8
<1> QED BY <1>1, <1>2

LEMMA ValidPieces ==
  ASSUME NEW l \in Text, ValidUtf8(l)
  PROVE  /\ ValidUtf8(StripOptionalSpace(l))
         /\ IsCommentLine(l) => ValidUtf8(StripOptionalSpace(Tail(l)))
         /\ l # <<>> /\ IsDataField(l) => ValidUtf8(DataValue(l))
<1>1. ASSUME NEW v \in Text, v # <<>>, ValidUtf8(v), v[1] # "lead"
      PROVE  Tail(v) \in Text /\ ValidUtf8(Tail(v))
  <2>1. v \in Bytes /\ v \in Seq(LineTokens) BY TextIsPlain DEF Text
  <2>2. 1 \in 1..Len(v) BY <1>1, <2>1
  <2>3. ValidUtf8(SubSeq(v, 1 + 1, Len(v))) BY <1>1, <2>1, <2>2, ValidAfter
  <2>4. Tail(v) = SubSeq(v, 1 + 1, Len(v)) BY <1>1, <2>1
  <2> QED BY <1>1, <2>3, <2>4, PiecesOfText
<1>2. ASSUME NEW v \in Text, ValidUtf8(v)
      PROVE  ValidUtf8(StripOptionalSpace(v))
  <2>1. CASE v # <<>> /\ v[1] = "space"
    <3>1. ValidUtf8(Tail(v)) BY <1>1, <1>2, <2>1
    <3> QED BY <2>1, <3>1 DEF StripOptionalSpace
  <2>2. CASE ~(v # <<>> /\ v[1] = "space") BY <1>2, <2>2 DEF StripOptionalSpace
  <2> QED BY <2>1, <2>2
<1>3. ASSUME IsCommentLine(l) PROVE ValidUtf8(StripOptionalSpace(Tail(l)))
  <2>1. l # <<>> /\ l[1] # "lead" BY <1>3 DEF IsCommentLine
  <2> QED BY <1>1, <1>2, <2>1
<1>4. ASSUME l # <<>>, IsDataField(l) PROVE ValidUtf8(DataValue(l))
  <2> DEFINE u == SubSeq(l, 3, Len(l))
  <2>1. l \in Bytes /\ l \in Seq(LineTokens) BY TextIsPlain DEF Text
  <2>2. u \in Text BY <2>1 DEF Text
  <2>3. ValidUtf8(u)
    <3>1. CASE Len(l) > 1
      <4>1. 2 \in 1..Len(l) /\ l[2] # "lead" BY <1>4, <2>1, <3>1 DEF IsDataField
      <4>2. ValidUtf8(SubSeq(l, 2 + 1, Len(l))) BY <2>1, <4>1, ValidAfter
      <4> QED BY <4>2
    <3>2. CASE ~(Len(l) > 1)
      <4>1. u = <<>> BY <2>1, <3>2
      <4> QED BY <4>1, ValidNothing
    <3> QED BY <3>1, <3>2
  <2> HIDE DEF u
  <2>4. ValidUtf8(StripOptionalSpace(u)) BY <1>2, <2>2, <2>3
  <2> QED BY <2>4 DEF DataValue, u
<1> QED BY <1>2, <1>3, <1>4

LEMMA AllValidOn ==
  ASSUME NEW ls \in Lines, NEW l \in Text
  PROVE  AllValid(Append(ls, l)) <=> AllValid(ls) /\ ValidUtf8(l)
<1> DEFINE ms == Append(ls, l)
<1>1. ls \in Seq(Text) BY DEF Lines
<1>2. /\ DOMAIN ls = 1..Len(ls) /\ DOMAIN ms = 1..(Len(ls) + 1) /\ Len(ls) \in Nat
      /\ \A k \in 1..Len(ls) : ms[k] = ls[k]
      /\ ms[Len(ls) + 1] = l
  BY <1>1
<1>3. \A k : k \in DOMAIN ms <=> k \in DOMAIN ls \/ k = Len(ls) + 1 BY <1>2
<1> QED BY <1>2, <1>3 DEF AllValid

LEMMA ValidJoined ==
  ASSUME NEW ls \in Lines, ls # <<>>, AllValid(ls)
  PROVE  ValidUtf8(JoinLines(ls))
<1> DEFINE G == {k \in Lines : k # <<>> /\ AllValid(k) => ValidUtf8(JoinLines(k))}
<1>1. <<>> \in G BY DEF Lines
<1>2. \A k \in Lines : \A l \in Text : k \in G => Append(k, l) \in G
  <2> SUFFICES ASSUME NEW k \in Lines, NEW l \in Text,
                      k # <<>> /\ AllValid(k) => ValidUtf8(JoinLines(k))
               PROVE  /\ Append(k, l) \in Lines
                      /\ AllValid(Append(k, l)) => ValidUtf8(JoinLines(Append(k, l)))
    OBVIOUS
  <2>1. Append(k, l) \in Lines BY DEF Lines
  <2>2. ASSUME AllValid(Append(k, l)) PROVE ValidUtf8(JoinLines(Append(k, l)))
    <3>1. AllValid(k) /\ ValidUtf8(l) BY <2>2, AllValidOn
    <3>2. CASE k = <<>> BY <3>1, <3>2, Joining
    <3>3. CASE k # <<>>
      <4> DEFINE j == JoinLines(k)
      <4>1. j \in Bytes /\ l \in Bytes /\ <<"LF">> \in Bytes
        BY <3>3, JoinedLines, TextIsPlain DEF Bytes, Tokens
      <4>2. ValidUtf8(j) BY <3>1, <3>3
      <4> HIDE DEF j
      <4>3. j \o <<"LF">> \in Bytes /\ ValidUtf8(j \o <<"LF">>)
        BY <4>1, <4>2, ValidConcat, ValidNothing
      <4>4. ValidUtf8(j \o <<"LF">> \o l) BY <3>1, <4>1, <4>3, ValidConcat
      <4> QED BY <3>3, <4>4, Joining DEF j
    <3> QED BY <3>2, <3>3
  <2> QED BY <2>1, <2>2
<1> HIDE DEF G
<1>3. Lines \subseteq G BY <1>1, <1>2, InductionOnSequences DEF Lines
<1> QED BY <1>3 DEF G

ValidTexts(es) == \A k \in DOMAIN es : ValidUtf8(es[k].text)
ValidParse(p) == AllValid(p.data) /\ ValidTexts(p.events)

LEMMA ValidTextsOn ==
  ASSUME NEW es \in EventLists, NEW e \in Events
  PROVE  ValidTexts(Append(es, e)) <=> ValidTexts(es) /\ ValidUtf8(e.text)
<1> DEFINE ms == Append(es, e)
<1>1. es \in Seq(Events) BY DEF EventLists
<1>2. /\ DOMAIN es = 1..Len(es) /\ DOMAIN ms = 1..(Len(es) + 1) /\ Len(es) \in Nat
      /\ \A k \in 1..Len(es) : ms[k] = es[k]
      /\ ms[Len(es) + 1] = e
  BY <1>1
<1>3. \A k : k \in DOMAIN ms <=> k \in DOMAIN es \/ k = Len(es) + 1 BY <1>2
<1> QED BY <1>2, <1>3 DEF ValidTexts

LEMMA ConsumeValid ==
  ASSUME NEW p \in ParseStates, ValidParse(p), NEW l \in Text, ValidUtf8(l)
  PROVE  ValidParse(ConsumeLine(p, l))
<1>1. p.data \in Lines /\ p.events \in EventLists /\ AllValid(p.data) /\ ValidTexts(p.events)
  BY DEF ParseStates, ValidParse
<1>2. AllValid(<<>>) BY DEF AllValid
<1>3. CASE l = <<>>
  <2>1. ConsumeLine(p, l) = DispatchEvent(p) BY <1>3, ConsumeLineKinds
  <2>2. CASE p.data = <<>> BY <2>1, <2>2 DEF DispatchEvent
  <2>3. CASE p.data # <<>>
    <3> DEFINE e == Data(JoinLines(p.data))
    <3>1. e \in Events
      <4>1. JoinLines(p.data) \in Texts BY <1>1, <2>3, JoinedLines
      <4> QED BY <4>1 DEF Data, Events, DataEvents
    <3>2. ValidUtf8(e.text) BY <1>1, <2>3, ValidJoined DEF Data
    <3>3. DispatchEvent(p) = [data |-> <<>>, events |-> Append(p.events, e)]
      BY <2>3 DEF DispatchEvent
    <3> HIDE DEF e
    <3>4. ConsumeLine(p, l).data = <<>> /\ ConsumeLine(p, l).events = Append(p.events, e)
      BY <2>1, <3>3
    <3>5. ValidTexts(Append(p.events, e)) BY <1>1, <3>1, <3>2, ValidTextsOn
    <3> QED BY <1>2, <3>4, <3>5 DEF ValidParse
  <2> QED BY <2>2, <2>3
<1>4. CASE IsCommentLine(l)
  <2> DEFINE e == Comment(StripOptionalSpace(Tail(l)))
  <2>1. /\ e \in Events
        /\ ConsumeLine(p, l) = [data |-> p.data, events |-> Append(p.events, e)]
    BY <1>4, ConsumeLineKinds
  <2>2. ValidUtf8(e.text) BY <1>4, ValidPieces DEF Comment
  <2> HIDE DEF e
  <2>3. ConsumeLine(p, l).data = p.data /\ ConsumeLine(p, l).events = Append(p.events, e)
    BY <2>1
  <2>4. ValidTexts(Append(p.events, e)) BY <1>1, <2>1, <2>2, ValidTextsOn
  <2> QED BY <1>1, <2>3, <2>4 DEF ValidParse
<1>5. CASE l # <<>> /\ IsDataField(l) /\ ~IsCommentLine(l)
  <2> DEFINE v == DataValue(l)
  <2>1. ConsumeLine(p, l) = [data |-> Append(p.data, v), events |-> p.events]
    BY <1>5, ConsumeLineKinds
  <2>2. v \in Text /\ ValidUtf8(v) BY <1>5, PiecesOfText, ValidPieces
  <2> HIDE DEF v
  <2>3. ConsumeLine(p, l).data = Append(p.data, v) /\ ConsumeLine(p, l).events = p.events
    BY <2>1
  <2>4. AllValid(Append(p.data, v)) BY <1>1, <2>2, AllValidOn
  <2> QED BY <1>1, <2>3, <2>4 DEF ValidParse
<1>6. CASE l # <<>> /\ ~IsDataField(l) /\ ~IsCommentLine(l)
  <2>1. ConsumeLine(p, l) = p BY <1>6, ConsumeLineKinds
  <2> QED BY <2>1
<1> QED BY <1>3, <1>4, <1>5, <1>6 DEF IsCommentLine

(* A sound reading has only text in UTF-8. *)
LEMMA SoundIsValid ==
  ASSUME NEW w \in Bytes, ReadAll(w).sound
  PROVE  ValidParse(Parsed(ReadAll(w)))
<1> DEFINE G == {s \in Bytes : ReadAll(s).sound => ValidParse(Parsed(ReadAll(s)))}
<1>1. <<>> \in G
  <2>1. ReadAll(<<>>) = NothingRead /\ <<>> \in Bytes
    BY SettledOfNothing, Reading DEF Bytes
  <2>2. ValidParse(NothingParsed)
    BY NothingParsedTyped DEF ValidParse, AllValid, ValidTexts
  <2> QED BY <2>1, <2>2, NothingParsedTyped
<1>2. \A s \in Bytes : \A t \in Tokens : s \in G => Append(s, t) \in G
  <2> SUFFICES ASSUME NEW s \in Bytes, NEW t \in Tokens,
                      ReadAll(s).sound => ValidParse(Parsed(ReadAll(s)))
               PROVE  /\ Append(s, t) \in Bytes
                      /\ ReadAll(Append(s, t)).sound => ValidParse(Parsed(ReadAll(Append(s, t))))
    OBVIOUS
  <2> DEFINE r == ReadAll(s)
             n == ReadByte(r, t)
  <2>1. ReadAll(Append(s, t)) = n /\ r \in ReadStates /\ Append(s, t) \in Bytes
    BY Reading, SettledOn DEF Bytes
  <2>2. r.line \in Text /\ Parsed(r) \in ParseStates BY <2>1, StateTyped
  <2>3. t \in LineTokens => Continues(n, r, t) BY <2>1, ReadByteKinds
  <2>4. t = "LF" /\ r.afterCR => Stays(n, r) BY <2>1, ReadByteKinds
  <2>5. t = "CR" \/ (t = "LF" /\ ~r.afterCR) => EndsLine(n, r) BY <2>1, ReadByteKinds
  <2>6. t \in LineTokens \/ t = "CR" \/ t = "LF" BY DEF LineTokens, Terminators
  <2>7. r.sound => ValidParse(Parsed(r)) OBVIOUS
  <2> HIDE DEF n, r
  <2>8. CASE Continues(n, r, t) \/ Stays(n, r)
    <3>1. n.sound = r.sound /\ Parsed(n) = Parsed(r) BY <2>8 DEF Continues, Stays
    <3> QED BY <2>1, <2>7, <3>1
  <2>9. CASE EndsLine(n, r)
    <3>1. n.sound = (r.sound /\ ValidUtf8(r.line)) /\ Parsed(n) = ConsumeLine(Parsed(r), r.line)
      BY <2>9 DEF EndsLine
    <3>2. n.sound => r.sound /\ ValidUtf8(r.line) BY <3>1, Zenon
    <3>3. n.sound => ValidParse(ConsumeLine(Parsed(r), r.line))
      BY <2>2, <2>7, <3>2, ConsumeValid
    <3> QED BY <2>1, <3>1, <3>3
  <2> QED BY <2>3, <2>4, <2>5, <2>6, <2>8, <2>9
<1> HIDE DEF G
<1>3. Bytes \subseteq G BY <1>1, <1>2, InductionOnSequences DEF Bytes
<1> QED BY <1>3 DEF G

-----------------------------------------------------------------------------
(* Reading back what was serialized: the lines of an event in its framing. *)
Framed(prefix, text) ==
  FoldLeft(LAMBDA bytes, t :
             IF t = "LF" THEN bytes \o <<"LF">> \o prefix ELSE Append(bytes, t),
           prefix, text)

FrameStep(prefix) ==
  [p \in Bytes \X Tokens |->
     IF p[2] = "LF" THEN p[1] \o <<"LF">> \o prefix ELSE Append(p[1], p[2])]

LEMMA Framing ==
  ASSUME NEW prefix \in Bytes, NEW s \in Seq(Tokens)
  PROVE  /\ Framed(prefix, <<>>) = prefix /\ Framed(prefix, s) \in Bytes
         /\ \A x \in Tokens : Framed(prefix, Append(s, x)) = (IF x = "LF" THEN Framed(prefix, s) \o <<"LF">> \o prefix ELSE Append(Framed(prefix, s), x))
<1>1. FrameStep(prefix) \in Steps(Tokens, Bytes) /\ prefix \in Bytes
  <2> SUFFICES ASSUME NEW a \in Bytes, NEW x \in Tokens
               PROVE  (IF x = "LF" THEN a \o <<"LF">> \o prefix ELSE Append(a, x)) \in Bytes
    BY DEF FrameStep, Steps
  <2>1. <<"LF">> \in Bytes BY DEF Bytes, Tokens
  <2>2. a \o <<"LF">> \o prefix \in Bytes BY <2>1 DEF Bytes
  <2>3. Append(a, x) \in Bytes BY DEF Bytes
  <2> QED BY <2>2, <2>3
<1>2. ASSUME NEW q \in Seq(Tokens)
      PROVE  Framed(prefix, q) = Folded(FrameStep(prefix), prefix, q)
  <2> DEFINE N == 1..Len(q)
             StepOn(t, U) == (IF q[Max(U)] = "LF"
                              THEN t[U \ {Max(U)}] \o <<"LF">> \o prefix
                              ELSE Append(t[U \ {Max(U)}], q[Max(U)]))
             IsFold(t) == t = [U \in SUBSET DOMAIN q |-> IF U = {} THEN prefix ELSE StepOn(t, U)]
             c == CHOOSE t : IsFold(t)
  <2>0. DOMAIN q = N OBVIOUS
  <2>1. PICK f \in Tables(q, Bytes) : IsTable(f, FrameStep(prefix), prefix, q)
    BY <1>1, FoldHasTable
  <2>2. \A U \in SUBSET N : f[U] = IF U = {} THEN prefix ELSE StepOn(f, U)
    BY <2>1, TablesAreTyped DEF IsTable, Tables, FrameStep
  <2>3. IsFold(f)
    <3> HIDE DEF StepOn
    <3>1. f = [U \in SUBSET N |-> f[U]] BY DEF Tables
    <3> QED BY <2>0, <2>2, <3>1
  <2>4. IsFold(c) BY <2>3
  <2>5. Framed(prefix, q) = c[DOMAIN q] BY DEF Framed, FoldLeft, MapThenFoldSet
  <2> HIDE DEF c
  <2>6. c[{}] = prefix BY <2>4
  <2>7. TakesSteps(c, Bytes, FrameStep(prefix), q)
    BY <2>0, <2>4, TablesAreTyped DEF FrameStep, TakesSteps
  <2>8. c[N] = Folded(FrameStep(prefix), prefix, q)
    BY <1>1, <2>6, <2>7, WhatFolds
  <2> QED BY <2>0, <2>5, <2>8
<1>3. <<>> \in Seq(Tokens) /\ \A x \in Tokens : Append(s, x) \in Seq(Tokens) OBVIOUS
<1>4. Folded(FrameStep(prefix), prefix, <<>>) = prefix /\ Folded(FrameStep(prefix), prefix, s) \in Bytes
  BY <1>1, FoldingOn
<1>5. ASSUME NEW x \in Tokens
      PROVE  Folded(FrameStep(prefix), prefix, Append(s, x)) = (IF x = "LF" THEN Folded(FrameStep(prefix), prefix, s) \o <<"LF">> \o prefix ELSE Append(Folded(FrameStep(prefix), prefix, s), x))
  <2>1. Folded(FrameStep(prefix), prefix, Append(s, x)) = FrameStep(prefix)[<<Folded(FrameStep(prefix), prefix, s), x>>]
    BY <1>1, FoldingOn
  <2> QED BY <1>4, <2>1 DEF FrameStep
<1> QED BY <1>2, <1>3, <1>4, <1>5

DataPrefix == <<"data", "colon", "space">>
CommentPrefix == <<"colon", "space">>

LEMMA Prefixed ==
  ASSUME NEW v \in Text
  PROVE  /\ DataPrefix \in Text /\ DataPrefix \in Bytes /\ DataPrefix \o v \in Text
         /\ DataPrefix \o v # <<>> /\ ~IsCommentLine(DataPrefix \o v)
         /\ IsDataField(DataPrefix \o v) /\ DataValue(DataPrefix \o v) = v
         /\ ValidUtf8(v) => ValidUtf8(DataPrefix \o v)
         /\ CommentPrefix \in Bytes /\ CommentPrefix \o v \in Text
         /\ IsCommentLine(CommentPrefix \o v)
         /\ StripOptionalSpace(Tail(CommentPrefix \o v)) = v
         /\ ValidUtf8(v) => ValidUtf8(CommentPrefix \o v)
<1> DEFINE p == DataPrefix
           c == CommentPrefix
           l == p \o v
           k == c \o v
           s == <<"space">> \o v
           n == Len(v)
<1>1. v \in Seq(LineTokens) /\ n \in Nat /\ v \in Bytes BY TextIsPlain DEF Text
<1>2. "data" \in LineTokens /\ "colon" \in LineTokens /\ "space" \in LineTokens
  BY DEF LineTokens, Tokens, Terminators
<1>3. /\ p \in Seq(LineTokens) /\ Len(p) = 3
      /\ p[1] = "data" /\ p[2] = "colon" /\ p[3] = "space"
  BY <1>2 DEF DataPrefix
<1>4. /\ c \in Seq(LineTokens) /\ Len(c) = 2 /\ c[1] = "colon" /\ c[2] = "space"
  BY <1>2 DEF CommentPrefix
<1>5. p \in Text /\ p \in Bytes /\ c \in Text /\ c \in Bytes
  <2>1. p \in Text /\ c \in Text BY <1>3, <1>4 DEF Text
  <2> QED BY <2>1, TextIsPlain
<1>6. /\ s \in Seq(LineTokens) /\ Len(s) = n + 1 /\ s[1] = "space" /\ Tail(s) = v /\ s # <<>>
  <2>1. /\ s \in Seq(LineTokens) /\ Len(s) = n + 1 /\ s[1] = "space"
        /\ \A i \in 1..n : s[i + 1] = v[i]
    BY <1>1, <1>2
  <2> HIDE DEF s, n
  <2>2. s # <<>> BY <1>1, <2>1
  <2>3. Tail(s) \in Seq(LineTokens) /\ Len(Tail(s)) = n /\ \A i \in 1..n : Tail(s)[i] = s[i + 1]
    BY <1>1, <2>1, <2>2
  <2>4. \A i \in 1..Len(Tail(s)) : Tail(s)[i] = v[i] BY <2>1, <2>3
  <2>5. Tail(s) = v BY <1>1, <2>3, <2>4, SeqEqual DEF n
  <2> QED BY <2>1, <2>2, <2>5
<1>7. StripOptionalSpace(s) = v BY <1>6 DEF StripOptionalSpace
<1> HIDE DEF p, c
<1>8. /\ l \in Seq(LineTokens) /\ Len(l) = n + 3 /\ l[1] = "data" /\ l[2] = "colon"
      /\ l[3] = "space"
  <2>1. l \in Seq(LineTokens) /\ Len(l) = Len(p) + n /\ \A i \in 1..Len(p) : l[i] = p[i]
    BY <1>1, <1>3, ConcatElements
  <2> HIDE DEF l
  <2>2. 1 \in 1..3 /\ 2 \in 1..3 /\ 3 \in 1..3 OBVIOUS
  <2> QED BY <1>1, <1>3, <2>1, <2>2
<1>80. \A i \in 1..n : l[i + 3] = v[i]
  <2>1. \A i \in (Len(p) + 1)..(Len(p) + n) : l[i] = v[i - Len(p)]
    BY <1>1, <1>3, ConcatElements
  <2> HIDE DEF l
  <2> SUFFICES ASSUME NEW i \in 1..n PROVE l[i + 3] = v[i] OBVIOUS
  <2>2. i + 3 \in (Len(p) + 1)..(Len(p) + n) /\ (i + 3) - Len(p) = i
    BY <1>1, <1>3
  <2>3. l[i + 3] = v[(i + 3) - Len(p)] BY <2>1, <2>2
  <2> QED BY <2>2, <2>3
<1>9. /\ k \in Seq(LineTokens) /\ Len(k) = n + 2 /\ k[1] = "colon" /\ k[2] = "space"
  <2>1. k \in Seq(LineTokens) /\ Len(k) = Len(c) + n /\ \A i \in 1..Len(c) : k[i] = c[i]
    BY <1>1, <1>4, ConcatElements
  <2> HIDE DEF k
  <2>2. 1 \in 1..2 /\ 2 \in 1..2 OBVIOUS
  <2> QED BY <1>1, <1>4, <2>1, <2>2
<1>90. \A i \in 1..n : k[i + 2] = v[i]
  <2>1. \A i \in (Len(c) + 1)..(Len(c) + n) : k[i] = v[i - Len(c)]
    BY <1>1, <1>4, ConcatElements
  <2> HIDE DEF k
  <2> SUFFICES ASSUME NEW i \in 1..n PROVE k[i + 2] = v[i] OBVIOUS
  <2>2. i + 2 \in (Len(c) + 1)..(Len(c) + n) /\ (i + 2) - Len(c) = i
    BY <1>1, <1>4
  <2>3. k[i + 2] = v[(i + 2) - Len(c)] BY <2>1, <2>2
  <2> QED BY <2>2, <2>3
<1>10. \A i \in 2..(n + 1) : s[i] = v[i - 1]
  <2> SUFFICES ASSUME NEW i \in 2..(n + 1) PROVE s[i] = v[i - 1] OBVIOUS
  <2>1. i - 1 \in 1..n BY <1>1
  <2> QED BY <1>1, <1>2, <2>1
<1> HIDE DEF l, k, s
<1>11. SubSeq(l, 3, Len(l)) = s
  <2> DEFINE u == SubSeq(l, 2 + 1, Len(l))
             m == n + 3
  <2>1. Len(l) = m /\ m \in Nat /\ 2 <= m /\ m - 2 = n + 1 BY <1>1, <1>8
  <2> HIDE DEF m
  <2>2. u \in Seq(LineTokens) /\ Len(u) = m - 2 /\ \A i \in 1..(m - 2) : u[i] = l[i + 2]
    <3>1. Len(l) \in Nat /\ 2 <= Len(l) /\ 2 \in Nat BY <2>1
    <3>2. /\ u \in Seq(LineTokens) /\ Len(u) = Len(l) - 2
          /\ \A i \in 1..(Len(l) - 2) : u[i] = l[i + 2]
      BY <1>8, <3>1, PartOf
    <3> HIDE DEF u
    <3> QED BY <2>1, <3>2
  <2> HIDE DEF u
  <2>3. \A i \in 1..Len(u) : u[i] = s[i]
    <3> SUFFICES ASSUME NEW i \in 1..(n + 1) PROVE l[i + 2] = s[i]
      BY <2>1, <2>2
    <3>1. CASE i = 1 BY <1>6, <1>8, <3>1
    <3>2. CASE i # 1
      <4>1. i - 1 \in 1..n /\ (i - 1) + 3 = i + 2 /\ i \in 2..(n + 1) BY <1>1, <3>2
      <4> QED BY <1>80, <1>10, <4>1
    <3> QED BY <3>1, <3>2
  <2>4. u = s BY <1>6, <2>1, <2>2, <2>3, SeqEqual
  <2> QED BY <2>4 DEF u
<1>12. Tail(k) = s
  <2>1. k # <<>> BY <1>1, <1>9
  <2>2. /\ Tail(k) \in Seq(LineTokens) /\ Len(Tail(k)) = n + 1
        /\ \A i \in 1..(n + 1) : Tail(k)[i] = k[i + 1]
    BY <1>1, <1>9, <2>1
  <2>3. \A i \in 1..Len(Tail(k)) : Tail(k)[i] = s[i]
    <3> SUFFICES ASSUME NEW i \in 1..(n + 1) PROVE k[i + 1] = s[i]
      BY <2>2
    <3>1. CASE i = 1 BY <1>6, <1>9, <3>1
    <3>2. CASE i # 1
      <4>1. i - 1 \in 1..n /\ (i - 1) + 2 = i + 1 /\ i \in 2..(n + 1) BY <1>1, <3>2
      <4> QED BY <1>90, <1>10, <4>1
    <3> QED BY <3>1, <3>2
  <2> QED BY <1>6, <2>2, <2>3, SeqEqual
<1>13. /\ l \in Text /\ l # <<>> /\ ~IsCommentLine(l) /\ IsDataField(l) /\ DataValue(l) = v
  <2>1. l \in Text /\ l # <<>> BY <1>1, <1>8 DEF Text
  <2> QED BY <1>7, <1>8, <1>11, <2>1 DEF IsCommentLine, IsDataField, DataValue
<1>14. /\ k \in Text /\ IsCommentLine(k) /\ StripOptionalSpace(Tail(k)) = v
  <2>1. k \in Text /\ k # <<>> BY <1>1, <1>9 DEF Text
  <2> QED BY <1>7, <1>9, <1>12, <2>1 DEF IsCommentLine
<1>15. ValidUtf8(p) /\ ValidUtf8(c)
  <2>1. DOMAIN p = 1..3 /\ \A i \in 1..3 : p[i] # "lead" /\ p[i] # "cont"
    <3>1. \A i \in 1..3 : i = 1 \/ i = 2 \/ i = 3 OBVIOUS
    <3> QED BY <1>3, <3>1
  <2>2. DOMAIN c = 1..2 /\ \A i \in 1..2 : c[i] # "lead" /\ c[i] # "cont"
    <3>1. \A i \in 1..2 : i = 1 \/ i = 2 OBVIOUS
    <3> QED BY <1>4, <3>1
  <2> QED BY <2>1, <2>2 DEF ValidUtf8
<1>16. ValidUtf8(v) => ValidUtf8(l) /\ ValidUtf8(k)
  BY <1>1, <1>5, <1>15, ValidConcat DEF l, k
<1> QED BY <1>5, <1>13, <1>14, <1>16 DEF l, k, p, c

(* The part of a text in UTF-8 may end within a character.                 *)
ValidSoFar(k) ==
  \A i \in DOMAIN k :
    /\ k[i] = "lead" => i = Len(k) \/ k[i + 1] = "cont"
    /\ k[i] = "cont" => i > 1 /\ k[i - 1] = "lead"

LEMMA ValidSoFarOn ==
  ASSUME NEW k \in Bytes
  PROVE  /\ ValidUtf8(k) => ValidSoFar(k)
         /\ \A t \in Tokens :
              ValidSoFar(Append(k, t)) =>
                ValidSoFar(k) /\ (t # "cont" => ValidUtf8(k))
<1>1. k \in Seq(Tokens) /\ DOMAIN k = 1..Len(k) /\ Len(k) \in Nat BY DEF Bytes
<1>2. ValidUtf8(k) => ValidSoFar(k) BY DEF ValidUtf8, ValidSoFar
<1>3. ASSUME NEW t \in Tokens, ValidSoFar(Append(k, t))
      PROVE  ValidSoFar(k) /\ (t # "cont" => ValidUtf8(k))
  <2> DEFINE m == Append(k, t)
             n == Len(k)
  <2>1. /\ DOMAIN m = 1..(n + 1) /\ Len(m) = n + 1 /\ m[n + 1] = t
        /\ \A i \in 1..n : m[i] = k[i]
    BY <1>1
  <2> HIDE DEF m
  <2>2. ASSUME NEW i \in 1..n
        PROVE  /\ k[i] = "lead" => (i = n /\ t = "cont") \/ (i < n /\ k[i + 1] = "cont")
               /\ k[i] = "cont" => i > 1 /\ k[i - 1] = "lead"
    <3>1. i \in 1..(n + 1) /\ i # n + 1 /\ m[i] = k[i] BY <1>1, <2>1
    <3>2. /\ m[i] = "lead" => m[i + 1] = "cont"
          /\ m[i] = "cont" => i > 1 /\ m[i - 1] = "lead"
      BY <1>3, <2>1, <3>1 DEF ValidSoFar, m
    <3>3. i > 1 => i - 1 \in 1..n BY <1>1
    <3>4. i # n => i < n /\ i + 1 \in 1..n
      <4> HIDE DEF n
      <4>1. n \in Nat BY <1>1 DEF n
      <4> QED BY <4>1
    <3>5. k[i] = "cont" => i > 1 /\ k[i - 1] = "lead" BY <2>1, <3>1, <3>2, <3>3
    <3>6. CASE i = n BY <2>1, <3>1, <3>2, <3>5, <3>6
    <3>7. CASE i # n BY <2>1, <3>1, <3>2, <3>4, <3>5, <3>7
    <3> QED BY <3>6, <3>7
  <2>3. ValidSoFar(k) BY <1>1, <2>2 DEF ValidSoFar
  <2>4. t # "cont" => ValidUtf8(k) BY <1>1, <2>2 DEF ValidUtf8
  <2> QED BY <2>3, <2>4
<1> QED BY <1>2, <1>3

(* The last of joined lines, in UTF-8 as they are together.                *)
LEMMA LastLineIsValid ==
  ASSUME NEW ls \in Lines, NEW v \in Text, ValidUtf8(JoinLines(Append(ls, v)))
  PROVE  ValidUtf8(v)
<1>1. CASE ls = <<>> BY <1>1, Joining
<1>2. CASE ls # <<>>
  <2> DEFINE j == JoinLines(ls)
             a == Append(j, "LF")
             k == a \o v
  <2>1. j \in Seq(Tokens) /\ v \in Seq(Tokens) /\ "LF" \in Tokens
    BY <1>2, JoinedLines, TextIsPlain DEF Bytes, Tokens
  <2>2. JoinLines(Append(ls, v)) = k
    <3>1. j \o <<"LF">> = a
      <4> HIDE DEF j
      <4> QED BY <2>1
    <3> QED BY <1>2, <3>1, Joining
  <2> HIDE DEF j
  <2>3. a \in Seq(Tokens) /\ Len(a) \in Nat /\ Len(a) \in 1..Len(a) /\ a[Len(a)] = "LF"
    BY <2>1
  <2> DEFINE d == Len(a)
             n == Len(v)
  <2> HIDE DEF a
  <2>4. k \in Seq(Tokens) /\ Len(k) = d + n /\ n \in Nat /\ k[d] = "LF"
    BY <2>1, <2>3, ConcatElements
  <2>40. \A i \in (d + 1)..(d + n) : k[i] = v[i - d] BY <2>1, <2>3, ConcatElements
  <2>5. k \in Bytes /\ d \in 1..Len(k) /\ k[d] # "lead"
    <3> HIDE DEF k
    <3> QED BY <2>3, <2>4 DEF Bytes
  <2> DEFINE u == SubSeq(k, d + 1, Len(k))
  <2>6. ValidUtf8(u)
    <3> HIDE DEF k, d
    <3> QED BY <2>2, <2>5, ValidAfter
  <2>7. u = v
    <3> HIDE DEF k, d, n
    <3>1. d \in Nat /\ Len(k) \in Nat /\ d <= Len(k) BY <2>3, <2>4, <2>5 DEF d
    <3>2. u \in Seq(Tokens) /\ Len(u) = Len(k) - d /\ \A i \in 1..(Len(k) - d) : u[i] = k[i + d]
      BY <2>4, <3>1, PartOf
    <3>3. Len(k) - d = n BY <2>4, <3>1
    <3> HIDE DEF u
    <3>4. \A i \in 1..Len(u) : u[i] = v[i]
      <4> SUFFICES ASSUME NEW i \in 1..n PROVE u[i] = v[i] BY <3>2, <3>3
      <4>1. i + d \in (d + 1)..(d + n) /\ (i + d) - d = i BY <2>4, <3>1
      <4>2. k[i + d] = v[(i + d) - d] BY <2>40, <4>1
      <4> QED BY <3>2, <3>3, <4>1, <4>2
    <3> QED BY <2>1, <3>2, <3>3, <3>4, SeqEqual DEF n
  <2> QED BY <2>6, <2>7
<1> QED BY <1>1, <1>2

(* An LF ends the line. *)
LEMMA ReadingLF ==
  ASSUME NEW w \in Bytes, ~Pending(w)
  PROVE  LET r == ReadAll(w)
             n == ReadAll(Append(w, "LF"))
         IN  /\ AtLineStart(Append(w, "LF"))
             /\ n.sound = (r.sound /\ ValidUtf8(r.line))
             /\ Parsed(n) = ConsumeLine(Parsed(r), r.line)
<1> DEFINE r == ReadAll(w)
           n == ReadAll(Append(w, "LF"))
<1>1. "LF" \in Tokens BY DEF Tokens
<1>2. Append(w, "LF") \in Bytes /\ ~Pending(Append(w, "LF")) BY <1>1, SettledOn
<1>3. r \in ReadStates /\ n = ReadByte(r, "LF") BY <1>1, Reading DEF Bytes
<1>4. ~r.afterCR BY AfterCRMeansPending
<1> HIDE DEF r, n
<1>5. EndsLine(n, r) BY <1>1, <1>3, <1>4, ReadByteKinds
<1> QED BY <1>2, <1>5 DEF EndsLine, AtLineStart, r, n

(* The reader is in the last line of the text k of an event it reads.      *)
WithinData(r, s, k) ==
  /\ r.events = s.events
  /\ \E v \in Text : r.line = DataPrefix \o v /\ JoinLines(Append(r.data, v)) = k
  /\ s.sound /\ ValidSoFar(k) => r.sound

LEMMA WithinDataOn ==
  ASSUME NEW w \in Bytes, ~Pending(w), NEW s, NEW k \in Texts, WithinData(ReadAll(w), s, k)
  PROVE  /\ \A t \in LineTokens :
              /\ Append(w, t) \in Bytes /\ ~Pending(Append(w, t))
              /\ WithinData(ReadAll(Append(w, t)), s, Append(k, t))
         /\ LET n == ReadAll(Append(w, "LF")) IN
              /\ AtLineStart(Append(w, "LF"))
              /\ n.data # <<>> /\ JoinLines(n.data) = k /\ n.events = s.events
              /\ s.sound /\ ValidUtf8(k) => n.sound
<1> DEFINE r == ReadAll(w)
<1>1. r \in ReadStates /\ r.data \in Lines /\ Parsed(r) \in ParseStates
      /\ Parsed(r).data = r.data /\ Parsed(r).events = r.events
      /\ k \in Bytes
  BY SettledTyped, StateTyped, TextIsPlain
<1>2. PICK v \in Text : r.line = DataPrefix \o v /\ JoinLines(Append(r.data, v)) = k
  BY DEF WithinData
<1>3. r.events = s.events /\ (s.sound /\ ValidSoFar(k) => r.sound) BY DEF WithinData
<1> HIDE DEF r
<1>4. ASSUME NEW t \in LineTokens
      PROVE  /\ Append(w, t) \in Bytes /\ ~Pending(Append(w, t))
             /\ WithinData(ReadAll(Append(w, t)), s, Append(k, t))
  <2> DEFINE n == ReadAll(Append(w, t))
             u == Append(v, t)
  <2>1. t \in Tokens /\ t # "CR" /\ t # "LF" BY DEF LineTokens, Terminators
  <2>2. Append(w, t) \in Bytes /\ ~Pending(Append(w, t)) BY <2>1, SettledOn
  <2>3. Continues(n, r, t)
    <3>1. n = ReadByte(r, t) BY <2>1, Reading DEF Bytes, r
    <3> QED BY <1>1, <3>1, <2>1, ReadByteKinds
  <2>4. u \in Text /\ v \in Seq(LineTokens) BY DEF Text
  <2>5. Append(DataPrefix \o v, t) = DataPrefix \o u
    <3> DEFINE p == DataPrefix
    <3>1. p \in Seq(LineTokens) /\ v \in Seq(LineTokens) BY <2>4, Prefixed DEF Text
    <3> HIDE DEF p
    <3>2. Append(p \o v, t) = p \o Append(v, t) BY ONLY <3>1
    <3> QED BY <3>2 DEF p
  <2>6. JoinLines(Append(r.data, u)) = Append(k, t)
    <3>1. CASE r.data = <<>>
      <4>1. JoinLines(Append(r.data, v)) = v /\ JoinLines(Append(r.data, u)) = u
        BY <1>1, <2>4, <3>1, Joining
      <4> QED BY <1>2, <4>1
    <3>2. CASE r.data # <<>>
      <4> DEFINE j == JoinLines(r.data)
                 a == j \o <<"LF">>
      <4>1. /\ JoinLines(Append(r.data, v)) = a \o v /\ JoinLines(Append(r.data, u)) = a \o u
        BY <1>1, <2>4, <3>2, Joining
      <4>2. j \in Seq(Tokens) /\ v \in Seq(Tokens) /\ t \in Tokens /\ "LF" \in Tokens
        BY <1>1, <2>1, <3>2, JoinedLines, TextIsPlain DEF Bytes, Tokens
      <4> HIDE DEF j
      <4>3. a \in Seq(Tokens) BY <4>2
      <4> HIDE DEF a, u
      <4>4. Append(a \o v, t) = a \o Append(v, t) BY ONLY <4>2, <4>3
      <4> QED BY <1>2, <4>1, <4>4 DEF u
    <3> QED BY <3>1, <3>2
  <2>7. ValidSoFar(Append(k, t)) => ValidSoFar(k) BY <1>1, <2>1, ValidSoFarOn
  <2>8. n.data = r.data /\ n.events = r.events
    <3>1. Parsed(n) = Parsed(r) BY <2>3 DEF Continues
    <3> QED BY <3>1 DEF Parsed
  <2>9. n.line = Append(r.line, t) /\ n.sound = r.sound BY <2>3 DEF Continues
  <2> HIDE DEF n, u
  <2>10. n.line = DataPrefix \o u BY <1>2, <2>5, <2>9
  <2>11. JoinLines(Append(n.data, u)) = Append(k, t) BY <2>6, <2>8
  <2>12. WithinData(n, s, Append(k, t))
    BY <1>3, <2>4, <2>7, <2>8, <2>9, <2>10, <2>11 DEF WithinData
  <2> QED BY <2>2, <2>12 DEF n
<1> DEFINE n == ReadAll(Append(w, "LF"))
           l == DataPrefix \o v
<1>5. AtLineStart(Append(w, "LF")) BY ReadingLF
<1>6. n.sound = (r.sound /\ ValidUtf8(l)) /\ Parsed(n) = ConsumeLine(Parsed(r), l)
  BY <1>2, ReadingLF DEF r
<1>7. ConsumeLine(Parsed(r), l) = [data |-> Append(r.data, v), events |-> r.events]
  <2>1. /\ l \in Text /\ l # <<>> /\ ~IsCommentLine(l) /\ IsDataField(l) /\ DataValue(l) = v
    BY Prefixed
  <2> HIDE DEF l
  <2> QED BY <1>1, <2>1, ConsumeLineKinds
<1> HIDE DEF n
<1>8. n.data = Append(r.data, v) /\ n.events = r.events
  <2>1. Parsed(n).data = Append(r.data, v) /\ Parsed(n).events = r.events BY <1>6, <1>7
  <2> QED BY <2>1 DEF Parsed
<1>9. n.data # <<>>
  <2>1. Append(r.data, v) # <<>> BY <1>1 DEF Lines
  <2> QED BY <1>8, <2>1
<1>10. s.sound /\ ValidUtf8(k) => n.sound
  <2> SUFFICES ASSUME s.sound /\ ValidUtf8(k) PROVE n.sound OBVIOUS
  <2>1. r.sound BY <1>1, <1>3, ValidSoFarOn
  <2>2. ValidUtf8(v) BY <1>1, <1>2, LastLineIsValid
  <2>3. ValidUtf8(l) BY <2>2, Prefixed
  <2> HIDE DEF l
  <2>4. (r.sound /\ ValidUtf8(l)) BY <2>1, <2>3
  <2> QED BY <1>6, <2>4, Zenon
<1> QED BY <1>2, <1>3, <1>4, <1>5, <1>8, <1>9, <1>10 DEF n

LEMMA ReadingData ==
  ASSUME NEW w, AtLineStart(w), ReadAll(w).data = <<>>, NEW text \in Texts
  PROVE  LET v == w \o Framed(DataPrefix, text) IN
         v \in Bytes /\ ~Pending(v) /\ WithinData(ReadAll(v), ReadAll(w), text)
<1> DEFINE s == ReadAll(w)
           f(k) == Framed(DataPrefix, k)
           Good(k) == LET v == w \o f(k) IN
                      v \in Bytes /\ ~Pending(v) /\ WithinData(ReadAll(v), s, k)
           G == {k \in Texts : Good(k)}
<1>1. /\ w \in Bytes /\ w \in Seq(Tokens) /\ ~Pending(w) /\ s \in ReadStates /\ s.line = <<>>
      /\ DataPrefix \in Text /\ DataPrefix \in Bytes /\ s.data = <<>>
  <2>1. <<>> \in Text BY DEF Text
  <2> QED BY <2>1, SettledTyped, Prefixed DEF AtLineStart, Bytes
<1> HIDE DEF s
<1>2. <<>> \in G
  <2> DEFINE v == w \o DataPrefix
             r == ReadAll(v)
             nil == <<>>
  <2>1. nil \in Seq(Tokens) /\ nil \in Text /\ nil \in Texts /\ nil \in Lines
    BY DEF Text, Texts, Lines
  <2>2. f(nil) = DataPrefix BY <1>1, <2>1, Framing
  <2>3. /\ v \in Bytes /\ ~Pending(v)
        /\ r.line = s.line \o DataPrefix /\ r.sound = s.sound /\ Parsed(r) = Parsed(s)
    BY <1>1, ReadingText DEF s
  <2> HIDE DEF r
  <2>4. r.data = <<>> /\ r.events = s.events BY <1>1, <2>3 DEF Parsed
  <2>5. r.line = DataPrefix \o nil
    <3>1. <<>> \o DataPrefix = DataPrefix /\ DataPrefix \o <<>> = DataPrefix
      BY <1>1 DEF Bytes
    <3> QED BY <1>1, <2>3, <3>1
  <2>6. JoinLines(Append(r.data, nil)) = nil BY <2>1, <2>4, Joining
  <2>7. WithinData(r, s, nil) BY <2>1, <2>3, <2>4, <2>5, <2>6 DEF WithinData
  <2> QED BY <2>1, <2>2, <2>3, <2>7 DEF r
<1>3. \A k \in Texts : \A t \in Tokens \ {"CR"} : k \in G => Append(k, t) \in G
  <2> SUFFICES ASSUME NEW k \in Texts, NEW t \in Tokens \ {"CR"}, Good(k)
               PROVE  Append(k, t) \in Texts /\ Good(Append(k, t))
    OBVIOUS
  <2> DEFINE b == f(k)
             v == w \o b
  <2>1. k \in Seq(Tokens) /\ Append(k, t) \in Texts /\ t \in Tokens
    BY TextIsPlain DEF Texts, Bytes
  <2>2. /\ b \in Bytes
        /\ f(Append(k, t)) = IF t = "LF" THEN b \o <<"LF">> \o DataPrefix ELSE Append(b, t)
    BY <1>1, <2>1, Framing
  <2>3. v \in Bytes /\ ~Pending(v) /\ WithinData(ReadAll(v), s, k) OBVIOUS
  <2> HIDE DEF b, f
  <2>4. CASE t # "LF"
    <3>1. t \in LineTokens BY <2>4 DEF LineTokens, Terminators
    <3>2. w \o Append(b, t) = Append(v, t)
      <4>1. w \in Seq(Tokens) /\ b \in Seq(Tokens) /\ t \in Tokens
        BY <1>1, <2>1, <2>2 DEF Bytes
      <4>2. Append(w \o b, t) = w \o Append(b, t) BY ONLY <4>1
      <4> QED BY <4>2
    <3> HIDE DEF v
    <3>3. /\ Append(v, t) \in Bytes /\ ~Pending(Append(v, t))
          /\ WithinData(ReadAll(Append(v, t)), s, Append(k, t))
      BY <2>3, <3>1, WithinDataOn
    <3> QED BY <2>1, <2>2, <2>4, <3>2, <3>3
  <2>5. CASE t = "LF"
    <3> DEFINE m == Append(v, "LF")
               n == ReadAll(m)
               x == m \o DataPrefix
               q == ReadAll(x)
               nil == <<>>
    <3>1. w \o (b \o <<"LF">> \o DataPrefix) = x
      <4> DEFINE p == DataPrefix
      <4>1. w \in Seq(Tokens) /\ b \in Seq(Tokens) /\ p \in Seq(Tokens) /\ "LF" \in Tokens
        BY <1>1, <2>2 DEF Bytes, Tokens
      <4>2. x = Append(w \o b, "LF") \o p OBVIOUS
      <4> HIDE DEF p, x
      <4>3. b \o <<"LF">> = Append(b, "LF") BY <4>1
      <4>4. Append(w \o b, "LF") = w \o Append(b, "LF") BY ONLY <4>1
      <4> DEFINE c == Append(b, "LF")
      <4>5. c \in Seq(Tokens) BY <4>1
      <4> HIDE DEF c
      <4>6. (w \o c) \o p = w \o (c \o p) BY ONLY <4>1, <4>5
      <4> QED BY <4>2, <4>3, <4>4, <4>6 DEF c, p
    <3> HIDE DEF v
    <3>2. /\ AtLineStart(m) /\ n.data # <<>> /\ JoinLines(n.data) = k /\ n.events = s.events
          /\ s.sound /\ ValidUtf8(k) => n.sound
      BY <2>3, WithinDataOn
    <3>3. m \in Bytes /\ ~Pending(m) /\ n.line = <<>> /\ n.data \in Lines
      BY <3>2, SettledTyped, StateTyped DEF AtLineStart
    <3> HIDE DEF m
    <3>4. /\ x \in Bytes /\ ~Pending(x) /\ q.line = n.line \o DataPrefix
          /\ q.sound = n.sound /\ Parsed(q) = Parsed(n)
      BY <1>1, <3>3, ReadingText
    <3> HIDE DEF n, q
    <3>5. q.data = n.data /\ q.events = n.events BY <3>4 DEF Parsed
    <3>6. q.line = DataPrefix \o nil
      <4>1. <<>> \o DataPrefix = DataPrefix /\ DataPrefix \o <<>> = DataPrefix
        BY <1>1 DEF Bytes
      <4> QED BY <3>3, <3>4, <4>1
    <3>7. JoinLines(Append(q.data, nil)) = Append(k, t)
      <4> DEFINE a == Append(k, t)
      <4>1. nil \in Text BY DEF Text
      <4>2. JoinLines(Append(q.data, nil)) = JoinLines(q.data) \o <<"LF">> \o nil
        BY <3>2, <3>3, <3>5, <4>1, Joining
      <4>3. k \o <<"LF">> = a /\ a \in Seq(Tokens) BY <2>1, <2>5
      <4> HIDE DEF a
      <4>4. a \o <<>> = a BY <4>3
      <4> QED BY <3>2, <3>5, <4>2, <4>3, <4>4 DEF a
    <3>8. s.sound /\ ValidSoFar(Append(k, t)) => q.sound
      <4>1. k \in Bytes BY TextIsPlain
      <4>2. ValidSoFar(Append(k, t)) => ValidUtf8(k) BY <2>1, <2>5, <4>1, ValidSoFarOn
      <4> QED BY <3>2, <3>4, <4>2
    <3>9. nil \in Text BY DEF Text
    <3>10. WithinData(q, s, Append(k, t))
      BY <3>2, <3>5, <3>6, <3>7, <3>8, <3>9 DEF WithinData
    <3> QED BY <2>1, <2>2, <2>5, <3>1, <3>4, <3>10 DEF q
  <2> QED BY <2>4, <2>5
<1> HIDE DEF G
<1>4. Texts \subseteq G BY <1>2, <1>3, InductionOnSequences DEF Texts
<1> QED BY <1>4 DEF G, s

(* A framed text of one line is the prefix and the text. *)
LEMMA FramedLine ==
  ASSUME NEW prefix \in Bytes, NEW l \in Text
  PROVE  Framed(prefix, l) = prefix \o l
<1> DEFINE G == {k \in Text : Framed(prefix, k) = prefix \o k}
<1>1. <<>> \in G
  <2> DEFINE nil == <<>>
  <2>1. nil \in Seq(Tokens) /\ nil \in Text BY DEF Text
  <2>2. Framed(prefix, nil) = prefix BY <2>1, Framing
  <2>3. prefix \o nil = prefix BY DEF Bytes
  <2> QED BY <2>1, <2>2, <2>3
<1>2. \A k \in Text : \A t \in LineTokens : k \in G => Append(k, t) \in G
  <2> SUFFICES ASSUME NEW k \in Text, NEW t \in LineTokens, Framed(prefix, k) = prefix \o k
               PROVE  Append(k, t) \in Text /\ Framed(prefix, Append(k, t)) = prefix \o Append(k, t)
    OBVIOUS
  <2>1. k \in Seq(Tokens) /\ t \in Tokens /\ t # "LF" /\ Append(k, t) \in Text
    BY TextIsPlain DEF Text, Bytes, LineTokens, Terminators
  <2>2. Framed(prefix, Append(k, t)) = Append(Framed(prefix, k), t)
    BY <2>1, Framing
  <2>3. prefix \in Seq(Tokens) BY DEF Bytes
  <2>4. Append(prefix \o k, t) = prefix \o Append(k, t) BY ONLY <2>1, <2>3
  <2> QED BY <2>1, <2>2, <2>4
<1> HIDE DEF G
<1>3. Text \subseteq G BY <1>1, <1>2, InductionOnSequences DEF Text
<1> QED BY <1>3 DEF G

-----------------------------------------------------------------------------
(* A blank line dispatches what is pending. *)
LEMMA ReadingBlankLine ==
  ASSUME NEW w, AtLineStart(w)
  PROVE  LET s == ReadAll(w)
             n == ReadAll(Append(w, "LF"))
         IN  /\ AtLineStart(Append(w, "LF"))
             /\ Parsed(s) \in ParseStates /\ Parsed(s).data = s.data /\ Parsed(s).events = s.events
             /\ n.data = DispatchEvent(Parsed(s)).data /\ n.events = DispatchEvent(Parsed(s)).events
             /\ s.sound => n.sound
<1> DEFINE s == ReadAll(w)
           n == ReadAll(Append(w, "LF"))
<1>1. w \in Bytes /\ ~Pending(w) /\ s.line = <<>> BY DEF AtLineStart
<1>2. s \in ReadStates BY <1>1, SettledTyped
<1>3. /\ AtLineStart(Append(w, "LF"))
      /\ n.sound = (s.sound /\ ValidUtf8(s.line)) /\ Parsed(n) = ConsumeLine(Parsed(s), s.line)
  BY <1>1, ReadingLF
<1> HIDE DEF s, n
<1>4. Parsed(s) \in ParseStates /\ Parsed(s).data = s.data /\ Parsed(s).events = s.events
  BY <1>2, StateTyped
<1>5. Parsed(n) = DispatchEvent(Parsed(s))
  <2>1. <<>> \in Text BY DEF Text
  <2>2. ConsumeLine(Parsed(s), <<>>) = DispatchEvent(Parsed(s)) BY <1>4, <2>1, ConsumeLineKinds
  <2> QED BY <1>1, <1>3, <2>2
<1>6. n.data = Parsed(n).data /\ n.events = Parsed(n).events BY DEF Parsed
<1>7. ASSUME s.sound PROVE n.sound
  <2>1. (s.sound /\ ValidUtf8(s.line)) BY <1>1, <1>7, ValidNothing
  <2> QED BY <1>3, <2>1, Zenon
<1> QED BY <1>3, <1>4, <1>5, <1>6, <1>7 DEF s, n

(* What reading w \o b yields, when it reads one event more than w.        *)
ReadsEvent(w, v, e) ==
  LET s == ReadAll(w)
      n == ReadAll(v)
  IN  /\ AtLineStart(v) /\ n.data = <<>> /\ n.events = Append(s.events, e)
      /\ s.sound /\ ValidUtf8(e.text) => n.sound

LEMMA ReadingDataEvent ==
  ASSUME NEW w, AtLineStart(w), ReadAll(w).data = <<>>, NEW text \in Texts
  PROVE  ReadsEvent(w, Append(Append(w \o Framed(DataPrefix, text), "LF"), "LF"), Data(text))
<1> DEFINE s == ReadAll(w)
           v == w \o Framed(DataPrefix, text)
           m == Append(v, "LF")
           r == ReadAll(m)
           x == Append(m, "LF")
           n == ReadAll(x)
<1>1. v \in Bytes /\ ~Pending(v) /\ WithinData(ReadAll(v), s, text) BY ReadingData
<1> HIDE DEF v, s
<1>2. /\ AtLineStart(m) /\ r.data # <<>> /\ JoinLines(r.data) = text /\ r.events = s.events
      /\ s.sound /\ ValidUtf8(text) => r.sound
  BY <1>1, WithinDataOn
<1> HIDE DEF m
<1>3. /\ AtLineStart(x)
      /\ Parsed(r).data = r.data /\ Parsed(r).events = r.events
      /\ n.data = DispatchEvent(Parsed(r)).data /\ n.events = DispatchEvent(Parsed(r)).events
      /\ r.sound => n.sound
  BY <1>2, ReadingBlankLine
<1> HIDE DEF r, n, x
<1>4. DispatchEvent(Parsed(r)) = [data |-> <<>>, events |-> Append(s.events, Data(text))]
  BY <1>2, <1>3 DEF DispatchEvent
<1>5. n.data = <<>> /\ n.events = Append(s.events, Data(text)) BY <1>3, <1>4
<1>6. Data(text).text = text BY DEF Data
<1>7. s.sound /\ ValidUtf8(Data(text).text) => n.sound BY <1>2, <1>3, <1>6
<1> QED BY <1>3, <1>5, <1>7 DEF ReadsEvent, s, n, x, m, v

LEMMA ReadingCommentEvent ==
  ASSUME NEW w, AtLineStart(w), ReadAll(w).data = <<>>, NEW text \in Text
  PROVE  ReadsEvent(w, Append(Append(w \o Framed(CommentPrefix, text), "LF"), "LF"), Comment(text))
<1> DEFINE s == ReadAll(w)
           l == CommentPrefix \o text
           v == w \o l
           m == Append(v, "LF")
           r == ReadAll(m)
           x == Append(m, "LF")
           n == ReadAll(x)
<1>1. /\ w \in Bytes /\ ~Pending(w) /\ s \in ReadStates /\ s.data = <<>>
      /\ w \in Seq(Tokens) /\ "LF" \in Tokens
  BY SettledTyped DEF AtLineStart, Bytes, Tokens
<1>2. /\ CommentPrefix \in Bytes /\ l \in Text /\ IsCommentLine(l)
      /\ StripOptionalSpace(Tail(l)) = text /\ (ValidUtf8(text) => ValidUtf8(l))
  BY Prefixed
<1>3. Framed(CommentPrefix, text) = l BY <1>2, FramedLine
<1> HIDE DEF l, s
<1>4. w \o l \o <<"LF">> = m
  <2>1. l \in Seq(Tokens) BY <1>2, TextIsPlain DEF Bytes
  <2>2. v \in Seq(Tokens) BY <1>1, <2>1
  <2> HIDE DEF v
  <2>3. v \o <<"LF">> = Append(v, "LF") BY <1>1, <2>2
  <2> QED BY <2>3 DEF v
<1>5. /\ AtLineStart(m)
      /\ r.sound = (s.sound /\ ValidUtf8(l))
      /\ Parsed(r) = ConsumeLine(Parsed(s), l)
  <2> HIDE DEF m
  <2> QED BY <1>2, <1>4, ReadingLine DEF s
<1> HIDE DEF m, v
<1>6. r.data = <<>> /\ r.events = Append(s.events, Comment(text))
  <2>1. Parsed(s) \in ParseStates /\ Parsed(s).data = <<>> /\ Parsed(s).events = s.events
    BY <1>1, StateTyped
  <2>2. Parsed(r) = [data |-> <<>>, events |-> Append(s.events, Comment(text))]
    BY <1>2, <1>5, <2>1, ConsumeLineKinds
  <2>3. Parsed(r).data = r.data /\ Parsed(r).events = r.events BY DEF Parsed
  <2> QED BY <2>2, <2>3
<1>7. /\ AtLineStart(x)
      /\ Parsed(r).data = r.data /\ Parsed(r).events = r.events
      /\ n.data = DispatchEvent(Parsed(r)).data /\ n.events = DispatchEvent(Parsed(r)).events
      /\ r.sound => n.sound
  BY <1>5, ReadingBlankLine
<1> HIDE DEF r, n, x
<1>8. n.data = <<>> /\ n.events = r.events
  <2>1. DispatchEvent(Parsed(r)) = Parsed(r) BY <1>6, <1>7 DEF DispatchEvent
  <2> QED BY <1>6, <1>7, <2>1
<1>9. s.sound /\ ValidUtf8(Comment(text).text) => n.sound
  <2> SUFFICES ASSUME s.sound, ValidUtf8(Comment(text).text) PROVE n.sound OBVIOUS
  <2>1. ValidUtf8(l) BY <1>2 DEF Comment
  <2>2. (s.sound /\ ValidUtf8(l)) BY <2>1
  <2> QED BY <1>5, <1>7, <2>2, Zenon
<1> QED BY <1>3, <1>6, <1>7, <1>8, <1>9 DEF ReadsEvent, s, n, x, m, v

LEMMA FramedLines ==
  ASSUME NEW prefix, NEW text
  PROVE  SerializeLines(prefix, text) = Framed(prefix, text) \o <<"LF", "LF">>
BY DEF SerializeLines, Framed, FoldLeft, MapThenFoldSet

LEMMA FramedTwice ==
  ASSUME NEW w \in Seq(Tokens), NEW f \in Seq(Tokens)
  PROVE  /\ w \o (f \o <<"LF", "LF">>) = Append(Append(w \o f, "LF"), "LF")
         /\ f \o <<"LF", "LF">> \in Bytes
<1>1. "LF" \in Tokens BY DEF Tokens
<1> DEFINE g == Append(f, "LF")
<1>2. f \o <<"LF", "LF">> = Append(g, "LF") BY <1>1
<1>3. g \in Seq(Tokens) /\ Append(g, "LF") \in Seq(Tokens) BY <1>1
<1>4. Append(w \o f, "LF") = w \o g BY ONLY <1>1
<1>5. Append(w \o g, "LF") = w \o Append(g, "LF")
  <2> DEFINE t == "LF"
  <2>1. w \in Seq(Tokens) /\ g \in Seq(Tokens) /\ t \in Tokens BY <1>1, <1>3
  <2> HIDE DEF g, t
  <2>2. Append(w \o g, t) = w \o Append(g, t) BY ONLY <2>1
  <2> QED BY <2>2 DEF t
<1> HIDE DEF g
<1> QED BY <1>2, <1>3, <1>4, <1>5 DEF Bytes

(* An event in its framing, behind whole events, reads as that event.      *)
LEMMA ReadingEvent ==
  ASSUME NEW w, AtLineStart(w), ReadAll(w).data = <<>>, NEW e \in Events
  PROVE  ReadsEvent(w, w \o SerializeEvent(e), e) /\ SerializeEvent(e) \in Bytes
<1> DEFINE prefix == IF e.kind = "Comment" THEN CommentPrefix ELSE DataPrefix
           f == Framed(prefix, e.text)
<1>1. SerializeEvent(e) = f \o <<"LF", "LF">>
  <2>1. CASE e.kind = "Comment"
    BY <2>1, FramedLines DEF SerializeEvent, CommentPrefix
  <2>2. CASE e.kind # "Comment"
    BY <2>2, FramedLines DEF SerializeEvent, DataPrefix
  <2> QED BY <2>1, <2>2
<1>2. w \in Seq(Tokens) /\ "LF" \in Tokens BY DEF AtLineStart, Bytes, Tokens
<1>3. e.text \in Seq(Tokens) BY TextIsPlain DEF Events, CommentEvents, DataEvents, Bytes
<1>4. f \in Seq(Tokens)
  <2>1. <<>> \in Text BY DEF Text
  <2>2. prefix \in Bytes BY <2>1, Prefixed
  <2> HIDE DEF prefix
  <2> QED BY <1>3, <2>2, Framing DEF Bytes
<1>5. CASE e \in CommentEvents
  <2>1. e.kind = "Comment" /\ e.text \in Text /\ e = Comment(e.text)
    BY <1>5 DEF CommentEvents, Comment
  <2> QED BY <1>1, <1>2, <1>4, <2>1, FramedTwice, ReadingCommentEvent
<1>6. CASE e \in DataEvents
  <2>1. e.kind # "Comment" /\ e.text \in Texts /\ e = Data(e.text)
    BY <1>6 DEF DataEvents, Data
  <2> QED BY <1>1, <1>2, <1>4, <2>1, FramedTwice, ReadingDataEvent
<1> QED BY <1>5, <1>6 DEF Events

ChunkStep == [p \in Bytes \X Bytes |-> AppendChunk(p[1], p[2])]

(* Chunks one after the other. *)
LEMMA Concatenating ==
  ASSUME NEW s \in Seq(Bytes)
  PROVE  /\ Concat(<<>>) = <<>> /\ Concat(s) \in Bytes
         /\ \A x \in Bytes : Concat(Append(s, x)) = AppendChunk(Concat(s), x)
<1>1. ChunkStep \in Steps(Bytes, Bytes) /\ <<>> \in Bytes
  BY DEF ChunkStep, Steps, Bytes, AppendChunk
<1>2. ASSUME NEW q \in Seq(Bytes)
      PROVE  Concat(q) = Folded(ChunkStep, <<>>, q)
  <2> DEFINE N == 1..Len(q)
             StepOn(t, U) == AppendChunk(t[U \ {Max(U)}], q[Max(U)])
             IsFold(t) == t = [U \in SUBSET DOMAIN q |-> IF U = {} THEN <<>> ELSE StepOn(t, U)]
             c == CHOOSE t : IsFold(t)
  <2>0. DOMAIN q = N OBVIOUS
  <2>1. PICK f \in Tables(q, Bytes) : IsTable(f, ChunkStep, <<>>, q)
    BY <1>1, FoldHasTable
  <2>2. \A U \in SUBSET N : f[U] = IF U = {} THEN <<>> ELSE StepOn(f, U)
    BY <2>1, TablesAreTyped DEF IsTable, Tables, ChunkStep
  <2>3. IsFold(f)
    <3> HIDE DEF StepOn
    <3>1. f = [U \in SUBSET N |-> f[U]] BY DEF Tables
    <3> QED BY <2>0, <2>2, <3>1
  <2>4. IsFold(c) BY <2>3
  <2>5. Concat(q) = c[DOMAIN q] BY DEF Concat, FoldLeft, MapThenFoldSet
  <2> HIDE DEF c
  <2>6. c[{}] = <<>> BY <2>4
  <2>7. TakesSteps(c, Bytes, ChunkStep, q)
    BY <2>0, <2>4, TablesAreTyped DEF ChunkStep, TakesSteps
  <2>8. c[N] = Folded(ChunkStep, <<>>, q)
    BY <1>1, <2>6, <2>7, WhatFolds
  <2> QED BY <2>0, <2>5, <2>8
<1>3. <<>> \in Seq(Bytes) /\ \A x \in Bytes : Append(s, x) \in Seq(Bytes) OBVIOUS
<1>4. Folded(ChunkStep, <<>>, <<>>) = <<>> /\ Folded(ChunkStep, <<>>, s) \in Bytes
  BY <1>1, FoldingOn
<1>5. ASSUME NEW x \in Bytes
      PROVE  Folded(ChunkStep, <<>>, Append(s, x)) = AppendChunk(Folded(ChunkStep, <<>>, s), x)
  <2>1. Folded(ChunkStep, <<>>, Append(s, x)) = ChunkStep[<<Folded(ChunkStep, <<>>, s), x>>]
    BY <1>1, FoldingOn
  <2> QED BY <1>4, <2>1 DEF ChunkStep
<1> QED BY <1>2, <1>3, <1>4, <1>5

LEMMA SerializedOn ==
  ASSUME NEW es \in EventLists, NEW e \in Events
  PROVE  /\ SerializeAll(es) \in Seq(Bytes)
         /\ SerializeAll(<<>>) = <<>>
         /\ SerializeAll(Append(es, e)) = Append(SerializeAll(es), SerializeEvent(e))
<1>1. \A d \in Events : SerializeEvent(d) \in Bytes
  <2>1. /\ ReadAll(<<>>) = NothingRead /\ ~Pending(<<>>) /\ <<>> \in Bytes
        /\ NothingRead.line = <<>> /\ NothingRead.data = <<>>
    BY SettledOfNothing, Reading DEF Bytes, NothingRead
  <2> QED BY <2>1, ReadingEvent DEF AtLineStart
<1> DEFINE n == Len(es)
           ms == Append(es, e)
<1>2. es \in Seq(Events) /\ n \in Nat /\ DOMAIN es = 1..n BY DEF EventLists
<1>3. /\ DOMAIN ms = 1..(n + 1) /\ Len(ms) = n + 1 /\ ms[n + 1] = e
      /\ \A k \in 1..n : ms[k] = es[k]
  BY <1>2
<1> HIDE DEF n, ms
<1> DEFINE a == SerializeAll(es)
           b == SerializeAll(ms)
           c == Append(a, SerializeEvent(e))
<1>4. a = [k \in 1..n |-> SerializeEvent(es[k])] BY <1>2 DEF SerializeAll
<1>5. b = [k \in 1..(n + 1) |-> SerializeEvent(ms[k])] BY <1>3 DEF SerializeAll
<1>6. \A k \in 1..(n + 1) : ms[k] \in Events
  <2> SUFFICES ASSUME NEW k \in 1..(n + 1) PROVE ms[k] \in Events OBVIOUS
  <2>1. CASE k \in 1..n BY <1>2, <1>3, <2>1
  <2>2. CASE k = n + 1 BY <1>3, <2>2
  <2> QED BY <1>2, <2>1, <2>2
<1>7. a \in Seq(Bytes) /\ Len(a) = n
  <2>1. \A k \in 1..n : SerializeEvent(es[k]) \in Bytes BY <1>1, <1>2
  <2> QED BY <1>2, <1>4, <2>1
<1>8. b \in Seq(Bytes) /\ Len(b) = n + 1
  <2>1. \A k \in 1..(n + 1) : SerializeEvent(ms[k]) \in Bytes BY <1>1, <1>6
  <2> QED BY <1>2, <1>5, <2>1
<1>9. SerializeEvent(e) \in Bytes BY <1>1
<1>10. b = c
  <2> HIDE DEF a, b
  <2>1. /\ c \in Seq(Bytes) /\ Len(c) = n + 1 /\ c[n + 1] = SerializeEvent(e)
        /\ \A k \in 1..n : c[k] = a[k]
    BY <1>2, <1>7, <1>9
  <2> HIDE DEF c
  <2>2. \A k \in 1..Len(b) : b[k] = c[k]
    <3> SUFFICES ASSUME NEW k \in 1..(n + 1) PROVE b[k] = c[k] BY <1>8
    <3>1. CASE k = n + 1 BY <1>2, <1>3, <1>5, <2>1, <3>1
    <3>2. CASE k # n + 1
      <4>1. k \in 1..n BY <1>2, <3>2
      <4> QED BY <1>3, <1>4, <1>5, <2>1, <4>1
    <3> QED BY <3>1, <3>2
  <2> QED BY <1>8, <2>1, <2>2, SeqEqual
<1>11. SerializeAll(<<>>) = <<>> BY DEF SerializeAll
<1> QED BY <1>7, <1>10, <1>11 DEF a, b, c, ms

(* Events serialized one after the other read back as these events.        *)
LEMMA ReadingSerialized ==
  ASSUME NEW es \in EventLists
  PROVE  LET w == Concat(SerializeAll(es))
             n == ReadAll(w)
         IN  /\ AtLineStart(w) /\ n.data = <<>> /\ n.events = es
             /\ ValidTexts(es) => n.sound
<1> DEFINE Good(k) == LET w == Concat(SerializeAll(k))
                          n == ReadAll(w)
                      IN  /\ AtLineStart(w) /\ n.data = <<>> /\ n.events = k
                          /\ ValidTexts(k) => n.sound
           G == {k \in EventLists : Good(k)}
<1>1. <<>> \in G
  <2> DEFINE nil == <<>>
  <2>1. nil \in Seq(Bytes) /\ nil \in EventLists BY DEF EventLists
  <2>2. SerializeAll(nil) = nil BY DEF SerializeAll
  <2>3. Concat(nil) = <<>> BY <2>1, Concatenating
  <2>4. ReadAll(<<>>) = NothingRead /\ ~Pending(<<>>) /\ <<>> \in Bytes
    BY SettledOfNothing, Reading DEF Bytes
  <2>5. /\ NothingRead.line = <<>> /\ NothingRead.data = <<>> /\ NothingRead.events = <<>>
        /\ NothingRead.sound
    BY DEF NothingRead
  <2> QED BY <2>1, <2>2, <2>3, <2>4, <2>5 DEF AtLineStart
<1>2. \A k \in EventLists : \A e \in Events : k \in G => Append(k, e) \in G
  <2> SUFFICES ASSUME NEW k \in EventLists, NEW e \in Events, Good(k)
               PROVE  Append(k, e) \in EventLists /\ Good(Append(k, e))
    OBVIOUS
  <2> DEFINE c == SerializeAll(k)
             w == Concat(c)
             s == ReadAll(w)
             x == w \o SerializeEvent(e)
             n == ReadAll(x)
  <2>1. Append(k, e) \in EventLists BY DEF EventLists
  <2>2. AtLineStart(w) /\ s.data = <<>> /\ s.events = k /\ (ValidTexts(k) => s.sound)
    OBVIOUS
  <2>3. c \in Seq(Bytes) /\ SerializeAll(Append(k, e)) = Append(c, SerializeEvent(e))
    BY SerializedOn
  <2> HIDE DEF c
  <2>4. ReadsEvent(w, x, e) /\ SerializeEvent(e) \in Bytes BY <2>2, ReadingEvent
  <2>5. Concat(Append(c, SerializeEvent(e))) = x BY <2>3, <2>4, Concatenating DEF AppendChunk
  <2>6. ValidTexts(Append(k, e)) => ValidTexts(k) /\ ValidUtf8(e.text) BY ValidTextsOn
  <2>7. /\ AtLineStart(x) /\ n.data = <<>> /\ n.events = Append(k, e)
        /\ s.sound /\ ValidUtf8(e.text) => n.sound
    BY <2>2, <2>4 DEF ReadsEvent
  <2> HIDE DEF x, w
  <2> QED BY <2>1, <2>2, <2>3, <2>5, <2>6, <2>7
<1> HIDE DEF G
<1>3. EventLists \subseteq G BY <1>1, <1>2, InductionOnSequences DEF EventLists
<1> QED BY <1>3 DEF G

(* However much of the body is buffered, its bytes are the same.           *)
LEMMA BodyIsSerialized ==
  ASSUME NEW es \in EventLists
  PROVE  Concat(BuildStreamBody(es)) = Concat(SerializeAll(es))
<1> DEFINE m == Buffered(es)
           n == Len(es)
           a == SerializeAll(es)
<1>1. es \in Seq(Events) /\ n \in Nat /\ DOMAIN es = 1..n BY DEF EventLists
<1>2. a \in Seq(Bytes) /\ Concat(a) \in Bytes
  <2>1. Comment(<<>>) \in Events BY DEF Comment, Events, CommentEvents, Text
  <2>2. a \in Seq(Bytes) BY <2>1, SerializedOn
  <2> HIDE DEF a
  <2> QED BY <2>2, Concatenating
<1>3. m \in 0..n
  <2> DEFINE fitting == {k \in 0..n : TotalLen(es, k) <= EagerLimit}
  <2>1. 0 \in fitting
    <3>1. SubSeq(es, 1, 0) = <<>> BY <1>1
    <3>2. SerializeAll(<<>>) = <<>> BY DEF SerializeAll
    <3>3. Concat(<<>>) = <<>>
      <4>1. <<>> \in Seq(Bytes) OBVIOUS
      <4> QED BY <4>1, Concatenating
    <3>4. TotalLen(es, 0) = 0
      <4>1. TotalLen(es, 0) = Len(Concat(SerializeAll(SubSeq(es, 1, 0)))) BY DEF TotalLen
      <4>2. Len(Concat(SerializeAll(SubSeq(es, 1, 0)))) = Len(<<>>) BY <3>1, <3>2, <3>3
      <4> QED BY <4>1, <4>2
    <3> QED BY <1>1, <3>4, EagerLimitAssumption
  <2>2. fitting \in SUBSET (0..n) OBVIOUS
  <2>3. m = CHOOSE k \in fitting : \A j \in fitting : j <= k BY DEF Buffered
  <2> HIDE DEF fitting, m
  <2>4. \E k \in fitting : \A j \in fitting : j <= k BY <1>1, <2>1, <2>2, GreatestUpTo
  <2>5. m \in fitting BY <2>3, <2>4
  <2> QED BY <2>2, <2>5
<1> HIDE DEF m
<1>4. CASE m = n
  <2> DEFINE c == Concat(a)
  <2>1. BuildStreamBody(es) = <<c>> BY <1>4 DEF BuildStreamBody, m
  <2>2. c \in Seq(Tokens) /\ c \in Bytes BY <1>2 DEF Bytes
  <2> HIDE DEF c
  <2>3. <<c>> = Append(<<>>, c) /\ <<>> \in Seq(Bytes) OBVIOUS
  <2>4. Concat(<<c>>) = Concat(<<>>) \o c /\ Concat(<<>>) = <<>>
    BY <2>2, <2>3, Concatenating DEF AppendChunk
  <2>5. <<>> \o c = c BY <2>2
  <2> QED BY <2>1, <2>4, <2>5 DEF c
<1>5. CASE m # n
  <2> DEFINE f == SubSeq(es, 0 + 1, m)
             g == SubSeq(es, (m + 1) + 1, n)
             x == SerializeAll(f)
             y == <<SerializeEvent(es[m + 1])>>
             z == SerializeAll(g)
             xy == x \o y
             b == xy \o z
  <2>1. m \in Nat /\ m + 1 \in Nat /\ m + 1 <= n /\ m <= n /\ n <= Len(es)
    <3>1. n = Len(es) OBVIOUS
    <3> HIDE DEF n
    <3>2. n \in Nat /\ m \in 0..n BY <1>1, <1>3
    <3>3. m \in Nat /\ m + 1 \in Nat /\ m + 1 <= n /\ m <= n BY <1>5, <3>2
    <3> QED BY <3>1, <3>2, <3>3
  <2>2. BuildStreamBody(es) = b
    <3>1. 0 + 1 = 1 /\ (m + 1) + 1 = m + 2 BY <2>1
    <3> HIDE DEF n
    <3>2. n = Len(es) BY DEF n
    <3> QED BY <1>5, <3>1, <3>2 DEF BuildStreamBody, m
  <2>3. f \in Seq(Events) /\ Len(f) = m /\ \A i \in 1..m : f[i] = es[i]
    <3> HIDE DEF f
    <3>1. f \in Seq(Events) /\ Len(f) = m - 0 /\ \A i \in 1..(m - 0) : f[i] = es[i + 0]
      BY <1>1, <2>1, PartOf DEF f
    <3>2. m - 0 = m /\ \A i \in 1..m : i + 0 = i BY <2>1
    <3> QED BY <3>1, <3>2
  <2>4. /\ g \in Seq(Events) /\ Len(g) = n - (m + 1)
        /\ \A i \in 1..(n - (m + 1)) : g[i] = es[i + (m + 1)]
    <3> HIDE DEF n, g
    <3> QED BY <1>1, <2>1, PartOf DEF g
  <2> HIDE DEF f, g
  <2>5. SerializeEvent(es[m + 1]) \in Bytes /\ x \in Seq(Bytes) /\ z \in Seq(Bytes)
    <3>1. f \in EventLists /\ g \in EventLists BY <2>3, <2>4 DEF EventLists
    <3>2. Comment(<<>>) \in Events BY DEF Comment, Events, CommentEvents, Text
    <3>3. x \in Seq(Bytes) /\ z \in Seq(Bytes) BY <3>1, <3>2, SerializedOn
    <3>4. m + 1 \in 1..n BY <1>1, <2>1
    <3>5. a[m + 1] = SerializeEvent(es[m + 1]) /\ m + 1 \in 1..Len(a)
      <4>1. a = [k \in 1..n |-> SerializeEvent(es[k])] BY <1>1 DEF SerializeAll
      <4> HIDE DEF n
      <4> QED BY <1>1, <1>2, <3>4, <4>1
    <3> HIDE DEF a
    <3>6. a[m + 1] \in Bytes BY <1>2, <3>5
    <3> QED BY <3>3, <3>5, <3>6
  <2>6. Len(a) = n /\ \A k \in 1..n : a[k] = SerializeEvent(es[k])
    <3>1. a = [k \in 1..n |-> SerializeEvent(es[k])] BY <1>1 DEF SerializeAll
    <3> QED BY <1>1, <1>2, <3>1
  <2>7. Len(x) = m /\ \A k \in 1..m : x[k] = SerializeEvent(es[k])
    <3>1. x = [k \in 1..m |-> SerializeEvent(f[k])] BY <2>3 DEF SerializeAll
    <3> QED BY <2>1, <2>3, <2>5, <3>1
  <2>8. /\ Len(z) = n - (m + 1)
        /\ \A k \in 1..(n - (m + 1)) : z[k] = SerializeEvent(es[k + (m + 1)])
    <3>1. z = [k \in 1..(n - (m + 1)) |-> SerializeEvent(g[k])] BY <2>4 DEF SerializeAll
    <3> QED BY <1>1, <2>1, <2>4, <2>5, <3>1
  <2>9. y \in Seq(Bytes) /\ Len(y) = 1 /\ y[1] = SerializeEvent(es[m + 1]) BY <2>5
  <2> HIDE DEF x, y, z, a, n
  <2>10. /\ xy \in Seq(Bytes) /\ Len(xy) = m + 1
         /\ \A k \in 1..(m + 1) : xy[k] = SerializeEvent(es[k])
    <3>0. x \in Seq(Bytes) /\ y \in Seq(Bytes) /\ Len(x) = m /\ Len(y) = 1 BY <2>5, <2>7, <2>9
    <3>01. xy \in Seq(Bytes) /\ Len(xy) = Len(x) + Len(y) /\ \A k \in 1..Len(x) : xy[k] = x[k]
      BY <3>0, ConcatElements
    <3>02. \A k \in (Len(x) + 1)..(Len(x) + Len(y)) : xy[k] = y[k - Len(x)]
      BY <3>0, ConcatElements
    <3>1. xy \in Seq(Bytes) /\ Len(xy) = m + 1 /\ \A k \in 1..m : xy[k] = x[k]
      BY <3>0, <3>01
    <3>2. \A k \in (m + 1)..(m + 1) : xy[k] = y[k - m] BY <3>0, <3>02
    <3> HIDE DEF xy
    <3>3. m + 1 \in (m + 1)..(m + 1) /\ (m + 1) - m = 1 BY <2>1
    <3>4. xy[m + 1] = SerializeEvent(es[m + 1]) BY <2>9, <3>2, <3>3
    <3>5. ASSUME NEW k \in 1..(m + 1) PROVE xy[k] = SerializeEvent(es[k])
      <4>1. CASE k = m + 1 BY <3>4, <4>1
      <4>2. CASE k # m + 1
        <5>1. k \in 1..m BY <2>1, <4>2
        <5> QED BY <2>7, <3>1, <5>1
      <4> QED BY <4>1, <4>2
    <3> QED BY <3>1, <3>5
  <2> HIDE DEF xy
  <2>11. b \in Seq(Bytes) /\ Len(b) = n /\ \A k \in 1..n : b[k] = SerializeEvent(es[k])
    <3> DEFINE d == m + 1
    <3>0. d \in Nat /\ d <= n /\ n \in Nat /\ d + (n - d) = n BY <1>1, <2>1
    <3>10. /\ xy \in Seq(Bytes) /\ z \in Seq(Bytes)
           /\ Len(xy) = d /\ Len(z) = n - d
      BY <2>5, <2>8, <2>10
    <3>11. b \in Seq(Bytes) /\ Len(b) = Len(xy) + Len(z) /\ \A k \in 1..Len(xy) : b[k] = xy[k]
      BY <3>10, ConcatElements
    <3>12. \A k \in (Len(xy) + 1)..(Len(xy) + Len(z)) : b[k] = z[k - Len(xy)]
      BY <3>10, ConcatElements
    <3>1. b \in Seq(Bytes) /\ Len(b) = d + (n - d) /\ \A k \in 1..d : b[k] = xy[k]
      BY <3>10, <3>11
    <3>2. \A k \in (d + 1)..(d + (n - d)) : b[k] = z[k - d] BY <3>10, <3>12
    <3>3. /\ \A k \in 1..d : xy[k] = SerializeEvent(es[k])
          /\ \A k \in 1..(n - d) : z[k] = SerializeEvent(es[k + d])
      BY <2>8, <2>10
    <3> HIDE DEF b, d
    <3>4. ASSUME NEW k \in 1..n PROVE b[k] = SerializeEvent(es[k])
      <4>1. CASE k \in 1..d BY <3>1, <3>3, <4>1
      <4>2. CASE k \notin 1..d
        <5>1. k \in (d + 1)..n /\ k - d \in 1..(n - d) /\ (k - d) + d = k BY <3>0, <4>2
        <5>2. b[k] = z[k - d] BY <3>0, <3>2, <5>1
        <5>3. z[k - d] = SerializeEvent(es[(k - d) + d]) BY <3>3, <5>1
        <5> QED BY <5>1, <5>2, <5>3
      <4> QED BY <4>1, <4>2
    <3> QED BY <3>0, <3>1, <3>4
  <2> HIDE DEF b
  <2>12. b = a
    <3>1. \A k \in 1..Len(b) : b[k] = a[k] BY <2>6, <2>11
    <3> QED BY <1>2, <2>6, <2>11, <3>1, SeqEqual
  <2> QED BY <2>2, <2>12 DEF a
<1> QED BY <1>4, <1>5

(* Replaying a recorded stream gives back the events recorded, whatever    *)
(* part of the body is eager.                                              *)
THEOREM ReplayedBodyReadsBackAlways == Spec => []ReplayedBodyReadsBack
<1>1. IInv => ReplayedBodyReadsBack
  <2> SUFFICES ASSUME IInv, stage = "recorded"
               PROVE  LET read == ReadAll(Concat(BuildStreamBody(events)))
                      IN  IsComplete(read) /\ read.events = events
    BY DEF ReplayedBodyReadsBack
  <2> DEFINE w == raw_transcript
             x == Concat(SerializeAll(events))
  <2>1. /\ w \in Bytes /\ events \in EventLists /\ IsComplete(ReadAll(w))
        /\ events = ReadAll(w).events
    BY DEF IInv, RecorderTypeOK, ChunkingNeverShows
  <2>2. ValidTexts(events)
    <3>1. ValidParse(Parsed(ReadAll(w))) BY <2>1, SoundIsValid DEF IsComplete
    <3>2. Parsed(ReadAll(w)).events = events BY <2>1 DEF Parsed
    <3> QED BY <3>1, <3>2 DEF ValidParse
  <2>3. Concat(BuildStreamBody(events)) = x BY <2>1, BodyIsSerialized
  <2>4. /\ AtLineStart(x) /\ ReadAll(x).data = <<>> /\ ReadAll(x).events = events
        /\ ReadAll(x).sound
    BY <2>1, <2>2, ReadingSerialized
  <2> HIDE DEF x
  <2> QED BY <2>3, <2>4 DEF IsComplete, AtLineStart
<1> QED BY <1>1, Invariance, PTL
=============================================================================
