--------------------------- MODULE ExchangeProofs ---------------------------
(***************************************************************************)
(* Proofs about an exchange from end to end, for every request,            *)
(* configuration, answer and cassette: headers that must stay out stay     *)
(* out, the recorded request is what the client sent, replay repeats the   *)
(* recorded response, the engine hands each interaction out once and in    *)
(* order, the diff of a mismatch is exact, a request matches exactly when  *)
(* it asks what was recorded, and a canonical body has lost exactly the    *)
(* nodes its ignored paths address.                                        *)
(***************************************************************************)
EXTENDS Exchange, CommonLemmas, FiniteSetTheorems

-----------------------------------------------------------------------------
(* Dropping goes through the headers one by one. *)

Kept(kept, s, names, n) ==
  kept = [i \in 0..n |-> IF i = 0 THEN <<>>
                         ELSE IF s[i].name \in names THEN kept[i - 1]
                         ELSE Append(kept[i - 1], s[i])]

LEMMA KeptExists ==
  ASSUME NEW s, NEW names
  PROVE  \A n \in Nat : \E kept : Kept(kept, s, names, n)
<1> DEFINE G == {n \in Nat : \E kept : Kept(kept, s, names, n)}
<1>1. 0 \in G
  <2>1. Kept([i \in 0..0 |-> <<>>], s, names, 0) BY DEF Kept
  <2> QED BY <2>1
<1>2. \A n \in Nat : n \in G => n + 1 \in G
  <2> SUFFICES ASSUME NEW n \in G PROVE n + 1 \in G OBVIOUS
  <2>1. PICK kept : Kept(kept, s, names, n) OBVIOUS
  <2> DEFINE more == IF s[n + 1].name \in names THEN kept[n] ELSE Append(kept[n], s[n + 1])
             longer == [i \in 0..(n + 1) |-> IF i = n + 1 THEN more ELSE kept[i]]
  <2>2. \A i \in 0..(n + 1) : i # n + 1 => i \in 0..n /\ longer[i] = kept[i] OBVIOUS
  <2>3. \A i \in 0..(n + 1) : longer[i] =
          IF i = 0 THEN <<>>
          ELSE IF s[i].name \in names THEN longer[i - 1] ELSE Append(longer[i - 1], s[i])
    <3> SUFFICES ASSUME NEW i \in 0..(n + 1)
                 PROVE  longer[i] =
                   IF i = 0 THEN <<>>
                   ELSE IF s[i].name \in names THEN longer[i - 1] ELSE Append(longer[i - 1], s[i])
      OBVIOUS
    <3>1. i # 0 => i - 1 \in 0..n /\ longer[i - 1] = kept[i - 1] OBVIOUS
    <3>2. CASE i = n + 1
      <4>1. longer[i] = more /\ i # 0 /\ longer[i - 1] = kept[n] BY <3>2
      <4> QED BY <3>2, <4>1
    <3>3. CASE i # n + 1
      <4>1. i \in 0..n /\ longer[i] = kept[i] BY <3>3
      <4>2. kept[i] = IF i = 0 THEN <<>>
                      ELSE IF s[i].name \in names THEN kept[i - 1]
                      ELSE Append(kept[i - 1], s[i])
        BY <2>1, <4>1 DEF Kept
      <4> QED BY <3>1, <4>1, <4>2
    <3> QED BY <3>2, <3>3
  <2>4. Kept(longer, s, names, n + 1) BY <2>3 DEF Kept
  <2> QED BY <2>4
<1> HIDE DEF G
<1>3. Nat \subseteq G BY <1>1, <1>2, InductionOnNaturals
<1> QED BY <1>3 DEF G

LEMMA DroppingIsKept ==
  ASSUME NEW s, Len(s) \in Nat, NEW names
  PROVE  \E kept : Kept(kept, s, names, Len(s)) /\ Dropping(s, names) = kept[Len(s)]
<1> DEFINE kept == CHOOSE k : Kept(k, s, names, Len(s))
<1>1. Kept(kept, s, names, Len(s)) BY KeptExists
<1>2. Dropping(s, names) = kept[Len(s)] BY DEF Dropping, Kept
<1> QED BY <1>1, <1>2

LEMMA KeptAgree ==
  ASSUME NEW H, NEW s \in Seq(H), NEW h \in H, NEW names,
         NEW short, Kept(short, s, names, Len(s)),
         NEW long, Kept(long, Append(s, h), names, Len(s) + 1)
  PROVE  long[Len(s)] = short[Len(s)]
<1> DEFINE a == Append(s, h)
           G == {n \in Nat : n <= Len(s) => long[n] = short[n]}
<1>1. Len(s) \in Nat /\ \A n \in 1..Len(s) : a[n] = s[n] OBVIOUS
<1>2. 0 \in G
  <2>1. 0 \in 0..Len(s) /\ 0 \in 0..(Len(s) + 1) BY <1>1
  <2> QED BY <2>1 DEF Kept
<1>3. \A n \in Nat : n \in G => n + 1 \in G
  <2> SUFFICES ASSUME NEW n \in G, n + 1 <= Len(s) PROVE long[n + 1] = short[n + 1]
    OBVIOUS
  <2>1. /\ n + 1 \in 0..Len(s) /\ n + 1 \in 0..(Len(s) + 1) /\ n + 1 # 0 /\ (n + 1) - 1 = n
        /\ a[n + 1] = s[n + 1] /\ long[n] = short[n]
    BY <1>1
  <2> HIDE DEF a
  <2>2. short[n + 1] = IF s[n + 1].name \in names THEN short[n] ELSE Append(short[n], s[n + 1])
    BY <2>1 DEF Kept
  <2>3. long[n + 1] = IF a[n + 1].name \in names THEN long[n] ELSE Append(long[n], a[n + 1])
    BY <2>1 DEF Kept, a
  <2> QED BY <2>1, <2>2, <2>3
<1> HIDE DEF G
<1>4. Nat \subseteq G BY <1>2, <1>3, InductionOnNaturals
<1> QED BY <1>1, <1>4 DEF G

LEMMA NothingToDrop == \A names : Dropping(<<>>, names) = <<>>
<1> SUFFICES ASSUME NEW names PROVE Dropping(<<>>, names) = <<>> OBVIOUS
<1>1. Len(<<>>) = 0 OBVIOUS
<1>2. PICK kept : Kept(kept, <<>>, names, 0) /\ Dropping(<<>>, names) = kept[0]
  BY <1>1, DroppingIsKept
<1> QED BY <1>2 DEF Kept

LEMMA DroppingStep ==
  ASSUME NEW H, NEW s \in Seq(H), NEW h \in H, NEW names
  PROVE  Dropping(Append(s, h), names) =
           IF h.name \in names THEN Dropping(s, names) ELSE Append(Dropping(s, names), h)
<1> DEFINE a == Append(s, h)
           n == Len(s)
<1>1. n \in Nat /\ Len(a) = n + 1 /\ a[n + 1] = h OBVIOUS
<1>2. PICK short : Kept(short, s, names, n) /\ Dropping(s, names) = short[n]
  BY <1>1, DroppingIsKept
<1>3. PICK long : Kept(long, a, names, n + 1) /\ Dropping(a, names) = long[n + 1]
  <2> HIDE DEF a, n
  <2>1. Len(a) \in Nat BY <1>1
  <2> QED BY <1>1, <2>1, DroppingIsKept
<1>4. long[n] = short[n] BY <1>2, <1>3, KeptAgree
<1>5. long[n + 1] = IF h.name \in names THEN long[n] ELSE Append(long[n], h)
  <2>1. n + 1 \in 0..(n + 1) /\ n + 1 # 0 /\ (n + 1) - 1 = n BY <1>1
  <2> HIDE DEF n, a
  <2> QED BY <1>1, <1>3, <2>1 DEF Kept
<1> QED BY <1>2, <1>3, <1>4, <1>5

(* What is left has none of the names. *)
LEMMA DroppingType ==
  ASSUME NEW H, NEW s \in Seq(H), NEW names
  PROVE  Dropping(s, names) \in Seq({h \in H : h.name \notin names})
<1> DEFINE K == {h \in H : h.name \notin names}
           G == {t \in Seq(H) : Dropping(t, names) \in Seq(K)}
<1>1. <<>> \in G
  <2>1. <<>> \in Seq(H) /\ <<>> \in Seq(K) BY EmptySeq
  <2> QED BY <2>1, NothingToDrop
<1>2. \A t \in Seq(H) : \A h \in H : t \in G => Append(t, h) \in G
  <2> SUFFICES ASSUME NEW t \in Seq(H), NEW h \in H, t \in G PROVE Append(t, h) \in G
    OBVIOUS
  <2>1. Dropping(Append(t, h), names) =
          IF h.name \in names THEN Dropping(t, names) ELSE Append(Dropping(t, names), h)
    BY DroppingStep
  <2>2. h.name \notin names => h \in K OBVIOUS
  <2>3. Append(t, h) \in Seq(H) /\ Dropping(t, names) \in Seq(K) OBVIOUS
  <2> HIDE DEF K
  <2>4. Dropping(Append(t, h), names) \in Seq(K) BY <2>1, <2>2, <2>3
  <2> QED BY <2>3, <2>4
<1> HIDE DEF G
<1>3. Seq(H) \subseteq G BY <1>1, <1>2, InductionOnSequences
<1> QED BY <1>3 DEF G

LEMMA DroppingIn ==
  ASSUME NEW H, NEW s \in Seq(H), NEW names
  PROVE  Dropping(s, names) \in Seq(H)
<1>1. {h \in H : h.name \notin names} \subseteq H OBVIOUS
<1>2. Dropping(s, names) \in Seq({h \in H : h.name \notin names}) BY DroppingType
<1> QED BY <1>1, <1>2, SeqMonotonic

(* Only the names that occur matter. *)
LEMMA DroppingSame ==
  ASSUME NEW H, NEW s \in Seq(H), NEW names, NEW others,
         \A h \in H : h.name \in names <=> h.name \in others
  PROVE  Dropping(s, names) = Dropping(s, others)
<1> DEFINE G == {t \in Seq(H) : Dropping(t, names) = Dropping(t, others)}
<1>1. <<>> \in G
  <2>1. Dropping(<<>>, names) = <<>> /\ Dropping(<<>>, others) = <<>>
    BY NothingToDrop
  <2>2. <<>> \in Seq(H) BY EmptySeq
  <2> QED BY <2>1, <2>2
<1>2. \A t \in Seq(H) : \A h \in H : t \in G => Append(t, h) \in G
  <2> SUFFICES ASSUME NEW t \in Seq(H), NEW h \in H, t \in G PROVE Append(t, h) \in G
    OBVIOUS
  <2>1. /\ Dropping(Append(t, h), names) =
            IF h.name \in names THEN Dropping(t, names) ELSE Append(Dropping(t, names), h)
        /\ Dropping(Append(t, h), others) =
            IF h.name \in others THEN Dropping(t, others) ELSE Append(Dropping(t, others), h)
    BY DroppingStep
  <2>2. Append(t, h) \in Seq(H) /\ Dropping(t, names) = Dropping(t, others) OBVIOUS
  <2>3. Dropping(Append(t, h), names) = Dropping(Append(t, h), others) BY <2>1, <2>2
  <2> QED BY <2>2, <2>3
<1> HIDE DEF G
<1>3. Seq(H) \subseteq G BY <1>1, <1>2, InductionOnSequences
<1> QED BY <1>3 DEF G

LEMMA DroppingTwice ==
  ASSUME NEW H, NEW s \in Seq(H), NEW names, NEW others
  PROVE  Dropping(Dropping(s, names), others) = Dropping(s, names \cup others)
<1> DEFINE both == names \cup others
           G == {t \in Seq(H) : Dropping(Dropping(t, names), others) = Dropping(t, both)}
<1>1. <<>> \in G
  <2>1. /\ Dropping(<<>>, names) = <<>> /\ Dropping(<<>>, others) = <<>>
        /\ Dropping(<<>>, both) = <<>>
    BY NothingToDrop
  <2>2. <<>> \in Seq(H) BY EmptySeq
  <2> QED BY <2>1, <2>2
<1>2. \A t \in Seq(H) : \A h \in H : t \in G => Append(t, h) \in G
  <2> SUFFICES ASSUME NEW t \in Seq(H), NEW h \in H, t \in G PROVE Append(t, h) \in G
    OBVIOUS
  <2> DEFINE d == Dropping(t, names)
  <2>1. d \in Seq(H) BY DroppingIn
  <2>2. /\ Dropping(Append(t, h), names) = IF h.name \in names THEN d ELSE Append(d, h)
        /\ Dropping(Append(t, h), both) =
            IF h.name \in both THEN Dropping(t, both) ELSE Append(Dropping(t, both), h)
    BY DroppingStep
  <2>4. Append(t, h) \in Seq(H) /\ Dropping(d, others) = Dropping(t, both) OBVIOUS
  <2>5. h.name \in both <=> h.name \in names \/ h.name \in others OBVIOUS
  <2> HIDE DEF both, d
  <2>3. Dropping(Append(d, h), others) =
          IF h.name \in others THEN Dropping(d, others) ELSE Append(Dropping(d, others), h)
    BY <2>1, DroppingStep
  <2>6. Dropping(Dropping(Append(t, h), names), others) = Dropping(Append(t, h), both)
    <3>1. CASE h.name \in names BY <2>2, <2>4, <2>5, <3>1
    <3>2. CASE h.name \notin names
      <4>1. Dropping(Append(t, h), names) = Append(d, h) BY <2>2, <3>2
      <4> QED BY <2>2, <2>3, <2>4, <2>5, <3>2, <4>1
    <3> QED BY <3>1, <3>2
  <2> QED BY <2>4, <2>6 DEF both
<1> HIDE DEF G
<1>3. Seq(H) \subseteq G BY <1>1, <1>2, InductionOnSequences
<1> QED BY <1>3 DEF G

(* Headers as they are persisted: the names stay, the values become text.  *)
Text(h) == [name |-> h.name, value |-> HeaderValueString(h.value)]

LEMMA TextOfAppend ==
  ASSUME NEW H, \A h \in H : h = [name |-> h.name, value |-> h.value],
         NEW s \in Seq(H)
  PROVE  /\ AsText(<<>>) = <<>>
         /\ AsText(s) \in Seq({Text(h) : h \in H}) /\ Len(AsText(s)) = Len(s)
         /\ \A k \in 1..Len(s) : AsText(s)[k] = Text(s[k])
         /\ \A h \in H : AsText(Append(s, h)) = Append(AsText(s), Text(h))
<1> DEFINE T == {Text(h) : h \in H}
<1>1. \A t \in Seq(H) : \A k \in 1..Len(t) :
        [t[k] EXCEPT !.value = HeaderValueString(@)] = Text(t[k])
  <2> SUFFICES ASSUME NEW t \in Seq(H), NEW k \in 1..Len(t)
               PROVE  [t[k] EXCEPT !.value = HeaderValueString(@)] = Text(t[k])
    OBVIOUS
  <2>1. t[k] = [name |-> t[k].name, value |-> t[k].value] BY ElementOfSeq
  <2> QED BY <2>1 DEF Text
<1>2. \A t \in Seq(H) : AsText(t) = [k \in 1..Len(t) |-> Text(t[k])]
  <2>1. \A t \in Seq(H) : DOMAIN t = 1..Len(t) OBVIOUS
  <2> QED BY <1>1, <2>1 DEF AsText
<1>3. \A t \in Seq(H) : /\ AsText(t) \in Seq(T) /\ Len(AsText(t)) = Len(t)
                        /\ \A k \in 1..Len(t) : AsText(t)[k] = Text(t[k])
  <2> SUFFICES ASSUME NEW t \in Seq(H)
               PROVE  /\ AsText(t) \in Seq(T) /\ Len(AsText(t)) = Len(t)
                      /\ \A k \in 1..Len(t) : AsText(t)[k] = Text(t[k])
    OBVIOUS
  <2>1. \A k \in 1..Len(t) : Text(t[k]) \in T BY ElementOfSeq
  <2>2. Len(t) \in Nat OBVIOUS
  <2> DEFINE f == [k \in 1..Len(t) |-> Text(t[k])]
  <2>3. f \in Seq(T) BY <2>1, <2>2
  <2>4. AsText(t) = f BY <1>2
  <2>5. Len(f) = Len(t) BY <2>2
  <2> HIDE DEF T
  <2> QED BY <2>3, <2>4, <2>5
<1>4. AsText(<<>>) = <<>>
  <2>1. <<>> \in Seq(H) /\ Len(<<>>) = 0 BY EmptySeq
  <2> HIDE DEF T
  <2>2. AsText(<<>>) \in Seq(T) /\ Len(AsText(<<>>)) = 0 BY <1>3, <2>1
  <2> QED BY <2>2, EmptySeq
<1>5. ASSUME NEW h \in H PROVE AsText(Append(s, h)) = Append(AsText(s), Text(h))
  <2> DEFINE a == Append(s, h)
             b == Append(AsText(s), Text(h))
  <2>1. a \in Seq(H) /\ Len(a) = Len(s) + 1 /\ a[Len(s) + 1] = h
        /\ \A k \in 1..Len(s) : a[k] = s[k]
    OBVIOUS
  <2>2. Text(h) \in T OBVIOUS
  <2> HIDE DEF T
  <2>3. b \in Seq(T) /\ Len(b) = Len(s) + 1 /\ b[Len(s) + 1] = Text(h)
        /\ \A k \in 1..Len(s) : b[k] = Text(s[k])
    BY <1>3, <2>2
  <2> HIDE DEF a, b
  <2>4. AsText(a) \in Seq(T) /\ Len(AsText(a)) = Len(s) + 1
        /\ \A k \in 1..(Len(s) + 1) : AsText(a)[k] = Text(a[k])
    BY <1>3, <2>1
  <2>5. \A k \in 1..(Len(s) + 1) : AsText(a)[k] = b[k]
    <3>1. \A k \in 1..(Len(s) + 1) : k = Len(s) + 1 \/ k \in 1..Len(s) OBVIOUS
    <3> QED BY <2>1, <2>3, <2>4, <3>1
  <2>6. AsText(a) = b BY <2>3, <2>4, <2>5, SeqEqual
  <2> QED BY <2>6 DEF a, b
<1> QED BY <1>3, <1>4, <1>5

LEMMA TextOfDropping ==
  ASSUME NEW H, \A h \in H : h = [name |-> h.name, value |-> h.value],
         NEW s \in Seq(H), NEW names
  PROVE  AsText(Dropping(s, names)) = Dropping(AsText(s), names)
<1> DEFINE T == {Text(h) : h \in H}
           G == {t \in Seq(H) : AsText(Dropping(t, names)) = Dropping(AsText(t), names)}
<1>1. <<>> \in G
  <2>1. <<>> \in Seq(H) /\ AsText(<<>>) = <<>> BY TextOfAppend, EmptySeq
  <2>2. Dropping(<<>>, names) = <<>> BY NothingToDrop
  <2> QED BY <2>1, <2>2
<1>2. \A t \in Seq(H) : \A h \in H : t \in G => Append(t, h) \in G
  <2> SUFFICES ASSUME NEW t \in Seq(H), NEW h \in H, t \in G PROVE Append(t, h) \in G
    OBVIOUS
  <2> DEFINE d == Dropping(t, names)
  <2>1. d \in Seq(H) BY DroppingIn
  <2>2. Dropping(Append(t, h), names) = IF h.name \in names THEN d ELSE Append(d, h)
    BY DroppingStep
  <2>3. /\ AsText(t) \in Seq(T) /\ Text(h) \in T
        /\ AsText(Append(t, h)) = Append(AsText(t), Text(h))
        /\ AsText(Append(d, h)) = Append(AsText(d), Text(h))
    BY <2>1, TextOfAppend
  <2>4. Dropping(Append(AsText(t), Text(h)), names) =
          IF Text(h).name \in names THEN Dropping(AsText(t), names)
          ELSE Append(Dropping(AsText(t), names), Text(h))
    BY <2>3, DroppingStep
  <2>5. Text(h).name = h.name BY DEF Text
  <2>6. Append(t, h) \in Seq(H) /\ AsText(d) = Dropping(AsText(t), names) OBVIOUS
  <2> HIDE DEF T, d
  <2>7. AsText(Dropping(Append(t, h), names)) = Dropping(AsText(Append(t, h)), names)
    BY <2>2, <2>3, <2>4, <2>5, <2>6
  <2> QED BY <2>6, <2>7
<1> HIDE DEF G
<1>3. Seq(H) \subseteq G BY <1>1, <1>2, InductionOnSequences
<1> QED BY <1>3 DEF G

-----------------------------------------------------------------------------
(* The names of a list of headers. *)

LEMMA HeaderListType ==
  ASSUME NEW s, IsHeaderList(s)
  PROVE  /\ s \in Seq(ToSet(s))
         /\ \A h \in ToSet(s) : h = [name |-> h.name, value |-> h.value]
<1> DEFINE R == {[name |-> s[k].name, value |-> s[k].value] : k \in DOMAIN s}
<1>1. s \in Seq(R) BY DEF IsHeaderList
<1>2. \A h \in R : h = [name |-> h.name, value |-> h.value] OBVIOUS
<1>3. ToSet(s) \subseteq R BY <1>1, ElementsAreMembers
<1> HIDE DEF R
<1>4. /\ Len(s) \in Nat /\ DOMAIN s = 1..Len(s) /\ s = [k \in 1..Len(s) |-> s[k]]
      /\ \A k \in 1..Len(s) : s[k] \in ToSet(s)
  BY <1>1 DEF ToSet
<1>5. s \in [1..Len(s) -> ToSet(s)] BY <1>4
<1>6. s \in Seq(ToSet(s)) BY <1>4, <1>5
<1> QED BY <1>2, <1>3, <1>6

LEMMA NamesAreOfElements ==
  ASSUME NEW s
  PROVE  NamesIn(s) = {h.name : h \in ToSet(s)}
  BY DEF NamesIn, ToSet

LEMMA NamesOfDropping ==
  ASSUME NEW H, NEW s \in Seq(H), NEW names
  PROVE  NamesIn(Dropping(s, names)) \subseteq NamesIn(s) \ names
<1> DEFINE K == {h \in ToSet(s) : h.name \notin names}
<1>1. s \in Seq(ToSet(s))
  <2>1. /\ Len(s) \in Nat /\ DOMAIN s = 1..Len(s) /\ s = [k \in 1..Len(s) |-> s[k]]
        /\ \A k \in 1..Len(s) : s[k] \in ToSet(s)
    BY DEF ToSet
  <2>2. s \in [1..Len(s) -> ToSet(s)] BY <2>1
  <2> QED BY <2>1, <2>2
<1>2. Dropping(s, names) \in Seq(K) BY <1>1, DroppingType
<1>3. ToSet(Dropping(s, names)) \subseteq K
  <2> HIDE DEF K
  <2> QED BY <1>2, ElementsAreMembers
<1> QED BY <1>3, NamesAreOfElements

LEMMA NamesOfText ==
  ASSUME NEW H, \A h \in H : h = [name |-> h.name, value |-> h.value],
         NEW s \in Seq(H)
  PROVE  NamesIn(AsText(s)) = NamesIn(s)
<1>1. /\ AsText(s) \in Seq({Text(h) : h \in H}) /\ Len(AsText(s)) = Len(s)
      /\ \A k \in 1..Len(s) : AsText(s)[k] = Text(s[k])
  BY TextOfAppend
<1>2. DOMAIN AsText(s) = 1..Len(s) /\ DOMAIN s = 1..Len(s) BY <1>1, LenProperties
<1>3. \A h : Text(h).name = h.name BY DEF Text
<1> QED BY <1>1, <1>2, <1>3 DEF NamesIn

LEMMA NamesOfConcat ==
  ASSUME NEW S, NEW s \in Seq(S), NEW t \in Seq(S)
  PROVE  NamesIn(s \o t) = NamesIn(s) \cup NamesIn(t)
<1> DEFINE c == s \o t
<1>1. /\ Len(s) \in Nat /\ Len(t) \in Nat /\ DOMAIN s = 1..Len(s) /\ DOMAIN t = 1..Len(t)
      /\ DOMAIN c = 1..(Len(s) + Len(t))
      /\ \A k \in 1..Len(s) : k \in 1..(Len(s) + Len(t)) /\ c[k] = s[k]
      /\ \A k \in 1..Len(t) : Len(s) + k \in 1..(Len(s) + Len(t)) /\ c[Len(s) + k] = t[k]
      /\ \A k \in 1..(Len(s) + Len(t)) :
           (k \in 1..Len(s) /\ c[k] = s[k])
             \/ (k - Len(s) \in 1..Len(t) /\ c[k] = t[k - Len(s)])
  BY ConcatProperties
<1> HIDE DEF c
<1>2. NamesIn(c) \subseteq NamesIn(s) \cup NamesIn(t)
  BY <1>1 DEF NamesIn
<1>3. NamesIn(s) \subseteq NamesIn(c) /\ NamesIn(t) \subseteq NamesIn(c)
  BY <1>1 DEF NamesIn
<1> QED BY <1>2, <1>3 DEF c

-----------------------------------------------------------------------------
(* What the header policy makes of the headers of a request or an answer.  *)

(* Dropping what is in lower case anyway needs no lower case. *)
LEMMA DroppingByLowerCase ==
  ASSUME NEW H, NEW s \in Seq(H), NEW names,
         \A n \in NamesIn(s) : LowerCase(n) = n
  PROVE  Dropping(s, {n \in NamesIn(s) : LowerCase(n) \in names}) = Dropping(s, names)
<1> DEFINE lower == {n \in NamesIn(s) : LowerCase(n) \in names}
<1>1. s \in Seq(ToSet(s))
  <2>1. /\ Len(s) \in Nat /\ DOMAIN s = 1..Len(s) /\ s = [k \in 1..Len(s) |-> s[k]]
        /\ \A k \in 1..Len(s) : s[k] \in ToSet(s)
    BY DEF ToSet
  <2>2. s \in [1..Len(s) -> ToSet(s)] BY <2>1
  <2> QED BY <2>1, <2>2
<1>2. \A h \in ToSet(s) : h.name \in lower <=> h.name \in names
  BY NamesAreOfElements
<1> HIDE DEF lower
<1>3. Dropping(s, lower) = Dropping(s, names) BY <1>1, <1>2, DroppingSame
<1> QED BY <1>3 DEF lower

LEMMA ForThisHopIsDropped ==
  ASSUME NEW headers, IsHeaderMap(headers), NEW excluded
  PROVE  NamesIn(SelectedHeaderBytes(headers, excluded)) \cap ForThisHop(headers) = {}
<1>1. headers \in Seq(ToSet(headers)) BY HeaderListType DEF IsHeaderMap
<1>2. NamesIn(SelectedHeaderBytes(headers, excluded))
        \subseteq NamesIn(headers) \ Disallowed(headers, excluded)
  BY <1>1, NamesOfDropping DEF SelectedHeaderBytes
<1>3. "" \notin NamesIn(headers) BY DEF IsHeaderMap, NamesIn
<1>4. ForThisHop(headers) \subseteq Disallowed(headers, excluded) \cup {""}
  <2> SUFFICES ASSUME NEW n \in ForThisHop(headers), n \notin HopByHop, n # ""
               PROVE  n \in ConnectionTokens(headers)
    BY DEF Disallowed
  <2>1. PICK k \in DOMAIN headers :
          headers[k].name = "connection" /\ \E t \in Listed[headers[k].value] : LowerCase(t) = n
    BY DEF ForThisHop
  <2>2. n \in {LowerCase(t) : t \in Listed[headers[k].value]} BY <2>1
  <2>3. k \in {j \in DOMAIN headers : headers[j].name = "connection"} BY <2>1
  <2> DEFINE tokens == {{LowerCase(t) : t \in Listed[headers[j].value]} :
                          j \in {j \in DOMAIN headers : headers[j].name = "connection"}}
  <2>4. {LowerCase(t) : t \in Listed[headers[k].value]} \in tokens BY <2>3
  <2>5. n \in UNION tokens
    <3> HIDE DEF tokens
    <3> QED BY <2>2, <2>4
  <2>6. ConnectionTokens(headers) = (UNION tokens) \ {""} BY DEF ConnectionTokens
  <2>7. n \notin {""} OBVIOUS
  <2> HIDE DEF tokens
  <2> QED BY <2>5, <2>6, <2>7
<1> QED BY <1>2, <1>3, <1>4

(* A list of selected headers, as forwarded and as persisted. *)
LEMMA SelectedType ==
  ASSUME NEW headers, IsHeaderMap(headers), NEW excluded
  PROVE  LET s == SelectedHeaderBytes(headers, excluded)
             H == ToSet(headers)
         IN  /\ s \in Seq(H) /\ AsText(s) \in Seq({Text(h) : h \in H})
             /\ \A h \in H : h = [name |-> h.name, value |-> h.value]
             /\ NamesIn(AsText(s)) = NamesIn(s)
             /\ \A n \in NamesIn(s) : LowerCase(n) = n
<1> DEFINE s == SelectedHeaderBytes(headers, excluded)
           H == ToSet(headers)
<1>1. headers \in Seq(H) /\ \A h \in H : h = [name |-> h.name, value |-> h.value]
  BY HeaderListType DEF IsHeaderMap
<1>2. s \in Seq(H) BY <1>1, DroppingIn DEF SelectedHeaderBytes
<1>3. NamesIn(s) \subseteq NamesIn(headers)
  BY <1>1, NamesOfDropping DEF SelectedHeaderBytes
<1>4. \A n \in NamesIn(headers) : LowerCase(n) = n
  BY DEF IsHeaderMap, NamesIn
<1> HIDE DEF s, H
<1>5. AsText(s) \in Seq({Text(h) : h \in H}) BY <1>1, <1>2, TextOfAppend
<1>6. NamesIn(AsText(s)) = NamesIn(s) BY <1>1, <1>2, NamesOfText
<1> QED BY <1>1, <1>2, <1>3, <1>4, <1>5, <1>6 DEF s, H

(* What is persisted of them. *)
LEMMA PersistedHeaders ==
  ASSUME NEW headers, IsHeaderMap(headers), NEW excluded, NEW drop
  PROVE  LET dropped == {LowerCase(n) : n \in drop} IN
         RedactHeaders(SelectedHeaders(headers, excluded), drop)
           = Dropping(AsText(SelectedHeaderBytes(headers, excluded)), dropped)
<1> DEFINE s == SelectedHeaderBytes(headers, excluded)
           T == {Text(h) : h \in ToSet(headers)}
           dropped == {LowerCase(n) : n \in drop}
<1>1. /\ AsText(s) \in Seq(T) /\ NamesIn(AsText(s)) = NamesIn(s)
      /\ \A n \in NamesIn(s) : LowerCase(n) = n
  BY SelectedType
<1> HIDE DEF s, T, dropped
<1>2. Dropping(AsText(s), {n \in NamesIn(AsText(s)) : LowerCase(n) \in dropped})
        = Dropping(AsText(s), dropped)
  BY <1>1, DroppingByLowerCase
<1> QED BY <1>2 DEF RedactHeaders, SelectedHeaders, s, dropped

LEMMA PersistedNames ==
  ASSUME NEW headers, IsHeaderMap(headers), NEW excluded, NEW drop
  PROVE  NamesIn(RedactHeaders(SelectedHeaders(headers, excluded), drop))
           \cap ({LowerCase(n) : n \in drop} \cup ForThisHop(headers)) = {}
<1> DEFINE s == SelectedHeaderBytes(headers, excluded)
           T == {Text(h) : h \in ToSet(headers)}
           dropped == {LowerCase(n) : n \in drop}
<1>1. AsText(s) \in Seq(T) /\ NamesIn(AsText(s)) = NamesIn(s) BY SelectedType
<1>2. RedactHeaders(SelectedHeaders(headers, excluded), drop) = Dropping(AsText(s), dropped)
  BY PersistedHeaders
<1>3. NamesIn(s) \cap ForThisHop(headers) = {} BY ForThisHopIsDropped
<1> HIDE DEF s, T, dropped
<1>4. NamesIn(Dropping(AsText(s), dropped)) \subseteq NamesIn(s) \ dropped
  BY <1>1, NamesOfDropping
<1> QED BY <1>2, <1>3, <1>4 DEF dropped

-----------------------------------------------------------------------------
(* What is sent upstream. *)

LEMMA ForwardedType ==
  ASSUME NEW headers, IsHeaderMap(headers)
  PROVE  LET s == SelectedHeaderBytes(headers, RequestOnlyExcluded)
             f == ForwardedHeaders(s)
         IN  /\ f \in Seq(ToSet(headers))
             /\ f = Dropping(s, {"authorization"})
             /\ NamesIn(f) \subseteq NamesIn(s) \ {"authorization"}
<1> DEFINE s == SelectedHeaderBytes(headers, RequestOnlyExcluded)
           H == ToSet(headers)
<1>1. s \in Seq(H) /\ \A n \in NamesIn(s) : LowerCase(n) = n BY SelectedType
<1> HIDE DEF s, H
<1>2. {n \in NamesIn(s) : ~ShouldForward(n)}
        = {n \in NamesIn(s) : LowerCase(n) \in {"authorization"}}
  BY DEF ShouldForward
<1>3. ForwardedHeaders(s) = Dropping(s, {"authorization"})
  BY <1>1, <1>2, DroppingByLowerCase DEF ForwardedHeaders
<1>4. /\ Dropping(s, {"authorization"}) \in Seq(H)
      /\ NamesIn(Dropping(s, {"authorization"})) \subseteq NamesIn(s) \ {"authorization"}
  BY <1>1, DroppingIn, NamesOfDropping
<1> QED BY <1>3, <1>4 DEF s, H

LEMMA ExtraType ==
  ASSUME NEW extra, IsHeaderList(extra)
  PROVE  LET e == ExtraHeaders(extra) IN
         /\ \E S : e \in Seq(S)
         /\ "authorization" \notin NamesIn(e)
         /\ NamesIn(e) \subseteq {LowerCase(n) : n \in NamesIn(extra)}
         /\ ~ExtraRefused(extra) => NamesIn(e) \cap HopByHop = {}
<1> DEFINE H == ToSet(extra)
           out == {n \in NamesIn(extra) : ~ShouldForward(n)}
           sent == Dropping(extra, out)
           Sent(h) == [name |-> LowerCase(h.name), value |-> h.value]
           e == ExtraHeaders(extra)
<1>1. extra \in Seq(H) /\ \A h \in H : h = [name |-> h.name, value |-> h.value]
  BY HeaderListType
<1>2. sent \in Seq(H) /\ NamesIn(sent) \subseteq NamesIn(extra) \ out
  <2> HIDE DEF H, out
  <2> QED BY <1>1, DroppingIn, NamesOfDropping
<1>3. DOMAIN sent = 1..Len(sent) /\ Len(sent) \in Nat /\ \A k \in 1..Len(sent) : sent[k] \in H
  <2> HIDE DEF H, sent
  <2> QED BY <1>2, ElementOfSeq
<1>4. e = [k \in 1..Len(sent) |-> Sent(sent[k])]
  <2>1. e = [k \in 1..Len(sent) |-> [sent[k] EXCEPT !.name = LowerCase(@)]]
    BY <1>3 DEF ExtraHeaders
  <2>2. ASSUME NEW k \in 1..Len(sent)
        PROVE  [sent[k] EXCEPT !.name = LowerCase(@)] = Sent(sent[k])
    <3>1. sent[k] = [name |-> sent[k].name, value |-> sent[k].value] BY <1>1, <1>3
    <3> HIDE DEF sent
    <3> QED BY <3>1
  <2> HIDE DEF sent, e, Sent
  <2> QED BY <2>1, <2>2
<1> HIDE DEF sent, e
<1>5. e \in Seq({Sent(h) : h \in H}) BY <1>3, <1>4
<1>6. NamesIn(e) = {LowerCase(n) : n \in NamesIn(sent)}
  <2>1. DOMAIN e = 1..Len(sent) /\ \A k \in 1..Len(sent) : e[k].name = LowerCase(sent[k].name)
    BY <1>4
  <2> QED BY <1>3, <2>1 DEF NamesIn
<1>7. \A n \in NamesIn(sent) : n \in NamesIn(extra) /\ LowerCase(n) # "authorization"
  BY <1>2 DEF ShouldForward
<1>8. ASSUME ~ExtraRefused(extra) PROVE NamesIn(e) \cap HopByHop = {}
  <2>1. \A n \in NamesIn(sent) : LowerCase(n) \notin ForbiddenExtra
    <3> SUFFICES ASSUME NEW n \in NamesIn(sent) PROVE LowerCase(n) \notin ForbiddenExtra
      OBVIOUS
    <3>1. PICK k \in DOMAIN extra : n = extra[k].name BY <1>7 DEF NamesIn
    <3>2. ShouldForward(n) BY <1>7 DEF ShouldForward
    <3> QED BY <1>8, <3>1, <3>2 DEF ExtraRefused
  <2>2. HopByHop \subseteq ForbiddenExtra BY DEF HopByHop, ForbiddenExtra
  <2> QED BY <1>6, <2>1, <2>2
<1> QED BY <1>5, <1>6, <1>7, <1>8 DEF e

LEMMA OutboundNames ==
  ASSUME NEW headers, IsHeaderMap(headers), NEW extra, IsHeaderList(extra),
         ~ExtraRefused(extra), NEW key
  PROVE  LET f == SelectedHeaderBytes(headers, RequestOnlyExcluded)
             out == OutboundHeaders(key, f, extra)
         IN  /\ \A k \in DOMAIN out : out[k].name = "authorization" => out[k].value = key
             /\ NamesIn(out) \cap ForThisHop(headers)
                  \subseteq ({"authorization"} \cup {LowerCase(n) : n \in NamesIn(extra)})
                              \ HopByHop
<1> DEFINE s == SelectedHeaderBytes(headers, RequestOnlyExcluded)
           b == BearerAuth(key)
           f == ForwardedHeaders(s)
           e == ExtraHeaders(extra)
           out == OutboundHeaders(key, s, extra)
<1>1. /\ f \in Seq(ToSet(headers))
      /\ NamesIn(f) \subseteq NamesIn(s) \ {"authorization"}
  BY ForwardedType
<1>2. NamesIn(s) \cap ForThisHop(headers) = {} BY ForThisHopIsDropped
<1>3. /\ "authorization" \notin NamesIn(e)
      /\ NamesIn(e) \subseteq {LowerCase(n) : n \in NamesIn(extra)} \ HopByHop
  BY ExtraType
<1>4. PICK S : e \in Seq(S) BY ExtraType
<1>5. b \in Seq({b[1]}) /\ Len(b) = 1 /\ NamesIn(b) = {"authorization"} /\ b[1].value = key
  BY DEF BearerAuth, NamesIn
<1>6. out = b \o f \o e BY DEF OutboundHeaders
<1> HIDE DEF s, b, f, e, out
<1> DEFINE U == {b[1]} \cup ToSet(headers) \cup S
<1>7. b \in Seq(U) /\ f \in Seq(U) /\ e \in Seq(U)
  BY <1>1, <1>4, <1>5, SeqMonotonic
<1> HIDE DEF U
<1>8. b \o f \in Seq(U) BY <1>7, ConcatProperties
<1>9. NamesIn(out) = {"authorization"} \cup NamesIn(f) \cup NamesIn(e)
  <2>1. NamesIn(b \o f) = NamesIn(b) \cup NamesIn(f) BY <1>7, NamesOfConcat
  <2>2. NamesIn(out) = NamesIn(b \o f) \cup NamesIn(e) BY <1>6, <1>7, <1>8, NamesOfConcat
  <2> QED BY <1>5, <2>1, <2>2
<1>10. \A k \in DOMAIN out : out[k].name = "authorization" => out[k].value = key
  <2> SUFFICES ASSUME NEW k \in DOMAIN out, out[k].name = "authorization", k # 1
               PROVE  FALSE
    <3>1. out[1] = b[1] BY <1>5, <1>6, <1>7, <1>8, ConcatProperties
    <3> QED BY <1>5, <3>1
  <2> DEFINE rest == f \o e
  <2>1. out = b \o rest
    <3>1. (b \o f) \o e = b \o (f \o e) BY <1>7, ConcatAssociative
    <3> QED BY <1>6, <3>1
  <2>2. rest \in Seq(U) /\ NamesIn(rest) = NamesIn(f) \cup NamesIn(e)
    BY <1>7, ConcatProperties, NamesOfConcat
  <2> HIDE DEF rest
  <2>3. k - 1 \in DOMAIN rest /\ out[k] = rest[k - 1]
    <3>1. DOMAIN rest = 1..Len(rest) /\ Len(rest) \in Nat BY <2>2
    <3>2. /\ out \in Seq(U) /\ Len(out) = 1 + Len(rest)
          /\ \A i \in 1..(1 + Len(rest)) : out[i] = IF i <= 1 THEN b[i] ELSE rest[i - 1]
      <4>1. /\ b \o rest \in Seq(U) /\ Len(b \o rest) = Len(b) + Len(rest)
            /\ \A i \in 1..(Len(b) + Len(rest)) :
                 (b \o rest)[i] = IF i <= Len(b) THEN b[i] ELSE rest[i - Len(b)]
        BY <1>7, <2>2, ConcatProperties
      <4> QED BY <1>5, <2>1, <4>1
    <3>3. DOMAIN out = 1..(1 + Len(rest)) BY <3>2
    <3> QED BY <3>1, <3>2, <3>3
  <2>4. "authorization" \in NamesIn(rest) BY <2>3 DEF NamesIn
  <2> QED BY <1>1, <1>3, <2>2, <2>4
<1>11. "authorization" \notin HopByHop BY DEF HopByHop
<1>12. NamesIn(out) \cap ForThisHop(headers)
         \subseteq ({"authorization"} \cup {LowerCase(n) : n \in NamesIn(extra)}) \ HopByHop
  BY <1>1, <1>2, <1>3, <1>9, <1>11
<1> QED BY <1>10, <1>12 DEF s, out

-----------------------------------------------------------------------------
(* An exchange as far as it got: what upstream received, what the client   *)
(* was answered and what was persisted are the captured request's and the  *)
(* upstream answer's, of one exchange.                                     *)

OfAnExchange ==
  \E x \in Exchanges : request = x.request /\ config = x.config /\ answer = x.answer

Forwarded ==
  [url     |-> ChatCompletionsUrl(config.base, request.query),
   headers |-> OutboundHeaders(ApiKey, ForwardHeaders(request), config.extra),
   body    |-> request.body]

Answered == Response(ResponseStatus(answer.status), ProxyHeaders(answer))

SentOK == OfAnExchange /\ outbound = Forwarded /\ ~ExtraRefused(config.extra)

(* What each stage of an exchange has sent, returned and persisted. *)
RecordingOK ==
  /\ stage = "received" => OfAnExchange
  /\ stage \in {"received", "sent"} => interaction = Nothing
  /\ stage = "sent" => SentOK
  /\ stage = "returned" => SentOK /\ live = Answered
  /\ outbound # Nothing => SentOK
  /\ live # Nothing => live = ErrorResponse \/ (OfAnExchange /\ live = Answered)
  /\ interaction # Nothing =>
       /\ SentOK /\ live = Answered
       /\ interaction = [request |-> RecordedRequest, response |-> RecordedResponse]

LEMMA InitRecording == Init => RecordingOK
<1> SUFFICES ASSUME Init PROVE RecordingOK OBVIOUS
<1>1. outbound = Nothing /\ live = Nothing /\ interaction = Nothing BY DEF Init
<1>2. stage = "received" => OfAnExchange BY DEF Init, Existing, OfAnExchange
<1>3. stage \in {"received", "library", "replaying"} BY DEF Init, Existing
<1> QED BY <1>1, <1>2, <1>3 DEF RecordingOK

LEMMA NextRecording == RecordingOK /\ [Next]_vars => RecordingOK'
<1> SUFFICES ASSUME RecordingOK, [Next]_vars PROVE RecordingOK' OBVIOUS
<1>1. \/ UNCHANGED <<request, config, answer>> /\ Next
      \/ UNCHANGED vars
  BY DEF Next, ResolveApiKeyFails, BuildOutboundFails, SendUpstream, UpstreamFails,
         UpstreamAnswers, Persist, RecordingFails, PopulateCanonicalFields, LoadCassette,
         CallEngine, vars, exchangeVars
<1>2. CASE UNCHANGED vars
  <2>1. UNCHANGED <<stage, request, config, answer, outbound, live, interaction>>
    BY <1>2 DEF vars, exchangeVars
  <2> QED BY <2>1 DEF RecordingOK, SentOK, OfAnExchange, Forwarded, Answered,
                      RecordedRequest, RecordedResponse, ForwardHeaders, ProxyHeaders
<1>3. CASE Next /\ UNCHANGED <<request, config, answer>>
  <2>1. /\ OfAnExchange' = OfAnExchange /\ Forwarded' = Forwarded /\ Answered' = Answered
        /\ RecordedRequest' = RecordedRequest /\ RecordedResponse' = RecordedResponse
        /\ ExtraRefused(config.extra)' = ExtraRefused(config.extra)
    BY <1>3 DEF OfAnExchange, Forwarded, Answered, RecordedRequest, RecordedResponse,
                ForwardHeaders, ProxyHeaders
  <2>2. outbound' = outbound => SentOK' = SentOK BY <2>1 DEF SentOK
  <2>3. CASE ResolveApiKeyFails \/ BuildOutboundFails \/ UpstreamFails
    <3>1. /\ stage' = "ended" /\ live' = ErrorResponse
          /\ UNCHANGED <<outbound, interaction>>
          /\ stage \in {"received", "sent"}
      BY <2>3 DEF ResolveApiKeyFails, BuildOutboundFails, UpstreamFails
    <3> QED BY <2>2, <3>1 DEF RecordingOK
  <2>4. CASE SendUpstream
    <3>1. /\ stage = "received" /\ stage' = "sent" /\ outbound' = Forwarded
          /\ ~ExtraRefused(config.extra) /\ UNCHANGED <<live, interaction>>
      BY <2>4 DEF SendUpstream, Forwarded
    <3>2. SentOK' BY <2>1, <3>1 DEF RecordingOK, SentOK
    <3> QED BY <2>1, <3>1, <3>2 DEF RecordingOK
  <2>5. CASE UpstreamAnswers
    <3>1. /\ stage = "sent" /\ stage' = "returned" /\ live' = Answered
          /\ UNCHANGED <<outbound, interaction>>
      BY <2>5 DEF UpstreamAnswers, Answered
    <3>2. OfAnExchange' BY <2>1, <3>1 DEF RecordingOK, SentOK
    <3> QED BY <2>1, <2>2, <3>1, <3>2 DEF RecordingOK
  <2>6. CASE Persist
    <3>1. /\ stage = "returned" /\ stage' = "ended"
          /\ interaction' = [request |-> RecordedRequest, response |-> RecordedResponse]
          /\ UNCHANGED <<outbound, live>>
      BY <2>6 DEF Persist
    <3> QED BY <2>1, <2>2, <3>1 DEF RecordingOK
  <2>7. CASE RecordingFails \/ PopulateCanonicalFields \/ LoadCassette \/ CallEngine
    <3>1. /\ UNCHANGED <<outbound, live, interaction>>
          /\ stage' \in {"ended", "populated", "refused", "replaying"}
      BY <2>7 DEF RecordingFails, PopulateCanonicalFields, LoadCassette, CallEngine, exchangeVars
    <3> QED BY <2>1, <2>2, <3>1 DEF RecordingOK
  <2> QED BY <1>3, <2>3, <2>4, <2>5, <2>6, <2>7 DEF Next
<1> QED BY <1>1, <1>2, <1>3

LEMMA RecordingInvariant == Spec => []RecordingOK
  BY InitRecording, NextRecording, PTL DEF Spec

(* What must stay out of what is sent, returned and persisted does: the    *)
(* redacted headers, those of one hop, and the client's own credentials    *)
(* (select_headers_unified in src/src/http_exchange.rs and the request     *)
(* that src/src/upstream.rs builds).                                       *)
THEOREM SecretsAreOut == Spec => []SecretsStayOut
<1>1. RecordingOK => SecretsStayOut
  <2> SUFFICES ASSUME RecordingOK PROVE SecretsStayOut OBVIOUS
  <2>1. ASSUME OfAnExchange
        PROVE  /\ IsHeaderMap(request.headers) /\ IsHeaderMap(answer.headers)
               /\ IsHeaderList(config.extra)
    BY <2>1, ExchangesAssumption DEF OfAnExchange
  <2>2. ASSUME interaction # Nothing
        PROVE  /\ NamesIn(interaction.request.headers)
                    \cap (ToDrop \cup ForThisHop(request.headers)) = {}
               /\ NamesIn(interaction.response.headers)
                    \cap (ToDrop \cup ForThisHop(answer.headers)) = {}
    <3>1. /\ IsHeaderMap(request.headers) /\ IsHeaderMap(answer.headers)
          /\ interaction = [request |-> RecordedRequest, response |-> RecordedResponse]
      BY <2>1, <2>2 DEF RecordingOK, SentOK
    <3>2. /\ interaction.request.headers =
                RedactHeaders(SelectedHeaders(request.headers, RequestOnlyExcluded), config.drop)
          /\ interaction.response.headers =
                RedactHeaders(SelectedHeaders(answer.headers, ResponseOnlyExcluded), config.drop)
      BY <3>1 DEF RecordedRequest, RecordedResponse
    <3> QED BY <3>1, <3>2, PersistedNames DEF ToDrop
  <2>3. ASSUME outbound # Nothing
        PROVE  /\ \A k \in DOMAIN outbound.headers :
                    outbound.headers[k].name = "authorization" =>
                      outbound.headers[k].value = ApiKey
               /\ NamesIn(outbound.headers) \cap ForThisHop(request.headers)
                    \subseteq ({"authorization"} \cup
                                  {LowerCase(n) : n \in NamesIn(config.extra)}) \ HopByHop
    <3>1. /\ IsHeaderMap(request.headers) /\ IsHeaderList(config.extra)
          /\ ~ExtraRefused(config.extra) /\ outbound = Forwarded
      BY <2>1, <2>3 DEF RecordingOK, SentOK
    <3>2. outbound.headers =
            OutboundHeaders(ApiKey, SelectedHeaderBytes(request.headers, RequestOnlyExcluded),
                            config.extra)
      BY <3>1 DEF Forwarded, ForwardHeaders
    <3> QED BY <3>1, <3>2, OutboundNames
  <2>4. ASSUME live # Nothing, live # ErrorResponse
        PROVE  NamesIn(live.headers) \cap ForThisHop(answer.headers) = {}
    <3>1. IsHeaderMap(answer.headers) /\ live = Answered
      BY <2>1, <2>4 DEF RecordingOK
    <3>2. live.headers = SelectedHeaderBytes(answer.headers, ResponseOnlyExcluded)
      BY <3>1 DEF Answered, Response, ProxyHeaders
    <3> QED BY <3>1, <3>2, ForThisHopIsDropped
  <2> QED BY <2>2, <2>3, <2>4 DEF SecretsStayOut
<1> QED BY <1>1, RecordingInvariant, PTL

-----------------------------------------------------------------------------
(* What was sent between the bearer token and the configured headers. *)
LEMMA MiddleOfConcat ==
  ASSUME NEW S, NEW b \in Seq(S), Len(b) = 1, NEW f \in Seq(S), NEW e \in Seq(S)
  PROVE  SubSeq(b \o f \o e, 2, Len(b \o f \o e) - Len(e)) = f
<1> DEFINE bf == b \o f
           all == bf \o e
           m == SubSeq(all, 2, Len(all) - Len(e))
<1>1. /\ bf \in Seq(S) /\ Len(bf) = 1 + Len(f)
      /\ \A i \in 1..(1 + Len(f)) : bf[i] = IF i <= 1 THEN b[i] ELSE f[i - 1]
  <2>1. /\ bf \in Seq(S) /\ Len(bf) = Len(b) + Len(f)
        /\ \A i \in 1..(Len(b) + Len(f)) : bf[i] = IF i <= Len(b) THEN b[i] ELSE f[i - Len(b)]
    BY ConcatProperties
  <2> HIDE DEF bf
  <2> QED BY <2>1
<1> HIDE DEF bf
<1>2. /\ all \in Seq(S) /\ Len(all) = Len(bf) + Len(e)
      /\ \A i \in 1..(Len(bf) + Len(e)) : all[i] = IF i <= Len(bf) THEN bf[i] ELSE e[i - Len(bf)]
  BY <1>1, ConcatProperties
<1>3. Len(b) \in Nat /\ Len(f) \in Nat /\ Len(e) \in Nat /\ Len(bf) \in Nat BY <1>1
<1> HIDE DEF all
<1>4. Len(all) - Len(e) = 1 + Len(f) BY <1>1, <1>2, <1>3
<1>5. /\ m \in Seq(S) /\ Len(m) = Len(f)
      /\ \A i \in 1..Len(f) : m[i] = all[i + 1]
  <2>1. \A i \in 2..(1 + Len(f)) : all[i] \in S
    BY <1>1, <1>2, <1>3, ElementOfSeq
  <2>2. m = SubSeq(all, 2, 1 + Len(f)) BY <1>4
  <2> QED BY <1>1, <1>2, <1>3, <2>1, <2>2
<1>6. \A i \in 1..Len(f) : m[i] = f[i]
  <2> SUFFICES ASSUME NEW i \in 1..Len(f) PROVE all[i + 1] = f[i] BY <1>5
  <2>1. i + 1 \in 1..(1 + Len(f)) /\ i + 1 \in 1..(Len(bf) + Len(e)) /\ i + 1 <= Len(bf)
        /\ ~(i + 1 <= 1) /\ (i + 1) - 1 = i
    BY <1>1, <1>3
  <2> QED BY <1>1, <1>2, <2>1
<1> HIDE DEF m
<1>7. m = f BY <1>5, <1>6, SeqEqual
<1> QED BY <1>7 DEF m, all, bf

(* Percent escapes put in for some bytes, "=" not among them, leave a      *)
(* parameter what it was.                                                  *)
LEMMA EncodedReadsTheSame ==
  ASSUME NEW t \in Seq([code : 0..255, escaped : BOOLEAN])
  PROVE  QueryPair(EncodedText(t)) = QueryPair(t)
<1> DEFINE e == EncodedText(t)
           B == [code : 0..255, escaped : BOOLEAN]
<1>1. ASSUME NEW b \in B
      PROVE  /\ EncodedByte(b) \in B /\ EncodedByte(b).code = b.code
             /\ EncodedByte(b) = EqualsSign <=> b = EqualsSign
  <2>1. EncodedByte(b) \in B /\ EncodedByte(b).code = b.code BY DEF EncodedByte
  <2>2. EqualsSign.code = 61 BY DEF EqualsSign, Plain
  <2>3. CASE b.code \in QueryEncodeSet
    <3>1. 61 \notin QueryEncodeSet BY DEF QueryEncodeSet
    <3>2. b.code # 61 BY <2>3, <3>1
    <3> QED BY <2>1, <2>2, <3>2
  <2>4. CASE b.code \notin QueryEncodeSet
    BY <2>1, <2>4 DEF EncodedByte
  <2> QED BY <2>3, <2>4
<1>2. /\ e \in Seq(B) /\ Len(e) = Len(t) /\ DOMAIN e = DOMAIN t
      /\ \A k \in DOMAIN t : /\ e[k].code = t[k].code
                             /\ e[k] = EqualsSign <=> t[k] = EqualsSign
  <2>1. \A k \in 1..Len(t) : t[k] \in B BY ElementOfSeq
  <2>2. e = [k \in 1..Len(t) |-> EncodedByte(t[k])] BY DEF EncodedText
  <2>3. \A k \in 1..Len(t) : e[k] = EncodedByte(t[k]) /\ e[k] \in B BY <1>1, <2>1, <2>2
  <2> HIDE DEF e
  <2>4. e \in Seq(B) /\ Len(e) = Len(t) /\ DOMAIN e = 1..Len(t) BY <2>2, <2>3
  <2> QED BY <1>1, <2>1, <2>3, <2>4
<1> HIDE DEF e
<1>3. ASSUME NEW m \in Nat, NEW n \in 0..Len(t), 1 <= m
      PROVE  Bytes(SubSeq(e, m, n)) = Bytes(SubSeq(t, m, n))
  <2>1. /\ DOMAIN SubSeq(e, m, n) = 1..(IF m <= n THEN n - m + 1 ELSE 0)
        /\ DOMAIN SubSeq(t, m, n) = 1..(IF m <= n THEN n - m + 1 ELSE 0)
        /\ \A k \in 1..(IF m <= n THEN n - m + 1 ELSE 0) :
             /\ SubSeq(e, m, n)[k] = e[m + k - 1] /\ SubSeq(t, m, n)[k] = t[m + k - 1]
             /\ m + k - 1 \in DOMAIN t
    BY <1>2, <1>3
  <2> QED BY <1>2, <2>1 DEF Bytes
<1>4. Bytes(e) = Bytes(t) BY <1>2 DEF Bytes
<1> DEFINE splits(s) == {k \in DOMAIN s : s[k] = EqualsSign}
           at(s) == CHOOSE k \in splits(s) : \A l \in splits(s) : k <= l
<1>5. splits(e) = splits(t) BY <1>2
<1>6. at(e) = at(t) BY <1>5
<1>7. CASE splits(t) = {}
  <2>1. QueryPair(t) = [key |-> Bytes(t), value |-> <<>>] BY <1>7 DEF QueryPair
  <2>2. QueryPair(e) = [key |-> Bytes(e), value |-> <<>>] BY <1>5, <1>7 DEF QueryPair
  <2> QED BY <1>4, <2>1, <2>2 DEF e
<1>8. CASE splits(t) # {}
  <2>1. at(t) \in splits(t)
    <3>1. splits(t) \subseteq Nat OBVIOUS
    <3>2. PICK m \in splits(t) : \A l \in splits(t) : m <= l
      BY <1>8, <3>1, LeastElement
    <3> QED BY <3>2
  <2> DEFINE m == at(t)
  <2>2. m \in 1..Len(t) BY <2>1
  <2> HIDE DEF m
  <2>3. /\ Bytes(SubSeq(e, 1, m - 1)) = Bytes(SubSeq(t, 1, m - 1))
        /\ Bytes(SubSeq(e, m + 1, Len(t))) = Bytes(SubSeq(t, m + 1, Len(t)))
    BY <1>3, <2>2
  <2>4. QueryPair(t) = [key   |-> Bytes(SubSeq(t, 1, m - 1)),
                        value |-> Bytes(SubSeq(t, m + 1, Len(t)))]
    BY <1>8 DEF QueryPair, m
  <2>5. QueryPair(e) = [key   |-> Bytes(SubSeq(e, 1, m - 1)),
                        value |-> Bytes(SubSeq(e, m + 1, Len(t)))]
    BY <1>2, <1>5, <1>6, <1>8 DEF QueryPair, m
  <2> QED BY <2>3, <2>4, <2>5 DEF e
<1> QED BY <1>7, <1>8 DEF e

(* The request the cassette keeps is the client's (build_interaction in    *)
(* src/src/server/record.rs), and upstream received the same headers,      *)
(* between the token and the configured ones, and the same parameters.     *)
THEOREM RecordedAsSent == Spec => []RecordedIsWhatTheClientSent
<1>1. RecordingOK => RecordedIsWhatTheClientSent
  <2> SUFFICES ASSUME RecordingOK, interaction # Nothing PROVE RecordedIsWhatTheClientSent
    BY DEF RecordedIsWhatTheClientSent
  <2>1. /\ OfAnExchange /\ outbound = Forwarded
        /\ interaction = [request |-> RecordedRequest, response |-> RecordedResponse]
    BY DEF RecordingOK, SentOK
  <2>2. /\ IsHeaderMap(request.headers) /\ IsHeaderList(config.extra)
        /\ IsQuery(request.query) /\ IsQuery(config.base.query)
    BY <2>1, ExchangesAssumption DEF OfAnExchange
  <2> DEFINE s == SelectedHeaderBytes(request.headers, RequestOnlyExcluded)
             b == BearerAuth(ApiKey)
             f == ForwardedHeaders(s)
             e == ExtraHeaders(config.extra)
             H == ToSet(request.headers)
             T == {Text(h) : h \in H}
             auth == {"authorization"}
             out == outbound.headers
             fromClient == SubSeq(out, 2, Len(out) - Len(e))
  <2>3. out = b \o f \o e BY <2>1 DEF Forwarded, ForwardHeaders, OutboundHeaders
  <2>4. f \in Seq(H) /\ f = Dropping(s, auth) BY <2>2, ForwardedType
  <2>5. /\ s \in Seq(H) /\ AsText(s) \in Seq(T)
        /\ \A h \in H : h = [name |-> h.name, value |-> h.value]
    BY <2>2, SelectedType
  <2>6. PICK S : e \in Seq(S) BY <2>2, ExtraType
  <2>7. b \in Seq({b[1]}) /\ Len(b) = 1 BY DEF BearerAuth
  <2>8. interaction.request.headers = Dropping(AsText(s), ToDrop)
    <3>1. interaction.request.headers =
            RedactHeaders(SelectedHeaders(request.headers, RequestOnlyExcluded), config.drop)
      BY <2>1 DEF RecordedRequest
    <3> QED BY <2>2, <3>1, PersistedHeaders DEF ToDrop
  <2>9. fromClient = f
    <3> DEFINE U == {b[1]} \cup H \cup S
    <3> HIDE DEF b, f, e, H, out
    <3>1. b \in Seq(U) /\ f \in Seq(U) /\ e \in Seq(U)
      BY <2>4, <2>6, <2>7, SeqMonotonic
    <3> HIDE DEF U
    <3>2. SubSeq(b \o f \o e, 2, Len(b \o f \o e) - Len(e)) = f
      BY <2>7, <3>1, MiddleOfConcat
    <3> QED BY <2>3, <3>2
  <2>10. AsText(Dropping(fromClient, ToDrop))
           = Dropping(interaction.request.headers, auth)
    <3> HIDE DEF s, f, H, T, fromClient, auth
    <3>1. Dropping(f, ToDrop) = Dropping(s, auth \cup ToDrop)
      BY <2>4, <2>5, DroppingTwice
    <3>2. AsText(Dropping(s, auth \cup ToDrop)) = Dropping(AsText(s), auth \cup ToDrop)
      BY <2>5, TextOfDropping
    <3>3. Dropping(Dropping(AsText(s), ToDrop), auth) = Dropping(AsText(s), ToDrop \cup auth)
      BY <2>5, DroppingTwice
    <3>4. ToDrop \cup auth = auth \cup ToDrop OBVIOUS
    <3> QED BY <2>8, <2>9, <3>1, <3>2, <3>3, <3>4
  <2>11. /\ Len(outbound.url.query) = Len(config.base.query) + Len(request.query)
         /\ \A k \in DOMAIN request.query :
              QueryPair(outbound.url.query[Len(config.base.query) + k]) = QueryPair(request.query[k])
    <3> DEFINE q == request.query
               r == config.base.query
               U == Seq([code : 0..255, escaped : BOOLEAN])
    <3>1. outbound.url.query = IF q = <<>> THEN r ELSE SetQuery(r \o q)
      BY <2>1 DEF Forwarded, ChatCompletionsUrl
    <3>2. q \in Seq(U) /\ r \in Seq(U) BY <2>2 DEF IsQuery
    <3> HIDE DEF q, r
    <3>3. /\ Len(SetQuery(r \o q)) = Len(r) + Len(q)
          /\ \A k \in DOMAIN q : SetQuery(r \o q)[Len(r) + k] = EncodedText(q[k])
      <4>1. /\ r \o q \in Seq(U) /\ Len(r \o q) = Len(r) + Len(q)
            /\ \A k \in DOMAIN q : Len(r) + k \in DOMAIN (r \o q) /\ (r \o q)[Len(r) + k] = q[k]
        BY <3>2
      <4>2. Len(SetQuery(r \o q)) = Len(r \o q) BY <4>1 DEF SetQuery
      <4> QED BY <4>1, <4>2 DEF SetQuery
    <3>4. \A k \in DOMAIN q : QueryPair(EncodedText(q[k])) = QueryPair(q[k])
      BY <3>2, EncodedReadsTheSame DEF U
    <3> QED
      <4>1. CASE q = <<>> BY <3>1, <3>2, <4>1 DEF q, r
      <4>2. CASE q # <<>> BY <3>1, <3>3, <3>4, <4>2 DEF q, r
      <4> QED BY <4>1, <4>2
  <2> QED BY <2>10, <2>11 DEF RecordedIsWhatTheClientSent, e, out, auth, fromClient
<1> QED BY <1>1, RecordingInvariant, PTL

(* Replay answers from the cassette (src/src/server/replay_handler.rs) as  *)
(* record mode answered, for every status and every list of headers.       *)
THEOREM ReplayAnswersAlike == Spec => []ReplayRepeatsTheResponse
<1>1. RecordingOK => ReplayRepeatsTheResponse
  <2> SUFFICES ASSUME RecordingOK, interaction # Nothing PROVE ReplayRepeatsTheResponse
    BY DEF ReplayRepeatsTheResponse
  <2>1. /\ OfAnExchange /\ live = Answered
        /\ interaction = [request |-> RecordedRequest, response |-> RecordedResponse]
    BY DEF RecordingOK, SentOK
  <2>2. IsHeaderMap(answer.headers) BY <2>1, ExchangesAssumption DEF OfAnExchange
  <2> DEFINE s == SelectedHeaderBytes(answer.headers, ResponseOnlyExcluded)
             H == ToSet(answer.headers)
             recorded == interaction.response
             replayed == ReplayResponse(recorded)
             kept == AsText(Dropping(live.headers, ToDrop))
  <2>3. live.status = ResponseStatus(answer.status) /\ live.headers = s
    BY <2>1 DEF Answered, Response, ProxyHeaders
  <2>4. recorded = RecordedResponse BY <2>1
  <2>5. /\ recorded.status = answer.status
        /\ recorded.shape = IF IsStreaming(request.body) THEN "Stream" ELSE "NonStream"
        /\ recorded.headers =
             RedactHeaders(SelectedHeaders(answer.headers, ResponseOnlyExcluded), config.drop)
    BY <2>4 DEF RecordedResponse
  <2>6. recorded.headers = kept
    <3>1. recorded.headers = Dropping(AsText(s), ToDrop)
      BY <2>2, <2>5, PersistedHeaders DEF ToDrop
    <3>2. s \in Seq(H) /\ \A h \in H : h = [name |-> h.name, value |-> h.value]
      BY <2>2, SelectedType
    <3> HIDE DEF s, H, recorded
    <3>3. AsText(Dropping(s, ToDrop)) = Dropping(AsText(s), ToDrop)
      BY <3>2, TextOfDropping
    <3> QED BY <2>3, <3>1, <3>3
  <2> HIDE DEF s, recorded, kept
  <2>7. /\ replayed.status = ResponseStatus(recorded.status)
        /\ replayed.headers = ReplayHeaders(recorded)
    BY DEF ReplayResponse, Response
  <2>8. ReplayHeaders(recorded) =
          kept \o (IF IsStreaming(request.body) /\ ~("content-type" \in NamesIn(kept))
                   THEN EventStream ELSE <<>>)
    <3>1. "content-type" \in NamesIn(kept)
            <=> \E k \in DOMAIN kept : kept[k].name = "content-type"
      BY DEF NamesIn
    <3>2. recorded.shape = "Stream" <=> IsStreaming(request.body) BY <2>5
    <3> QED BY <2>6, <3>1, <3>2 DEF ReplayHeaders
  <2>9. kept \o <<>> = kept
    <3>1. AsText(Dropping(s, ToDrop)) \in Seq({Text(h) : h \in H})
      <4>1. s \in Seq(H) /\ \A h \in H : h = [name |-> h.name, value |-> h.value]
        BY <2>2, SelectedType DEF s
      <4> HIDE DEF H
      <4> QED BY <4>1, DroppingIn, TextOfAppend
    <3>2. kept \in Seq({Text(h) : h \in H}) BY <2>3, <3>1 DEF kept
    <3> HIDE DEF H
    <3> QED BY <3>2, ConcatEmptySeq
  <2> HIDE DEF replayed
  <2>10. /\ replayed.status = live.status
         /\ replayed.headers =
              IF IsStreaming(request.body) /\ ~("content-type" \in NamesIn(kept))
              THEN kept \o EventStream ELSE kept
    BY <2>3, <2>5, <2>7, <2>8, <2>9
  <2> QED BY <2>10 DEF ReplayRepeatsTheResponse, replayed, recorded, kept
<1> QED BY <1>1, RecordingInvariant, PTL

-----------------------------------------------------------------------------
(* The engine under a caller that mixes its operations. *)

Positions == DOMAIN cassette

(* Strict replay has handed out what lies before its cursor; keyed replay  *)
(* what it has consumed, each position once.                               *)
EngineOK ==
  /\ mode \in Calls!Modes /\ Positions \subseteq Nat
  /\ sequential_cursor \in Nat /\ consumed \subseteq Positions
  /\ peeked \in Positions \cup {-1} /\ handed \in Seq(Positions)
  /\ stage # "replaying" =>
       /\ sequential_cursor = 0 /\ consumed = {}
       /\ peeked = -1 /\ handed = <<>>
  /\ mode = "SequentialStrict" =>
       /\ Len(handed) = sequential_cursor
       /\ \A k \in 1..Len(handed) : handed[k] = k - 1
  /\ mode = "Keyed" =>
       /\ \A j, k \in 1..Len(handed) : handed[j] = handed[k] => j = k
       /\ consumed = {handed[k] : k \in 1..Len(handed)}

HandsOut(i) ==
  /\ handed' = Append(handed, i)
  /\ IF mode = "SequentialStrict"
     THEN i = sequential_cursor /\ sequential_cursor' = sequential_cursor + 1
            /\ consumed' = consumed
     ELSE i \notin consumed /\ consumed' = consumed \cup {i}
            /\ sequential_cursor' = sequential_cursor

LEMMA PeekedIsCommittable ==
  ASSUME EngineOK, NEW h, Calls!IsMatch(Calls!PeekMatch(h))
  PROVE  Calls!CanCommit(Calls!PeekMatch(h).at)
<1>1. CASE mode = "SequentialStrict"
  BY <1>1 DEF Calls!PeekMatch, Calls!SequentialCandidate, Calls!IsMatch, Calls!Matched,
              Calls!Mismatch, Calls!CanCommit, Calls!Positions
<1>2. CASE mode # "SequentialStrict"
  <2> DEFINE unused == Calls!HashToIndices(h) \ consumed
  <2>1. unused # {} /\ Calls!PeekMatch(h).at = Calls!Oldest(unused)
    BY <1>2 DEF Calls!PeekMatch, Calls!KeyedCandidate, Calls!IsMatch, Calls!Matched,
                Calls!Mismatch
  <2>2. unused \subseteq Positions /\ unused \in SUBSET Nat
    BY DEF EngineOK, Calls!HashToIndices, Calls!Positions, Positions
  <2> HIDE DEF unused
  <2>3. Calls!Oldest(unused) \in unused
    BY <2>1, <2>2, LeastElement DEF Calls!Oldest
  <2>4. Calls!Oldest(unused) \notin consumed BY <2>3 DEF unused
  <2> QED BY <1>2, <2>1, <2>2, <2>3, <2>4 DEF Calls!CanCommit, Calls!Positions, Positions
<1> QED BY <1>1, <1>2

LEMMA EngineStep ==
  ASSUME EngineOK, Calls!Next
  PROVE  /\ UNCHANGED <<cassette, mode>> /\ peeked' \in Positions \cup {-1}
         /\ \/ UNCHANGED <<sequential_cursor, consumed, handed>>
            \/ \E i \in Positions : HandsOut(i)
<1>1. CASE Calls!CallCommit
  <2>1. CASE Calls!CanCommit(peeked)
    <3>1. peeked \in Positions BY <2>1 DEF Calls!CanCommit, Calls!Positions, Positions
    <3>2. HandsOut(peeked)
      BY <1>1, <2>1 DEF HandsOut, Calls!CallCommit, Calls!CommitMatch, Calls!CanCommit
    <3> QED BY <1>1, <3>1, <3>2 DEF EngineOK, Calls!CallCommit, Calls!CommitMatch
  <2>2. CASE ~Calls!CanCommit(peeked)
    BY <1>1, <2>2 DEF EngineOK, Calls!CallCommit, Calls!CommitMatch
  <2> QED BY <2>1, <2>2
<1>2. ASSUME NEW h \in Hashes, Calls!CallPeek(h)
      PROVE  /\ UNCHANGED <<cassette, mode, sequential_cursor, consumed, handed>>
             /\ peeked' \in Positions
  <2>1. /\ Calls!IsMatch(Calls!PeekMatch(h)) /\ peeked' = Calls!PeekMatch(h).at
        /\ UNCHANGED <<cassette, mode, sequential_cursor, consumed, handed>>
    BY <1>2 DEF Calls!CallPeek, Calls!engineVars
  <2>2. Calls!CanCommit(Calls!PeekMatch(h).at) BY <2>1, PeekedIsCommittable
  <2> QED BY <2>1, <2>2 DEF Calls!CanCommit, Calls!Positions, Positions
<1>3. ASSUME NEW h \in Hashes, Calls!CallNext(h)
      PROVE  /\ UNCHANGED <<cassette, mode, peeked>>
             /\ \/ UNCHANGED <<sequential_cursor, consumed, handed>>
                \/ \E i \in Positions : HandsOut(i)
  <2> DEFINE m == Calls!PeekMatch(h)
  <2>1. /\ UNCHANGED <<cassette, mode, peeked>>
        /\ handed' = IF Calls!IsMatch(m) THEN Append(handed, m.at) ELSE handed
    BY <1>3 DEF Calls!CallNext, Calls!NextMatch, Calls!SequentialMatch, Calls!KeyedMatch
  <2>2. CASE mode = "SequentialStrict"
    <3>1. m = Calls!SequentialCandidate(h) BY <2>2 DEF Calls!PeekMatch
    <3>2. /\ sequential_cursor' = IF Calls!IsMatch(m) THEN sequential_cursor + 1
                                  ELSE sequential_cursor
          /\ consumed' = consumed
      BY <1>3, <2>2, <3>1 DEF Calls!CallNext, Calls!NextMatch, Calls!SequentialMatch,
                              Calls!KeyedMatch
    <3>3. Calls!IsMatch(m) => m.at \in Positions /\ m.at = sequential_cursor
      BY <2>2, PeekedIsCommittable DEF Calls!CanCommit, Calls!Positions, Positions
    <3> HIDE DEF m
    <3> QED BY <2>1, <2>2, <3>2, <3>3 DEF HandsOut
  <2>3. CASE mode # "SequentialStrict"
    <3>1. m = Calls!KeyedCandidate(h) BY <2>3 DEF Calls!PeekMatch
    <3>2. /\ consumed' = IF Calls!IsMatch(m) THEN consumed \cup {m.at} ELSE consumed
          /\ sequential_cursor' = sequential_cursor
      BY <1>3, <2>3, <3>1 DEF Calls!CallNext, Calls!NextMatch, Calls!SequentialMatch,
                              Calls!KeyedMatch
    <3>3. Calls!IsMatch(m) => m.at \in Positions /\ m.at \notin consumed
      BY <2>3, PeekedIsCommittable DEF Calls!CanCommit, Calls!Positions, Positions
    <3> HIDE DEF m
    <3> QED BY <2>1, <2>3, <3>2, <3>3 DEF HandsOut
  <2> QED BY <2>1, <2>2, <2>3
<1>4. peeked \in Positions \cup {-1} BY DEF EngineOK
<1> QED BY <1>1, <1>2, <1>3, <1>4 DEF Calls!Next

LEMMA EngineInit == Init => EngineOK
<1> SUFFICES ASSUME Init PROVE EngineOK OBVIOUS
<1>1. /\ mode \in Calls!Modes /\ sequential_cursor = 0 /\ consumed = {}
      /\ peeked = -1 /\ handed = <<>>
  BY DEF Init
<1>2. Positions \subseteq Nat
  <2>1. cassette = [i \in {} |-> 0] \/ cassette \in Cassettes BY DEF Init, Existing
  <2>2. DOMAIN [i \in {} |-> 0] = {} OBVIOUS
  <2> QED BY <2>1, <2>2, CassettesAssumption DEF Positions
<1>3. <<>> \in Seq(Positions) /\ Len(<<>>) = 0 BY EmptySeq
<1> QED BY <1>1, <1>2, <1>3 DEF EngineOK

LEMMA EngineNext == EngineOK /\ [Next]_vars => EngineOK'
<1> SUFFICES ASSUME EngineOK, [Next]_vars PROVE EngineOK' OBVIOUS
<1>1. CASE CallEngine
  <2>0. stage' = stage /\ stage = "replaying" BY <1>1 DEF CallEngine
  <2>1. /\ UNCHANGED <<cassette, mode>> /\ peeked' \in Positions \cup {-1}
        /\ \/ UNCHANGED <<sequential_cursor, consumed, handed>>
           \/ \E i \in Positions : HandsOut(i)
    BY <1>1, EngineStep DEF CallEngine
  <2>2. Positions' = Positions /\ Calls!Modes' = Calls!Modes BY <2>1 DEF Positions, Calls!Modes
  <2>3. CASE UNCHANGED <<sequential_cursor, consumed, handed>>
    BY <2>0, <2>1, <2>2, <2>3 DEF EngineOK
  <2>4. ASSUME NEW i \in Positions, HandsOut(i) PROVE EngineOK'
    <3>1. /\ handed \in Seq(Positions) /\ Len(handed) \in Nat /\ handed' = Append(handed, i)
          /\ handed' \in Seq(Positions) /\ Len(handed') = Len(handed) + 1
          /\ \A k \in 1..Len(handed) : handed'[k] = handed[k]
          /\ handed'[Len(handed) + 1] = i
      BY <2>4 DEF HandsOut, EngineOK
    <3>2. \A k \in 1..Len(handed') : k \in 1..Len(handed) \/ k = Len(handed) + 1
      BY <3>1
    <3>3. CASE mode = "SequentialStrict"
      <4>1. /\ i = sequential_cursor /\ sequential_cursor' = sequential_cursor + 1
            /\ consumed' = consumed /\ Len(handed) = sequential_cursor
            /\ \A k \in 1..Len(handed) : handed[k] = k - 1
        BY <2>4, <3>3 DEF HandsOut, EngineOK
      <4>2. \A k \in 1..Len(handed') : handed'[k] = k - 1
        BY <3>1, <3>2, <4>1
      <4>3. Len(handed') = sequential_cursor' BY <3>1, <4>1
      <4> QED BY <2>0, <2>1, <2>2, <3>1, <3>3, <4>1, <4>2, <4>3 DEF EngineOK
    <3>4. CASE mode # "SequentialStrict"
      <4>1. mode = "Keyed" BY <3>4 DEF EngineOK, Calls!Modes
      <4>2. /\ i \notin consumed /\ consumed' = consumed \cup {i}
            /\ sequential_cursor' = sequential_cursor
            /\ \A j, k \in 1..Len(handed) : handed[j] = handed[k] => j = k
            /\ consumed = {handed[k] : k \in 1..Len(handed)}
        BY <2>4, <3>4, <4>1 DEF HandsOut, EngineOK
      <4>3. \A j, k \in 1..Len(handed') : handed'[j] = handed'[k] => j = k
        BY <3>1, <3>2, <4>2
      <4>4. consumed' = {handed'[k] : k \in 1..Len(handed')}
        <5>1. \A k \in 1..Len(handed) : k \in 1..Len(handed') BY <3>1
        <5>2. Len(handed) + 1 \in 1..Len(handed') BY <3>1
        <5> QED BY <3>1, <3>2, <4>2, <5>1, <5>2
      <4> QED BY <2>0, <2>1, <2>2, <3>1, <4>1, <4>2, <4>3, <4>4 DEF EngineOK
    <3> QED BY <3>3, <3>4
  <2> QED BY <2>1, <2>3, <2>4
<1>2. CASE LoadCassette
  <2>1. /\ UNCHANGED <<mode, sequential_cursor, consumed, peeked, handed>>
        /\ stage # "replaying" /\ stage' = "replaying"
    BY <1>2 DEF LoadCassette
  <2>2. Positions' \subseteq Nat
    <3>1. Positions' \subseteq {0}
      BY <1>2 DEF LoadCassette, Positions
    <3> QED BY <3>1
  <2>3. /\ sequential_cursor = 0 /\ consumed = {} /\ peeked = -1 /\ handed = <<>>
        /\ mode \in Calls!Modes
    BY <2>1 DEF EngineOK
  <2>4. <<>> \in Seq(Positions') /\ Len(<<>>) = 0 BY EmptySeq
  <2> QED BY <2>1, <2>2, <2>3, <2>4 DEF EngineOK, Calls!Modes
<1>3. CASE ~CallEngine /\ ~LoadCassette
  <2>1. UNCHANGED engineVars /\ (stage' = "replaying" => stage = "replaying")
    BY <1>3 DEF Next, ResolveApiKeyFails, BuildOutboundFails, SendUpstream, UpstreamFails,
                UpstreamAnswers, Persist, RecordingFails, PopulateCanonicalFields, vars
  <2>2. UNCHANGED <<cassette, mode, sequential_cursor, consumed, peeked, handed>>
    BY <2>1 DEF engineVars
  <2>3. Positions' = Positions /\ Calls!Modes' = Calls!Modes BY <2>2 DEF Positions, Calls!Modes
  <2>4. stage' # "replaying" => stage # "replaying"
    BY <1>3 DEF Next, ResolveApiKeyFails, BuildOutboundFails, SendUpstream, UpstreamFails,
                UpstreamAnswers, Persist, RecordingFails, PopulateCanonicalFields, vars
  <2> QED BY <2>2, <2>3, <2>4 DEF EngineOK
<1> QED BY <1>1, <1>2, <1>3

LEMMA EngineInvariant == Spec => []EngineOK
  BY EngineInit, EngineNext, PTL DEF Spec

(* The engine of src/src/cassette/matching as a library: its three         *)
(* operations in any order, on any cassette, hand out nothing twice, and   *)
(* in strict mode the recordings from the first on.                        *)
THEOREM HandedOutOnce == Spec => []HandedOutOnceInOrder
<1>1. EngineOK => HandedOutOnceInOrder
  <2> SUFFICES ASSUME EngineOK PROVE HandedOutOnceInOrder OBVIOUS
  <2> DEFINE n == Len(handed)
             out == {handed[k] : k \in 1..n}
  <2>1. /\ handed \in Seq(Positions) /\ n \in Nat /\ Positions \subseteq Nat
        /\ \A k \in 1..n : handed[k] \in Positions
    BY ElementOfSeq DEF EngineOK
  <2>2. \A j, k \in 1..n : handed[j] = handed[k] => j = k
    BY <2>1 DEF EngineOK, Calls!Modes
  <2>3. Cardinality(out) = n
    <3> DEFINE f == [k \in 1..n |-> handed[k]]
    <3>1. f \in Bijection(1..n, out)
      BY <2>2 DEF Bijection, Injection, IsInjective, Surjection
    <3>2. ExistsBijection(1..n, out) BY <3>1 DEF ExistsBijection
    <3> HIDE DEF out, n
    <3>3. IsFiniteSet(1..n) /\ Cardinality(1..n) = n BY <2>1, FS_Interval
    <3> QED BY <3>2, <3>3, FS_Bijection
  <2>4. out = Calls!Replayed
    <3>1. CASE mode = "SequentialStrict"
      <4>1. n = sequential_cursor /\ \A k \in 1..n : handed[k] = k - 1
        BY <3>1 DEF EngineOK
      <4>2. out \subseteq {i \in Positions : i < sequential_cursor}
        BY <2>1, <4>1
      <4>3. ASSUME NEW i \in Positions, i < sequential_cursor PROVE i \in out
        <5>1. i + 1 \in 1..n /\ (i + 1) - 1 = i BY <2>1, <4>1, <4>3
        <5> QED BY <4>1, <5>1
      <4> QED BY <3>1, <4>2, <4>3 DEF Calls!Replayed, Calls!Positions, Positions
    <3>2. CASE mode = "Keyed"
      BY <3>2 DEF EngineOK, Calls!Replayed
    <3> QED BY <3>1, <3>2 DEF EngineOK, Calls!Modes
  <2>5. mode = "SequentialStrict" => \A k \in 1..n : handed[k] = k - 1 BY DEF EngineOK
  <2>6. Calls!HandedOut = out BY DEF Calls!HandedOut
  <2> HIDE DEF out
  <2>7. Calls!Cardinality(out) = Cardinality(out) BY DEF Calls!Cardinality, Cardinality
  <2>8. Calls!NothingHandedOutTwice
    BY <2>3, <2>4, <2>6, <2>7 DEF Calls!NothingHandedOutTwice
  <2>9. Calls!StrictOrderHasNoGaps BY <2>5 DEF Calls!StrictOrderHasNoGaps
  <2> QED BY <2>8, <2>9 DEF HandedOutOnceInOrder
<1> QED BY <1>1, EngineInvariant, PTL

-----------------------------------------------------------------------------
(* The diff of any two documents. *)

Named(e, o) == {c.path : c \in BodyDiff(e, o)}

(* A path is named when it is compared and differs, in one way. *)
LEMMA NamedDiffers ==
  ASSUME NEW e, NEW o
  PROVE  /\ Named(e, o) = {p \in Compared(e, o) : DiffersAt(e, o, p)}
         /\ BodyDiff(e, o) = {Change(p, IF ~Holds(o, p) THEN "removed"
                                        ELSE IF ~Holds(e, p) THEN "added" ELSE "changed") :
                                p \in Named(e, o)}
<1> DEFINE kind(p) == IF ~Holds(o, p) THEN "removed"
                      ELSE IF ~Holds(e, p) THEN "added" ELSE "changed"
           different == {p \in Compared(e, o) : DiffersAt(e, o, p)}
<1>1. \A p \in Compared(e, o) : Holds(e, p) \/ Holds(o, p) BY DEF Compared, Holds
<1>2. BodyDiff(e, o) \subseteq {Change(p, kind(p)) : p \in different}
  <2>1. Removed(e, o) \subseteq {Change(p, kind(p)) : p \in different}
    BY <1>1 DEF Removed, DiffersAt
  <2>2. Added(e, o) \subseteq {Change(p, kind(p)) : p \in different}
    BY <1>1 DEF Added, DiffersAt
  <2>3. Changed(e, o) \subseteq {Change(p, kind(p)) : p \in different}
    BY <1>1 DEF Changed, DiffersAt
  <2> QED BY <2>1, <2>2, <2>3 DEF BodyDiff
<1>3. \A p \in different : Change(p, kind(p)) \in BodyDiff(e, o)
  <2> SUFFICES ASSUME NEW p \in different PROVE Change(p, kind(p)) \in BodyDiff(e, o)
    OBVIOUS
  <2>1. CASE ~Holds(o, p) BY <2>1 DEF BodyDiff, Removed
  <2>2. CASE ~Holds(e, p) /\ Holds(o, p) BY <2>2 DEF BodyDiff, Added
  <2>3. CASE Holds(e, p) /\ Holds(o, p) BY <2>3 DEF BodyDiff, Changed, DiffersAt
  <2> QED BY <2>1, <2>2, <2>3
<1>4. BodyDiff(e, o) = {Change(p, kind(p)) : p \in different} BY <1>2, <1>3
<1>5. \A p, k : Change(p, k).path = p BY DEF Change
<1> HIDE DEF different, kind
<1>6. Named(e, o) = different BY <1>4, <1>5 DEF Named
<1> QED BY <1>4, <1>6 DEF different, kind

LEMMA DiffIsExact ==
  ASSUME NEW e, IsDocument(e), NEW o, IsDocument(o)
  PROVE  /\ \A p \in Named(e, o) : DiffersAt(e, o, p)
         /\ \A p \in DOMAIN e \cup DOMAIN o :
              DiffersAt(e, o, p) => \E q \in Named(e, o) : IsPrefix(q, p)
         /\ \A p, q \in Named(e, o) : IsPrefix(p, q) => p = q
         /\ Cardinality(Named(e, o)) = Cardinality(BodyDiff(e, o))
<1> DEFINE nodes == DOMAIN e \cup DOMAIN o
<1>1. \A p \in nodes : p \in Seq(STRING) BY DEF IsDocument
<1>2. Named(e, o) = {p \in Compared(e, o) : DiffersAt(e, o, p)} BY NamedDiffers
<1>3. Compared(e, o) = {p \in nodes : SameContainers(e, o, p)} BY DEF Compared
(* A node above one that exists is a container where that one exists. *)
<1>4. ASSUME NEW p \in nodes, NEW k \in 0..(Len(p) - 1)
      PROVE  LET q == SubSeq(p, 1, k) IN
             \/ Holds(e, q) /\ e[q] \in {"object", "array"}
             \/ Holds(o, q) /\ o[q] \in {"object", "array"}
  BY <1>4 DEF IsDocument
<1>5. ASSUME NEW p \in nodes, DiffersAt(e, o, p)
      PROVE  \E q \in Named(e, o) : IsPrefix(q, p)
  <2> DEFINE Same(q) == /\ Holds(e, q) /\ Holds(o, q)
                        /\ e[q] = o[q] /\ e[q] \in {"object", "array"}
             D == {k \in 0..(Len(p) - 1) : ~Same(SubSeq(p, 1, k))}
  <2>1. p \in Seq(STRING) /\ Len(p) \in Nat BY <1>1
  <2>2. CASE D = {}
    <3>1. SameContainers(e, o, p) BY <2>2 DEF SameContainers
    <3>2. p \in Named(e, o) BY <1>2, <1>3, <1>5, <3>1
    <3>3. IsPrefix(p, p) BY <2>1, PrefixOfItself
    <3> QED BY <3>2, <3>3
  <2>3. CASE D # {}
    <3>1. D \in SUBSET Nat OBVIOUS
    <3>2. PICK k \in D : \A j \in D : k <= j
      <4> HIDE DEF D
      <4> QED BY <2>3, <3>1, LeastElement
    <3> DEFINE q == SubSeq(p, 1, k)
    <3>3. k \in 0..(Len(p) - 1) /\ k \in 0..Len(p) /\ ~Same(q) BY <2>1, <3>2
    <3>4. q \in Seq(STRING) /\ Len(q) = k /\ IsPrefix(q, p)
      BY <2>1, <3>3, InitialPart
    <3>5. /\ q \in nodes
          /\ \/ Holds(e, q) /\ e[q] \in {"object", "array"}
             \/ Holds(o, q) /\ o[q] \in {"object", "array"}
      BY <1>4, <3>3 DEF Holds
    <3>6. SameContainers(e, o, q)
      <4> SUFFICES ASSUME NEW j \in 0..(k - 1) PROVE Same(SubSeq(q, 1, j))
        BY <3>4 DEF SameContainers
      <4>1. j \in 0..(Len(p) - 1) /\ ~(k <= j) BY <2>1, <3>3
      <4>2. Same(SubSeq(p, 1, j)) BY <3>2, <4>1
      <4>3. SubSeq(q, 1, j) = SubSeq(p, 1, j)
        <5>1. /\ SubSeq(q, 1, j) \in Seq(STRING) /\ Len(SubSeq(q, 1, j)) = j
              /\ \A i \in 1..j : SubSeq(q, 1, j)[i] = q[i]
          <6>1. j \in 0..Len(q) BY <3>3, <3>4
          <6> HIDE DEF q
          <6> QED BY <3>4, <6>1, InitialPart
        <5>2. /\ SubSeq(p, 1, j) \in Seq(STRING) /\ Len(SubSeq(p, 1, j)) = j
              /\ \A i \in 1..j : SubSeq(p, 1, j)[i] = p[i]
          <6>1. j \in 0..Len(p) BY <2>1, <4>1
          <6> QED BY <2>1, <6>1, InitialPart
        <5>3. \A i \in 1..k : q[i] = p[i] BY <2>1, <3>3, InitialPart
        <5>4. \A i \in 1..j : i \in 1..k BY <3>3
        <5> HIDE DEF q
        <5>5. \A i \in 1..j : SubSeq(q, 1, j)[i] = SubSeq(p, 1, j)[i]
          BY <5>1, <5>2, <5>3, <5>4
        <5> QED BY <5>1, <5>2, <5>5, SeqEqual
      <4> QED BY <4>2, <4>3
    <3>7. DiffersAt(e, o, q)
      <4> SUFFICES ASSUME Holds(e, q), Holds(o, q), SameScalar(e[q], o[q]) PROVE FALSE
        BY DEF DiffersAt
      <4>1. e[q] = o[q] \/ (e[q] \in Zeros /\ o[q] \in Zeros) BY DEF SameScalar
      <4>2. "object" \notin Zeros /\ "array" \notin Zeros BY DEF Zeros
      <4> QED BY <3>3, <3>5, <4>1, <4>2
    <3>8. q \in Named(e, o) BY <1>2, <1>3, <3>5, <3>6, <3>7
    <3> QED BY <3>4, <3>8
  <2> QED BY <2>2, <2>3
<1>6. ASSUME NEW p \in Named(e, o), NEW q \in Named(e, o), IsPrefix(p, q) PROVE p = q
  <2>1. /\ p \in nodes /\ q \in nodes /\ SameContainers(e, o, q) /\ DiffersAt(e, o, p)
    BY <1>2, <1>3
  <2>2. p \in Seq(STRING) /\ q \in Seq(STRING) /\ Len(p) \in Nat /\ Len(q) \in Nat
    BY <1>1, <2>1
  <2>3. Len(p) <= Len(q) /\ \A i \in 1..Len(p) : p[i] = q[i] BY <1>6, <2>2, PrefixAgrees
  <2>4. CASE Len(p) = Len(q) BY <2>2, <2>3, <2>4, SeqEqual
  <2>5. CASE Len(p) < Len(q)
    <3>1. Len(p) \in 0..(Len(q) - 1) BY <2>2, <2>5
    <3>2. SubSeq(q, 1, Len(p)) = p
      <4>1. SubSeq(p, 1, Len(p)) = SubSeq(q, 1, Len(p)) BY <1>6 DEF IsPrefix
      <4> QED BY <2>2, <4>1, SubSeqFull
    <3>3. Holds(e, p) /\ Holds(o, p) /\ e[p] = o[p]
      BY <2>1, <3>1, <3>2 DEF SameContainers
    <3> QED BY <2>1, <3>3 DEF DiffersAt, SameScalar
  <2> QED BY <2>2, <2>3, <2>4, <2>5
<1>7. Cardinality(Named(e, o)) = Cardinality(BodyDiff(e, o))
  <2> DEFINE change(p) == Change(p, IF ~Holds(o, p) THEN "removed"
                                    ELSE IF ~Holds(e, p) THEN "added" ELSE "changed")
             S == Named(e, o)
             f == [p \in S |-> change(p)]
  <2>1. IsFiniteSet(S)
    <3>1. IsFiniteSet(nodes) BY FS_Union DEF IsDocument
    <3>2. S \subseteq nodes BY <1>2, <1>3
    <3> HIDE DEF S, nodes
    <3> QED BY <3>1, <3>2, FS_Subset
  <2>2. BodyDiff(e, o) = {change(p) : p \in S} BY NamedDiffers
  <2>3. \A p : change(p).path = p BY DEF Change
  <2> HIDE DEF S, change
  <2>4. f \in Bijection(S, BodyDiff(e, o))
    BY <2>2, <2>3 DEF Bijection, Injection, IsInjective, Surjection
  <2>5. ExistsBijection(S, BodyDiff(e, o)) BY <2>4 DEF ExistsBijection
  <2>6. Cardinality(BodyDiff(e, o)) = Cardinality(S) BY <2>1, <2>5, FS_Bijection
  <2> QED BY <2>6 DEF S
<1> QED BY <1>2, <1>5, <1>6, <1>7

-----------------------------------------------------------------------------
(* The bodies replay compares are documents, recorded ones and those of    *)
(* cassettes that existed before.                                          *)

DocumentsOK == \A i \in Positions : IsDocument(cassette[i].hash.body)

LEMMA NullIsDocument == IsDocument(Null)
<1>1. DOMAIN Null = {<<>>} BY DEF Null
<1>2. IsFiniteSet({<<>>}) BY FS_Singleton
<1>3. <<>> \in Seq(STRING) /\ Len(<<>>) = 0 BY EmptySeq
<1> QED BY <1>1, <1>2, <1>3 DEF IsDocument

LEMMA FormIsDocument ==
  ASSUME NEW r, IsDocument(r.body)
  PROVE  IsDocument(Form(r).body)
  BY NullIsDocument DEF Form, CanonicalRequestValue

LEMMA DocumentsInit == Init => DocumentsOK
<1> SUFFICES ASSUME Init PROVE DocumentsOK OBVIOUS
<1>1. cassette = [i \in {} |-> 0] \/ cassette \in Cassettes BY DEF Init, Existing
<1>2. DOMAIN [i \in {} |-> 0] = {} OBVIOUS
<1> QED BY <1>1, <1>2, CassettesAssumption DEF DocumentsOK, Positions

LEMMA DocumentsNext == DocumentsOK /\ EngineOK /\ RecordingOK /\ [Next]_vars => DocumentsOK'
<1> SUFFICES ASSUME DocumentsOK, EngineOK, RecordingOK, [Next]_vars PROVE DocumentsOK'
  OBVIOUS
<1>1. CASE LoadCassette
  <2>1. CASE interaction = Nothing
    <3>1. DOMAIN cassette' = {} BY <1>1, <2>1 DEF LoadCassette
    <3> QED BY <3>1 DEF DocumentsOK, Positions
  <2>2. CASE interaction # Nothing
    <3>1. IsDocument(request.body)
      BY <2>2, ExchangesAssumption DEF RecordingOK, SentOK, OfAnExchange
    <3>2. interaction.request.canonical = Form(request)
      BY <2>2 DEF RecordingOK, RecordedRequest
    <3>3. cassette' = [i \in {0} |-> [hash  |-> interaction.request.canonical,
                                      shape |-> interaction.response.shape]]
      BY <1>1, <2>2 DEF LoadCassette
    <3>4. DOMAIN cassette' = {0} /\ cassette'[0].hash = Form(request) BY <3>2, <3>3
    <3> QED BY <3>1, <3>4, FormIsDocument DEF DocumentsOK, Positions
  <2> QED BY <2>1, <2>2
<1>2. CASE CallEngine
  <2>1. cassette' = cassette BY <1>2, EngineStep DEF CallEngine
  <2> QED BY <2>1 DEF DocumentsOK, Positions
<1>3. CASE ~CallEngine /\ ~LoadCassette
  <2>1. UNCHANGED engineVars
    BY <1>3 DEF Next, ResolveApiKeyFails, BuildOutboundFails, SendUpstream, UpstreamFails,
                UpstreamAnswers, Persist, RecordingFails, PopulateCanonicalFields, vars
  <2>2. cassette' = cassette BY <2>1 DEF engineVars
  <2> QED BY <2>2 DEF DocumentsOK, Positions
<1> QED BY <1>1, <1>2, <1>3

LEMMA DocumentsInvariant == Spec => []DocumentsOK
  BY DocumentsInit, DocumentsNext, EngineInvariant, RecordingInvariant, PTL DEF Spec

(* The diff a strict replay puts into its 409 (canonical_diff_summary in   *)
(* src/src/cassette/diff.rs) is exact for every two documents.             *)
THEOREM DiffIsComplete == Spec => []DiffNamesEveryDifference
<1>1. DocumentsOK /\ EngineOK => DiffNamesEveryDifference
  <2> SUFFICES ASSUME DocumentsOK, EngineOK, NEW h \in Hashes, Mismatches(h)
               PROVE  LET expected == cassette[sequential_cursor].hash
                          named    == {c.path : c \in Reported(h).body}
                      IN  /\ Reported(h).query = (expected.query # h.query)
                          /\ \A p \in named : DiffersAt(expected.body, h.body, p)
                          /\ \A p \in DOMAIN expected.body \cup DOMAIN h.body :
                               DiffersAt(expected.body, h.body, p)
                                 => \E q \in named : IsPrefix(q, p)
                          /\ \A p, q \in named : IsPrefix(p, q) => p = q
                          /\ Cardinality(named) = Cardinality(Reported(h).body)
    BY DEF DiffNamesEveryDifference
  <2> DEFINE expected == cassette[sequential_cursor].hash
             named == {c.path : c \in Reported(h).body}
  <2>1. sequential_cursor \in Positions
    BY DEF Mismatches, Calls!PeekMatch, Calls!SequentialCandidate, Calls!KeyedCandidate,
           Calls!Mismatch, Calls!Matched, Calls!Positions, Positions
  <2>2. IsDocument(expected.body) BY <2>1 DEF DocumentsOK
  <2>3. IsDocument(h.body)
    <3>1. PICK r \in Resent : h = Form(r) BY DEF Hashes
    <3> QED BY <3>1, ResentAssumption, FormIsDocument
  <2>4. /\ Reported(h).query = (expected.query # h.query)
        /\ Reported(h).body = BodyDiff(expected.body, h.body)
    BY DEF Reported, CanonicalDiff
  <2>5. named = Named(expected.body, h.body) BY <2>4 DEF Named
  <2> HIDE DEF expected, named
  <2>6. /\ \A p \in named : DiffersAt(expected.body, h.body, p)
        /\ \A p \in DOMAIN expected.body \cup DOMAIN h.body :
             DiffersAt(expected.body, h.body, p) => \E q \in named : IsPrefix(q, p)
        /\ \A p, q \in named : IsPrefix(p, q) => p = q
        /\ Cardinality(named) = Cardinality(Reported(h).body)
    BY <2>2, <2>3, <2>4, <2>5, DiffIsExact
  <2> QED BY <2>4, <2>6 DEF expected, named
<1> QED BY <1>1, DocumentsInvariant, EngineInvariant, PTL

-----------------------------------------------------------------------------
(* Texts and pairs are strictly and totally ordered. *)

Texts == Seq(Nat)
Pairs == [key : Texts, value : Texts]

Before(s, t, k) ==
  /\ k <= Len(s) + 1
  /\ \A j \in 1..(k - 1) : s[j] = t[j]
  /\ k > Len(s) \/ s[k] < t[k]

LEMMA TextBeforeAt ==
  ASSUME NEW s \in Texts, NEW t \in Texts
  PROVE  TextBefore(s, t) <=> \E k \in 1..Len(t) : Before(s, t, k)
<1>1. /\ s \in Seq(Nat) /\ t \in Seq(Nat) /\ Len(s) \in Nat /\ Len(t) \in Nat
      /\ DOMAIN t = 1..Len(t)
  BY DEF Texts
<1>2. ASSUME NEW k \in 1..Len(t), k <= Len(s) + 1
      PROVE  SubSeq(s, 1, k - 1) = SubSeq(t, 1, k - 1) <=> \A j \in 1..(k - 1) : s[j] = t[j]
  <2> DEFINE n == k - 1
             u == SubSeq(s, 1, n)
             v == SubSeq(t, 1, n)
  <2>1. n \in Nat /\ n <= Len(s) /\ n <= Len(t) BY <1>1, <1>2
  <2>2. /\ u \in Seq(Nat) /\ Len(u) = n /\ \A j \in 1..n : u[j] = s[j]
        /\ v \in Seq(Nat) /\ Len(v) = n /\ \A j \in 1..n : v[j] = t[j]
    <3> HIDE DEF n
    <3> QED BY <1>1, <2>1, InitialPart
  <2> HIDE DEF u, v
  <2>3. (\A j \in 1..n : s[j] = t[j]) => u = v
    <3> HIDE DEF n
    <3> QED BY <2>2, SeqEqual
  <2>4. u = v => \A j \in 1..n : s[j] = t[j]
    <3> HIDE DEF n
    <3> QED BY <2>2
  <2> QED BY <2>3, <2>4 DEF u, v
<1> QED BY <1>1, <1>2 DEF TextBefore, Before

LEMMA TextsAreOrdered ==
  ASSUME NEW s \in Texts, NEW t \in Texts, NEW u \in Texts
  PROVE  /\ ~TextBefore(s, s)
         /\ TextBefore(s, t) /\ TextBefore(t, u) => TextBefore(s, u)
         /\ s = t \/ TextBefore(s, t) \/ TextBefore(t, s)
<1>1. /\ Len(s) \in Nat /\ Len(t) \in Nat /\ Len(u) \in Nat
      /\ \A k \in 1..Len(s) : s[k] \in Nat
      /\ \A k \in 1..Len(t) : t[k] \in Nat
      /\ \A k \in 1..Len(u) : u[k] \in Nat
  BY ElementOfSeq DEF Texts
<1>2. ~TextBefore(s, s)
  <2>1. \A k \in 1..Len(s) : ~Before(s, s, k) BY <1>1 DEF Before
  <2> QED BY <2>1, TextBeforeAt
<1>3. ASSUME TextBefore(s, t), TextBefore(t, u) PROVE TextBefore(s, u)
  <2>1. PICK k \in 1..Len(t) : Before(s, t, k) BY <1>3, TextBeforeAt
  <2>2. PICK l \in 1..Len(u) : Before(t, u, l) BY <1>3, TextBeforeAt
  <2>3. CASE k <= l
    <3>1. k \in 1..Len(u) BY <1>1, <2>3
    <3>2. \A j \in 1..(k - 1) : j \in 1..(l - 1) BY <1>1, <2>3
    <3>3. k > Len(s) \/ s[k] < u[k]
      <4>1. k < l => t[k] = u[k] BY <2>2 DEF Before
      <4>2. k = l => t[k] < u[k] BY <1>1, <2>2 DEF Before
      <4>3. t[k] <= u[k] BY <1>1, <2>3, <3>1, <4>1, <4>2
      <4> QED
        <5>1. CASE k > Len(s) BY <5>1
        <5>2. CASE ~(k > Len(s))
          <6>1. k \in 1..Len(s) BY <1>1, <5>2
          <6>2. s[k] < t[k] BY <2>1, <5>2 DEF Before
          <6>3. s[k] \in Nat /\ t[k] \in Nat /\ u[k] \in Nat BY <1>1, <3>1, <6>1
          <6> QED BY <4>3, <6>2, <6>3
        <5> QED BY <5>1, <5>2
    <3>4. Before(s, u, k) BY <2>1, <2>2, <3>2, <3>3 DEF Before
    <3> QED BY <3>1, <3>4, TextBeforeAt
  <2>4. CASE l < k
    <3>1. l <= Len(t) /\ l <= Len(s) BY <1>1, <2>1, <2>4 DEF Before
    <3>2. s[l] = t[l] BY <2>1, <2>4 DEF Before
    <3>3. t[l] < u[l] BY <1>1, <2>2, <3>1 DEF Before
    <3>4. \A j \in 1..(l - 1) : j \in 1..(k - 1) BY <2>4
    <3>5. \A j \in 1..(l - 1) : s[j] = u[j] BY <2>1, <2>2, <3>4 DEF Before
    <3>6. l <= Len(s) + 1 /\ s[l] < u[l] BY <1>1, <3>1, <3>2, <3>3
    <3>7. Before(s, u, l) BY <3>5, <3>6 DEF Before
    <3> QED BY <3>7, TextBeforeAt
  <2> QED BY <2>3, <2>4
<1>4. ASSUME s # t PROVE TextBefore(s, t) \/ TextBefore(t, s)
  <2> DEFINE D == {k \in Nat : /\ 1 <= k /\ k <= Len(s) + 1 /\ k <= Len(t) + 1
                               /\ k > Len(s) \/ k > Len(t) \/ s[k] # t[k]}
             m == IF Len(s) <= Len(t) THEN Len(s) + 1 ELSE Len(t) + 1
  <2>1. m \in D BY <1>1
  <2>2. PICK k \in D : \A j \in D : k <= j
    <3> HIDE DEF m
    <3>1. D \in SUBSET Nat /\ D # {} BY <2>1
    <3> HIDE DEF D
    <3> QED BY <3>1, LeastElement
  <2>3. \A j \in 1..(k - 1) : s[j] = t[j]
    <3> SUFFICES ASSUME NEW j \in 1..(k - 1) PROVE s[j] = t[j] OBVIOUS
    <3>1. j \in Nat /\ 1 <= j /\ j < k /\ j <= Len(s) /\ j <= Len(t) BY <1>1, <2>2
    <3>2. j \notin D BY <2>2, <3>1
    <3> QED BY <1>1, <3>1, <3>2
  <2>4. CASE k \in 1..Len(t) /\ (k > Len(s) \/ s[k] < t[k])
    <3>1. Before(s, t, k) BY <2>2, <2>3, <2>4 DEF Before
    <3> QED BY <2>4, <3>1, TextBeforeAt
  <2>5. CASE k \in 1..Len(s) /\ (k > Len(t) \/ t[k] < s[k])
    <3>1. Before(t, s, k) BY <2>2, <2>3, <2>5 DEF Before
    <3> QED BY <2>5, <3>1, TextBeforeAt
  <2>6. CASE k > Len(s) /\ k > Len(t)
    <3>1. Len(s) = k - 1 /\ Len(t) = k - 1 BY <1>1, <2>2, <2>6
    <3>2. s = t BY <2>3, <3>1, SeqEqual DEF Texts
    <3> QED BY <1>4, <3>2
  <2>7. k \in Nat /\ 1 <= k /\ (k > Len(s) \/ k > Len(t) \/ s[k] # t[k]) BY <2>2
  <2>8. k \in 1..Len(s) /\ k \in 1..Len(t) => s[k] < t[k] \/ t[k] < s[k] \/ s[k] = t[k]
    BY <1>1
  <2> QED BY <1>1, <2>4, <2>5, <2>6, <2>7, <2>8
<1> QED BY <1>2, <1>3, <1>4

LEMMA PairsAreOrdered ==
  ASSUME NEW p \in Pairs, NEW q \in Pairs, NEW r \in Pairs
  PROVE  /\ ~PairBefore(p, p)
         /\ PairBefore(p, q) /\ PairBefore(q, r) => PairBefore(p, r)
         /\ p = q \/ PairBefore(p, q) \/ PairBefore(q, p)
<1>1. /\ p.key \in Texts /\ q.key \in Texts /\ r.key \in Texts
      /\ p.value \in Texts /\ q.value \in Texts /\ r.value \in Texts
      /\ p = [key |-> p.key, value |-> p.value] /\ q = [key |-> q.key, value |-> q.value]
  BY DEF Pairs
<1>2. ~PairBefore(p, p) BY <1>1, TextsAreOrdered DEF PairBefore
<1>3. PairBefore(p, q) /\ PairBefore(q, r) => PairBefore(p, r)
  <2>1. TextBefore(p.key, q.key) /\ TextBefore(q.key, r.key) => TextBefore(p.key, r.key)
    BY <1>1, TextsAreOrdered
  <2>2. TextBefore(p.value, q.value) /\ TextBefore(q.value, r.value)
          => TextBefore(p.value, r.value)
    BY <1>1, TextsAreOrdered
  <2> QED BY <2>1, <2>2 DEF PairBefore
<1>4. p = q \/ PairBefore(p, q) \/ PairBefore(q, p)
  <2>1. p.key = q.key \/ TextBefore(p.key, q.key) \/ TextBefore(q.key, p.key)
    BY <1>1, TextsAreOrdered
  <2>2. p.value = q.value \/ TextBefore(p.value, q.value) \/ TextBefore(q.value, p.value)
    BY <1>1, TextsAreOrdered
  <2>3. p.key = q.key /\ p.value = q.value => p = q BY <1>1
  <2> QED BY <2>1, <2>2, <2>3 DEF PairBefore
<1> QED BY <1>2, <1>3, <1>4

-----------------------------------------------------------------------------
(* An insertion adds one occurrence of what it inserts. *)

PutInto(t, s, n, p) ==
  /\ n \in 0..Len(s) /\ Len(t) = Len(s) + 1
  /\ \A i \in 1..n : t[i] = s[i]
  /\ t[n + 1] = p
  /\ \A i \in (n + 1)..Len(s) : t[i + 1] = s[i]

LEMMA InsertionCounts ==
  ASSUME NEW S, NEW s \in Seq(S), NEW t \in Seq(S), NEW n, NEW p, NEW x,
         PutInto(t, s, n, p)
  PROVE  /\ Occurrences(s, x) \in Nat
         /\ Occurrences(t, x) = Occurrences(s, x) + (IF p = x THEN 1 ELSE 0)
<1> DEFINE A == {k \in DOMAIN s : s[k] = x}
           B == {k \in DOMAIN t : t[k] = x}
           C == B \ {n + 1}
           f == [k \in A |-> IF k <= n THEN k ELSE k + 1]
<1>1. /\ DOMAIN s = 1..Len(s) /\ DOMAIN t = 1..Len(t) /\ Len(s) \in Nat
      /\ n \in Nat /\ n <= Len(s) /\ Len(t) = Len(s) + 1
  BY DEF PutInto
<1>2. IsFiniteSet(A) /\ IsFiniteSet(B)
  <2>1. IsFiniteSet(1..Len(s)) /\ IsFiniteSet(1..Len(t)) BY <1>1, FS_Interval
  <2>2. A \in SUBSET (1..Len(s)) /\ B \in SUBSET (1..Len(t)) BY <1>1
  <2> HIDE DEF A, B
  <2> QED BY <2>1, <2>2, FS_Subset
<1>3. ASSUME NEW k \in A PROVE f[k] \in C
  <2>1. k \in 1..Len(s) /\ s[k] = x BY <1>1
  <2>2. CASE k <= n
    <3>1. f[k] = k /\ t[k] = s[k] /\ k \in 1..Len(t) /\ k # n + 1
      BY <1>1, <2>1, <2>2 DEF PutInto
    <3> QED BY <1>1, <2>1, <3>1
  <2>3. CASE ~(k <= n)
    <3>1. k \in (n + 1)..Len(s) BY <1>1, <2>1, <2>3
    <3>2. f[k] = k + 1 /\ t[k + 1] = s[k] /\ k + 1 \in 1..Len(t) /\ k + 1 # n + 1
      BY <1>1, <2>1, <2>3, <3>1 DEF PutInto
    <3> QED BY <1>1, <2>1, <3>2
  <2> QED BY <2>2, <2>3
<1>4. ASSUME NEW l \in C PROVE \E k \in A : f[k] = l
  <2>1. l \in 1..Len(t) /\ t[l] = x /\ l # n + 1 BY <1>1
  <2>2. CASE l <= n
    <3>1. l \in 1..n /\ l \in 1..Len(s) BY <1>1, <2>1, <2>2
    <3>2. l \in A BY <1>1, <2>1, <3>1 DEF PutInto
    <3>3. f[l] = l BY <2>2, <3>2
    <3> QED BY <3>2, <3>3
  <2>3. CASE ~(l <= n)
    <3>1. l - 1 \in (n + 1)..Len(s) /\ l - 1 \in 1..Len(s) /\ (l - 1) + 1 = l
      BY <1>1, <2>1, <2>3
    <3>2. l - 1 \in A BY <1>1, <2>1, <3>1 DEF PutInto
    <3>3. ~(l - 1 <= n) BY <1>1, <2>1, <2>3
    <3>4. f[l - 1] = l BY <3>1, <3>2, <3>3
    <3> QED BY <3>2, <3>4
  <2> QED BY <2>2, <2>3
<1>5. \A j, k \in A : f[j] = f[k] => j = k
  <2>1. A \subseteq Int BY <1>1
  <2> QED BY <1>1, <2>1
<1>6. f \in Bijection(A, C)
  <2>1. f \in [A -> C] BY <1>3
  <2> HIDE DEF A, C
  <2> QED BY <2>1, <1>4, <1>5 DEF Bijection, Injection, IsInjective, Surjection
<1>7. Cardinality(C) = Cardinality(A) /\ Cardinality(A) \in Nat
  <2> HIDE DEF A, C, f
  <2>1. ExistsBijection(A, C) BY <1>6 DEF ExistsBijection
  <2> QED BY <1>2, <2>1, FS_Bijection, FS_CardinalityType
<1>8. n + 1 \in B <=> p = x
  BY <1>1 DEF PutInto
<1>9. Cardinality(C) = (IF n + 1 \in B THEN Cardinality(B) - 1 ELSE Cardinality(B))
      /\ Cardinality(B) \in Nat
  <2> HIDE DEF B
  <2> QED BY <1>2, FS_RemoveElement, FS_CardinalityType
<1>10. Occurrences(s, x) = Cardinality(A) /\ Occurrences(t, x) = Cardinality(B)
  BY DEF Occurrences
<1> HIDE DEF A, B, C, f
<1>11. Cardinality(B) = Cardinality(A) + (IF n + 1 \in B THEN 1 ELSE 0)
  BY <1>7, <1>9
<1>12. Cardinality(B) = Cardinality(A) + (IF p = x THEN 1 ELSE 0) BY <1>8, <1>11
<1> QED BY <1>7, <1>10, <1>12

LEMMA AppendCounts ==
  ASSUME NEW S, NEW s \in Seq(S), NEW p \in S, NEW x
  PROVE  /\ Occurrences(s, x) \in Nat
         /\ Occurrences(Append(s, p), x) = Occurrences(s, x) + (IF p = x THEN 1 ELSE 0)
<1> DEFINE t == Append(s, p)
<1>1. t \in Seq(S) /\ PutInto(t, s, Len(s), p) BY DEF PutInto
<1> HIDE DEF t
<1>2. Occurrences(s, x) \in Nat BY <1>1, InsertionCounts
<1>3. Occurrences(t, x) = Occurrences(s, x) + (IF p = x THEN 1 ELSE 0)
  BY <1>1, InsertionCounts
<1> QED BY <1>2, <1>3 DEF t

LEMMA OccursIn ==
  ASSUME NEW S, NEW s \in Seq(S), NEW x
  PROVE  /\ Occurrences(s, x) \in Nat
         /\ Occurrences(s, x) # 0 <=> \E k \in 1..Len(s) : s[k] = x
<1> DEFINE A == {k \in DOMAIN s : s[k] = x}
<1>1. DOMAIN s = 1..Len(s) /\ Len(s) \in Nat OBVIOUS
<1>2. IsFiniteSet(A)
  <2>1. IsFiniteSet(1..Len(s)) BY <1>1, FS_Interval
  <2>2. A \in SUBSET (1..Len(s)) BY <1>1
  <2> HIDE DEF A
  <2> QED BY <2>1, <2>2, FS_Subset
<1>3. Cardinality(A) \in Nat /\ (Cardinality(A) = 0 <=> A = {})
  <2> HIDE DEF A
  <2> QED BY <1>2, FS_CardinalityType, FS_EmptySet
<1>4. A # {} <=> \E k \in 1..Len(s) : s[k] = x BY <1>1
<1> QED BY <1>3, <1>4 DEF Occurrences

LEMMA DownwardClosed ==
  ASSUME NEW m \in Nat, NEW K \in SUBSET (1..m),
         \A i, j \in 1..m : i < j /\ j \in K => i \in K
  PROVE  Cardinality(K) \in 0..m /\ K = 1..Cardinality(K)
<1> DEFINE D == (1..(m + 1)) \ K
<1>1. PICK e \in D : \A j \in D : e <= j
  <2>1. m + 1 \in D OBVIOUS
  <2>2. D \in SUBSET Nat /\ D # {} BY <2>1
  <2> HIDE DEF D
  <2> QED BY <2>2, LeastElement
<1>2. e \in 1..(m + 1) /\ e \notin K BY <1>1
<1>3. \A i \in 1..(e - 1) : i \in K
  <2> SUFFICES ASSUME NEW i \in 1..(e - 1) PROVE i \in K OBVIOUS
  <2>1. i \in 1..(m + 1) /\ ~(e <= i) BY <1>2
  <2> QED BY <1>1, <2>1
<1>4. \A i \in K : i \in 1..(e - 1)
  <2> SUFFICES ASSUME NEW i \in K PROVE i \in 1..(e - 1) OBVIOUS
  <2>1. i \in 1..m /\ i # e BY <1>2
  <2>2. ~(e < i) BY <1>2, <2>1
  <2> QED BY <1>2, <2>1, <2>2
<1>5. K = 1..(e - 1) BY <1>3, <1>4
<1>6. Cardinality(1..(e - 1)) = e - 1
  <2>1. 1 \in Int /\ e - 1 \in Int BY <1>2
  <2>2. Cardinality(1..(e - 1)) = IF 1 > e - 1 THEN 0 ELSE (e - 1) - 1 + 1
    BY <2>1, FS_Interval
  <2> QED BY <1>2, <2>2
<1> HIDE DEF D
<1> QED BY <1>2, <1>5, <1>6

(* An insertion at a place, and behind what should precede it. *)
LEMMA InsertAtPuts ==
  ASSUME NEW S, NEW s \in Seq(S), NEW p \in S, NEW n \in 0..Len(s)
  PROVE  InsertAt(s, n + 1, p) \in Seq(S) /\ PutInto(InsertAt(s, n + 1, p), s, n, p)
<1> DEFINE t == InsertAt(s, n + 1, p)
<1>1. /\ Len(s) \in Nat /\ DOMAIN s = 1..Len(s) /\ n \in 0..Len(s)
      /\ \A k \in 1..Len(s) : s[k] \in S
  BY ElementOfSeq
<1>2. t = SubSeq(s, 1, n) \o <<p>> \o SubSeq(s, n + 1, Len(s))
  <2>1. (n + 1) - 1 = n OBVIOUS
  <2> QED BY <2>1 DEF InsertAt
<1> HIDE DEF t
<1>3. t \in Seq(S) /\ PutInto(t, s, n, p)
  <2>1. /\ SubSeq(s, 1, n) \in Seq(S) /\ Len(SubSeq(s, 1, n)) = n
        /\ \A i \in 1..n : SubSeq(s, 1, n)[i] = s[i]
    BY <1>1
  <2>2. /\ SubSeq(s, n + 1, Len(s)) \in Seq(S)
        /\ Len(SubSeq(s, n + 1, Len(s))) = Len(s) - n
        /\ \A i \in 1..(Len(s) - n) : SubSeq(s, n + 1, Len(s))[i] = s[i + n]
    <3> DEFINE m == n + 1
               l == Len(s)
    <3>1. /\ m \in 1..(l + 1) /\ l \in Nat /\ l - m + 1 = l - n
          /\ \A i \in 1..(l - n) : m + i - 1 = i + n
      BY <1>1
    <3>2. \A k \in m..l : k \in 1..l BY <3>1
    <3> HIDE DEF m
    <3>3. \A k \in m..l : s[k] \in S BY <1>1, <3>2
    <3>4. /\ SubSeq(s, m, l) \in Seq(S) /\ Len(SubSeq(s, m, l)) = (IF m <= l THEN l - m + 1 ELSE 0)
          /\ \A i \in 1..(l - m + 1) : SubSeq(s, m, l)[i] = s[m + i - 1]
      <4>1. m \in Int /\ l \in Int BY <3>1
      <4> HIDE DEF l
      <4> QED BY <3>3, <4>1, SubSeqProperties
    <3>5. Len(SubSeq(s, m, l)) = l - n BY <3>1, <3>4
    <3>6. \A i \in 1..(l - n) : SubSeq(s, m, l)[i] = s[i + n] BY <3>1, <3>4
    <3> QED BY <3>4, <3>5, <3>6 DEF m
  <2> DEFINE a == SubSeq(s, 1, n)
             c == SubSeq(s, n + 1, Len(s))
  <2>3. <<p>> \in Seq(S) /\ Len(<<p>>) = 1 /\ <<p>>[1] = p OBVIOUS
  <2> DEFINE b == <<p>>
  <2> HIDE DEF a, b, c
  <2>4. /\ a \in Seq(S) /\ Len(a) = n /\ \A i \in 1..n : a[i] = s[i]
        /\ b \in Seq(S) /\ Len(b) = 1 /\ b[1] = p
        /\ c \in Seq(S) /\ Len(c) = Len(s) - n
        /\ \A i \in 1..(Len(s) - n) : c[i] = s[i + n]
        /\ t = a \o b \o c
    BY <1>2, <2>1, <2>2, <2>3 DEF a, b, c
  <2>5. /\ a \o b \in Seq(S) /\ Len(a \o b) = n + 1
        /\ \A i \in 1..n : (a \o b)[i] = s[i]
        /\ (a \o b)[n + 1] = p
    <3>0. a \in Seq(S) /\ b \in Seq(S) BY <2>4
    <3>1. /\ a \o b \in Seq(S) /\ Len(a \o b) = Len(a) + Len(b)
          /\ \A i \in 1..(Len(a) + Len(b)) :
               (a \o b)[i] = IF i <= Len(a) THEN a[i] ELSE b[i - Len(a)]
      BY ONLY <3>0, ConcatProperties
    <3> DEFINE d == a \o b
    <3> HIDE DEF d
    <3>2. /\ d \in Seq(S) /\ Len(d) = n + 1
          /\ \A i \in 1..(n + 1) : d[i] = IF i <= n THEN a[i] ELSE b[i - n]
      BY <2>4, <3>1 DEF d
    <3>3. n + 1 \in 1..(n + 1) /\ ~(n + 1 <= n) /\ (n + 1) - n = 1 BY <1>1
    <3>4. d[n + 1] = p BY <2>4, <3>2, <3>3
    <3>5. \A i \in 1..n : i \in 1..(n + 1) /\ i <= n BY <1>1
    <3>6. \A i \in 1..n : d[i] = s[i] BY <2>4, <3>2, <3>5
    <3> QED BY <3>2, <3>4, <3>6 DEF d
  <2>6. /\ t \in Seq(S) /\ Len(t) = Len(s) + 1
        /\ \A i \in 1..(n + 1) : t[i] = (a \o b)[i]
        /\ \A i \in 1..(Len(s) - n) : t[i + (n + 1)] = c[i]
    <3> DEFINE d == a \o b
    <3> HIDE DEF d
    <3>1. d \in Seq(S) /\ Len(d) = n + 1 /\ t = d \o c BY <2>4, <2>5 DEF d
    <3>0. d \in Seq(S) /\ c \in Seq(S) BY <2>4, <3>1
    <3>2. /\ d \o c \in Seq(S) /\ Len(d \o c) = Len(d) + Len(c)
          /\ \A i \in 1..(Len(d) + Len(c)) :
               (d \o c)[i] = IF i <= Len(d) THEN d[i] ELSE c[i - Len(d)]
      BY ONLY <3>0, ConcatProperties
    <3>3. (n + 1) + (Len(s) - n) = Len(s) + 1 BY <1>1
    <3>4. t \in Seq(S) /\ Len(t) = Len(s) + 1 BY <2>4, <3>1, <3>2, <3>3
    <3>5. \A i \in 1..(Len(s) + 1) : t[i] = IF i <= n + 1 THEN d[i] ELSE c[i - (n + 1)]
      BY <2>4, <3>1, <3>2, <3>3
    <3>6. \A i \in 1..(n + 1) : i \in 1..(Len(s) + 1) /\ i <= n + 1 BY <1>1
    <3>7. \A i \in 1..(Len(s) - n) : /\ i + (n + 1) \in 1..(Len(s) + 1)
                                     /\ ~(i + (n + 1) <= n + 1)
                                     /\ (i + (n + 1)) - (n + 1) = i
      BY <1>1
    <3>8. \A i \in 1..(n + 1) : t[i] = d[i] BY <3>5, <3>6
    <3>9. \A i \in 1..(Len(s) - n) : t[i + (n + 1)] = c[i] BY <3>5, <3>7
    <3> QED BY <3>4, <3>8, <3>9 DEF d
  <2>7. \A i \in (n + 1)..Len(s) : t[i + 1] = s[i]
    <3> SUFFICES ASSUME NEW i \in (n + 1)..Len(s) PROVE t[i + 1] = s[i] OBVIOUS
    <3>1. i - n \in 1..(Len(s) - n) /\ (i - n) + (n + 1) = i + 1 /\ (i - n) + n = i
      BY <1>1
    <3>2. t[(i - n) + (n + 1)] = c[i - n] BY <2>6, <3>1
    <3>3. c[i - n] = s[(i - n) + n] BY <2>4, <3>1
    <3> QED BY <3>1, <3>2, <3>3
  <2>8. \A i \in 1..n : t[i] = s[i]
    <3> SUFFICES ASSUME NEW i \in 1..n PROVE t[i] = s[i] OBVIOUS
    <3>1. i \in 1..(n + 1) BY <1>1
    <3> QED BY <2>5, <2>6, <3>1
  <2>9. t[n + 1] = p
    <3>1. n + 1 \in 1..(n + 1) BY <1>1
    <3> QED BY <2>5, <2>6, <3>1
  <2> QED BY <1>1, <2>6, <2>7, <2>8, <2>9 DEF PutInto
<1> QED BY <1>3 DEF t

LEMMA InsertBehind ==
  ASSUME NEW S, NEW s \in Seq(S), NEW p \in S, NEW K \in SUBSET DOMAIN s,
         \A i, j \in DOMAIN s : i < j /\ j \in K => i \in K
  PROVE  LET n == Cardinality(K)
             t == InsertAt(s, n + 1, p)
         IN  n \in 0..Len(s) /\ K = 1..n /\ t \in Seq(S) /\ PutInto(t, s, n, p)
<1>1. DOMAIN s = 1..Len(s) /\ Len(s) \in Nat OBVIOUS
<1>2. Cardinality(K) \in 0..Len(s) /\ K = 1..Cardinality(K) BY <1>1, DownwardClosed
<1> QED BY <1>2, InsertAtPuts

(* Where two places of the longer sequence come from. *)
LEMMA PlacesAfterInsertion ==
  ASSUME NEW S, NEW s \in Seq(S), NEW t \in Seq(S), NEW n, NEW p, PutInto(t, s, n, p),
         NEW i \in 1..Len(t), NEW j \in 1..Len(t), i < j
  PROVE  \/ \E a, b \in 1..Len(s) : a < b /\ t[i] = s[a] /\ t[j] = s[b]
         \/ i \in 1..n /\ i \in 1..Len(s) /\ t[i] = s[i] /\ t[j] = p
         \/ \E b \in (n + 1)..Len(s) : b \in 1..Len(s) /\ t[i] = p /\ t[j] = s[b]
<1>1. /\ Len(s) \in Nat /\ n \in Nat /\ n <= Len(s) /\ Len(t) = Len(s) + 1
      /\ \A k \in 1..n : t[k] = s[k]
      /\ t[n + 1] = p
      /\ \A k \in (n + 1)..Len(s) : t[k + 1] = s[k]
  BY DEF PutInto
<1> DEFINE from(k) == IF k <= n THEN k ELSE k - 1
<1>2. \A k \in 1..Len(t) : k # n + 1 => from(k) \in 1..Len(s) /\ t[k] = s[from(k)]
  <2> SUFFICES ASSUME NEW k \in 1..Len(t), k # n + 1
               PROVE  from(k) \in 1..Len(s) /\ t[k] = s[from(k)]
    OBVIOUS
  <2>1. CASE k <= n
    <3>1. k \in 1..n /\ k \in 1..Len(s) BY <1>1, <2>1
    <3> QED BY <1>1, <2>1, <3>1
  <2>2. CASE ~(k <= n)
    <3>1. k - 1 \in (n + 1)..Len(s) /\ k - 1 \in 1..Len(s) /\ (k - 1) + 1 = k
      BY <1>1, <2>2
    <3>2. t[(k - 1) + 1] = s[k - 1] BY <1>1, <3>1
    <3> QED BY <2>2, <3>1, <3>2
  <2> QED BY <2>1, <2>2
<1>3. CASE i # n + 1 /\ j # n + 1
  <2>1. from(i) < from(j) BY <1>1, <1>3
  <2> HIDE DEF from
  <2> QED BY <1>2, <1>3, <2>1
<1>4. CASE j = n + 1
  <2>1. i \in 1..n /\ i \in 1..Len(s) BY <1>1, <1>4
  <2> QED BY <1>1, <1>4, <2>1
<1>5. CASE i = n + 1
  <2>1. j - 1 \in (n + 1)..Len(s) /\ j - 1 \in 1..Len(s) /\ (j - 1) + 1 = j
    BY <1>1, <1>5
  <2>2. t[(j - 1) + 1] = s[j - 1] BY <1>1, <2>1
  <2> QED BY <1>1, <1>5, <2>1, <2>2
<1> QED BY <1>3, <1>4, <1>5

-----------------------------------------------------------------------------
(* Sorted pairs are determined by what occurs in them how often. *)

ArePairsSorted(s) == \A i, j \in 1..Len(s) : i < j => ~PairBefore(s[j], s[i])

LEMMA InsertionSorts ==
  ASSUME NEW s \in Seq(Pairs), NEW p \in Pairs, ArePairsSorted(s)
  PROVE  LET t == InsertPair(s, p) IN
         /\ t \in Seq(Pairs) /\ ArePairsSorted(t)
         /\ \E n \in 0..Len(s) : PutInto(t, s, n, p)
<1> DEFINE K == {k \in DOMAIN s : ~PairBefore(p, s[k])}
           n == Cardinality(K)
           t == InsertPair(s, p)
<1>1. /\ Len(s) \in Nat /\ DOMAIN s = 1..Len(s)
      /\ \A k \in 1..Len(s) : s[k] \in Pairs
  BY ElementOfSeq
<1>2. \A i, j \in DOMAIN s : i < j /\ j \in K => i \in K
  <2> SUFFICES ASSUME NEW i \in 1..Len(s), NEW j \in 1..Len(s), i < j,
                      ~PairBefore(p, s[j]), PairBefore(p, s[i])
               PROVE  FALSE
    BY <1>1
  <2>1. s[i] \in Pairs /\ s[j] \in Pairs /\ ~PairBefore(s[j], s[i])
    BY <1>1 DEF ArePairsSorted
  <2>2. s[i] = s[j] \/ PairBefore(s[i], s[j]) BY <2>1, PairsAreOrdered
  <2>3. PairBefore(s[i], s[j]) => PairBefore(p, s[j]) BY <2>1, PairsAreOrdered
  <2> QED BY <2>2, <2>3
<1>3. n \in 0..Len(s) /\ K = 1..n /\ t \in Seq(Pairs) /\ PutInto(t, s, n, p)
  <2>1. K \in SUBSET DOMAIN s OBVIOUS
  <2>2. t = InsertAt(s, n + 1, p) BY DEF InsertPair
  <2> HIDE DEF K, t
  <2> QED BY <1>2, <2>1, <2>2, InsertBehind
<1> HIDE DEF n, t
<1>4. \A k \in 1..n : ~PairBefore(p, s[k]) BY <1>3
<1>5. \A k \in (n + 1)..Len(s) : PairBefore(p, s[k])
  <2> SUFFICES ASSUME NEW k \in (n + 1)..Len(s) PROVE PairBefore(p, s[k]) OBVIOUS
  <2>1. k \in DOMAIN s /\ k \notin 1..n BY <1>1, <1>3
  <2> QED BY <1>3, <2>1
<1>6. ASSUME NEW i \in 1..Len(t), NEW j \in 1..Len(t), i < j, PairBefore(t[j], t[i])
      PROVE  FALSE
  <2>1. CASE \E a, b \in 1..Len(s) : a < b /\ t[i] = s[a] /\ t[j] = s[b]
    BY <1>6, <2>1 DEF ArePairsSorted
  <2>2. CASE i \in 1..n /\ t[i] = s[i] /\ t[j] = p
    BY <1>4, <1>6, <2>2
  <2>3. CASE \E b \in (n + 1)..Len(s) : b \in 1..Len(s) /\ t[i] = p /\ t[j] = s[b]
    <3>1. PICK b \in (n + 1)..Len(s) : s[b] \in Pairs /\ t[i] = p /\ t[j] = s[b]
      BY <1>1, <2>3
    <3>2. PairBefore(p, s[b]) BY <1>5
    <3> QED BY <1>6, <3>1, <3>2, PairsAreOrdered
  <2> QED BY <1>3, <1>6, <2>1, <2>2, <2>3, PlacesAfterInsertion
<1>7. ArePairsSorted(t) BY <1>6 DEF ArePairsSorted
<1> QED BY <1>3, <1>7 DEF t

LEMMA FrontIsSorted ==
  ASSUME NEW s \in Seq(Pairs), NEW p \in Pairs, ArePairsSorted(Append(s, p))
  PROVE  /\ ArePairsSorted(s)
         /\ \A k \in 1..Len(s) : ~PairBefore(p, s[k])
<1> DEFINE t == Append(s, p)
<1>1. /\ Len(s) \in Nat /\ Len(t) = Len(s) + 1 /\ t[Len(s) + 1] = p
      /\ \A k \in 1..Len(s) : t[k] = s[k]
  OBVIOUS
<1>2. \A i, j \in 1..Len(t) : i < j => ~PairBefore(t[j], t[i]) BY DEF ArePairsSorted
<1> HIDE DEF t
<1>3. \A k \in 1..Len(s) : k \in 1..Len(t) /\ k < Len(s) + 1 BY <1>1
<1>4. Len(s) + 1 \in 1..Len(t) BY <1>1
<1>5. \A k \in 1..Len(s) : ~PairBefore(p, s[k]) BY <1>1, <1>2, <1>3, <1>4
<1>6. ArePairsSorted(s) BY <1>1, <1>2, <1>3 DEF ArePairsSorted
<1> QED BY <1>5, <1>6

(* The last of the one occurs in the other, and is not before its last. *)
LEMMA LastIsNotBefore ==
  ASSUME NEW s \in Seq(Pairs), NEW p \in Pairs, NEW t \in Seq(Pairs), NEW q \in Pairs,
         ArePairsSorted(Append(t, q)),
         Occurrences(Append(s, p), p) = Occurrences(Append(t, q), p)
  PROVE  ~PairBefore(q, p)
<1> DEFINE u == Append(t, q)
<1>1. Occurrences(u, p) # 0
  <2>1. /\ Occurrences(s, p) \in Nat
        /\ Occurrences(Append(s, p), p) = Occurrences(s, p) + (IF p = p THEN 1 ELSE 0)
    BY AppendCounts
  <2> QED BY <2>1
<1>2. u \in Seq(Pairs) /\ Len(u) = Len(t) + 1 /\ Len(t) \in Nat
      /\ u[Len(t) + 1] = q /\ \A k \in 1..Len(t) : u[k] = t[k]
  OBVIOUS
<1> HIDE DEF u
<1>3. PICK k \in 1..Len(u) : u[k] = p BY <1>1, <1>2, OccursIn
<1>4. CASE k = Len(t) + 1
  <2>1. p = q BY <1>2, <1>3, <1>4
  <2> QED BY <2>1, PairsAreOrdered
<1>5. CASE k # Len(t) + 1
  <2>1. k \in 1..Len(t) /\ t[k] = p BY <1>2, <1>3, <1>5
  <2> QED BY <2>1, FrontIsSorted
<1> QED BY <1>4, <1>5

Alike(s, t) == \A p \in Pairs : Occurrences(s, p) = Occurrences(t, p)

LEMMA SortedAlikeAreEqual ==
  ASSUME NEW s \in Seq(Pairs), NEW t \in Seq(Pairs), ArePairsSorted(s), ArePairsSorted(t), Alike(s, t)
  PROVE  s = t
<1> DEFINE Determined(q) ==
             ArePairsSorted(q) => \A r \in Seq(Pairs) : ArePairsSorted(r) /\ Alike(q, r) => q = r
           G == {q \in Seq(Pairs) : Determined(q)}
<1>1. <<>> \in Seq(Pairs) OBVIOUS
<1>2. <<>> \in G
  <2> SUFFICES ASSUME NEW r \in Seq(Pairs), Alike(<<>>, r) PROVE <<>> = r
    BY <1>1
  <2> SUFFICES ASSUME r # <<>> PROVE FALSE OBVIOUS
  <2>1. Len(r) \in Nat /\ 1 \in 1..Len(r) /\ r[1] \in Pairs OBVIOUS
  <2>2. Occurrences(r, r[1]) # 0 BY <2>1, OccursIn
  <2>3. Len(<<>>) = 0 /\ 1..0 = {} OBVIOUS
  <2>4. ~(\E k \in 1..Len(<<>>) : <<>>[k] = r[1]) BY <2>3
  <2>5. Occurrences(<<>>, r[1]) = 0 BY <1>1, <2>4, OccursIn
  <2> QED BY <2>1, <2>2, <2>5 DEF Alike
<1>3. \A q \in Seq(Pairs) : \A p \in Pairs : q \in G => Append(q, p) \in G
  <2> SUFFICES ASSUME NEW q \in Seq(Pairs), NEW p \in Pairs, Determined(q),
                      ArePairsSorted(Append(q, p)),
                      NEW r \in Seq(Pairs), ArePairsSorted(r), Alike(Append(q, p), r)
               PROVE  Append(q, p) = r
    <3>1. \A q \in Seq(Pairs) : \A p \in Pairs : Append(q, p) \in Seq(Pairs)
      <4> HIDE DEF G
      <4> QED OBVIOUS
    <3> QED BY <3>1
  <2>1. \A x \in Pairs : /\ Occurrences(q, x) \in Nat
                         /\ Occurrences(Append(q, p), x)
                              = Occurrences(q, x) + (IF p = x THEN 1 ELSE 0)
    BY AppendCounts
  <2>2. r # <<>>
    <3> SUFFICES ASSUME r = <<>> PROVE FALSE OBVIOUS
    <3>1. Len(r) = 0 /\ 1..0 = {} OBVIOUS
    <3>2. ~(\E k \in 1..Len(r) : r[k] = p) BY <3>1
    <3>3. Occurrences(r, p) = 0 BY <3>2, OccursIn
    <3>4. Occurrences(Append(q, p), p) = 0 BY <3>3 DEF Alike
    <3>5. Occurrences(q, p) \in Nat /\ Occurrences(Append(q, p), p) = Occurrences(q, p) + 1
      BY <2>1
    <3> QED BY <3>4, <3>5
  <2>3. PICK u \in Seq(Pairs), o \in Pairs : r = Append(u, o)
    BY <2>2, SequenceEmptyOrAppend
  <2>4. \A x \in Pairs : /\ Occurrences(u, x) \in Nat
                         /\ Occurrences(r, x) = Occurrences(u, x) + (IF o = x THEN 1 ELSE 0)
    BY <2>3, AppendCounts
  <2>5. ~PairBefore(o, p)
    <3>1. Occurrences(Append(q, p), p) = Occurrences(Append(u, o), p) BY <2>3 DEF Alike
    <3> QED BY <2>3, <3>1, LastIsNotBefore
  <2>6. ~PairBefore(p, o)
    <3>1. Occurrences(Append(u, o), o) = Occurrences(Append(q, p), o) BY <2>3 DEF Alike
    <3> QED BY <3>1, LastIsNotBefore
  <2>7. p = o BY <2>5, <2>6, PairsAreOrdered
  <2>8. Alike(q, u)
    <3> SUFFICES ASSUME NEW x \in Pairs PROVE Occurrences(q, x) = Occurrences(u, x)
      BY DEF Alike
    <3>1. Occurrences(Append(q, p), x) = Occurrences(r, x) BY DEF Alike
    <3> DEFINE a == Occurrences(q, x)
               b == Occurrences(u, x)
               d == IF p = x THEN 1 ELSE 0
    <3>2. /\ a \in Nat /\ b \in Nat /\ d \in Nat
          /\ Occurrences(Append(q, p), x) = a + d
          /\ Occurrences(r, x) = b + d
      BY <2>1, <2>4, <2>7
    <3>3. a + d = b + d BY <3>1, <3>2
    <3> HIDE DEF a, b, d
    <3>4. a = b BY <3>2, <3>3
    <3> QED BY <3>4 DEF a, b
  <2>9. ArePairsSorted(q) /\ ArePairsSorted(u) BY <2>3, FrontIsSorted
  <2>10. q = u BY <2>8, <2>9
  <2> QED BY <2>3, <2>7, <2>10
<1> HIDE DEF G
<1>4. Seq(Pairs) \subseteq G BY <1>2, <1>3, InductionOnSequences
<1>5. Determined(s) BY <1>4 DEF G
<1> QED BY <1>5

-----------------------------------------------------------------------------
(* Parsing and sorting are folds by typed steps. *)

Characters == [code : 0..255, escaped : BOOLEAN]
Segments == Seq(Characters)
PairLists == Seq(Pairs)
SortedPairLists == {s \in PairLists : ArePairsSorted(s)}

AddStep == [a \in PairLists \X Segments |-> AddPair(a[1], a[2])]
InsertStep == [a \in SortedPairLists \X Pairs |-> InsertPair(a[1], a[2])]

LEMMA BytesAreText ==
  ASSUME NEW text \in Segments
  PROVE  Bytes(text) \in Texts
<1>1. /\ Len(text) \in Nat /\ DOMAIN text = 1..Len(text)
      /\ \A k \in 1..Len(text) : text[k] \in Characters
  BY ElementOfSeq DEF Segments
<1>2. \A k \in 1..Len(text) : text[k].code \in Nat
  <2>1. \A c \in Characters : c.code \in Nat BY DEF Characters
  <2> QED BY <1>1, <2>1
<1>3. Bytes(text) = [k \in 1..Len(text) |-> text[k].code] BY <1>1 DEF Bytes
<1> QED BY <1>1, <1>2, <1>3 DEF Texts

LEMMA QueryPairType ==
  ASSUME NEW segment \in Segments
  PROVE  QueryPair(segment) \in Pairs
<1> DEFINE splits == {k \in DOMAIN segment : segment[k] = EqualsSign}
           at == CHOOSE k \in splits : \A l \in splits : k <= l
<1>1. Len(segment) \in Nat /\ DOMAIN segment = 1..Len(segment) BY DEF Segments
<1>2. <<>> \in Texts BY DEF Texts
<1>3. CASE splits = {}
  <2>1. QueryPair(segment) = [key |-> Bytes(segment), value |-> <<>>]
    BY <1>3 DEF QueryPair
  <2> QED BY <1>2, <2>1, BytesAreText DEF Pairs
<1>4. CASE splits # {}
  <2>1. splits \in SUBSET Nat BY <1>1
  <2>2. at \in splits
    <3> HIDE DEF splits
    <3> QED BY <1>4, <2>1, LeastElement
  <2>3. at \in 1..Len(segment) BY <1>1, <2>2
  <2> DEFINE before == SubSeq(segment, 1, at - 1)
             behind == SubSeq(segment, at + 1, Len(segment))
  <2>4. QueryPair(segment) = [key |-> Bytes(before), value |-> Bytes(behind)]
    BY <1>4 DEF QueryPair
  <2> HIDE DEF at
  <2>5. before \in Segments /\ behind \in Segments
    <3>1. \A k \in 1..Len(segment) : segment[k] \in Characters BY ElementOfSeq DEF Segments
    <3>2. /\ \A k \in 1..(at - 1) : k \in 1..Len(segment)
          /\ \A k \in (at + 1)..Len(segment) : k \in 1..Len(segment)
          /\ at - 1 \in Int /\ at + 1 \in Int /\ Len(segment) \in Int /\ 1 \in Int
      BY <1>1, <2>3
    <3>3. before \in Seq(Characters) BY <3>1, <3>2, SubSeqProperties
    <3>4. behind \in Seq(Characters) BY <3>1, <3>2, SubSeqProperties
    <3> QED BY <3>3, <3>4 DEF Segments
  <2> HIDE DEF before, behind
  <2>6. Bytes(before) \in Texts /\ Bytes(behind) \in Texts BY <2>5, BytesAreText
  <2> QED BY <2>4, <2>6 DEF Pairs
<1> QED BY <1>3, <1>4

(* Segments added one after the other. *)
LEMMA Adding ==
  ASSUME NEW s \in Seq(Segments)
  PROVE  /\ ParseQueryPairs(<<>>) = <<>> /\ ParseQueryPairs(s) \in PairLists
         /\ \A x \in Segments : ParseQueryPairs(Append(s, x)) = AddPair(ParseQueryPairs(s), x)
<1>1. AddStep \in Steps(Segments, PairLists) /\ <<>> \in PairLists
  <2>1. <<>> \in PairLists BY DEF PairLists
  <2> SUFFICES ASSUME NEW a \in PairLists, NEW x \in Segments PROVE AddPair(a, x) \in PairLists
    BY <2>1 DEF AddStep, Steps
  <2>2. QueryPair(x) \in Pairs BY QueryPairType
  <2> QED BY <2>2 DEF AddPair, PairLists
<1>2. ASSUME NEW q \in Seq(Segments)
      PROVE  ParseQueryPairs(q) = Folded(AddStep, <<>>, q)
  <2> DEFINE N == 1..Len(q)
             StepOn(t, U) == AddPair(t[U \ {Max(U)}], q[Max(U)])
             IsFold(t) == t = [U \in SUBSET DOMAIN q |-> IF U = {} THEN <<>> ELSE StepOn(t, U)]
             c == CHOOSE t : IsFold(t)
  <2>0. DOMAIN q = N OBVIOUS
  <2>1. PICK f \in Tables(q, PairLists) : IsTable(f, AddStep, <<>>, q)
    BY <1>1, FoldHasTable
  <2>2. \A U \in SUBSET N : f[U] = IF U = {} THEN <<>> ELSE StepOn(f, U)
    BY <2>1, TablesAreTyped DEF IsTable, Tables, AddStep
  <2>3. IsFold(f)
    <3> HIDE DEF StepOn
    <3>1. f = [U \in SUBSET N |-> f[U]] BY DEF Tables
    <3> QED BY <2>0, <2>2, <3>1
  <2>4. IsFold(c) BY <2>3
  <2>5. ParseQueryPairs(q) = c[DOMAIN q] BY DEF ParseQueryPairs, FoldLeft, MapThenFoldSet
  <2> HIDE DEF c
  <2>6. c[{}] = <<>> BY <2>4
  <2>7. TakesSteps(c, PairLists, AddStep, q)
    BY <2>0, <2>4, TablesAreTyped DEF AddStep, TakesSteps
  <2>8. c[N] = Folded(AddStep, <<>>, q)
    BY <1>1, <2>6, <2>7, WhatFolds
  <2> QED BY <2>0, <2>5, <2>8
<1>3. <<>> \in Seq(Segments) /\ \A x \in Segments : Append(s, x) \in Seq(Segments) OBVIOUS
<1>4. Folded(AddStep, <<>>, <<>>) = <<>> /\ Folded(AddStep, <<>>, s) \in PairLists
  BY <1>1, FoldingOn
<1>5. ASSUME NEW x \in Segments
      PROVE  Folded(AddStep, <<>>, Append(s, x)) = AddPair(Folded(AddStep, <<>>, s), x)
  <2>1. Folded(AddStep, <<>>, Append(s, x)) = AddStep[<<Folded(AddStep, <<>>, s), x>>]
    BY <1>1, FoldingOn
  <2> QED BY <1>4, <2>1 DEF AddStep
<1> QED BY <1>2, <1>3, <1>4, <1>5

(* Pairs inserted one after the other. *)
LEMMA Inserting ==
  ASSUME NEW s \in Seq(Pairs)
  PROVE  /\ SortPairs(<<>>) = <<>> /\ SortPairs(s) \in SortedPairLists
         /\ \A x \in Pairs : SortPairs(Append(s, x)) = InsertPair(SortPairs(s), x)
<1>1. InsertStep \in Steps(Pairs, SortedPairLists) /\ <<>> \in SortedPairLists
  <2>1. <<>> \in SortedPairLists
    <3>1. <<>> \in Seq(Pairs) /\ Len(<<>>) = 0 /\ 1..0 = {} OBVIOUS
    <3> QED BY <3>1 DEF SortedPairLists, PairLists, ArePairsSorted
  <2> SUFFICES ASSUME NEW a \in SortedPairLists, NEW x \in Pairs
               PROVE  InsertPair(a, x) \in SortedPairLists
    BY <2>1 DEF InsertStep, Steps
  <2> QED BY InsertionSorts DEF SortedPairLists, PairLists
<1>2. ASSUME NEW q \in Seq(Pairs)
      PROVE  SortPairs(q) = Folded(InsertStep, <<>>, q)
  <2> DEFINE N == 1..Len(q)
             StepOn(t, U) == InsertPair(t[U \ {Max(U)}], q[Max(U)])
             IsFold(t) == t = [U \in SUBSET DOMAIN q |-> IF U = {} THEN <<>> ELSE StepOn(t, U)]
             c == CHOOSE t : IsFold(t)
  <2>0. DOMAIN q = N OBVIOUS
  <2>1. PICK f \in Tables(q, SortedPairLists) : IsTable(f, InsertStep, <<>>, q)
    BY <1>1, FoldHasTable
  <2>2. \A U \in SUBSET N : f[U] = IF U = {} THEN <<>> ELSE StepOn(f, U)
    BY <2>1, TablesAreTyped DEF IsTable, Tables, InsertStep
  <2>3. IsFold(f)
    <3> HIDE DEF StepOn
    <3>1. f = [U \in SUBSET N |-> f[U]] BY DEF Tables
    <3> QED BY <2>0, <2>2, <3>1
  <2>4. IsFold(c) BY <2>3
  <2>5. SortPairs(q) = c[DOMAIN q] BY DEF SortPairs, FoldLeft, MapThenFoldSet
  <2> HIDE DEF c
  <2>6. c[{}] = <<>> BY <2>4
  <2>7. TakesSteps(c, SortedPairLists, InsertStep, q)
    BY <2>0, <2>4, TablesAreTyped DEF InsertStep, TakesSteps
  <2>8. c[N] = Folded(InsertStep, <<>>, q)
    BY <1>1, <2>6, <2>7, WhatFolds
  <2> QED BY <2>0, <2>5, <2>8
<1>3. <<>> \in Seq(Pairs) /\ \A x \in Pairs : Append(s, x) \in Seq(Pairs) OBVIOUS
<1>4. Folded(InsertStep, <<>>, <<>>) = <<>> /\ Folded(InsertStep, <<>>, s) \in SortedPairLists
  BY <1>1, FoldingOn
<1>5. ASSUME NEW x \in Pairs
      PROVE  Folded(InsertStep, <<>>, Append(s, x)) = InsertPair(Folded(InsertStep, <<>>, s), x)
  <2>1. Folded(InsertStep, <<>>, Append(s, x)) = InsertStep[<<Folded(InsertStep, <<>>, s), x>>]
    BY <1>1, FoldingOn
  <2> QED BY <1>4, <2>1 DEF InsertStep
<1> QED BY <1>2, <1>3, <1>4, <1>5

LEMMA SortingKeepsPairs ==
  ASSUME NEW s \in Seq(Pairs)
  PROVE  /\ SortPairs(s) \in Seq(Pairs) /\ ArePairsSorted(SortPairs(s))
         /\ Alike(SortPairs(s), s)
<1>1. \A q \in Seq(Pairs) : SortPairs(q) \in Seq(Pairs) /\ ArePairsSorted(SortPairs(q))
  BY Inserting DEF SortedPairLists, PairLists
<1> DEFINE G == {q \in Seq(Pairs) : Alike(SortPairs(q), q)}
<1>2. <<>> \in G
  <2>1. <<>> \in Seq(Pairs) OBVIOUS
  <2>2. SortPairs(<<>>) = <<>> BY <2>1, Inserting
  <2> QED BY <2>1, <2>2 DEF Alike
<1>3. \A q \in Seq(Pairs) : \A p \in Pairs : q \in G => Append(q, p) \in G
  <2> SUFFICES ASSUME NEW q \in Seq(Pairs), NEW p \in Pairs, Alike(SortPairs(q), q), NEW x \in Pairs
               PROVE  Occurrences(SortPairs(Append(q, p)), x) = Occurrences(Append(q, p), x)
    <3>1. \A q \in Seq(Pairs) : \A p \in Pairs : Append(q, p) \in Seq(Pairs) OBVIOUS
    <3> QED BY <3>1 DEF Alike
  <2> DEFINE o == SortPairs(q)
             t == InsertPair(o, p)
  <2>1. SortPairs(Append(q, p)) = t BY Inserting
  <2>2. o \in Seq(Pairs) /\ ArePairsSorted(o) BY <1>1
  <2>3. PICK n \in 0..Len(o) : t \in Seq(Pairs) /\ PutInto(t, o, n, p)
    <3> HIDE DEF o
    <3> QED BY <2>2, InsertionSorts
  <2>4. Occurrences(t, x) = Occurrences(o, x) + (IF p = x THEN 1 ELSE 0)
    <3> HIDE DEF o, t
    <3> QED BY <2>2, <2>3, InsertionCounts
  <2>5. Occurrences(Append(q, p), x) = Occurrences(q, x) + (IF p = x THEN 1 ELSE 0)
    BY AppendCounts
  <2>6. Occurrences(o, x) = Occurrences(q, x) BY DEF Alike
  <2> HIDE DEF o, t
  <2> QED BY <2>1, <2>4, <2>5, <2>6
<1> HIDE DEF G
<1>4. Seq(Pairs) \subseteq G BY <1>2, <1>3, InductionOnSequences
<1> QED BY <1>1, <1>4 DEF G

(* Two queries have the same canonical form exactly when they hold the     *)
(* same parameters equally often.                                          *)
LEMMA CanonicalQueries ==
  ASSUME NEW q, NEW r, IsQuery(q), IsQuery(r)
  PROVE  CanonicalizeQuery(q) = CanonicalizeQuery(r) <=> SameQuery(q, r)
<1> DEFINE ps == ParseQueryPairs(q)
           rs == ParseQueryPairs(r)
           cs == SortPairs(ps)
           ds == SortPairs(rs)
<1>1. ps \in Seq(Pairs) /\ rs \in Seq(Pairs)
  <2>1. q \in Seq(Segments) /\ r \in Seq(Segments) BY DEF IsQuery, Segments, Characters
  <2> QED BY <2>1, Adding DEF PairLists
<1>2. CanonicalizeQuery(q) = cs /\ CanonicalizeQuery(r) = ds BY DEF CanonicalizeQuery
<1> HIDE DEF ps, rs
<1>3. /\ cs \in Seq(Pairs) /\ ArePairsSorted(cs) /\ Alike(cs, ps)
      /\ ds \in Seq(Pairs) /\ ArePairsSorted(ds) /\ Alike(ds, rs)
  BY <1>1, SortingKeepsPairs
<1> HIDE DEF cs, ds
<1>4. cs = ds <=> Alike(ps, rs)
  <2>1. cs = ds => Alike(ps, rs) BY <1>3 DEF Alike
  <2>2. Alike(ps, rs) => Alike(cs, ds) BY <1>3 DEF Alike
  <2>3. Alike(cs, ds) => cs = ds BY <1>3, SortedAlikeAreEqual
  <2> QED BY <2>1, <2>2, <2>3
<1>5. Alike(ps, rs) <=> \A p \in ToSet(ps) \cup ToSet(rs) : Occurrences(ps, p) = Occurrences(rs, p)
  <2>1. ToSet(ps) \subseteq Pairs /\ ToSet(rs) \subseteq Pairs BY <1>1, ElementsAreMembers
  <2>2. ASSUME NEW p, p \notin ToSet(ps) \cup ToSet(rs)
        PROVE  Occurrences(ps, p) = 0 /\ Occurrences(rs, p) = 0
    <3>1. DOMAIN ps = 1..Len(ps) /\ DOMAIN rs = 1..Len(rs) BY <1>1
    <3>2. ~(\E k \in 1..Len(ps) : ps[k] = p) BY <2>2, <3>1 DEF ToSet
    <3>3. ~(\E k \in 1..Len(rs) : rs[k] = p) BY <2>2, <3>1 DEF ToSet
    <3>4. Occurrences(ps, p) = 0 BY <1>1, <3>2, OccursIn
    <3>5. Occurrences(rs, p) = 0 BY <1>1, <3>3, OccursIn
    <3> QED BY <3>4, <3>5
  <2> QED BY <2>1, <2>2 DEF Alike
<1>6. SameQuery(q, r) <=> \A p \in ToSet(ps) \cup ToSet(rs) : Occurrences(ps, p) = Occurrences(rs, p)
  BY DEF SameQuery, ps, rs
<1> QED BY <1>2, <1>4, <1>5, <1>6

-----------------------------------------------------------------------------
(* What a replay of a recorded exchange has loaded. *)

LoadedOK ==
  stage = "replaying" /\ interaction # Nothing =>
    Positions = {0} /\ cassette[0].hash = Form(request)

LEMMA LoadedInit == Init => LoadedOK
  BY DEF Init, LoadedOK

LEMMA LoadedNext == LoadedOK /\ EngineOK /\ RecordingOK /\ [Next]_vars => LoadedOK'
<1> SUFFICES ASSUME LoadedOK, EngineOK, RecordingOK, [Next]_vars,
                    stage' = "replaying", interaction' # Nothing
             PROVE  Positions' = {0} /\ cassette'[0].hash = Form(request')
  BY DEF LoadedOK, Form
<1>1. CASE LoadCassette
  <2>1. UNCHANGED <<request, interaction>> BY <1>1 DEF LoadCassette, exchangeVars
  <2>2. interaction.request.canonical = Form(request)
    BY <2>1 DEF RecordingOK, RecordedRequest
  <2>3. cassette' = [i \in {0} |-> [hash  |-> interaction.request.canonical,
                                    shape |-> interaction.response.shape]]
    BY <1>1, <2>1 DEF LoadCassette
  <2>4. DOMAIN cassette' = {0} /\ cassette'[0].hash = Form(request) BY <2>2, <2>3
  <2> QED BY <2>1, <2>4 DEF Positions
<1>2. CASE CallEngine
  <2>1. UNCHANGED <<stage, request, interaction>> BY <1>2 DEF CallEngine, exchangeVars
  <2>2. cassette' = cassette BY <1>2, EngineStep DEF CallEngine
  <2> QED BY <2>1, <2>2 DEF LoadedOK, Positions
<1>3. CASE ~CallEngine /\ ~LoadCassette
  <2>1. UNCHANGED vars
    BY <1>3 DEF Next, ResolveApiKeyFails, BuildOutboundFails, SendUpstream, UpstreamFails,
                UpstreamAnswers, Persist, RecordingFails, PopulateCanonicalFields
  <2>2. UNCHANGED <<stage, request, interaction, cassette>>
    BY <2>1 DEF vars, exchangeVars, engineVars
  <2> QED BY <2>2 DEF LoadedOK, Positions
<1> QED BY <1>1, <1>2, <1>3

LEMMA LoadedInvariant == Spec => []LoadedOK
  BY LoadedInit, LoadedNext, EngineInvariant, RecordingInvariant, PTL DEF Spec

(* A recorded request and one resent have the same canonical form exactly  *)
(* when they ask the same; the resent one parses.                          *)
LEMMA SameForms ==
  ASSUME NEW r, NEW q, IsQuery(r.query), IsQuery(q.query), ParsesAsJson(r.body)
  PROVE  Form(q) = Form(r) <=> SameQuery(q.query, r.query) /\ SameBody(q.body, r.body)
<1> DEFINE b == IF ParsesAsJson(q.body) THEN q.body ELSE Null
<1>1. /\ Form(q) = [query |-> CanonicalizeQuery(q.query), body |-> b]
      /\ Form(r) = [query |-> CanonicalizeQuery(r.query), body |-> r.body]
  BY DEF Form, CanonicalRequestValue
<1>2. b = r.body <=> SameBody(q.body, r.body) BY DEF ParsesAsJson, SameBody
<1> HIDE DEF b
<1>3. Form(q) = Form(r)
        <=> CanonicalizeQuery(q.query) = CanonicalizeQuery(r.query) /\ b = r.body
  BY <1>1
<1>4. CanonicalizeQuery(q.query) = CanonicalizeQuery(r.query) <=> SameQuery(q.query, r.query)
  BY CanonicalQueries
<1> QED BY <1>2, <1>3, <1>4

(* Matching by canonical form (src/src/cassette/canonical and the engine   *)
(* of src/src/cassette/matching) answers a request if and only if it asks  *)
(* what was recorded, for every query and body: two queries have the same  *)
(* canonical form exactly when they hold the same pairs equally often.     *)
THEOREM MatchedAlways == Spec => []MatchedMeansSameRequest
<1>1. RecordingOK /\ EngineOK /\ LoadedOK => MatchedMeansSameRequest
  <2> SUFFICES ASSUME RecordingOK, EngineOK, LoadedOK,
                      stage = "replaying", interaction # Nothing, handed = <<>>,
                      NEW r \in Resent, ParsesAsJson(r.body)
               PROVE  Calls!IsMatch(Calls!PeekMatch(Form(r))) <=>
                        SameQuery(request.query, r.query) /\ SameBody(request.body, r.body)
    BY DEF MatchedMeansSameRequest
  <2>1. Positions = {0} /\ cassette[0].hash = Form(request) BY DEF LoadedOK
  <2>2. Calls!IsMatch(Calls!PeekMatch(Form(r))) <=> Form(request) = Form(r)
    <3>1. CASE mode = "SequentialStrict"
      <4>1. sequential_cursor = 0
        <5>1. Len(handed) = 0 OBVIOUS
        <5> QED BY <3>1, <5>1 DEF EngineOK
      <4>2. Calls!PeekMatch(Form(r)) = IF Form(request) # Form(r)
                                       THEN Calls!Mismatch("request_hash_mismatch", 0)
                                       ELSE Calls!Matched(0)
        BY <2>1, <3>1, <4>1 DEF Calls!PeekMatch, Calls!SequentialCandidate, Calls!Positions,
                                Calls!StableHash, Positions
      <4> QED BY <4>2 DEF Calls!IsMatch, Calls!Mismatch, Calls!Matched
    <3>2. CASE mode # "SequentialStrict"
      <4>1. consumed = {}
        <5>1. Len(handed) = 0 /\ 1..0 = {} OBVIOUS
        <5>2. mode = "Keyed" BY <3>2 DEF EngineOK, Calls!Modes
        <5> QED BY <5>1, <5>2 DEF EngineOK
      <4>2. Calls!HashToIndices(Form(r)) = {i \in {0} : Form(request) = Form(r)}
        BY <2>1 DEF Calls!HashToIndices, Calls!Positions, Calls!StableHash, Positions
      <4>3. Calls!PeekMatch(Form(r)) = Calls!KeyedCandidate(Form(r)) BY <3>2 DEF Calls!PeekMatch
      <4>4. CASE Form(request) = Form(r)
        <5>1. Calls!HashToIndices(Form(r)) \ consumed # {} /\ Calls!HashToIndices(Form(r)) # {}
          BY <4>1, <4>2, <4>4
        <5> QED BY <4>3, <4>4, <5>1 DEF Calls!KeyedCandidate, Calls!IsMatch, Calls!Matched
      <4>5. CASE Form(request) # Form(r)
        <5>1. Calls!HashToIndices(Form(r)) = {} BY <4>2, <4>5
        <5> QED BY <4>3, <4>5, <5>1 DEF Calls!KeyedCandidate, Calls!IsMatch, Calls!Mismatch
      <4> QED BY <4>4, <4>5
    <3> QED BY <3>1, <3>2
  <2>3. IsQuery(request.query) /\ IsQuery(r.query)
    BY ExchangesAssumption, ResentAssumption DEF RecordingOK, SentOK, OfAnExchange
  <2>4. Form(request) = Form(r)
          <=> SameQuery(request.query, r.query) /\ SameBody(request.body, r.body)
    BY <2>3, SameForms
  <2> QED BY <2>2, <2>4
<1> QED BY <1>1, RecordingInvariant, EngineInvariant, LoadedInvariant, PTL

-----------------------------------------------------------------------------
(* Concatenations, and the places of their elements. *)

FromBoth(c, s, t, i, j) ==
  \/ \E a, b \in 1..Len(s) : a < b /\ c[i] = s[a] /\ c[j] = s[b]
  \/ \E a, b \in 1..Len(t) : a < b /\ c[i] = t[a] /\ c[j] = t[b]
  \/ \E a \in 1..Len(s), b \in 1..Len(t) : c[i] = s[a] /\ c[j] = t[b]

LEMMA PlacesInConcat ==
  ASSUME NEW S, NEW s \in Seq(S), NEW t \in Seq(S), NEW c, c = s \o t
  PROVE  \A i, j \in 1..Len(c) : i < j => FromBoth(c, s, t, i, j)
<1> SUFFICES ASSUME NEW i \in 1..Len(c), NEW j \in 1..Len(c), i < j
             PROVE  FromBoth(c, s, t, i, j)
  OBVIOUS
<1> USE DEF FromBoth
<1>1. /\ Len(c) = Len(s) + Len(t) /\ Len(s) \in Nat /\ Len(t) \in Nat
      /\ \A k \in 1..(Len(s) + Len(t)) : c[k] = IF k <= Len(s) THEN s[k] ELSE t[k - Len(s)]
  BY ConcatProperties
<1>2. CASE j <= Len(s)
  <2>1. i \in 1..Len(s) /\ j \in 1..Len(s) BY <1>1, <1>2
  <2>2. c[i] = s[i] /\ c[j] = s[j] BY <1>1, <2>1
  <2> QED BY <2>1, <2>2
<1>3. CASE ~(i <= Len(s))
  <2>1. i - Len(s) \in 1..Len(t) /\ j - Len(s) \in 1..Len(t) /\ i - Len(s) < j - Len(s)
        /\ ~(j <= Len(s))
    BY <1>1, <1>3
  <2>2. c[i] = t[i - Len(s)] /\ c[j] = t[j - Len(s)] BY <1>1, <1>3, <2>1
  <2> QED BY <2>1, <2>2
<1>4. CASE i <= Len(s) /\ ~(j <= Len(s))
  <2>1. i \in 1..Len(s) /\ j - Len(s) \in 1..Len(t) BY <1>1, <1>4
  <2>2. c[i] = s[i] /\ c[j] = t[j - Len(s)] BY <1>1, <1>4, <2>1
  <2> QED BY <2>1, <2>2
<1> QED BY <1>1, <1>2, <1>3, <1>4

LEMMA ElementsOfConcat ==
  ASSUME NEW S, NEW s \in Seq(S), NEW t \in Seq(S)
  PROVE  ToSet(s \o t) = ToSet(s) \cup ToSet(t)
<1> DEFINE c == s \o t
<1>1. /\ c \in Seq(S)
      /\ Len(c) = Len(s) + Len(t) /\ Len(s) \in Nat /\ Len(t) \in Nat
      /\ \A k \in 1..(Len(s) + Len(t)) : c[k] = IF k <= Len(s) THEN s[k] ELSE t[k - Len(s)]
  BY ConcatProperties
<1> HIDE DEF c
<1>2. DOMAIN c = 1..(Len(s) + Len(t)) /\ DOMAIN s = 1..Len(s) /\ DOMAIN t = 1..Len(t)
  BY <1>1
<1>3. ToSet(c) \subseteq ToSet(s) \cup ToSet(t)
  <2>1. \A k \in 1..(Len(s) + Len(t)) : ~(k <= Len(s)) => k - Len(s) \in 1..Len(t) BY <1>1
  <2>2. \A k \in 1..(Len(s) + Len(t)) : k <= Len(s) => k \in 1..Len(s) BY <1>1
  <2> QED BY <1>1, <1>2, <2>1, <2>2 DEF ToSet
<1>4. ToSet(s) \subseteq ToSet(c)
  <2>1. \A k \in 1..Len(s) : k \in 1..(Len(s) + Len(t)) /\ k <= Len(s) BY <1>1
  <2>2. \A k \in 1..Len(s) : s[k] = c[k] BY <1>1, <2>1
  <2> QED BY <1>2, <2>1, <2>2 DEF ToSet
<1>5. ToSet(t) \subseteq ToSet(c)
  <2>1. \A k \in 1..Len(t) : /\ k + Len(s) \in 1..(Len(s) + Len(t)) /\ ~(k + Len(s) <= Len(s))
                             /\ (k + Len(s)) - Len(s) = k
    BY <1>1
  <2>2. \A k \in 1..Len(t) : t[k] = c[k + Len(s)] BY <1>1, <2>1
  <2> QED BY <1>2, <2>1, <2>2 DEF ToSet
<1> QED BY <1>3, <1>4, <1>5 DEF c

LEMMA ElementsAfterInsertion ==
  ASSUME NEW S, NEW s \in Seq(S), NEW t \in Seq(S), NEW n, NEW p, PutInto(t, s, n, p)
  PROVE  ToSet(t) = ToSet(s) \cup {p}
<1>1. /\ Len(s) \in Nat /\ n \in Nat /\ n <= Len(s) /\ Len(t) = Len(s) + 1
      /\ \A k \in 1..n : t[k] = s[k]
      /\ t[n + 1] = p
      /\ \A k \in (n + 1)..Len(s) : t[k + 1] = s[k]
      /\ DOMAIN s = 1..Len(s) /\ DOMAIN t = 1..(Len(s) + 1)
  BY DEF PutInto
<1>2. ToSet(s) \subseteq ToSet(t)
  <2>1. \A k \in 1..Len(s) : /\ k \in 1..(Len(s) + 1) /\ k + 1 \in 1..(Len(s) + 1)
                             /\ k \in 1..n \/ k \in (n + 1)..Len(s)
    BY <1>1
  <2>2. \A k \in 1..Len(s) : s[k] = t[k] \/ s[k] = t[k + 1] BY <1>1, <2>1
  <2> QED BY <1>1, <2>1, <2>2 DEF ToSet
<1>3. p \in ToSet(t)
  <2>1. n + 1 \in 1..(Len(s) + 1) BY <1>1
  <2> QED BY <1>1, <2>1 DEF ToSet
<1>4. ToSet(t) \subseteq ToSet(s) \cup {p}
  <2> SUFFICES ASSUME NEW k \in 1..(Len(s) + 1), k # n + 1 PROVE t[k] \in ToSet(s)
    BY <1>1 DEF ToSet
  <2>1. CASE k <= n
    <3>1. k \in 1..n /\ k \in 1..Len(s) BY <1>1, <2>1
    <3> QED BY <1>1, <3>1 DEF ToSet
  <2>2. CASE ~(k <= n)
    <3>1. k - 1 \in (n + 1)..Len(s) /\ k - 1 \in 1..Len(s) /\ (k - 1) + 1 = k BY <1>1, <2>2
    <3>2. t[(k - 1) + 1] = s[k - 1] BY <1>1, <3>1
    <3> QED BY <1>1, <3>1, <3>2 DEF ToSet
  <2> QED BY <2>1, <2>2
<1> QED BY <1>2, <1>3, <1>4

LEMMA InsertTyped ==
  ASSUME NEW S, NEW s \in Seq(S), NEW p \in S, NEW K \in SUBSET DOMAIN s
  PROVE  InsertAt(s, Cardinality(K) + 1, p) \in Seq(S)
<1>1. DOMAIN s = 1..Len(s) /\ Len(s) \in Nat OBVIOUS
<1>2. IsFiniteSet(1..Len(s)) /\ Cardinality(1..Len(s)) = Len(s)
  <2>1. 1 \in Int /\ Len(s) \in Int BY <1>1
  <2>2. /\ IsFiniteSet(1..Len(s))
        /\ Cardinality(1..Len(s)) = IF 1 > Len(s) THEN 0 ELSE Len(s) - 1 + 1
    BY <2>1, FS_Interval
  <2> QED BY <1>1, <2>2
<1>3. /\ IsFiniteSet(K) /\ Cardinality(K) <= Len(s)
      /\ Cardinality(K) \in Nat
  BY <1>1, <1>2, FS_Subset, FS_CardinalityType
<1>4. Cardinality(K) \in 0..Len(s) BY <1>1, <1>3
<1> QED BY <1>4, InsertAtPuts

-----------------------------------------------------------------------------
(* The order of the removals (ordered_pointer_removals): the same paths,   *)
(* each once, deeper ones first, entries of one array by falling index.    *)

Paths == Seq(STRING)
Pointers == Paths \ {<<>>}
PointerLists == Seq(Pointers)

AreDistinct(s) == \A i, j \in 1..Len(s) : i < j => s[i] # s[j]

HigherFirst(s) ==
  \A i, j \in 1..Len(s) :
    i < j /\ AreSiblings(s[i], s[j]) => EntryIndex(s[i]) > EntryIndex(s[j])

DeeperFirst(s) == \A i, j \in 1..Len(s) : i < j => Len(s[i]) >= Len(s[j])

InRemovalOrder(s) == AreDistinct(s) /\ HigherFirst(s) /\ DeeperFirst(s)

LEMMA Indices ==
  /\ \A t : IsIndex(t) => /\ IndexOf(t) \in 1..Len(IndexTokens)
                          /\ IndexTokens[IndexOf(t)] = t
  /\ \A i \in 1..Len(IndexTokens) : /\ IndexOf(IndexTokens[i]) = i
                                    /\ IsIndex(IndexTokens[i])
                                    /\ IndexTokens[i] \in STRING
  /\ Len(IndexTokens) \in Nat
<1>1. /\ IndexTokens \in Seq(STRING) /\ DOMAIN IndexTokens = 1..Len(IndexTokens)
      /\ Len(IndexTokens) \in Nat
      /\ \A i, j \in 1..Len(IndexTokens) : IndexTokens[i] = IndexTokens[j] => i = j
  BY IndexTokensAssumption DEF IsInjective
<1>2. ASSUME NEW t, IsIndex(t)
      PROVE  IndexOf(t) \in 1..Len(IndexTokens) /\ IndexTokens[IndexOf(t)] = t
  BY <1>1, <1>2 DEF IsIndex, IndexOf, ToSet
<1>3. ASSUME NEW i \in 1..Len(IndexTokens)
      PROVE  /\ IndexOf(IndexTokens[i]) = i /\ IsIndex(IndexTokens[i])
             /\ IndexTokens[i] \in STRING
  <2>1. IsIndex(IndexTokens[i]) BY <1>1 DEF IsIndex, ToSet
  <2>2. IndexTokens[i] \in STRING BY <1>1, ElementOfSeq
  <2> QED BY <1>1, <1>2, <2>1, <2>2
<1> QED BY <1>1, <1>2, <1>3

(* A path that is not empty is its front and its last token. *)
LEMMA PathParts ==
  ASSUME NEW p \in Pointers
  PROVE  /\ Front(p) \in Paths /\ Last(p) \in STRING
         /\ p = Append(Front(p), Last(p))
         /\ Len(p) \in Nat /\ Len(p) >= 1
         /\ Front(p) = SubSeq(p, 1, Len(p) - 1) /\ Len(Front(p)) = Len(p) - 1
         /\ Last(p) = p[Len(p)]
<1>1. PICK f \in Paths, l \in STRING : p = Append(f, l)
  BY SequenceEmptyOrAppend DEF Pointers, Paths
<1>2. Front(p) = f /\ Last(p) = l BY <1>1, FrontLastOfAppend DEF Paths
<1>3. p \in Seq(STRING) /\ p # <<>> BY DEF Pointers, Paths
<1>4. Len(p) \in Nat /\ Len(p) >= 1 BY <1>3
<1>5. Len(Append(f, l)) = Len(f) + 1 /\ Len(f) \in Nat BY <1>1 DEF Paths
<1>6. Len(f) = Len(p) - 1 BY <1>1, <1>5
<1> QED BY <1>1, <1>2, <1>4, <1>6 DEF Front, Last

LEMMA SiblingsFacts ==
  ASSUME NEW p \in Pointers, NEW q \in Pointers, AreSiblings(p, q)
  PROVE  /\ AreSiblings(q, p) /\ Len(p) = Len(q)
         /\ EntryIndex(p) \in Nat /\ EntryIndex(q) \in Nat
         /\ p # q => EntryIndex(p) # EntryIndex(q)
         /\ \A r : AreSiblings(q, r) => AreSiblings(p, r)
<1>1. AreSiblings(q, p) /\ \A r : AreSiblings(q, r) => AreSiblings(p, r)
  BY DEF AreSiblings
<1>2. Front(p) = Front(q) /\ IsIndex(Last(p)) /\ IsIndex(Last(q))
  BY DEF AreSiblings, IsArrayEntry
<1>3. /\ EntryIndex(p) \in Nat /\ EntryIndex(q) \in Nat
      /\ EntryIndex(p) = EntryIndex(q) => Last(p) = Last(q)
  BY <1>2, Indices DEF EntryIndex
<1>4. EntryIndex(p) = EntryIndex(q) => p = q
  BY <1>2, <1>3, PathParts
<1>5. Len(p) = Len(q)
  <2>1. /\ Len(Front(p)) = Len(p) - 1 /\ Len(Front(q)) = Len(q) - 1
        /\ Len(p) \in Nat /\ Len(q) \in Nat
    BY PathParts
  <2> QED BY <1>2, <2>1
<1> QED BY <1>1, <1>3, <1>4, <1>5

(* What an appended list says of its beginning and of its last. *)
LEMMA BeginningIsOrdered ==
  ASSUME NEW s \in PointerLists, NEW p \in Pointers
  PROVE  /\ Append(s, p) \in PointerLists
         /\ AreDistinct(Append(s, p)) => AreDistinct(s) /\ p \notin ToSet(s)
         /\ HigherFirst(Append(s, p)) =>
              /\ HigherFirst(s)
              /\ \A q \in ToSet(s) : AreSiblings(q, p) => EntryIndex(q) > EntryIndex(p)
         /\ DeeperFirst(Append(s, p)) =>
              /\ DeeperFirst(s)
              /\ \A q \in ToSet(s) : Len(q) >= Len(p)
<1> DEFINE t == Append(s, p)
<1>1. /\ t \in PointerLists /\ Len(s) \in Nat /\ Len(t) = Len(s) + 1 /\ t[Len(s) + 1] = p
      /\ \A k \in 1..Len(s) : t[k] = s[k]
  BY DEF PointerLists
<1>2. DOMAIN s = 1..Len(s) BY DEF PointerLists
<1> HIDE DEF t
<1>3. \A k \in 1..Len(s) : k \in 1..Len(t) /\ k < Len(s) + 1 BY <1>1
<1>4. Len(s) + 1 \in 1..Len(t) BY <1>1
<1>5. ASSUME AreDistinct(t) PROVE AreDistinct(s) /\ p \notin ToSet(s)
  <2>1. \A i, j \in 1..Len(s) : i < j => s[i] # s[j] BY <1>1, <1>3, <1>5 DEF AreDistinct
  <2>2. \A k \in 1..Len(s) : s[k] # p BY <1>1, <1>3, <1>4, <1>5 DEF AreDistinct
  <2> QED BY <1>2, <2>1, <2>2 DEF AreDistinct, ToSet
<1>6. ASSUME HigherFirst(t)
      PROVE  /\ HigherFirst(s)
             /\ \A q \in ToSet(s) : AreSiblings(q, p) => EntryIndex(q) > EntryIndex(p)
  <2>1. \A i, j \in 1..Len(s) :
          i < j /\ AreSiblings(s[i], s[j]) => EntryIndex(s[i]) > EntryIndex(s[j])
    BY <1>1, <1>3, <1>6 DEF HigherFirst
  <2>2. \A k \in 1..Len(s) : AreSiblings(s[k], p) => EntryIndex(s[k]) > EntryIndex(p)
    BY <1>1, <1>3, <1>4, <1>6 DEF HigherFirst
  <2> QED BY <1>2, <2>1, <2>2 DEF HigherFirst, ToSet
<1>7. ASSUME DeeperFirst(t) PROVE DeeperFirst(s) /\ \A q \in ToSet(s) : Len(q) >= Len(p)
  <2>1. \A i, j \in 1..Len(s) : i < j => Len(s[i]) >= Len(s[j])
    BY <1>1, <1>3, <1>7 DEF DeeperFirst
  <2>2. \A k \in 1..Len(s) : Len(s[k]) >= Len(p) BY <1>1, <1>3, <1>4, <1>7 DEF DeeperFirst
  <2> QED BY <1>2, <2>1, <2>2 DEF DeeperFirst, ToSet
<1> QED BY <1>1, <1>5, <1>6, <1>7 DEF t

LEMMA NothingToOrder ==
  /\ <<>> \in PointerLists /\ ToSet(<<>>) = {} /\ InRemovalOrder(<<>>)
<1>1. <<>> \in Seq(Pointers) /\ Len(<<>>) = 0 /\ DOMAIN <<>> = {} /\ 1..0 = {} OBVIOUS
<1> QED BY <1>1 DEF PointerLists, ToSet, InRemovalOrder, AreDistinct, HigherFirst, DeeperFirst

AddNewStep == [a \in PointerLists \X Pointers |-> AddNew(a[1], a[2])]
SiblingStep(p) == [a \in PointerLists \X Pointers |-> AddSibling(p, a[1], a[2])]
EmitStep(ps) == [a \in PointerLists \X Pointers |-> EmitRemoval(ps, a[1], a[2])]
DepthStep == [a \in PointerLists \X Pointers |-> InsertByDepth(a[1], a[2])]

Emitted(ps, s) == FoldLeft(LAMBDA ordered, p : EmitRemoval(ps, ordered, p), <<>>, s)

LEMMA AppendToPointers ==
  ASSUME NEW s \in PointerLists, NEW p \in Pointers
  PROVE  Append(s, p) \in PointerLists
  BY DEF PointerLists

LEMMA Deduplicating ==
  ASSUME NEW s \in Seq(Pointers)
  PROVE  /\ Deduplicated(<<>>) = <<>> /\ Deduplicated(s) \in PointerLists
         /\ \A x \in Pointers : Deduplicated(Append(s, x)) = AddNew(Deduplicated(s), x)
<1>1. AddNewStep \in Steps(Pointers, PointerLists) /\ <<>> \in PointerLists
  <2> SUFFICES ASSUME NEW a \in PointerLists, NEW x \in Pointers PROVE AddNew(a, x) \in PointerLists
    BY NothingToOrder DEF AddNewStep, Steps
  <2> QED BY AppendToPointers DEF AddNew
<1>2. ASSUME NEW q \in Seq(Pointers)
      PROVE  Deduplicated(q) = Folded(AddNewStep, <<>>, q)
  <2> DEFINE N == 1..Len(q)
             StepOn(t, U) == AddNew(t[U \ {Max(U)}], q[Max(U)])
             IsFold(t) == t = [U \in SUBSET DOMAIN q |-> IF U = {} THEN <<>> ELSE StepOn(t, U)]
             c == CHOOSE t : IsFold(t)
  <2>0. DOMAIN q = N OBVIOUS
  <2>1. PICK f \in Tables(q, PointerLists) : IsTable(f, AddNewStep, <<>>, q)
    BY <1>1, FoldHasTable
  <2>2. \A U \in SUBSET N : f[U] = IF U = {} THEN <<>> ELSE StepOn(f, U)
    BY <2>1, TablesAreTyped DEF IsTable, Tables, AddNewStep
  <2>3. IsFold(f)
    <3> HIDE DEF StepOn
    <3>1. f = [U \in SUBSET N |-> f[U]] BY DEF Tables
    <3> QED BY <2>0, <2>2, <3>1
  <2>4. IsFold(c) BY <2>3
  <2>5. Deduplicated(q) = c[DOMAIN q] BY DEF Deduplicated, FoldLeft, MapThenFoldSet
  <2> HIDE DEF c
  <2>6. c[{}] = <<>> BY <2>4
  <2>7. TakesSteps(c, PointerLists, AddNewStep, q)
    BY <2>0, <2>4, TablesAreTyped DEF AddNewStep, TakesSteps
  <2>8. c[N] = Folded(AddNewStep, <<>>, q)
    BY <1>1, <2>6, <2>7, WhatFolds
  <2> QED BY <2>0, <2>5, <2>8
<1>3. <<>> \in Seq(Pointers) /\ \A x \in Pointers : Append(s, x) \in Seq(Pointers) OBVIOUS
<1>4. Folded(AddNewStep, <<>>, <<>>) = <<>> /\ Folded(AddNewStep, <<>>, s) \in PointerLists
  BY <1>1, FoldingOn
<1>5. ASSUME NEW x \in Pointers
      PROVE  Folded(AddNewStep, <<>>, Append(s, x)) = AddNew(Folded(AddNewStep, <<>>, s), x)
  <2>1. Folded(AddNewStep, <<>>, Append(s, x)) = AddNewStep[<<Folded(AddNewStep, <<>>, s), x>>]
    BY <1>1, FoldingOn
  <2> QED BY <1>4, <2>1 DEF AddNewStep
<1> QED BY <1>2, <1>3, <1>4, <1>5

LEMMA CollectingSiblings ==
  ASSUME NEW p, NEW s \in Seq(Pointers)
  PROVE  /\ HighestIndexFirst(<<>>, p) = <<>> /\ HighestIndexFirst(s, p) \in PointerLists
         /\ \A x \in Pointers : HighestIndexFirst(Append(s, x), p) = AddSibling(p, HighestIndexFirst(s, p), x)
<1>1. SiblingStep(p) \in Steps(Pointers, PointerLists) /\ <<>> \in PointerLists
  <2> SUFFICES ASSUME NEW a \in PointerLists, NEW x \in Pointers
               PROVE  AddSibling(p, a, x) \in PointerLists
    BY NothingToOrder DEF SiblingStep, Steps
  <2>1. {k \in DOMAIN a : EntryIndex(a[k]) > EntryIndex(x)} \in SUBSET DOMAIN a OBVIOUS
  <2>2. InsertEntry(a, x) \in PointerLists BY <2>1, InsertTyped DEF InsertEntry, PointerLists
  <2> QED BY <2>2 DEF AddSibling
<1>2. ASSUME NEW q \in Seq(Pointers)
      PROVE  HighestIndexFirst(q, p) = Folded(SiblingStep(p), <<>>, q)
  <2> DEFINE N == 1..Len(q)
             StepOn(t, U) == AddSibling(p, t[U \ {Max(U)}], q[Max(U)])
             IsFold(t) == t = [U \in SUBSET DOMAIN q |-> IF U = {} THEN <<>> ELSE StepOn(t, U)]
             c == CHOOSE t : IsFold(t)
  <2>0. DOMAIN q = N OBVIOUS
  <2>1. PICK f \in Tables(q, PointerLists) : IsTable(f, SiblingStep(p), <<>>, q)
    BY <1>1, FoldHasTable
  <2>2. \A U \in SUBSET N : f[U] = IF U = {} THEN <<>> ELSE StepOn(f, U)
    BY <2>1, TablesAreTyped DEF IsTable, Tables, SiblingStep
  <2>3. IsFold(f)
    <3> HIDE DEF StepOn
    <3>1. f = [U \in SUBSET N |-> f[U]] BY DEF Tables
    <3> QED BY <2>0, <2>2, <3>1
  <2>4. IsFold(c) BY <2>3
  <2>5. HighestIndexFirst(q, p) = c[DOMAIN q] BY DEF HighestIndexFirst, FoldLeft, MapThenFoldSet
  <2> HIDE DEF c
  <2>6. c[{}] = <<>> BY <2>4
  <2>7. TakesSteps(c, PointerLists, SiblingStep(p), q)
    BY <2>0, <2>4, TablesAreTyped DEF SiblingStep, TakesSteps
  <2>8. c[N] = Folded(SiblingStep(p), <<>>, q)
    BY <1>1, <2>6, <2>7, WhatFolds
  <2> QED BY <2>0, <2>5, <2>8
<1>3. <<>> \in Seq(Pointers) /\ \A x \in Pointers : Append(s, x) \in Seq(Pointers) OBVIOUS
<1>4. Folded(SiblingStep(p), <<>>, <<>>) = <<>> /\ Folded(SiblingStep(p), <<>>, s) \in PointerLists
  BY <1>1, FoldingOn
<1>5. ASSUME NEW x \in Pointers
      PROVE  Folded(SiblingStep(p), <<>>, Append(s, x)) = AddSibling(p, Folded(SiblingStep(p), <<>>, s), x)
  <2>1. Folded(SiblingStep(p), <<>>, Append(s, x)) = SiblingStep(p)[<<Folded(SiblingStep(p), <<>>, s), x>>]
    BY <1>1, FoldingOn
  <2> QED BY <1>4, <2>1 DEF SiblingStep
<1> QED BY <1>2, <1>3, <1>4, <1>5

LEMMA Emitting ==
  ASSUME NEW ps \in PointerLists, NEW s \in Seq(Pointers)
  PROVE  /\ Emitted(ps, <<>>) = <<>> /\ Emitted(ps, s) \in PointerLists
         /\ \A x \in Pointers : Emitted(ps, Append(s, x)) = EmitRemoval(ps, Emitted(ps, s), x)
<1>1. EmitStep(ps) \in Steps(Pointers, PointerLists) /\ <<>> \in PointerLists
  <2> SUFFICES ASSUME NEW a \in PointerLists, NEW x \in Pointers
               PROVE  EmitRemoval(ps, a, x) \in PointerLists
    BY NothingToOrder DEF EmitStep, Steps
  <2>1. HighestIndexFirst(ps, x) \in PointerLists BY CollectingSiblings DEF PointerLists
  <2>2. a \o HighestIndexFirst(ps, x) \in PointerLists BY <2>1 DEF PointerLists
  <2> QED BY <2>2, AppendToPointers DEF EmitRemoval
<1>2. ASSUME NEW q \in Seq(Pointers)
      PROVE  Emitted(ps, q) = Folded(EmitStep(ps), <<>>, q)
  <2> DEFINE N == 1..Len(q)
             StepOn(t, U) == EmitRemoval(ps, t[U \ {Max(U)}], q[Max(U)])
             IsFold(t) == t = [U \in SUBSET DOMAIN q |-> IF U = {} THEN <<>> ELSE StepOn(t, U)]
             c == CHOOSE t : IsFold(t)
  <2>0. DOMAIN q = N OBVIOUS
  <2>1. PICK f \in Tables(q, PointerLists) : IsTable(f, EmitStep(ps), <<>>, q)
    BY <1>1, FoldHasTable
  <2>2. \A U \in SUBSET N : f[U] = IF U = {} THEN <<>> ELSE StepOn(f, U)
    BY <2>1, TablesAreTyped DEF IsTable, Tables, EmitStep
  <2>3. IsFold(f)
    <3> HIDE DEF StepOn
    <3>1. f = [U \in SUBSET N |-> f[U]] BY DEF Tables
    <3> QED BY <2>0, <2>2, <3>1
  <2>4. IsFold(c) BY <2>3
  <2>5. Emitted(ps, q) = c[DOMAIN q] BY DEF Emitted, FoldLeft, MapThenFoldSet
  <2> HIDE DEF c
  <2>6. c[{}] = <<>> BY <2>4
  <2>7. TakesSteps(c, PointerLists, EmitStep(ps), q)
    BY <2>0, <2>4, TablesAreTyped DEF EmitStep, TakesSteps
  <2>8. c[N] = Folded(EmitStep(ps), <<>>, q)
    BY <1>1, <2>6, <2>7, WhatFolds
  <2> QED BY <2>0, <2>5, <2>8
<1>3. <<>> \in Seq(Pointers) /\ \A x \in Pointers : Append(s, x) \in Seq(Pointers) OBVIOUS
<1>4. Folded(EmitStep(ps), <<>>, <<>>) = <<>> /\ Folded(EmitStep(ps), <<>>, s) \in PointerLists
  BY <1>1, FoldingOn
<1>5. ASSUME NEW x \in Pointers
      PROVE  Folded(EmitStep(ps), <<>>, Append(s, x)) = EmitRemoval(ps, Folded(EmitStep(ps), <<>>, s), x)
  <2>1. Folded(EmitStep(ps), <<>>, Append(s, x)) = EmitStep(ps)[<<Folded(EmitStep(ps), <<>>, s), x>>]
    BY <1>1, FoldingOn
  <2> QED BY <1>4, <2>1 DEF EmitStep
<1> QED BY <1>2, <1>3, <1>4, <1>5

LEMMA SortingByDepth ==
  ASSUME NEW s \in Seq(Pointers)
  PROVE  /\ DeepestFirst(<<>>) = <<>> /\ DeepestFirst(s) \in PointerLists
         /\ \A x \in Pointers : DeepestFirst(Append(s, x)) = InsertByDepth(DeepestFirst(s), x)
<1>1. DepthStep \in Steps(Pointers, PointerLists) /\ <<>> \in PointerLists
  <2> SUFFICES ASSUME NEW a \in PointerLists, NEW x \in Pointers
               PROVE  InsertByDepth(a, x) \in PointerLists
    BY NothingToOrder DEF DepthStep, Steps
  <2>1. {k \in DOMAIN a : Len(a[k]) >= Len(x)} \in SUBSET DOMAIN a OBVIOUS
  <2> QED BY <2>1, InsertTyped DEF InsertByDepth, PointerLists
<1>2. ASSUME NEW q \in Seq(Pointers)
      PROVE  DeepestFirst(q) = Folded(DepthStep, <<>>, q)
  <2> DEFINE N == 1..Len(q)
             StepOn(t, U) == InsertByDepth(t[U \ {Max(U)}], q[Max(U)])
             IsFold(t) == t = [U \in SUBSET DOMAIN q |-> IF U = {} THEN <<>> ELSE StepOn(t, U)]
             c == CHOOSE t : IsFold(t)
  <2>0. DOMAIN q = N OBVIOUS
  <2>1. PICK f \in Tables(q, PointerLists) : IsTable(f, DepthStep, <<>>, q)
    BY <1>1, FoldHasTable
  <2>2. \A U \in SUBSET N : f[U] = IF U = {} THEN <<>> ELSE StepOn(f, U)
    BY <2>1, TablesAreTyped DEF IsTable, Tables, DepthStep
  <2>3. IsFold(f)
    <3> HIDE DEF StepOn
    <3>1. f = [U \in SUBSET N |-> f[U]] BY DEF Tables
    <3> QED BY <2>0, <2>2, <3>1
  <2>4. IsFold(c) BY <2>3
  <2>5. DeepestFirst(q) = c[DOMAIN q] BY DEF DeepestFirst, FoldLeft, MapThenFoldSet
  <2> HIDE DEF c
  <2>6. c[{}] = <<>> BY <2>4
  <2>7. TakesSteps(c, PointerLists, DepthStep, q)
    BY <2>0, <2>4, TablesAreTyped DEF DepthStep, TakesSteps
  <2>8. c[N] = Folded(DepthStep, <<>>, q)
    BY <1>1, <2>6, <2>7, WhatFolds
  <2> QED BY <2>0, <2>5, <2>8
<1>3. <<>> \in Seq(Pointers) /\ \A x \in Pointers : Append(s, x) \in Seq(Pointers) OBVIOUS
<1>4. Folded(DepthStep, <<>>, <<>>) = <<>> /\ Folded(DepthStep, <<>>, s) \in PointerLists
  BY <1>1, FoldingOn
<1>5. ASSUME NEW x \in Pointers
      PROVE  Folded(DepthStep, <<>>, Append(s, x)) = InsertByDepth(Folded(DepthStep, <<>>, s), x)
  <2>1. Folded(DepthStep, <<>>, Append(s, x)) = DepthStep[<<Folded(DepthStep, <<>>, s), x>>]
    BY <1>1, FoldingOn
  <2> QED BY <1>4, <2>1 DEF DepthStep
<1> QED BY <1>2, <1>3, <1>4, <1>5

LEMMA DeduplicatedPaths ==
  ASSUME NEW s \in PointerLists
  PROVE  LET d == Deduplicated(s) IN
         d \in PointerLists /\ AreDistinct(d) /\ ToSet(d) = ToSet(s)
<1> DEFINE Holding(q) ==
             LET d == Deduplicated(q) IN
             d \in PointerLists /\ AreDistinct(d) /\ ToSet(d) = ToSet(q)
           G == {q \in PointerLists : Holding(q)}
<1>1. <<>> \in G
  <2>1. Deduplicated(<<>>) = <<>> BY NothingToOrder, Deduplicating DEF PointerLists
  <2> QED BY <2>1, NothingToOrder DEF InRemovalOrder
<1>2. \A q \in Seq(Pointers) : \A p \in Pointers : q \in G => Append(q, p) \in G
  <2> SUFFICES ASSUME NEW q \in PointerLists, NEW p \in Pointers, Holding(q)
               PROVE  Holding(Append(q, p))
    BY AppendToPointers DEF PointerLists
  <2> DEFINE d == Deduplicated(q)
             t == Deduplicated(Append(q, p))
  <2>1. t = AddNew(d, p) BY Deduplicating DEF PointerLists
  <2>2. d \in PointerLists /\ AreDistinct(d) /\ ToSet(d) = ToSet(q) OBVIOUS
  <2>3. ToSet(Append(q, p)) = ToSet(q) \cup {p} BY ElementsOfAppend DEF PointerLists
  <2> HIDE DEF d, t
  <2>4. CASE p \in ToSet(d)
    <3>1. t = d BY <2>1, <2>4 DEF AddNew
    <3>2. ToSet(t) = ToSet(Append(q, p)) BY <2>2, <2>3, <2>4, <3>1
    <3> QED BY <2>2, <3>1, <3>2 DEF t
  <2>5. CASE p \notin ToSet(d)
    <3>1. t = Append(d, p) BY <2>1, <2>5 DEF AddNew
    <3>2. t \in PointerLists BY <2>2, <3>1, AppendToPointers
    <3>3. ToSet(t) = ToSet(Append(q, p))
      BY <2>2, <2>3, <3>1, ElementsOfAppend DEF PointerLists
    <3>4. AreDistinct(t)
      <4>1. /\ Len(d) \in Nat /\ Len(t) = Len(d) + 1 /\ t[Len(d) + 1] = p
            /\ DOMAIN d = 1..Len(d)
            /\ \A k \in 1..Len(d) : t[k] = d[k]
        BY <2>2, <3>1 DEF PointerLists
      <4>2. \A k \in 1..Len(d) : d[k] # p BY <2>5, <4>1 DEF ToSet
      <4>3. ASSUME NEW i \in 1..Len(t), NEW j \in 1..Len(t), i < j PROVE t[i] # t[j]
        <5>1. i \in 1..Len(d) BY <4>1, <4>3
        <5>2. CASE j = Len(d) + 1 BY <4>1, <4>2, <5>1, <5>2
        <5>3. CASE j # Len(d) + 1
          <6>1. j \in 1..Len(d) BY <4>1, <5>3
          <6> QED BY <2>2, <4>1, <4>3, <5>1, <6>1 DEF AreDistinct
        <5> QED BY <5>2, <5>3
      <4> QED BY <4>3 DEF AreDistinct
    <3> QED BY <3>2, <3>3, <3>4 DEF t
  <2> QED BY <2>4, <2>5
<1> HIDE DEF G
<1>3. Seq(Pointers) \subseteq G BY <1>1, <1>2, InductionOnSequences
<1> QED BY <1>3 DEF G, PointerLists

FallingIndex(s) == \A i, j \in 1..Len(s) : i < j => EntryIndex(s[i]) > EntryIndex(s[j])

LEMMA SiblingsByIndex ==
  ASSUME NEW s \in PointerLists, AreDistinct(s), NEW p \in Pointers
  PROVE  LET h == HighestIndexFirst(s, p) IN
         /\ h \in PointerLists /\ FallingIndex(h)
         /\ ToSet(h) = {q \in ToSet(s) : AreSiblings(p, q)}
<1> DEFINE Holding(q) ==
             LET h == HighestIndexFirst(q, p) IN
             /\ h \in PointerLists /\ FallingIndex(h)
             /\ ToSet(h) = {r \in ToSet(q) : AreSiblings(p, r)}
           G == {q \in PointerLists : AreDistinct(q) => Holding(q)}
<1>1. <<>> \in G
  <2>1. HighestIndexFirst(<<>>, p) = <<>>
    BY NothingToOrder, CollectingSiblings DEF PointerLists
  <2>2. FallingIndex(<<>>)
    <3>1. Len(<<>>) = 0 /\ 1..0 = {} OBVIOUS
    <3> QED BY <3>1 DEF FallingIndex
  <2> QED BY <2>1, <2>2, NothingToOrder
<1>2. \A q \in Seq(Pointers) : \A x \in Pointers : q \in G => Append(q, x) \in G
  <2> SUFFICES ASSUME NEW q \in PointerLists, NEW x \in Pointers, AreDistinct(q) => Holding(q),
                      AreDistinct(Append(q, x))
               PROVE  Holding(Append(q, x))
    BY AppendToPointers DEF PointerLists
  <2> DEFINE h == HighestIndexFirst(q, p)
             t == HighestIndexFirst(Append(q, x), p)
             K == {k \in DOMAIN h : EntryIndex(h[k]) > EntryIndex(x)}
             n == Cardinality(K)
  <2>1. t = AddSibling(p, h, x) BY CollectingSiblings DEF PointerLists
  <2>2. AreDistinct(q) /\ x \notin ToSet(q) BY BeginningIsOrdered
  <2>3. /\ h \in PointerLists /\ FallingIndex(h)
        /\ ToSet(h) = {r \in ToSet(q) : AreSiblings(p, r)}
    BY <2>2
  <2>4. ToSet(Append(q, x)) = ToSet(q) \cup {x} BY ElementsOfAppend DEF PointerLists
  <2> HIDE DEF h, t
  <2>5. CASE ~AreSiblings(p, x)
    <3>1. t = h BY <2>1, <2>5 DEF AddSibling
    <3>2. ToSet(t) = {r \in ToSet(Append(q, x)) : AreSiblings(p, r)}
      BY <2>3, <2>4, <2>5, <3>1
    <3> QED BY <2>3, <3>1, <3>2 DEF t
  <2>6. CASE AreSiblings(p, x)
    <3>1. t = InsertAt(h, n + 1, x) BY <2>1, <2>6 DEF AddSibling, InsertEntry
    <3>2. /\ h \in Seq(Pointers) /\ Len(h) \in Nat /\ DOMAIN h = 1..Len(h)
          /\ \A k \in 1..Len(h) : h[k] \in Pointers /\ h[k] \in ToSet(h)
      BY <2>3, ElementOfSeq DEF PointerLists, ToSet
    <3>3. \A k \in 1..Len(h) : /\ EntryIndex(h[k]) \in Nat /\ EntryIndex(x) \in Nat
                               /\ EntryIndex(h[k]) # EntryIndex(x)
      <4> SUFFICES ASSUME NEW k \in 1..Len(h)
                   PROVE  /\ EntryIndex(h[k]) \in Nat /\ EntryIndex(x) \in Nat
                          /\ EntryIndex(h[k]) # EntryIndex(x)
        OBVIOUS
      <4>1. AreSiblings(p, h[k]) /\ h[k] # x BY <2>2, <2>3, <3>2
      <4>2. AreSiblings(h[k], p) /\ h[k] \in Pointers BY <3>2, <4>1, SiblingsFacts
      <4>3. AreSiblings(h[k], x) BY <2>6, <4>2 DEF AreSiblings
      <4> QED BY <4>1, <4>2, <4>3, SiblingsFacts
    <3>4. \A i, j \in DOMAIN h : i < j /\ j \in K => i \in K
      <4> SUFFICES ASSUME NEW i \in 1..Len(h), NEW j \in 1..Len(h), i < j,
                          EntryIndex(h[j]) > EntryIndex(x)
                   PROVE  EntryIndex(h[i]) > EntryIndex(x)
        BY <3>2
      <4>1. EntryIndex(h[i]) > EntryIndex(h[j]) BY <2>3 DEF FallingIndex
      <4> QED BY <3>3, <4>1
    <3>5. n \in 0..Len(h) /\ K = 1..n /\ t \in Seq(Pointers) /\ PutInto(t, h, n, x)
      <4>1. K \in SUBSET DOMAIN h OBVIOUS
      <4> HIDE DEF K
      <4> QED BY <3>1, <3>2, <3>4, <4>1, InsertBehind
    <3> HIDE DEF n
    <3>6. \A k \in 1..n : EntryIndex(h[k]) > EntryIndex(x) BY <3>5
    <3>7. \A k \in (n + 1)..Len(h) : EntryIndex(x) > EntryIndex(h[k])
      <4> SUFFICES ASSUME NEW k \in (n + 1)..Len(h) PROVE EntryIndex(x) > EntryIndex(h[k])
        OBVIOUS
      <4>1. k \in 1..Len(h) /\ k \notin 1..n BY <3>2, <3>5
      <4>2. ~(EntryIndex(h[k]) > EntryIndex(x)) BY <3>2, <3>5, <4>1
      <4> QED BY <3>3, <4>1, <4>2
    <3> HIDE DEF K
    <3>8. ASSUME NEW i \in 1..Len(t), NEW j \in 1..Len(t), i < j
          PROVE  EntryIndex(t[i]) > EntryIndex(t[j])
      <4>1. CASE \E a, b \in 1..Len(h) : a < b /\ t[i] = h[a] /\ t[j] = h[b]
        BY <2>3, <4>1 DEF FallingIndex
      <4>2. CASE i \in 1..n /\ t[i] = h[i] /\ t[j] = x BY <3>6, <4>2
      <4>3. CASE \E b \in (n + 1)..Len(h) : t[i] = x /\ t[j] = h[b] BY <3>7, <4>3
      <4> QED BY <3>2, <3>5, <3>8, <4>1, <4>2, <4>3, PlacesAfterInsertion
    <3>9. ToSet(t) = {r \in ToSet(Append(q, x)) : AreSiblings(p, r)}
      <4>1. ToSet(t) = ToSet(h) \cup {x} BY <3>2, <3>5, ElementsAfterInsertion
      <4> QED BY <2>3, <2>4, <2>6, <4>1
    <3>10. t \in PointerLists /\ FallingIndex(t) BY <3>5, <3>8 DEF PointerLists, FallingIndex
    <3> QED BY <3>9, <3>10 DEF t
  <2> QED BY <2>5, <2>6
<1> HIDE DEF G
<1>3. Seq(Pointers) \subseteq G BY <1>1, <1>2, InductionOnSequences
<1> QED BY <1>3 DEF G, PointerLists

(* What one removal emits. *)
Group(ps, p) == {q \in ToSet(ps) : q = p \/ AreSiblings(p, q)}

LEMMA EmittedGroup ==
  ASSUME NEW ps \in PointerLists, AreDistinct(ps), NEW p \in ToSet(ps),
         NEW o \in PointerLists, p \notin ToSet(o)
  PROVE  \E h \in PointerLists :
           /\ EmitRemoval(ps, o, p) = o \o h
           /\ AreDistinct(h) /\ HigherFirst(h) /\ ToSet(h) = Group(ps, p)
<1>1. p \in Pointers BY ElementsAreMembers DEF PointerLists
<1>2. CASE IsArrayEntry(p)
  <2> DEFINE h == HighestIndexFirst(ps, p)
  <2>1. EmitRemoval(ps, o, p) = o \o h BY <1>2 DEF EmitRemoval
  <2>2. /\ h \in PointerLists /\ FallingIndex(h)
        /\ ToSet(h) = {q \in ToSet(ps) : AreSiblings(p, q)}
    BY <1>1, SiblingsByIndex
  <2> HIDE DEF h
  <2>3. AreSiblings(p, p) BY <1>2 DEF AreSiblings
  <2>4. ToSet(h) = Group(ps, p) BY <2>2, <2>3 DEF Group
  <2>5. HigherFirst(h) BY <2>2 DEF HigherFirst, FallingIndex
  <2>6. AreDistinct(h)
    <3> SUFFICES ASSUME NEW i \in 1..Len(h), NEW j \in 1..Len(h), i < j, h[i] = h[j]
                 PROVE  FALSE
      BY DEF AreDistinct
    <3>1. h \in Seq(Pointers) /\ DOMAIN h = 1..Len(h) BY <2>2 DEF PointerLists
    <3>2. h[i] \in Pointers /\ h[i] \in ToSet(h) BY <3>1, ElementOfSeq DEF ToSet
    <3>3. EntryIndex(h[i]) \in Nat BY <1>1, <2>2, <3>2, SiblingsFacts
    <3>4. EntryIndex(h[i]) > EntryIndex(h[j]) BY <2>2 DEF FallingIndex
    <3>5. EntryIndex(h[i]) = EntryIndex(h[j]) OBVIOUS
    <3> QED BY <3>3, <3>4, <3>5
  <2> QED BY <2>1, <2>2, <2>4, <2>5, <2>6
<1>3. CASE ~IsArrayEntry(p)
  <2> DEFINE h == <<p>>
  <2>1. EmitRemoval(ps, o, p) = Append(o, p) BY <1>3 DEF EmitRemoval
  <2>2. Append(o, p) = o \o h BY <1>1 DEF PointerLists
  <2>3. h \in PointerLists /\ Len(h) = 1 /\ h[1] = p /\ DOMAIN h = 1..1
    BY <1>1 DEF PointerLists
  <2> HIDE DEF h
  <2>4. \A i, j \in 1..Len(h) : ~(i < j) BY <2>3
  <2>5. AreDistinct(h) /\ HigherFirst(h) BY <2>4 DEF AreDistinct, HigherFirst
  <2>6. ToSet(h) = Group(ps, p)
    <3>1. ToSet(h) = {p}
      <4>1. 1..1 = {1} OBVIOUS
      <4> QED BY <2>3, <4>1 DEF ToSet
    <3>2. \A q : ~AreSiblings(p, q) BY <1>3 DEF AreSiblings
    <3> QED BY <3>1, <3>2 DEF Group
  <2> QED BY <2>1, <2>2, <2>3, <2>5, <2>6
<1> QED BY <1>2, <1>3

LEMMA JoinedLists ==
  ASSUME NEW o \in PointerLists, AreDistinct(o), HigherFirst(o),
         NEW h \in PointerLists, AreDistinct(h), HigherFirst(h),
         \A q \in ToSet(o), r \in ToSet(h) : q # r /\ ~AreSiblings(q, r)
  PROVE  AreDistinct(o \o h) /\ HigherFirst(o \o h)
<1> DEFINE t == o \o h
<1>1. /\ o \in Seq(Pointers) /\ h \in Seq(Pointers)
      /\ DOMAIN o = 1..Len(o) /\ DOMAIN h = 1..Len(h)
  BY DEF PointerLists
<1>2. t = o \o h OBVIOUS
<1> HIDE DEF t
<1>3. ASSUME NEW i \in 1..Len(t), NEW j \in 1..Len(t), i < j
      PROVE  /\ t[i] # t[j]
             /\ AreSiblings(t[i], t[j]) => EntryIndex(t[i]) > EntryIndex(t[j])
  <2>1. CASE \E a, b \in 1..Len(o) : a < b /\ t[i] = o[a] /\ t[j] = o[b]
    BY <2>1 DEF AreDistinct, HigherFirst
  <2>2. CASE \E a, b \in 1..Len(h) : a < b /\ t[i] = h[a] /\ t[j] = h[b]
    BY <2>2 DEF AreDistinct, HigherFirst
  <2>3. CASE \E a \in 1..Len(o), b \in 1..Len(h) : t[i] = o[a] /\ t[j] = h[b]
    <3>1. t[i] \in ToSet(o) /\ t[j] \in ToSet(h) BY <1>1, <2>3 DEF ToSet
    <3> QED BY <3>1
  <2>4. FromBoth(t, o, h, i, j) BY <1>1, <1>2, <1>3, PlacesInConcat
  <2> QED BY <2>1, <2>2, <2>3, <2>4 DEF FromBoth
<1>4. AreDistinct(t) /\ HigherFirst(t) BY <1>3 DEF AreDistinct, HigherFirst
<1> QED BY <1>4 DEF t

LEMMA GroupedPaths ==
  ASSUME NEW ps \in PointerLists, AreDistinct(ps)
  PROVE  LET g == Grouped(ps) IN
         /\ g \in PointerLists /\ AreDistinct(g) /\ HigherFirst(g)
         /\ ToSet(g) = ToSet(ps)
<1> DEFINE Holding(s) ==
             LET o == Emitted(ps, s) IN
             /\ o \in PointerLists /\ AreDistinct(o) /\ HigherFirst(o)
             /\ ToSet(s) \subseteq ToSet(o) /\ ToSet(o) \subseteq ToSet(ps)
             /\ \A p \in ToSet(o) : Group(ps, p) \subseteq ToSet(o)
           G == {s \in PointerLists : ToSet(s) \subseteq ToSet(ps) => Holding(s)}
<1>1. <<>> \in G
  <2>1. Emitted(ps, <<>>) = <<>> BY NothingToOrder, Emitting DEF PointerLists
  <2> QED BY <2>1, NothingToOrder DEF InRemovalOrder
<1>2. \A s \in Seq(Pointers) : \A p \in Pointers : s \in G => Append(s, p) \in G
  <2> SUFFICES ASSUME NEW s \in PointerLists, NEW p \in Pointers,
                      ToSet(s) \subseteq ToSet(ps) => Holding(s),
                      ToSet(Append(s, p)) \subseteq ToSet(ps)
               PROVE  Holding(Append(s, p))
    BY AppendToPointers DEF PointerLists
  <2> DEFINE o == Emitted(ps, s)
             t == Emitted(ps, Append(s, p))
  <2>1. t = EmitRemoval(ps, o, p) BY Emitting DEF PointerLists
  <2>2. ToSet(Append(s, p)) = ToSet(s) \cup {p} BY ElementsOfAppend DEF PointerLists
  <2>3. p \in ToSet(ps) BY <2>2
  <2>4. /\ o \in PointerLists /\ AreDistinct(o) /\ HigherFirst(o)
        /\ ToSet(s) \subseteq ToSet(o) /\ ToSet(o) \subseteq ToSet(ps)
        /\ \A q \in ToSet(o) : Group(ps, q) \subseteq ToSet(o)
    BY <2>2
  <2> HIDE DEF o, t
  <2>5. CASE p \in ToSet(o)
    <3>1. t = o BY <2>1, <2>5 DEF EmitRemoval
    <3>2. ToSet(Append(s, p)) \subseteq ToSet(t) BY <2>2, <2>4, <2>5, <3>1
    <3> QED BY <2>4, <3>1, <3>2 DEF t
  <2>6. CASE p \notin ToSet(o)
    <3>1. PICK h \in PointerLists :
            /\ t = o \o h
            /\ AreDistinct(h) /\ HigherFirst(h) /\ ToSet(h) = Group(ps, p)
      BY <2>1, <2>3, <2>4, <2>6, EmittedGroup
    <3>2. ToSet(o) \subseteq Pointers /\ ToSet(h) \subseteq Pointers
      BY <2>4, ElementsAreMembers DEF PointerLists
    <3>3. ToSet(t) = ToSet(o) \cup ToSet(h)
      BY <2>4, <3>1, ElementsOfConcat DEF PointerLists
    <3>4. \A q \in ToSet(o), r \in ToSet(h) : q # r /\ ~AreSiblings(q, r)
      <4> SUFFICES ASSUME NEW q \in ToSet(o), NEW r \in ToSet(h), q = r \/ AreSiblings(q, r)
                   PROVE  FALSE
        OBVIOUS
      <4>1. r = p \/ AreSiblings(p, r) BY <3>1 DEF Group
      <4>2. q = p \/ AreSiblings(q, p) BY <4>1 DEF AreSiblings
      <4>3. p \in Group(ps, q) BY <2>3, <4>2 DEF Group
      <4> QED BY <2>4, <2>6, <4>3
    <3>5. \A q \in ToSet(t) : Group(ps, q) \subseteq ToSet(t)
      <4> SUFFICES ASSUME NEW q \in ToSet(h), NEW r \in Group(ps, q) PROVE r \in ToSet(t)
        BY <2>4, <3>3
      <4>1. (q = p \/ AreSiblings(p, q)) /\ (r = q \/ AreSiblings(q, r)) /\ r \in ToSet(ps)
        BY <3>1 DEF Group
      <4>2. r = p \/ AreSiblings(p, r) BY <4>1 DEF AreSiblings
      <4>3. r \in Group(ps, p) BY <4>1, <4>2 DEF Group
      <4> QED BY <3>1, <3>3, <4>3
    <3>6. t \in PointerLists BY <2>4, <3>1 DEF PointerLists
    <3>8. AreDistinct(t) /\ HigherFirst(t) BY <2>4, <3>1, <3>4, JoinedLists
    <3>9. p \in ToSet(h) BY <2>3, <3>1 DEF Group
    <3>10. ToSet(Append(s, p)) \subseteq ToSet(t) BY <2>2, <2>4, <3>3, <3>9
    <3>11. ToSet(t) \subseteq ToSet(ps) BY <2>4, <3>1, <3>3 DEF Group
    <3> QED BY <3>5, <3>6, <3>8, <3>10, <3>11 DEF t
  <2> QED BY <2>5, <2>6
<1> HIDE DEF G
<1>3. Seq(Pointers) \subseteq G BY <1>1, <1>2, InductionOnSequences
<1>4. Holding(ps) BY <1>3 DEF G, PointerLists
<1>5. Grouped(ps) = Emitted(ps, ps) BY DEF Grouped, Emitted
<1> QED BY <1>4, <1>5

LEMMA PathsByDepth ==
  ASSUME NEW s \in PointerLists, AreDistinct(s), HigherFirst(s)
  PROVE  LET d == DeepestFirst(s) IN
         d \in PointerLists /\ InRemovalOrder(d) /\ ToSet(d) = ToSet(s)
<1> DEFINE Holding(q) ==
             LET d == DeepestFirst(q) IN
             d \in PointerLists /\ InRemovalOrder(d) /\ ToSet(d) = ToSet(q)
           G == {q \in PointerLists : AreDistinct(q) /\ HigherFirst(q) => Holding(q)}
<1>1. <<>> \in G
  <2>1. DeepestFirst(<<>>) = <<>> BY NothingToOrder, SortingByDepth DEF PointerLists
  <2> QED BY <2>1, NothingToOrder
<1>2. \A q \in Seq(Pointers) : \A x \in Pointers : q \in G => Append(q, x) \in G
  <2> SUFFICES ASSUME NEW q \in PointerLists, NEW x \in Pointers,
                      AreDistinct(q) /\ HigherFirst(q) => Holding(q),
                      AreDistinct(Append(q, x)), HigherFirst(Append(q, x))
               PROVE  Holding(Append(q, x))
    BY AppendToPointers DEF PointerLists
  <2> DEFINE d == DeepestFirst(q)
             t == DeepestFirst(Append(q, x))
             K == {k \in DOMAIN d : Len(d[k]) >= Len(x)}
             n == Cardinality(K)
  <2>1. t = InsertAt(d, n + 1, x)
    <3>1. t = InsertByDepth(d, x) BY SortingByDepth DEF PointerLists
    <3> QED BY <3>1 DEF InsertByDepth
  <2>2. /\ AreDistinct(q) /\ HigherFirst(q) /\ x \notin ToSet(q)
        /\ \A r \in ToSet(q) : AreSiblings(r, x) => EntryIndex(r) > EntryIndex(x)
    BY BeginningIsOrdered
  <2>3. d \in PointerLists /\ InRemovalOrder(d) /\ ToSet(d) = ToSet(q) BY <2>2
  <2>4. ToSet(Append(q, x)) = ToSet(q) \cup {x} BY ElementsOfAppend DEF PointerLists
  <2> HIDE DEF d, t
  <2>5. /\ d \in Seq(Pointers) /\ Len(d) \in Nat /\ DOMAIN d = 1..Len(d)
        /\ \A k \in 1..Len(d) : d[k] \in Pointers /\ d[k] \in ToSet(q)
    <3>1. d \in Seq(Pointers) /\ Len(d) \in Nat /\ DOMAIN d = 1..Len(d)
      BY <2>3 DEF PointerLists
    <3> QED BY <2>3, <3>1, ElementOfSeq DEF ToSet
  <2>6. Len(x) \in Nat /\ \A k \in 1..Len(d) : Len(d[k]) \in Nat BY <2>5, PathParts
  <2>7. \A i, j \in DOMAIN d : i < j /\ j \in K => i \in K
    <3> SUFFICES ASSUME NEW i \in 1..Len(d), NEW j \in 1..Len(d), i < j,
                        Len(d[j]) >= Len(x)
                 PROVE  Len(d[i]) >= Len(x)
      BY <2>5
    <3>1. Len(d[i]) >= Len(d[j]) BY <2>3 DEF InRemovalOrder, DeeperFirst
    <3> QED BY <2>6, <3>1
  <2>8. n \in 0..Len(d) /\ K = 1..n /\ t \in Seq(Pointers) /\ PutInto(t, d, n, x)
    <3>1. K \in SUBSET DOMAIN d OBVIOUS
    <3> HIDE DEF K
    <3> QED BY <2>1, <2>5, <2>7, <3>1, InsertBehind
  <2> HIDE DEF n
  <2>9. \A k \in 1..n : Len(d[k]) >= Len(x) BY <2>8
  <2>10. \A k \in (n + 1)..Len(d) : Len(x) > Len(d[k])
    <3> SUFFICES ASSUME NEW k \in (n + 1)..Len(d) PROVE Len(x) > Len(d[k]) OBVIOUS
    <3>1. k \in 1..Len(d) /\ k \notin 1..n BY <2>5, <2>8
    <3>2. ~(Len(d[k]) >= Len(x)) BY <2>5, <2>8, <3>1
    <3> QED BY <2>6, <3>1, <3>2
  <2> HIDE DEF K
  <2>11. ASSUME NEW i \in 1..Len(t), NEW j \in 1..Len(t), i < j
         PROVE  /\ t[i] # t[j]
                /\ AreSiblings(t[i], t[j]) => EntryIndex(t[i]) > EntryIndex(t[j])
                /\ Len(t[i]) >= Len(t[j])
    <3>1. CASE \E a, b \in 1..Len(d) : a < b /\ t[i] = d[a] /\ t[j] = d[b]
      BY <2>3, <3>1 DEF InRemovalOrder, AreDistinct, HigherFirst, DeeperFirst
    <3>2. CASE i \in 1..n /\ i \in 1..Len(d) /\ t[i] = d[i] /\ t[j] = x
      <4>1. t[i] \in ToSet(q) BY <2>5, <3>2
      <4> QED BY <2>2, <2>9, <3>2, <4>1
    <3>3. CASE \E b \in (n + 1)..Len(d) : b \in 1..Len(d) /\ t[i] = x /\ t[j] = d[b]
      <4>1. PICK b \in (n + 1)..Len(d) : b \in 1..Len(d) /\ t[i] = x /\ t[j] = d[b] BY <3>3
      <4>2. d[b] \in Pointers /\ d[b] # x /\ Len(x) > Len(d[b]) /\ Len(d[b]) \in Nat
        BY <2>2, <2>5, <2>6, <2>10, <4>1
      <4>3. ~AreSiblings(x, d[b])
        <5>1. AreSiblings(x, d[b]) => Len(x) = Len(d[b]) BY <4>2, SiblingsFacts
        <5> QED BY <2>6, <4>2, <5>1
      <4>4. Len(x) >= Len(d[b]) BY <2>6, <4>2
      <4> QED BY <4>1, <4>2, <4>3, <4>4
    <3> QED BY <2>5, <2>8, <2>11, <3>1, <3>2, <3>3, PlacesAfterInsertion
  <2>12. InRemovalOrder(t)
    BY <2>11 DEF InRemovalOrder, AreDistinct, HigherFirst, DeeperFirst
  <2>13. ToSet(t) = ToSet(Append(q, x))
    <3>1. ToSet(t) = ToSet(d) \cup {x} BY <2>5, <2>8, ElementsAfterInsertion
    <3> QED BY <2>3, <2>4, <3>1
  <2>14. t \in PointerLists BY <2>8 DEF PointerLists
  <2> QED BY <2>12, <2>13, <2>14 DEF t
<1> HIDE DEF G
<1>3. Seq(Pointers) \subseteq G BY <1>1, <1>2, InductionOnSequences
<1> QED BY <1>3 DEF G, PointerLists

LEMMA RemovalsAreOrdered ==
  ASSUME NEW s \in PointerLists
  PROVE  LET o == OrderedPointerRemovals(s) IN
         o \in PointerLists /\ InRemovalOrder(o) /\ ToSet(o) = ToSet(s)
<1> DEFINE d == Deduplicated(s)
           g == Grouped(d)
<1>1. d \in PointerLists /\ AreDistinct(d) /\ ToSet(d) = ToSet(s) BY DeduplicatedPaths
<1>2. OrderedPointerRemovals(s) = DeepestFirst(g) BY DEF OrderedPointerRemovals
<1> HIDE DEF d
<1>3. g \in PointerLists /\ AreDistinct(g) /\ HigherFirst(g) /\ ToSet(g) = ToSet(d)
  BY <1>1, GroupedPaths
<1> HIDE DEF g
<1> QED BY <1>1, <1>2, <1>3, PathsByDepth

-----------------------------------------------------------------------------
(* Where the nodes of a document stand while paths are removed from it.    *)

Received(doc) == IsDocument(doc) /\ ArraysHaveNoGaps(doc)

LEMMA PathBeginning ==
  ASSUME NEW q \in Paths, NEW m \in 0..Len(q)
  PROVE  /\ SubSeq(q, 1, m) \in Paths /\ Len(SubSeq(q, 1, m)) = m
         /\ \A k \in 1..m : SubSeq(q, 1, m)[k] = q[k]
         /\ \A n \in 0..m : SubSeq(SubSeq(q, 1, m), 1, n) = SubSeq(q, 1, n)
<1> DEFINE t == SubSeq(q, 1, m)
<1>1. q \in Seq(STRING) BY DEF Paths
<1>2. t \in Seq(STRING) /\ Len(t) = m /\ \A k \in 1..m : t[k] = q[k]
  BY <1>1, InitialPart
<1> HIDE DEF t
<1>3. ASSUME NEW n \in 0..m PROVE SubSeq(t, 1, n) = SubSeq(q, 1, n)
  <2>1. /\ SubSeq(t, 1, n) \in Seq(STRING) /\ Len(SubSeq(t, 1, n)) = n
        /\ \A k \in 1..n : SubSeq(t, 1, n)[k] = t[k]
    BY <1>2, InitialPart
  <2>2. n \in 0..Len(q) BY <1>1
  <2>3. /\ SubSeq(q, 1, n) \in Seq(STRING) /\ Len(SubSeq(q, 1, n)) = n
        /\ \A k \in 1..n : SubSeq(q, 1, n)[k] = q[k]
    BY <1>1, <2>2, InitialPart
  <2>4. \A k \in 1..n : SubSeq(t, 1, n)[k] = SubSeq(q, 1, n)[k] BY <1>2, <2>1, <2>3
  <2> QED BY <2>1, <2>3, <2>4, SeqEqual
<1> QED BY <1>2, <1>3 DEF t, Paths

LEMMA SamePath ==
  ASSUME NEW q \in Paths, NEW r \in Paths, Len(q) = Len(r),
         \A k \in 1..Len(q) : q[k] = r[k]
  PROVE  q = r
  BY SeqEqual DEF Paths

LEMMA Entries ==
  ASSUME NEW q \in Paths, NEW k \in 1..Len(q), NEW i \in 1..Len(IndexTokens)
  PROVE  /\ Entry(q, k, i) \in Pointers /\ Len(Entry(q, k, i)) = k
         /\ Entry(q, k, i)[k] = IndexTokens[i]
         /\ \A j \in 1..(k - 1) : Entry(q, k, i)[j] = q[j]
         /\ Front(Entry(q, k, i)) = SubSeq(q, 1, k - 1)
         /\ Last(Entry(q, k, i)) = IndexTokens[i]
         /\ q[k] = IndexTokens[i] => Entry(q, k, i) = SubSeq(q, 1, k)
<1> DEFINE f == SubSeq(q, 1, k - 1)
           e == Entry(q, k, i)
<1>1. Len(q) \in Nat /\ k - 1 \in 0..Len(q) /\ k \in 0..Len(q) BY DEF Paths
<1>2. f \in Seq(STRING) /\ Len(f) = k - 1 /\ \A j \in 1..(k - 1) : f[j] = q[j]
  BY <1>1, PathBeginning DEF Paths
<1>3. IndexTokens[i] \in STRING /\ e = Append(f, IndexTokens[i])
  BY Indices DEF Entry
<1> HIDE DEF f, e
<1>4. e \in Seq(STRING) /\ e # <<>> /\ Last(e) = IndexTokens[i] /\ Front(e) = f
  BY <1>2, <1>3, FrontLastOfAppend
<1>5. Len(e) = k /\ e[k] = IndexTokens[i] /\ \A j \in 1..(k - 1) : e[j] = f[j]
  BY <1>2, <1>3
<1>6. ASSUME q[k] = IndexTokens[i] PROVE e = SubSeq(q, 1, k)
  <2>1. /\ SubSeq(q, 1, k) \in Paths /\ Len(SubSeq(q, 1, k)) = k
        /\ \A j \in 1..k : SubSeq(q, 1, k)[j] = q[j]
    BY <1>1, PathBeginning
  <2>2. \A j \in 1..k : e[j] = q[j] BY <1>2, <1>5, <1>6
  <2>3. e \in Paths BY <1>4 DEF Paths
  <2> QED BY <1>5, <2>1, <2>2, <2>3, SamePath
<1>7. e \in Pointers BY <1>4 DEF Pointers, Paths
<1> QED BY <1>2, <1>4, <1>5, <1>6, <1>7 DEF e, f

LEMMA UnderAgrees ==
  ASSUME NEW p \in Paths, NEW q \in Paths
  PROVE  /\ Under(p, q) <=> Len(p) <= Len(q) /\ \A k \in 1..Len(p) : p[k] = q[k]
         /\ Under(p, q) <=> Len(p) <= Len(q) /\ SubSeq(q, 1, Len(p)) = p
         /\ Len(p) \in Nat /\ Len(q) \in Nat
<1>1. p \in Seq(STRING) /\ q \in Seq(STRING) BY DEF Paths
<1>2. SubSeq(p, 1, Len(p)) = p BY <1>1, SubSeqFull
<1>3. Under(p, q) <=> Len(p) <= Len(q) /\ \A k \in 1..Len(p) : p[k] = q[k]
  BY <1>1, PrefixAgrees DEF Under
<1>4. Under(p, q) <=> Len(p) <= Len(q) /\ SubSeq(q, 1, Len(p)) = p
  BY <1>2 DEF Under, IsPrefix
<1> QED BY <1>1, <1>3, <1>4

LEMMA GoneFrom ==
  ASSUME NEW R \in PointerLists
  PROVE  /\ ToSet(R) \subseteq Pointers
         /\ \A z \in Paths, q \in Paths : Under(z, q) /\ Gone(R, z) => Gone(R, q)
         /\ \A p \in Pointers, q \in Paths : Gone(Append(R, p), q) <=> Gone(R, q) \/ Under(p, q)
<1>1. ToSet(R) \subseteq Pointers BY ElementsAreMembers DEF PointerLists
<1>2. ASSUME NEW z \in Paths, NEW q \in Paths, Under(z, q), Gone(R, z) PROVE Gone(R, q)
  <2>1. PICK r \in ToSet(R) : Under(r, z) BY <1>2 DEF Gone
  <2>2. r \in Seq(STRING) /\ z \in Seq(STRING) /\ q \in Seq(STRING)
    BY <1>1 DEF Pointers, Paths
  <2>3. Under(r, q) BY <1>2, <2>1, <2>2, PrefixOfPrefix DEF Under
  <2> QED BY <2>3 DEF Gone
<1>3. ASSUME NEW p \in Pointers PROVE ToSet(Append(R, p)) = ToSet(R) \cup {p}
  BY ElementsOfAppend DEF PointerLists
<1> QED BY <1>1, <1>2, <1>3 DEF Gone

LEMMA NodePaths ==
  ASSUME NEW doc, IsDocument(doc), NEW q \in DOMAIN doc
  PROVE  /\ q \in Paths /\ Len(q) \in Nat /\ DOMAIN q = 1..Len(q)
         /\ \A m \in 0..Len(q) : SubSeq(q, 1, m) \in DOMAIN doc
<1>1. q \in Seq(STRING) /\ Len(q) \in Nat BY DEF IsDocument
<1>2. \A m \in 0..(Len(q) - 1) : SubSeq(q, 1, m) \in DOMAIN doc BY DEF IsDocument, Holds
<1>3. SubSeq(q, 1, Len(q)) = q BY <1>1, SubSeqFull
<1>4. ASSUME NEW m \in 0..Len(q) PROVE SubSeq(q, 1, m) \in DOMAIN doc
  <2>1. CASE m = Len(q) BY <1>3, <2>1
  <2>2. CASE m # Len(q)
    <3>1. m \in 0..(Len(q) - 1) BY <1>1, <2>2
    <3> QED BY <1>2, <3>1
  <2> QED BY <2>1, <2>2
<1> QED BY <1>1, <1>4 DEF Paths

LEMMA ArrayEntries ==
  ASSUME NEW doc, Received(doc), NEW q \in DOMAIN doc, NEW k \in 1..Len(q),
         HasAnArrayAt(doc, q, k)
  PROVE  /\ IsIndex(q[k]) /\ IndexOf(q[k]) \in 1..Len(IndexTokens)
         /\ IndexTokens[IndexOf(q[k])] = q[k] /\ Len(IndexTokens) \in Nat
         /\ Entry(q, k, IndexOf(q[k])) = SubSeq(q, 1, k)
         /\ \A i \in 1..IndexOf(q[k]) : Entry(q, k, i) \in DOMAIN doc
<1>1. /\ q \in Paths /\ Len(q) \in Nat /\ DOMAIN q = 1..Len(q)
      /\ SubSeq(q, 1, k) \in DOMAIN doc
  BY NodePaths DEF Received
<1>2. /\ IsIndex(q[k])
      /\ \A i \in 1..(IndexOf(q[k]) - 1) : Entry(q, k, i) \in DOMAIN doc
  BY <1>1 DEF Received, ArraysHaveNoGaps, Holds
<1>3. /\ IndexOf(q[k]) \in 1..Len(IndexTokens) /\ IndexTokens[IndexOf(q[k])] = q[k]
      /\ Len(IndexTokens) \in Nat
  BY <1>2, Indices
<1>4. Entry(q, k, IndexOf(q[k])) = SubSeq(q, 1, k) BY <1>1, <1>3, Entries
<1>5. ASSUME NEW i \in 1..IndexOf(q[k]) PROVE Entry(q, k, i) \in DOMAIN doc
  <2>1. i = IndexOf(q[k]) \/ i \in 1..(IndexOf(q[k]) - 1) BY <1>3
  <2> QED BY <1>1, <1>2, <1>4, <2>1
<1> QED BY <1>2, <1>3, <1>4, <1>5

EntriesBefore(R, q, k) == {i \in 1..(IndexOf(q[k]) - 1) : ~Gone(R, Entry(q, k, i))}
Ahead(R, q, k) == Cardinality(EntriesBefore(R, q, k))

LEMMA EntriesCount ==
  ASSUME NEW doc, Received(doc), NEW q \in DOMAIN doc, NEW k \in 1..Len(q),
         HasAnArrayAt(doc, q, k), NEW R
  PROVE  /\ IsFiniteSet(EntriesBefore(R, q, k))
         /\ EntriesBefore(R, q, k) \in SUBSET (1..(IndexOf(q[k]) - 1))
         /\ Ahead(R, q, k) \in 0..(IndexOf(q[k]) - 1)
         /\ Ahead(R, q, k) + 1 \in 1..Len(IndexTokens)
         /\ EntriesBefore(R, q, k) = 1..(IndexOf(q[k]) - 1) =>
              Ahead(R, q, k) = IndexOf(q[k]) - 1
<1> DEFINE n == IndexOf(q[k]) - 1
           E == EntriesBefore(R, q, k)
<1>1. n \in Nat /\ n + 1 \in 1..Len(IndexTokens) /\ Len(IndexTokens) \in Nat
  BY ArrayEntries
<1>2. E \in SUBSET (1..n) BY DEF EntriesBefore
<1> HIDE DEF n, E
<1>3. IsFiniteSet(1..n) /\ Cardinality(1..n) = n
  <2>1. 1 \in Int /\ n \in Int BY <1>1
  <2>2. IsFiniteSet(1..n) /\ Cardinality(1..n) = IF 1 > n THEN 0 ELSE n - 1 + 1
    BY <2>1, FS_Interval
  <2> QED BY <1>1, <2>2
<1>4. IsFiniteSet(E) /\ Cardinality(E) <= n BY <1>2, <1>3, FS_Subset
<1>5. Cardinality(E) \in Nat BY <1>4, FS_CardinalityType
<1>6. Cardinality(E) \in 0..n /\ Cardinality(E) + 1 \in 1..Len(IndexTokens)
  BY <1>1, <1>4, <1>5
<1> QED BY <1>2, <1>3, <1>4, <1>6 DEF Ahead, E, n

LEMMA Places ==
  ASSUME NEW doc, Received(doc), NEW q \in DOMAIN doc, NEW R
  PROVE  LET z == SurvivingPlace(doc, R, q) IN
         /\ z \in Paths /\ Len(z) = Len(q)
         /\ \A k \in 1..Len(q) :
              /\ HasAnArrayAt(doc, q, k) => z[k] = IndexTokens[Ahead(R, q, k) + 1]
              /\ ~HasAnArrayAt(doc, q, k) => z[k] = q[k]
<1> DEFINE z == SurvivingPlace(doc, R, q)
           at(k) == IF HasAnArrayAt(doc, q, k) THEN IndexTokens[Ahead(R, q, k) + 1] ELSE q[k]
<1>1. q \in Seq(STRING) /\ Len(q) \in Nat /\ DOMAIN q = 1..Len(q)
  BY NodePaths DEF Received, Paths
<1>2. z = [k \in 1..Len(q) |-> at(k)]
  BY <1>1 DEF SurvivingPlace, Ahead, EntriesBefore
<1>3. \A k \in 1..Len(q) : at(k) \in STRING
  BY <1>1, EntriesCount, Indices, ElementOfSeq
<1> HIDE DEF z
<1>4. \A k \in 1..Len(q) : z[k] = at(k) BY <1>2
<1> HIDE DEF at
<1>5. z \in [1..Len(q) -> STRING] BY <1>2, <1>3
<1>6. z \in Seq(STRING) /\ Len(z) = Len(q) BY <1>1, <1>5
<1> QED BY <1>4, <1>6 DEF z, at, Paths

LEMMA PlaceOfBeginning ==
  ASSUME NEW doc, Received(doc), NEW q \in DOMAIN doc, NEW R, NEW m \in 0..Len(q)
  PROVE  SurvivingPlace(doc, R, SubSeq(q, 1, m)) = SubSeq(SurvivingPlace(doc, R, q), 1, m)
<1> DEFINE t == SubSeq(q, 1, m)
           z == SurvivingPlace(doc, R, q)
           y == SurvivingPlace(doc, R, t)
<1>1. q \in Paths /\ Len(q) \in Nat /\ t \in DOMAIN doc BY NodePaths DEF Received
<1>2. /\ t \in Paths /\ Len(t) = m /\ \A k \in 1..m : t[k] = q[k]
      /\ \A n \in 0..m : SubSeq(t, 1, n) = SubSeq(q, 1, n)
  BY <1>1, PathBeginning
<1> HIDE DEF t
<1>3. /\ z \in Paths /\ Len(z) = Len(q)
      /\ \A k \in 1..Len(q) :
           /\ HasAnArrayAt(doc, q, k) => z[k] = IndexTokens[Ahead(R, q, k) + 1]
           /\ ~HasAnArrayAt(doc, q, k) => z[k] = q[k]
  BY Places
<1>4. /\ y \in Paths /\ Len(y) = m
      /\ \A k \in 1..m :
           /\ HasAnArrayAt(doc, t, k) => y[k] = IndexTokens[Ahead(R, t, k) + 1]
           /\ ~HasAnArrayAt(doc, t, k) => y[k] = t[k]
  BY <1>1, <1>2, Places
<1> HIDE DEF z, y
<1>5. ASSUME NEW k \in 1..m PROVE y[k] = z[k]
  <2>1. k \in 1..Len(q) /\ k - 1 \in 0..m BY <1>1
  <2>2. SubSeq(t, 1, k - 1) = SubSeq(q, 1, k - 1) /\ t[k] = q[k] BY <1>2, <2>1
  <2>3. HasAnArrayAt(doc, t, k) <=> HasAnArrayAt(doc, q, k) BY <2>2 DEF HasAnArrayAt
  <2>4. Ahead(R, t, k) = Ahead(R, q, k) BY <2>2 DEF Ahead, EntriesBefore, Entry
  <2> QED BY <1>3, <1>4, <2>1, <2>2, <2>3, <2>4
<1>6. /\ SubSeq(z, 1, m) \in Paths /\ Len(SubSeq(z, 1, m)) = m
      /\ \A k \in 1..m : SubSeq(z, 1, m)[k] = z[k]
  BY <1>3, PathBeginning
<1>7. y = SubSeq(z, 1, m) BY <1>4, <1>5, <1>6, SamePath
<1> QED BY <1>7 DEF y, z, t

(* Surviving entries of one array keep their order, so no two surviving    *)
(* nodes come to stand in one place.                                       *)
LEMMA PlacesKeepOrder ==
  ASSUME NEW doc, Received(doc), NEW R \in PointerLists,
         NEW q \in DOMAIN doc, NEW r \in DOMAIN doc,
         NEW k \in 1..Len(q), k \in 1..Len(r),
         SubSeq(q, 1, k - 1) = SubSeq(r, 1, k - 1), HasAnArrayAt(doc, q, k),
         IndexOf(q[k]) < IndexOf(r[k]), ~Gone(R, q)
  PROVE  Ahead(R, q, k) < Ahead(R, r, k)
<1> DEFINE E == EntriesBefore(R, q, k)
           F == EntriesBefore(R, r, k)
           i == IndexOf(q[k])
<1>1. HasAnArrayAt(doc, r, k) BY DEF HasAnArrayAt
<1>2. /\ i \in Nat /\ i >= 1 /\ IndexOf(r[k]) \in Nat
      /\ Entry(q, k, i) = SubSeq(q, 1, k)
  <2>1. /\ i \in 1..Len(IndexTokens) /\ Len(IndexTokens) \in Nat
        /\ Entry(q, k, i) = SubSeq(q, 1, k)
    BY ArrayEntries
  <2>2. IndexOf(r[k]) \in 1..Len(IndexTokens) BY <1>1, ArrayEntries
  <2> QED BY <2>1, <2>2
<1>3. \A j : Entry(q, k, j) = Entry(r, k, j) BY DEF Entry
<1>4. i \notin E /\ E \subseteq F
  <2>1. \A j \in 1..(i - 1) : j \in 1..(IndexOf(r[k]) - 1) BY <1>2
  <2>2. i \notin 1..(i - 1) BY <1>2
  <2> HIDE DEF i
  <2> QED BY <1>3, <2>1, <2>2 DEF EntriesBefore, i
<1>5. i \in F
  <2>1. i \in 1..(IndexOf(r[k]) - 1) BY <1>2
  <2>2. ~Gone(R, Entry(q, k, i))
    <3>1. q \in Paths /\ Len(q) \in Nat /\ k \in 0..Len(q) BY NodePaths DEF Received
    <3>2. SubSeq(q, 1, k) \in Paths /\ Len(SubSeq(q, 1, k)) = k BY <3>1, PathBeginning
    <3>3. Under(SubSeq(q, 1, k), q)
      <4>1. Len(SubSeq(q, 1, k)) <= Len(q) BY <3>1, <3>2
      <4> QED BY <3>1, <3>2, <4>1, UnderAgrees
    <3> QED BY <1>2, <3>1, <3>2, <3>3, GoneFrom
  <2> QED BY <1>3, <2>1, <2>2 DEF EntriesBefore
<1>6. IsFiniteSet(E) /\ IsFiniteSet(F) BY <1>1, EntriesCount
<1> HIDE DEF E, F, i
<1>7. Cardinality(E \cup {i}) = Cardinality(E) + 1 BY <1>4, <1>6, FS_AddElement
<1>8. E \cup {i} \in SUBSET F BY <1>4, <1>5
<1>9. Cardinality(E \cup {i}) <= Cardinality(F) BY <1>6, <1>8, FS_Subset
<1>10. Cardinality(E) \in Nat /\ Cardinality(F) \in Nat BY <1>6, FS_CardinalityType
<1>11. Cardinality(E) < Cardinality(F) BY <1>7, <1>9, <1>10
<1> QED BY <1>11 DEF Ahead, E, F

LEMMA PlacesDiffer ==
  ASSUME NEW doc, Received(doc), NEW R \in PointerLists,
         NEW q \in DOMAIN doc, NEW r \in DOMAIN doc, ~Gone(R, q), ~Gone(R, r),
         SurvivingPlace(doc, R, q) = SurvivingPlace(doc, R, r)
  PROVE  q = r
<1> DEFINE y == SurvivingPlace(doc, R, q)
           z == SurvivingPlace(doc, R, r)
<1>1. q \in Paths /\ r \in Paths /\ Len(q) \in Nat /\ Len(r) \in Nat
  BY NodePaths DEF Received
<1>2. /\ y \in Paths /\ Len(y) = Len(q)
      /\ \A k \in 1..Len(q) :
           /\ HasAnArrayAt(doc, q, k) => y[k] = IndexTokens[Ahead(R, q, k) + 1]
           /\ ~HasAnArrayAt(doc, q, k) => y[k] = q[k]
  BY Places
<1>3. /\ z \in Paths /\ Len(z) = Len(r)
      /\ \A k \in 1..Len(r) :
           /\ HasAnArrayAt(doc, r, k) => z[k] = IndexTokens[Ahead(R, r, k) + 1]
           /\ ~HasAnArrayAt(doc, r, k) => z[k] = r[k]
  BY Places
<1>4. y = z OBVIOUS
<1> HIDE DEF y, z
<1>5. Len(q) = Len(r) BY <1>2, <1>3, <1>4
<1> DEFINE D == {k \in 1..Len(q) : q[k] # r[k]}
<1>6. SUFFICES ASSUME D # {} PROVE FALSE BY <1>1, <1>5, SamePath
<1>7. PICK k \in D : \A j \in D : k <= j
  <2>1. D \in SUBSET Nat OBVIOUS
  <2> HIDE DEF D
  <2> QED BY <1>6, <2>1, LeastElement
<1>8. k \in 1..Len(q) /\ k \in 1..Len(r) /\ q[k] # r[k] /\ k - 1 \in 0..Len(q) /\ k \in Nat
  BY <1>1, <1>5
<1>9. \A j \in 1..(k - 1) : q[j] = r[j]
  <2> SUFFICES ASSUME NEW j \in 1..(k - 1), q[j] # r[j] PROVE FALSE OBVIOUS
  <2>1. j \in 1..Len(q) /\ ~(k <= j) BY <1>1, <1>8
  <2>2. j \in D BY <2>1
  <2> QED BY <1>7, <2>1, <2>2
<1>10. SubSeq(q, 1, k - 1) = SubSeq(r, 1, k - 1)
  <2>1. /\ SubSeq(q, 1, k - 1) \in Paths /\ Len(SubSeq(q, 1, k - 1)) = k - 1
        /\ \A j \in 1..(k - 1) : SubSeq(q, 1, k - 1)[j] = q[j]
    BY <1>1, <1>8, PathBeginning
  <2>2. /\ SubSeq(r, 1, k - 1) \in Paths /\ Len(SubSeq(r, 1, k - 1)) = k - 1
        /\ \A j \in 1..(k - 1) : SubSeq(r, 1, k - 1)[j] = r[j]
    BY <1>1, <1>5, <1>8, PathBeginning
  <2> QED BY <1>9, <2>1, <2>2, SamePath
<1>11. HasAnArrayAt(doc, q, k) <=> HasAnArrayAt(doc, r, k) BY <1>10 DEF HasAnArrayAt
<1>12. HasAnArrayAt(doc, q, k) BY <1>2, <1>3, <1>4, <1>8, <1>11
<1>13. y[k] = IndexTokens[Ahead(R, q, k) + 1] /\ z[k] = IndexTokens[Ahead(R, r, k) + 1]
  BY <1>2, <1>3, <1>8, <1>11, <1>12
<1>14. /\ Ahead(R, q, k) + 1 \in 1..Len(IndexTokens) /\ Ahead(R, q, k) \in Nat
       /\ Ahead(R, r, k) + 1 \in 1..Len(IndexTokens) /\ Ahead(R, r, k) \in Nat
  <2>1. /\ Ahead(R, q, k) + 1 \in 1..Len(IndexTokens)
        /\ Ahead(R, q, k) \in 0..(IndexOf(q[k]) - 1)
    BY <1>8, <1>12, EntriesCount
  <2>2. /\ Ahead(R, r, k) + 1 \in 1..Len(IndexTokens)
        /\ Ahead(R, r, k) \in 0..(IndexOf(r[k]) - 1)
    BY <1>8, <1>11, <1>12, EntriesCount
  <2> QED BY <2>1, <2>2
<1>15. Ahead(R, q, k) = Ahead(R, r, k)
  <2> DEFINE a == Ahead(R, q, k)
             b == Ahead(R, r, k)
  <2>1. a \in Nat /\ b \in Nat /\ a + 1 \in 1..Len(IndexTokens) /\ b + 1 \in 1..Len(IndexTokens)
        /\ IndexTokens[a + 1] = IndexTokens[b + 1]
    BY <1>4, <1>13, <1>14
  <2> HIDE DEF a, b
  <2>2. a + 1 = b + 1 BY <2>1, Indices
  <2>3. a = b BY <2>1, <2>2
  <2> QED BY <2>3 DEF a, b
<1>16. /\ IndexOf(q[k]) \in Nat /\ IndexOf(r[k]) \in Nat
       /\ IndexOf(q[k]) # IndexOf(r[k])
  <2>1. /\ IndexOf(q[k]) \in 1..Len(IndexTokens) /\ IndexTokens[IndexOf(q[k])] = q[k]
        /\ Len(IndexTokens) \in Nat
    BY <1>8, <1>12, ArrayEntries
  <2>2. IndexOf(r[k]) \in 1..Len(IndexTokens) /\ IndexTokens[IndexOf(r[k])] = r[k]
    BY <1>8, <1>11, <1>12, ArrayEntries
  <2> QED BY <1>8, <2>1, <2>2
<1>17. CASE IndexOf(q[k]) < IndexOf(r[k])
  <2>1. Ahead(R, q, k) < Ahead(R, r, k) BY <1>8, <1>10, <1>12, <1>17, PlacesKeepOrder
  <2> QED BY <1>14, <1>15, <2>1
<1>18. CASE IndexOf(r[k]) < IndexOf(q[k])
  <2>1. Ahead(R, r, k) < Ahead(R, q, k)
    BY <1>8, <1>10, <1>11, <1>12, <1>18, PlacesKeepOrder
  <2> QED BY <1>14, <1>15, <2>1
<1> QED BY <1>16, <1>17, <1>18

-----------------------------------------------------------------------------
(* A path that is removed after others: those are no shallower, and the    *)
(* entries of its own array among them stood behind it.                    *)
ComesAfter(R, p) ==
  \A r \in ToSet(R) :
    /\ Len(r) >= Len(p) /\ r # p
    /\ AreSiblings(r, p) => EntryIndex(r) > EntryIndex(p)

LEMMA LastComesAfter ==
  ASSUME NEW R \in PointerLists, NEW p \in Pointers, InRemovalOrder(Append(R, p))
  PROVE  ComesAfter(R, p) /\ InRemovalOrder(R)
  BY BeginningIsOrdered DEF ComesAfter, InRemovalOrder

LEMMA ShallowStay ==
  ASSUME NEW R \in PointerLists, NEW p \in Pointers, ComesAfter(R, p),
         NEW z \in Paths
  PROVE  /\ Len(z) < Len(p) => ~Gone(R, z)
         /\ Len(z) = Len(p) /\ Gone(R, z) => z \in ToSet(R)
<1>1. Len(p) \in Nat /\ Len(z) \in Nat BY DEF Pointers, Paths
<1>2. ASSUME NEW r \in ToSet(R), Under(r, z)
      PROVE  Len(r) >= Len(p) /\ Len(r) <= Len(z) /\ Len(r) \in Nat
             /\ (Len(r) = Len(z) => r = z)
  <2>1. r \in Pointers /\ r \in Paths BY GoneFrom DEF Pointers
  <2>2. /\ Len(r) <= Len(z) /\ Len(r) \in Nat
        /\ \A k \in 1..Len(r) : r[k] = z[k]
    BY <1>2, <2>1, UnderAgrees
  <2>3. Len(r) = Len(z) => r = z BY <2>1, <2>2, SamePath
  <2> QED BY <2>2, <2>3 DEF ComesAfter
<1>3. ASSUME Len(z) < Len(p), Gone(R, z) PROVE FALSE
  <2>1. PICK r \in ToSet(R) : Under(r, z) BY <1>3 DEF Gone
  <2> QED BY <1>1, <1>2, <1>3, <2>1
<1>4. ASSUME Len(z) = Len(p), Gone(R, z) PROVE z \in ToSet(R)
  <2>1. PICK r \in ToSet(R) : Under(r, z) BY <1>4 DEF Gone
  <2>2. Len(r) = Len(z) BY <1>1, <1>2, <1>4, <2>1
  <2> QED BY <1>2, <2>1, <2>2
<1> QED BY <1>3, <1>4

(* As long as all entries before it stay, a node stays where it is.        *)
LEMMA UnmovedPlace ==
  ASSUME NEW doc, Received(doc), NEW R \in PointerLists, NEW q \in DOMAIN doc,
         \A k \in 1..Len(q) : HasAnArrayAt(doc, q, k) =>
           \A i \in 1..(IndexOf(q[k]) - 1) : ~Gone(R, Entry(q, k, i))
  PROVE  SurvivingPlace(doc, R, q) = q
<1> DEFINE z == SurvivingPlace(doc, R, q)
<1>1. /\ z \in Paths /\ Len(z) = Len(q)
      /\ \A k \in 1..Len(q) :
           /\ HasAnArrayAt(doc, q, k) => z[k] = IndexTokens[Ahead(R, q, k) + 1]
           /\ ~HasAnArrayAt(doc, q, k) => z[k] = q[k]
  BY Places
<1>2. q \in Paths BY NodePaths DEF Received
<1> HIDE DEF z
<1>3. ASSUME NEW k \in 1..Len(q), HasAnArrayAt(doc, q, k) PROVE z[k] = q[k]
  <2>1. EntriesBefore(R, q, k) = 1..(IndexOf(q[k]) - 1) BY <1>3 DEF EntriesBefore
  <2>2. Ahead(R, q, k) = IndexOf(q[k]) - 1 BY <1>3, <2>1, EntriesCount
  <2>3. /\ IndexOf(q[k]) \in 1..Len(IndexTokens) /\ IndexTokens[IndexOf(q[k])] = q[k]
        /\ Len(IndexTokens) \in Nat
    BY <1>3, ArrayEntries
  <2>4. (IndexOf(q[k]) - 1) + 1 = IndexOf(q[k]) BY <2>3
  <2> QED BY <1>1, <1>3, <2>2, <2>3, <2>4
<1>4. \A k \in 1..Len(q) : z[k] = q[k] BY <1>1, <1>3
<1>5. z = q BY <1>1, <1>2, <1>4, SamePath
<1> QED BY <1>5 DEF z

LEMMA ShallowPlaces ==
  ASSUME NEW doc, Received(doc), NEW R \in PointerLists, NEW p \in Pointers,
         ComesAfter(R, p), NEW q \in DOMAIN doc, Len(q) < Len(p)
  PROVE  ~Gone(R, q) /\ SurvivingPlace(doc, R, q) = q
<1>1. q \in Paths /\ Len(q) \in Nat BY NodePaths DEF Received
<1>2. Len(p) \in Nat BY DEF Pointers, Paths
<1>3. ASSUME NEW k \in 1..Len(q), HasAnArrayAt(doc, q, k),
             NEW i \in 1..(IndexOf(q[k]) - 1)
      PROVE  ~Gone(R, Entry(q, k, i))
  <2>1. IndexOf(q[k]) \in 1..Len(IndexTokens) /\ Len(IndexTokens) \in Nat
    BY <1>3, ArrayEntries
  <2>2. i \in 1..Len(IndexTokens) BY <2>1
  <2>3. Entry(q, k, i) \in Paths /\ Len(Entry(q, k, i)) = k
    BY <1>1, <2>2, Entries DEF Pointers
  <2>4. k < Len(p) BY <1>1, <1>2
  <2> QED BY <2>3, <2>4, ShallowStay
<1>4. SurvivingPlace(doc, R, q) = q BY <1>3, UnmovedPlace
<1> QED BY <1>1, <1>4, ShallowStay

(* The next path to remove, and the body so far. *)
IsNext(p, body, doc, R) ==
  /\ Received(doc) /\ R \in PointerLists /\ p \in Pointers
  /\ ComesAfter(R, p) /\ IsWithout(body, doc, R)

LEMMA BodySoFar ==
  ASSUME NEW doc, NEW R, NEW body, IsWithout(body, doc, R)
  PROVE  /\ \A q \in DOMAIN doc : ~Gone(R, q) =>
              /\ SurvivingPlace(doc, R, q) \in DOMAIN body
              /\ body[SurvivingPlace(doc, R, q)] = doc[q]
         /\ \A z \in DOMAIN body :
              \E q \in DOMAIN doc : ~Gone(R, q) /\ z = SurvivingPlace(doc, R, q)
  BY DEF IsWithout

(* Above the next path the two bodies are the same. *)
LEMMA SameAbove ==
  ASSUME NEW doc, NEW R, NEW p, NEW body, IsNext(p, body, doc, R),
         NEW z \in Paths, Len(z) < Len(p)
  PROVE  /\ Holds(body, z) <=> Holds(doc, z)
         /\ IsArray(body, z) <=> IsArray(doc, z)
<1>1. ASSUME z \in DOMAIN doc PROVE z \in DOMAIN body /\ body[z] = doc[z]
  <2>1. ~Gone(R, z) /\ SurvivingPlace(doc, R, z) = z
    BY <1>1, ShallowPlaces DEF IsNext
  <2> QED BY <1>1, <2>1, BodySoFar DEF IsNext
<1>2. ASSUME z \in DOMAIN body PROVE z \in DOMAIN doc
  <2>1. PICK q \in DOMAIN doc : ~Gone(R, q) /\ z = SurvivingPlace(doc, R, q)
    BY <1>2, BodySoFar DEF IsNext
  <2>2. Len(z) = Len(q) BY <2>1, Places DEF IsNext
  <2>3. SurvivingPlace(doc, R, q) = q BY <2>2, ShallowPlaces DEF IsNext
  <2> QED BY <2>1, <2>3
<1> QED BY <1>1, <1>2 DEF Holds, IsArray

LEMMA SameMisindexes ==
  ASSUME NEW doc, NEW R, NEW p, NEW body, IsNext(p, body, doc, R)
  PROVE  Misindexes(body, p) <=> Misindexes(doc, p)
<1>1. p \in Paths /\ Len(p) \in Nat /\ DOMAIN p = 1..Len(p)
  BY DEF IsNext, Pointers, Paths
<1>2. ASSUME NEW k \in DOMAIN p PROVE HasAnArrayAt(body, p, k) <=> HasAnArrayAt(doc, p, k)
  <2>1. k - 1 \in 0..Len(p) /\ k - 1 < Len(p) BY <1>1
  <2> DEFINE z == SubSeq(p, 1, k - 1)
  <2>2. z \in Paths /\ Len(z) < Len(p) BY <1>1, <2>1, PathBeginning
  <2> HIDE DEF z
  <2>3. IsArray(body, z) <=> IsArray(doc, z) BY <2>2, SameAbove
  <2> QED BY <2>3 DEF HasAnArrayAt, z
<1> QED BY <1>2 DEF Misindexes

(* The node the next path addresses is where it was received. *)
LEMMA NextStays ==
  ASSUME NEW doc, NEW R, NEW p, NEW body, IsNext(p, body, doc, R), p \in DOMAIN doc
  PROVE  ~Gone(R, p) /\ SurvivingPlace(doc, R, p) = p
<1>1. p \in Paths /\ Len(p) \in Nat /\ p \in Pointers /\ R \in PointerLists /\ Received(doc)
  BY DEF IsNext, Pointers, Paths
<1>2. ~Gone(R, p)
  <2>1. p \notin ToSet(R) BY DEF IsNext, ComesAfter
  <2> QED BY <1>1, <2>1, ShallowStay DEF IsNext
<1>3. ASSUME NEW k \in 1..Len(p), HasAnArrayAt(doc, p, k),
             NEW i \in 1..(IndexOf(p[k]) - 1)
      PROVE  ~Gone(R, Entry(p, k, i))
  <2> DEFINE e == Entry(p, k, i)
  <2>1. /\ IsIndex(p[k]) /\ IndexOf(p[k]) \in 1..Len(IndexTokens) /\ Len(IndexTokens) \in Nat
    BY <1>1, <1>3, ArrayEntries
  <2>2. i \in 1..Len(IndexTokens) /\ i < IndexOf(p[k]) /\ i \in Nat BY <2>1
  <2>3. /\ e \in Pointers /\ Len(e) = k /\ Last(e) = IndexTokens[i]
        /\ Front(e) = SubSeq(p, 1, k - 1)
    BY <1>1, <2>2, Entries
  <2>4. e \in Paths BY <2>3 DEF Pointers
  <2> HIDE DEF e
  <2>5. CASE k < Len(p) BY <1>1, <2>3, <2>4, <2>5, ShallowStay DEF IsNext, e
  <2>6. CASE k = Len(p)
    <3>1. Front(p) = SubSeq(p, 1, k - 1) /\ Last(p) = p[k] BY <1>1, <2>6, PathParts
    <3>2. AreSiblings(e, p)
      BY <2>1, <2>2, <2>3, <3>1, Indices DEF AreSiblings, IsArrayEntry
    <3>3. EntryIndex(e) = i /\ EntryIndex(p) = IndexOf(p[k])
      BY <2>2, <2>3, <3>1, Indices DEF EntryIndex
    <3>4. e \notin ToSet(R)
      <4>1. ~(EntryIndex(e) > EntryIndex(p)) BY <2>1, <2>2, <3>3
      <4> QED BY <3>2, <4>1 DEF IsNext, ComesAfter
    <3> QED BY <1>1, <2>3, <2>4, <2>6, <3>4, ShallowStay DEF IsNext, e
  <2> QED BY <1>1, <2>5, <2>6
<1>4. SurvivingPlace(doc, R, p) = p BY <1>1, <1>3, UnmovedPlace
<1> QED BY <1>2, <1>4

LEMMA NextIsHeld ==
  ASSUME NEW doc, NEW R, NEW p, NEW body, IsNext(p, body, doc, R)
  PROVE  Holds(body, p) <=> Holds(doc, p)
<1>1. /\ p \in Paths /\ Len(p) \in Nat /\ Len(p) >= 1 /\ p \in Pointers
      /\ R \in PointerLists /\ Received(doc) /\ IsWithout(body, doc, R)
  BY PathParts DEF IsNext, Pointers
<1>2. ASSUME p \in DOMAIN doc PROVE p \in DOMAIN body
  BY <1>1, <1>2, NextStays, BodySoFar
<1>3. ASSUME p \in DOMAIN body PROVE p \in DOMAIN doc
  <2>1. PICK q \in DOMAIN doc : ~Gone(R, q) /\ p = SurvivingPlace(doc, R, q)
    BY <1>1, <1>3, BodySoFar
  <2> DEFINE d == Len(p)
  <2>2. /\ q \in Paths /\ Len(q) = d
        /\ HasAnArrayAt(doc, q, d) => p[d] = IndexTokens[Ahead(R, q, d) + 1]
        /\ ~HasAnArrayAt(doc, q, d) => p[d] = q[d]
    <3>1. Len(q) = d BY <1>1, <2>1, Places
    <3>2. d \in 1..Len(q) BY <1>1, <3>1
    <3> QED BY <1>1, <2>1, <3>1, <3>2, Places, NodePaths DEF Received
  <2>3. d \in 1..Len(q) /\ d - 1 \in 0..Len(q) /\ d - 1 < d BY <1>1, <2>2
  <2>4. SubSeq(p, 1, d - 1) = SubSeq(q, 1, d - 1)
    <3>1. SurvivingPlace(doc, R, SubSeq(q, 1, d - 1)) = SubSeq(p, 1, d - 1)
      BY <1>1, <2>1, <2>3, PlaceOfBeginning
    <3>2. SubSeq(q, 1, d - 1) \in DOMAIN doc BY <1>1, <2>3, NodePaths DEF Received
    <3>3. Len(SubSeq(q, 1, d - 1)) = d - 1 BY <2>2, <2>3, PathBeginning
    <3>4. Len(SubSeq(q, 1, d - 1)) < Len(p) BY <2>3, <3>3
    <3>5. SurvivingPlace(doc, R, SubSeq(q, 1, d - 1)) = SubSeq(q, 1, d - 1)
      BY <1>1, <3>2, <3>4, ShallowPlaces DEF IsNext
    <3> QED BY <3>1, <3>5
  <2>5. CASE p[d] = q[d]
    <3>1. \A j \in 1..(d - 1) : p[j] = q[j]
      <4>1. /\ \A j \in 1..(d - 1) : SubSeq(q, 1, d - 1)[j] = q[j]
            /\ \A j \in 1..(d - 1) : SubSeq(p, 1, d - 1)[j] = p[j]
        BY <1>1, <2>2, <2>3, PathBeginning
      <4> QED BY <2>4, <4>1
    <3>2. \A j \in 1..d : j = d \/ j \in 1..(d - 1) BY <1>1
    <3>3. p = q BY <1>1, <2>2, <2>5, <3>1, <3>2, SamePath
    <3> QED BY <3>3
  <2>6. CASE HasAnArrayAt(doc, q, d)
    <3> DEFINE i == Ahead(R, q, d) + 1
    <3>1. /\ \A j \in 1..IndexOf(q[d]) : Entry(q, d, j) \in DOMAIN doc
          /\ IndexOf(q[d]) \in Nat
      <4>1. /\ \A j \in 1..IndexOf(q[d]) : Entry(q, d, j) \in DOMAIN doc
            /\ IndexOf(q[d]) \in 1..Len(IndexTokens) /\ Len(IndexTokens) \in Nat
        BY <1>1, <2>3, <2>6, ArrayEntries
      <4> QED BY <4>1
    <3>2. i \in 1..IndexOf(q[d]) /\ i \in 1..Len(IndexTokens)
      <4>1. /\ Ahead(R, q, d) \in 0..(IndexOf(q[d]) - 1)
            /\ Ahead(R, q, d) + 1 \in 1..Len(IndexTokens)
        BY <1>1, <2>3, <2>6, EntriesCount
      <4> QED BY <3>1, <4>1
    <3>3. Entry(q, d, i) = p
      <4>1. p = Append(SubSeq(p, 1, d - 1), p[d]) BY <1>1, PathParts
      <4>2. p[d] = IndexTokens[i] BY <2>2, <2>6
      <4> QED BY <2>4, <4>1, <4>2 DEF Entry
    <3> QED BY <3>1, <3>2, <3>3
  <2> QED BY <2>2, <2>5, <2>6
<1> QED BY <1>2, <1>3 DEF Holds

LEMMA MissingIsKept ==
  ASSUME NEW doc, NEW R, NEW p, NEW body, IsNext(p, body, doc, R), p \notin DOMAIN doc
  PROVE  IsWithout(body, doc, Append(R, p))
<1> DEFINE S == Append(R, p)
<1>1. /\ p \in Paths /\ Len(p) \in Nat /\ p \in Pointers
      /\ R \in PointerLists /\ Received(doc) /\ IsWithout(body, doc, R)
  BY PathParts DEF IsNext, Pointers
<1>2. ASSUME NEW q \in DOMAIN doc PROVE Gone(S, q) <=> Gone(R, q)
  <2>1. q \in Paths /\ Len(q) \in Nat /\ \A m \in 0..Len(q) : SubSeq(q, 1, m) \in DOMAIN doc
    BY <1>1, NodePaths DEF Received
  <2>2. ~Under(p, q)
    <3>1. Under(p, q) => Len(p) \in 0..Len(q) /\ SubSeq(q, 1, Len(p)) = p
      BY <1>1, <2>1, UnderAgrees
    <3> QED BY <1>1, <2>1, <3>1
  <2> QED BY <1>1, <2>1, <2>2, GoneFrom
<1> HIDE DEF S
<1>3. ASSUME NEW q \in DOMAIN doc
      PROVE  SurvivingPlace(doc, S, q) = SurvivingPlace(doc, R, q)
  <2> DEFINE y == SurvivingPlace(doc, S, q)
             z == SurvivingPlace(doc, R, q)
  <2>1. /\ y \in Paths /\ Len(y) = Len(q)
        /\ \A k \in 1..Len(q) :
             /\ HasAnArrayAt(doc, q, k) => y[k] = IndexTokens[Ahead(S, q, k) + 1]
             /\ ~HasAnArrayAt(doc, q, k) => y[k] = q[k]
    BY <1>1, Places
  <2>2. /\ z \in Paths /\ Len(z) = Len(q)
        /\ \A k \in 1..Len(q) :
             /\ HasAnArrayAt(doc, q, k) => z[k] = IndexTokens[Ahead(R, q, k) + 1]
             /\ ~HasAnArrayAt(doc, q, k) => z[k] = q[k]
    BY <1>1, Places
  <2> HIDE DEF y, z
  <2>3. ASSUME NEW k \in 1..Len(q), HasAnArrayAt(doc, q, k)
        PROVE  Ahead(S, q, k) = Ahead(R, q, k)
    <3>1. /\ IndexOf(q[k]) \in 1..Len(IndexTokens) /\ Len(IndexTokens) \in Nat
          /\ \A i \in 1..IndexOf(q[k]) : Entry(q, k, i) \in DOMAIN doc
      BY <1>1, <2>3, ArrayEntries
    <3>2. \A i \in 1..(IndexOf(q[k]) - 1) : i \in 1..IndexOf(q[k]) BY <3>1
    <3>3. EntriesBefore(S, q, k) = EntriesBefore(R, q, k)
      BY <1>2, <3>1, <3>2 DEF EntriesBefore
    <3> QED BY <3>3 DEF Ahead
  <2>4. \A k \in 1..Len(q) : y[k] = z[k] BY <2>1, <2>2, <2>3
  <2> QED BY <2>1, <2>2, <2>4, SamePath DEF y, z
<1>4. {q \in DOMAIN doc : ~Gone(S, q)} = {q \in DOMAIN doc : ~Gone(R, q)} BY <1>2
<1>5. IsWithout(body, doc, S) BY <1>1, <1>3, <1>4 DEF IsWithout
<1> QED BY <1>5 DEF S

(* A surviving node keeps above or below the path that is removed.         *)
LEMMA UnderPlace ==
  ASSUME NEW doc, NEW R, NEW p, NEW body, IsNext(p, body, doc, R), p \in DOMAIN doc,
         NEW q \in DOMAIN doc, ~Gone(R, q)
  PROVE  Under(p, SurvivingPlace(doc, R, q)) <=> Under(p, q)
<1> DEFINE z == SurvivingPlace(doc, R, q)
           d == Len(p)
<1>1. /\ p \in Paths /\ d \in Nat /\ R \in PointerLists /\ Received(doc)
      /\ ~Gone(R, p) /\ SurvivingPlace(doc, R, p) = p
  BY NextStays DEF IsNext, Pointers, Paths
<1>2. /\ q \in Paths /\ Len(q) \in Nat
      /\ \A m \in 0..Len(q) : SubSeq(q, 1, m) \in DOMAIN doc
  BY <1>1, NodePaths DEF Received
<1>3. z \in Paths /\ Len(z) = Len(q) BY <1>1, Places
<1>4. Under(p, q) <=> d <= Len(q) /\ SubSeq(q, 1, d) = p BY <1>1, <1>2, UnderAgrees
<1>5. Under(p, z) <=> d <= Len(q) /\ SubSeq(z, 1, d) = p BY <1>1, <1>3, UnderAgrees
<1>6. ASSUME d <= Len(q) PROVE SubSeq(z, 1, d) = p <=> SubSeq(q, 1, d) = p
  <2> DEFINE t == SubSeq(q, 1, d)
  <2>1. d \in 0..Len(q) BY <1>1, <1>2, <1>6
  <2>2. t \in DOMAIN doc /\ SurvivingPlace(doc, R, t) = SubSeq(z, 1, d)
    BY <1>1, <1>2, <2>1, PlaceOfBeginning
  <2>3. t \in Paths /\ Len(t) = d BY <1>2, <2>1, PathBeginning
  <2>4. Under(t, q) BY <1>2, <1>6, <2>3, UnderAgrees
  <2>5. ~Gone(R, t) BY <1>1, <1>2, <2>3, <2>4, GoneFrom
  <2> HIDE DEF t
  <2>6. SurvivingPlace(doc, R, t) = p => t = p BY <1>1, <2>2, <2>5, PlacesDiffer
  <2>7. SurvivingPlace(doc, R, t) = p <=> t = p BY <1>1, <2>6
  <2> QED BY <2>2, <2>7 DEF t
<1> QED BY <1>4, <1>5, <1>6

(* One entry goes from those before a node, or none.                       *)
LEMMA EntriesLeft ==
  ASSUME NEW doc, NEW R, NEW p, NEW body, IsNext(p, body, doc, R), p \in DOMAIN doc,
         NEW q \in DOMAIN doc, ~Under(p, q), NEW k \in 1..Len(q), HasAnArrayAt(doc, q, k)
  PROVE  EntriesBefore(Append(R, p), q, k) =
           EntriesBefore(R, q, k)
             \ {i \in {IndexOf(p[k])} : k = Len(p) /\ SubSeq(q, 1, k - 1) = Front(p)}
<1>1. /\ p \in Paths /\ p \in Pointers /\ R \in PointerLists /\ Received(doc)
  BY DEF IsNext, Pointers
<1>2. /\ Len(p) \in Nat /\ Len(p) >= 1 /\ Last(p) = p[Len(p)]
      /\ Front(p) = SubSeq(p, 1, Len(p) - 1) /\ p = Append(Front(p), Last(p))
  BY <1>1, PathParts
<1>3. q \in Paths /\ Len(q) \in Nat BY <1>1, NodePaths DEF Received
<1>4. IndexOf(q[k]) \in 1..Len(IndexTokens) /\ Len(IndexTokens) \in Nat
  BY <1>1, ArrayEntries
<1> DEFINE IsRemoved(i) == /\ i = IndexOf(p[k]) /\ k = Len(p)
                         /\ SubSeq(q, 1, k - 1) = Front(p)
<1>5. ASSUME NEW i \in 1..(IndexOf(q[k]) - 1)
      PROVE  Gone(Append(R, p), Entry(q, k, i)) <=> Gone(R, Entry(q, k, i)) \/ IsRemoved(i)
  <2> DEFINE e == Entry(q, k, i)
  <2>1. i \in 1..Len(IndexTokens) BY <1>4
  <2>2. /\ e \in Pointers /\ Len(e) = k /\ Last(e) = IndexTokens[i]
        /\ Front(e) = SubSeq(q, 1, k - 1)
        /\ \A j \in 1..(k - 1) : e[j] = q[j]
    BY <1>3, <2>1, Entries
  <2>3. e \in Paths BY <2>2 DEF Pointers
  <2>4. e = Append(SubSeq(q, 1, k - 1), IndexTokens[i]) BY DEF Entry
  <2> HIDE DEF e
  <2>5. Gone(Append(R, p), e) <=> Gone(R, e) \/ Under(p, e) BY <1>1, <2>3, GoneFrom
  <2>6. ASSUME Under(p, e) PROVE e = p
    <3>1. Len(p) <= k /\ \A j \in 1..Len(p) : p[j] = e[j]
      BY <1>1, <2>2, <2>3, <2>6, UnderAgrees
    <3>2. CASE Len(p) = k BY <1>1, <2>2, <2>3, <3>1, <3>2, SamePath
    <3>3. CASE Len(p) # k
      <4> DEFINE d == Len(p)
      <4>a. d \in Nat BY <1>2
      <4>b. k \in Nat BY <1>3
      <4>c. d <= k BY <3>1
      <4>0. d \in Nat /\ k \in Nat /\ d <= k /\ d # k BY <3>3, <4>a, <4>b, <4>c
      <4> HIDE DEF d
      <4>1. \A j \in 1..d : j \in 1..(k - 1) BY <4>0
      <4> USE DEF d
      <4>2. \A j \in 1..Len(p) : p[j] = q[j] BY <2>2, <3>1, <4>1
      <4>3. Len(p) <= Len(q) BY <1>2, <1>3, <3>1
      <4>4. Under(p, q) BY <1>1, <1>3, <4>2, <4>3, UnderAgrees
      <4> QED BY <4>4
    <3> QED BY <3>2, <3>3
  <2>7. Under(e, e)
    <3>1. Len(e) <= Len(e) BY <1>3, <2>2
    <3> QED BY <2>3, <3>1, UnderAgrees
  <2>8. ASSUME e = p PROVE IsRemoved(i)
    <3>1. k = Len(p) /\ SubSeq(q, 1, k - 1) = Front(p) /\ p[k] = IndexTokens[i]
      BY <1>2, <2>2, <2>8
    <3> QED BY <2>1, <3>1, Indices
  <2>9. ASSUME IsRemoved(i) PROVE e = p
    <3>1. HasAnArrayAt(doc, p, k) BY <1>2, <2>9 DEF HasAnArrayAt
    <3>2. k \in 1..Len(p) BY <2>9
    <3>3. IndexTokens[i] = p[k] BY <1>1, <2>9, <3>1, <3>2, ArrayEntries
    <3> QED BY <1>2, <2>4, <2>9, <3>3
  <2>10. Under(p, e) <=> IsRemoved(i) BY <2>6, <2>7, <2>8, <2>9
  <2> HIDE DEF IsRemoved
  <2> QED BY <2>5, <2>10 DEF e
<1>6. {i \in {IndexOf(p[k])} : k = Len(p) /\ SubSeq(q, 1, k - 1) = Front(p)}
        = {i \in {IndexOf(p[k])} : IsRemoved(i)}
  OBVIOUS
<1>7. \A i : IsRemoved(i) <=> i \in {j \in {IndexOf(p[k])} : IsRemoved(j)} OBVIOUS
<1> HIDE DEF IsRemoved
<1> QED BY <1>5, <1>6, <1>7 DEF EntriesBefore

(* The surviving nodes that a removal moves. *)
Moves(doc, p, q) ==
  LET d == Len(p) IN
  /\ d <= Len(q) /\ IsArray(doc, Front(p)) /\ SubSeq(q, 1, d - 1) = Front(p)
  /\ IndexOf(q[d]) > IndexOf(p[d])

(* The entry of the next path's array that a node stands in comes behind   *)
(* the next path where it came behind it as received.                      *)
LEMMA SameSideOfNext ==
  ASSUME NEW doc, NEW R, NEW p, NEW body, IsNext(p, body, doc, R), p \in DOMAIN doc,
         NEW q \in DOMAIN doc, ~Gone(R, q), NEW d, d = Len(p), d <= Len(q),
         IsArray(doc, Front(p)), SubSeq(q, 1, d - 1) = Front(p)
  PROVE  LET z == SurvivingPlace(doc, R, q) IN
         /\ d \in 1..Len(q) /\ HasAnArrayAt(doc, q, d)
         /\ HasAnArrayAt(doc, p, d) /\ IsIndex(p[d])
         /\ IsIndex(z[d]) /\ IndexOf(z[d]) = Ahead(R, q, d) + 1
         /\ IndexOf(z[d]) > IndexOf(p[d]) <=> IndexOf(q[d]) > IndexOf(p[d])
         /\ IndexOf(q[d]) > IndexOf(p[d]) => IndexOf(p[d]) \in EntriesBefore(R, q, d)
<1> DEFINE z == SurvivingPlace(doc, R, q)
<1>1. /\ p \in Paths /\ p \in Pointers /\ R \in PointerLists /\ Received(doc)
      /\ ~Gone(R, p) /\ SurvivingPlace(doc, R, p) = p
  BY NextStays DEF IsNext, Pointers
<1>2. /\ d \in Nat /\ d >= 1 /\ Front(p) = SubSeq(p, 1, d - 1) /\ d \in 1..Len(p)
  BY <1>1, PathParts
<1>3. q \in Paths /\ Len(q) \in Nat /\ d \in 1..Len(q)
  BY <1>1, <1>2, NodePaths DEF Received
<1>4. HasAnArrayAt(doc, q, d) /\ HasAnArrayAt(doc, p, d) BY <1>2 DEF HasAnArrayAt
<1>5. /\ IsIndex(p[d]) /\ IndexOf(p[d]) \in 1..Len(IndexTokens)
      /\ Entry(p, d, IndexOf(p[d])) = SubSeq(p, 1, d)
  BY <1>1, <1>2, <1>4, ArrayEntries
<1>6. IndexOf(q[d]) \in 1..Len(IndexTokens) /\ Len(IndexTokens) \in Nat
  BY <1>1, <1>3, <1>4, ArrayEntries
<1>7. /\ Ahead(R, q, d) \in 0..(IndexOf(q[d]) - 1)
      /\ Ahead(R, q, d) + 1 \in 1..Len(IndexTokens)
  BY <1>1, <1>3, <1>4, EntriesCount
<1>8. /\ Ahead(R, p, d) \in 0..(IndexOf(p[d]) - 1)
      /\ Ahead(R, p, d) + 1 \in 1..Len(IndexTokens)
  BY <1>1, <1>2, <1>4, EntriesCount
<1>9. z[d] = IndexTokens[Ahead(R, q, d) + 1] BY <1>1, <1>3, <1>4, Places
<1>10. p[d] = IndexTokens[Ahead(R, p, d) + 1] BY <1>1, <1>2, <1>4, Places
<1> HIDE DEF z
<1>11. IsIndex(z[d]) /\ IndexOf(z[d]) = Ahead(R, q, d) + 1 BY <1>7, <1>9, Indices
<1>12. IndexOf(p[d]) = Ahead(R, p, d) + 1 BY <1>8, <1>10, Indices
<1>13. ASSUME IndexOf(q[d]) > IndexOf(p[d])
       PROVE  /\ Ahead(R, q, d) + 1 > IndexOf(p[d])
              /\ IndexOf(p[d]) \in EntriesBefore(R, q, d)
  <2>1. IndexOf(p[d]) < IndexOf(q[d]) BY <1>5, <1>6, <1>13
  <2>2. Ahead(R, p, d) < Ahead(R, q, d)
    BY <1>1, <1>2, <1>3, <1>4, <2>1, PlacesKeepOrder
  <2>3. Ahead(R, q, d) + 1 > IndexOf(p[d]) BY <1>7, <1>8, <1>12, <2>2, <1>5, <1>6
  <2>4. IndexOf(p[d]) \in 1..(IndexOf(q[d]) - 1) BY <1>5, <1>6, <2>1
  <2>5. Entry(q, d, IndexOf(p[d])) = p
    <3>1. SubSeq(p, 1, d) = p BY <1>1, SubSeqFull DEF Paths
    <3>2. Entry(q, d, IndexOf(p[d])) = Entry(p, d, IndexOf(p[d])) BY <1>2 DEF Entry
    <3> QED BY <1>5, <3>1, <3>2
  <2> QED BY <1>1, <2>3, <2>4, <2>5 DEF EntriesBefore
<1>14. ASSUME ~(IndexOf(q[d]) > IndexOf(p[d])) PROVE ~(Ahead(R, q, d) + 1 > IndexOf(p[d]))
  BY <1>5, <1>6, <1>7, <1>14
<1> QED BY <1>3, <1>4, <1>5, <1>11, <1>13, <1>14 DEF z

LEMMA RenumberedWhenMoved ==
  ASSUME NEW doc, NEW R, NEW p, NEW body, IsNext(p, body, doc, R), p \in DOMAIN doc,
         NEW q \in DOMAIN doc, ~Gone(R, q)
  PROVE  LET d == Len(p)
             z == SurvivingPlace(doc, R, q)
         IN  Renumbered(body, p, z) = IF Moves(doc, p, q)
                                      THEN [z EXCEPT ![d] = IndexTokens[IndexOf(z[d]) - 1]]
                                      ELSE z
<1> DEFINE d == Len(p)
           f == Front(p)
           z == SurvivingPlace(doc, R, q)
<1>1. /\ p \in Paths /\ p \in Pointers /\ R \in PointerLists /\ Received(doc)
  BY DEF IsNext, Pointers
<1>2. /\ d \in Nat /\ d >= 1 /\ f \in Paths /\ Len(f) = d - 1 /\ d - 1 < d
  BY <1>1, PathParts
<1>3. /\ q \in Paths /\ Len(q) \in Nat
      /\ \A m \in 0..Len(q) : SubSeq(q, 1, m) \in DOMAIN doc
  BY <1>1, NodePaths DEF Received
<1>4. z \in Paths /\ Len(z) = Len(q) BY <1>1, Places
<1>5. IsArray(body, f) <=> IsArray(doc, f) BY <1>2, SameAbove
<1>6. ASSUME d <= Len(q) PROVE Under(f, z) <=> SubSeq(q, 1, d - 1) = f
  <2> DEFINE t == SubSeq(q, 1, d - 1)
  <2>1. d - 1 \in 0..Len(q) BY <1>2, <1>3, <1>6
  <2>2. /\ t \in DOMAIN doc /\ t \in Paths /\ Len(t) = d - 1
        /\ SurvivingPlace(doc, R, t) = SubSeq(z, 1, d - 1)
    <3>1. t \in DOMAIN doc /\ t \in Paths /\ Len(t) = d - 1
      BY <1>1, <1>3, <2>1, PathBeginning
    <3>2. SurvivingPlace(doc, R, t) = SubSeq(z, 1, d - 1)
      BY <1>1, <2>1, PlaceOfBeginning
    <3> QED BY <3>1, <3>2
  <2> HIDE DEF t
  <2>3. Len(t) < d BY <1>2, <2>2
  <2>4. SurvivingPlace(doc, R, t) = t BY <1>1, <2>2, <2>3, ShallowPlaces DEF IsNext
  <2>5. Under(f, z) <=> Len(f) <= Len(z) /\ SubSeq(z, 1, Len(f)) = f
    BY <1>2, <1>4, UnderAgrees
  <2>6. Len(f) <= Len(z) BY <1>2, <1>4, <2>1
  <2> QED BY <1>2, <2>2, <2>4, <2>5, <2>6 DEF t
<1>7. ASSUME d <= Len(q), IsArray(doc, f), SubSeq(q, 1, d - 1) = f
      PROVE  /\ IsIndex(p[d]) /\ IsIndex(z[d])
             /\ IndexOf(z[d]) > IndexOf(p[d]) <=> IndexOf(q[d]) > IndexOf(p[d])
  BY <1>7, SameSideOfNext
<1>8. Len(z) >= d <=> d <= Len(q) BY <1>2, <1>3, <1>4
<1> HIDE DEF d, f, z
<1>9. Renumbered(body, p, z) =
        IF /\ IsArray(body, f) /\ Under(f, z) /\ Len(z) >= d
           /\ IsIndex(p[d]) /\ IsIndex(z[d]) /\ IndexOf(z[d]) > IndexOf(p[d])
        THEN [z EXCEPT ![d] = IndexTokens[IndexOf(z[d]) - 1]] ELSE z
  BY DEF Renumbered, d, f
<1>10. Moves(doc, p, q) <=> /\ d <= Len(q) /\ IsArray(doc, f) /\ SubSeq(q, 1, d - 1) = f
                            /\ IndexOf(q[d]) > IndexOf(p[d])
  BY DEF Moves, d, f
<1>11. Renumbered(body, p, z) =
         IF Moves(doc, p, q) THEN [z EXCEPT ![d] = IndexTokens[IndexOf(z[d]) - 1]] ELSE z
  BY <1>5, <1>6, <1>7, <1>8, <1>9, <1>10
<1> QED BY <1>11 DEF d, z

LEMMA MovedPlace ==
  ASSUME NEW doc, NEW R, NEW p, NEW body, IsNext(p, body, doc, R), p \in DOMAIN doc,
         NEW q \in DOMAIN doc, ~Gone(R, q), ~Under(p, q)
  PROVE  SurvivingPlace(doc, Append(R, p), q) =
           Renumbered(body, p, SurvivingPlace(doc, R, q))
<1> DEFINE d == Len(p)
           S == Append(R, p)
           z == SurvivingPlace(doc, R, q)
           y == SurvivingPlace(doc, S, q)
           x == Renumbered(body, p, z)
<1>0. d = Len(p) /\ S = Append(R, p) OBVIOUS
<1>1. /\ p \in Paths /\ p \in Pointers /\ R \in PointerLists /\ Received(doc) /\ d \in Nat
  BY DEF IsNext, Pointers, Paths
<1>2. q \in Paths /\ Len(q) \in Nat BY <1>1, NodePaths DEF Received
<1>3. /\ z \in Paths /\ Len(z) = Len(q)
      /\ \A k \in 1..Len(q) :
           /\ HasAnArrayAt(doc, q, k) => z[k] = IndexTokens[Ahead(R, q, k) + 1]
           /\ ~HasAnArrayAt(doc, q, k) => z[k] = q[k]
  BY <1>1, Places
<1>4. /\ y \in Paths /\ Len(y) = Len(q)
      /\ \A k \in 1..Len(q) :
           /\ HasAnArrayAt(doc, q, k) => y[k] = IndexTokens[Ahead(S, q, k) + 1]
           /\ ~HasAnArrayAt(doc, q, k) => y[k] = q[k]
  BY <1>1, Places
<1>5. x = IF Moves(doc, p, q) THEN [z EXCEPT ![d] = IndexTokens[IndexOf(z[d]) - 1]] ELSE z
  BY RenumberedWhenMoved
<1> HIDE DEF d, S
<1>6. ASSUME NEW k \in 1..Len(q), HasAnArrayAt(doc, q, k),
             ~(k = d /\ SubSeq(q, 1, k - 1) = Front(p))
      PROVE  Ahead(S, q, k) = Ahead(R, q, k)
  <2>1. EntriesBefore(S, q, k) =
          EntriesBefore(R, q, k)
            \ {i \in {IndexOf(p[k])} : k = Len(p) /\ SubSeq(q, 1, k - 1) = Front(p)}
    BY <1>0, <1>6, EntriesLeft
  <2>2. ~(k = Len(p) /\ SubSeq(q, 1, k - 1) = Front(p)) BY <1>0, <1>6
  <2>3. EntriesBefore(S, q, k) = EntriesBefore(R, q, k) BY <2>1, <2>2
  <2> QED BY <2>3 DEF Ahead
<1>7. ASSUME HasAnArrayAt(doc, q, d), SubSeq(q, 1, d - 1) = Front(p), d \in 1..Len(q)
      PROVE  /\ Moves(doc, p, q) => /\ Ahead(S, q, d) = Ahead(R, q, d) - 1
                                    /\ IndexOf(z[d]) = Ahead(R, q, d) + 1
                                    /\ Ahead(R, q, d) \in Int
             /\ ~Moves(doc, p, q) => Ahead(S, q, d) = Ahead(R, q, d)
  <2>1. /\ d <= Len(q) /\ IsArray(doc, Front(p))
    <3>1. d <= Len(q) BY <1>2, <1>7
    <3>2. IsArray(doc, Front(p)) BY <1>7 DEF HasAnArrayAt
    <3> QED BY <3>1, <3>2
  <2>2. /\ IndexOf(z[d]) = Ahead(R, q, d) + 1
        /\ IndexOf(q[d]) > IndexOf(p[d]) => IndexOf(p[d]) \in EntriesBefore(R, q, d)
    BY <1>0, <1>7, <2>1, SameSideOfNext
  <2>3. /\ IsFiniteSet(EntriesBefore(R, q, d)) /\ Ahead(R, q, d) \in 0..(IndexOf(q[d]) - 1)
        /\ EntriesBefore(R, q, d) \in SUBSET (1..(IndexOf(q[d]) - 1))
    BY <1>1, <1>7, EntriesCount
  <2>4. EntriesBefore(S, q, d) = EntriesBefore(R, q, d) \ {IndexOf(p[d])}
    <3>1. EntriesBefore(S, q, d) =
            EntriesBefore(R, q, d)
              \ {i \in {IndexOf(p[d])} : d = Len(p) /\ SubSeq(q, 1, d - 1) = Front(p)}
      BY <1>0, <1>7, EntriesLeft
    <3>2. d = Len(p) /\ SubSeq(q, 1, d - 1) = Front(p) BY <1>0, <1>7
    <3> QED BY <3>1, <3>2
  <2>5. Moves(doc, p, q) <=> IndexOf(q[d]) > IndexOf(p[d]) BY <1>0, <1>7, <2>1 DEF Moves
  <2>6. ASSUME Moves(doc, p, q) PROVE Ahead(S, q, d) = Ahead(R, q, d) - 1
    BY <2>2, <2>3, <2>4, <2>5, <2>6, FS_RemoveElement DEF Ahead
  <2>7. ASSUME ~Moves(doc, p, q) PROVE Ahead(S, q, d) = Ahead(R, q, d)
    <3>1. IndexOf(p[d]) \in Nat /\ IndexOf(q[d]) \in Nat
      <4>1. HasAnArrayAt(doc, p, d) BY <1>0, <1>7, <2>1, SameSideOfNext
      <4>2. d \in 1..Len(p) BY <1>0, <1>1, PathParts
      <4> QED BY <1>1, <1>7, <4>1, <4>2, ArrayEntries
    <3>2. IndexOf(p[d]) \notin 1..(IndexOf(q[d]) - 1) BY <2>5, <2>7, <3>1
    <3>3. EntriesBefore(S, q, d) = EntriesBefore(R, q, d) BY <2>3, <2>4, <3>2
    <3> QED BY <3>3 DEF Ahead
  <2>8. Ahead(R, q, d) \in Int BY <2>3
  <2> QED BY <2>2, <2>6, <2>7, <2>8
<1>8. Moves(doc, p, q) => /\ HasAnArrayAt(doc, q, d) /\ SubSeq(q, 1, d - 1) = Front(p)
                          /\ d \in 1..Len(q)
  <2> SUFFICES ASSUME Moves(doc, p, q)
               PROVE  /\ HasAnArrayAt(doc, q, d) /\ SubSeq(q, 1, d - 1) = Front(p)
                      /\ d \in 1..Len(q)
    OBVIOUS
  <2>1. d >= 1 BY <1>0, <1>1, PathParts
  <2>2. d <= Len(q) /\ IsArray(doc, Front(p)) /\ SubSeq(q, 1, d - 1) = Front(p)
    BY <1>0 DEF Moves
  <2>3. d \in 1..Len(q) BY <1>1, <1>2, <2>1, <2>2
  <2> QED BY <2>2, <2>3 DEF HasAnArrayAt
<1> HIDE DEF x, y, z
<1>9. CASE ~Moves(doc, p, q)
  <2>1. \A k \in 1..Len(q) : HasAnArrayAt(doc, q, k) => Ahead(S, q, k) = Ahead(R, q, k)
    BY <1>6, <1>7, <1>9
  <2>2. \A k \in 1..Len(q) : y[k] = z[k] BY <1>3, <1>4, <2>1
  <2>3. y = z BY <1>3, <1>4, <2>2, SamePath
  <2> QED BY <1>5, <1>9, <2>3 DEF x, y, z, S
<1>10. CASE Moves(doc, p, q)
  <2>1. /\ Ahead(S, q, d) = Ahead(R, q, d) - 1 /\ IndexOf(z[d]) = Ahead(R, q, d) + 1
        /\ d \in 1..Len(q) /\ HasAnArrayAt(doc, q, d) /\ Ahead(R, q, d) \in Int
    BY <1>7, <1>8, <1>10
  <2>2. y[d] = IndexTokens[IndexOf(z[d]) - 1]
    <3>1. Ahead(S, q, d) + 1 = IndexOf(z[d]) - 1 BY <2>1
    <3> QED BY <1>4, <2>1, <3>1
  <2>3. y[d] \in STRING BY <1>4, <2>1, ElementOfSeq DEF Paths
  <2>4. x \in Paths /\ Len(x) = Len(q)
        /\ \A k \in 1..Len(q) : x[k] = IF k = d THEN y[d] ELSE z[k]
    <3>1. x = [z EXCEPT ![d] = y[d]] BY <1>5, <1>10, <2>2
    <3> QED BY <1>3, <2>1, <2>3, <3>1, ExceptSeq DEF Paths
  <2>5. ASSUME NEW k \in 1..Len(q), k # d PROVE y[k] = z[k]
    BY <1>3, <1>4, <1>6, <2>5
  <2>6. \A k \in 1..Len(q) : y[k] = x[k] BY <2>4, <2>5
  <2>7. y = x BY <1>4, <2>4, <2>6, SamePath
  <2> QED BY <2>7 DEF x, y, z, S
<1> QED BY <1>9, <1>10

(* One removal in order loses what its path addresses in the received body.*)
LEMMA RemovalStep ==
  ASSUME NEW doc, NEW R, NEW p, NEW body, IsNext(p, body, doc, R)
  PROVE  IsWithout(Without(body, p), doc, Append(R, p))
<1> DEFINE S == Append(R, p)
           place(q) == SurvivingPlace(doc, R, q)
           newPlace(q) == SurvivingPlace(doc, S, q)
           move(z) == Renumbered(body, p, z)
           kept == {z \in DOMAIN body : ~Under(p, z)}
           from(n) == CHOOSE z \in kept : move(z) = n
           after == Without(body, p)
           survivors == {q \in DOMAIN doc : ~Gone(S, q)}
<1>1. /\ p \in Paths /\ p \in Pointers /\ R \in PointerLists /\ Received(doc)
      /\ IsWithout(body, doc, R) /\ S \in PointerLists
  BY AppendToPointers DEF IsNext, Pointers
<1>2. CASE p \notin DOMAIN doc
  <2>1. ~Holds(body, p) BY <1>2, NextIsHeld DEF Holds
  <2>2. Without(body, p) = body BY <2>1 DEF Without
  <2> QED BY <1>2, <2>2, MissingIsKept
<1>3. CASE p \in DOMAIN doc
  <2>1. Holds(body, p) BY <1>3, NextIsHeld DEF Holds
  <2>2. after = [n \in {move(z) : z \in kept} |-> body[from(n)]] BY <2>1 DEF Without
  <2>3. \A q \in DOMAIN doc : q \in survivors <=> ~Gone(R, q) /\ ~Under(p, q)
    BY <1>1, NodePaths, GoneFrom DEF Received
  <2>4. ASSUME NEW q \in survivors
        PROVE  place(q) \in kept /\ move(place(q)) = newPlace(q) /\ body[place(q)] = doc[q]
    <3>1. q \in DOMAIN doc /\ ~Gone(R, q) /\ ~Under(p, q) BY <2>3
    <3>2. place(q) \in DOMAIN body /\ body[place(q)] = doc[q] BY <1>1, <3>1, BodySoFar
    <3>3. ~Under(p, place(q)) BY <1>3, <3>1, UnderPlace
    <3>4. move(place(q)) = newPlace(q) BY <1>3, <3>1, MovedPlace
    <3> QED BY <3>2, <3>3, <3>4
  <2>5. ASSUME NEW z \in kept PROVE \E q \in survivors : z = place(q)
    <3>1. PICK q \in DOMAIN doc : ~Gone(R, q) /\ z = place(q) BY <1>1, BodySoFar
    <3>2. ~Under(p, q) BY <1>3, <3>1, UnderPlace
    <3> QED BY <2>3, <3>1, <3>2
  <2>6. ASSUME NEW q \in survivors, NEW r \in survivors, newPlace(q) = newPlace(r) PROVE q = r
    BY <1>1, <2>6, PlacesDiffer
  <2> HIDE DEF place, newPlace, move, kept, after, survivors
  <2>7. {move(z) : z \in kept} = {newPlace(q) : q \in survivors} BY <2>4, <2>5
  <2>8. ASSUME NEW q \in survivors PROVE after[newPlace(q)] = doc[q]
    <3>1. \E z \in kept : move(z) = newPlace(q) BY <2>4
    <3>2. from(newPlace(q)) \in kept /\ move(from(newPlace(q))) = newPlace(q) BY <3>1
    <3> HIDE DEF from
    <3>3. PICK r \in survivors : from(newPlace(q)) = place(r) BY <2>5, <3>2
    <3>4. r = q BY <2>4, <2>6, <3>2, <3>3
    <3>5. newPlace(q) \in {move(z) : z \in kept} BY <2>7
    <3>6. after[newPlace(q)] = body[from(newPlace(q))] BY <2>2, <3>5
    <3> QED BY <2>4, <3>3, <3>4, <3>6
  <2> HIDE DEF from
  <2>9. DOMAIN after = {newPlace(q) : q \in survivors} BY <2>2, <2>7
  <2> QED BY <2>8, <2>9 DEF IsWithout, after, newPlace, survivors
<1> QED BY <1>2, <1>3

-----------------------------------------------------------------------------
(* All removals, one after the other.                                      *)

Bodies(V) == UNION {[D -> V] : D \in SUBSET Paths}

LEMMA RemovalTyped ==
  ASSUME NEW V, NEW body, DOMAIN body \in SUBSET Paths, \A z \in DOMAIN body : body[z] \in V,
         NEW p \in Pointers
  PROVE  Without(body, p) \in Bodies(V) \cup {body}
<1> DEFINE move(z) == Renumbered(body, p, z)
           kept == {z \in DOMAIN body : ~Under(p, z)}
           from(n) == CHOOSE z \in kept : move(z) = n
           moved == {move(z) : z \in kept}
           d == Len(p)
<1>1. DOMAIN body \in SUBSET Paths /\ \A z \in DOMAIN body : body[z] \in V OBVIOUS
<1>2. ASSUME NEW z \in kept PROVE move(z) \in Paths
  <2>1. z \in Paths /\ z \in Seq(STRING) /\ Len(z) \in Nat BY <1>1 DEF Paths
  <2>2. CASE /\ IsArray(body, Front(p)) /\ Under(Front(p), z) /\ Len(z) >= d
             /\ IsIndex(p[d]) /\ IsIndex(z[d]) /\ IndexOf(z[d]) > IndexOf(p[d])
    <3>1. move(z) = [z EXCEPT ![d] = IndexTokens[IndexOf(z[d]) - 1]]
      BY <2>2 DEF Renumbered
    <3>2. IndexOf(z[d]) - 1 \in 1..Len(IndexTokens) BY <2>2, Indices
    <3>3. IndexTokens[IndexOf(z[d]) - 1] \in STRING BY <3>2, Indices
    <3>4. d \in 1..Len(z)
      <4>1. d \in Nat /\ d >= 1 /\ Len(z) >= d BY <2>2, PathParts
      <4> QED BY <2>1, <4>1
    <3> QED BY <2>1, <3>1, <3>3, <3>4, ExceptSeq DEF Paths
  <2>3. CASE ~ /\ IsArray(body, Front(p)) /\ Under(Front(p), z) /\ Len(z) >= d
               /\ IsIndex(p[d]) /\ IsIndex(z[d]) /\ IndexOf(z[d]) > IndexOf(p[d])
    <3>1. move(z) = z BY <2>3 DEF Renumbered
    <3> QED BY <2>1, <3>1
  <2> QED BY <2>2, <2>3
<1>3. Without(body, p) = IF Holds(body, p) THEN [n \in moved |-> body[from(n)]] ELSE body
  BY DEF Without
<1>4. \A n \in moved : from(n) \in DOMAIN body
  <2> HIDE DEF move
  <2> QED OBVIOUS
<1>5. moved \in SUBSET Paths BY <1>2
<1> HIDE DEF moved, from, kept
<1>6. \A n \in moved : body[from(n)] \in V BY <1>1, <1>4
<1>7. [n \in moved |-> body[from(n)]] \in [moved -> V] BY <1>6
<1>8. [n \in moved |-> body[from(n)]] \in Bodies(V) BY <1>5, <1>7 DEF Bodies
<1> QED BY <1>3, <1>8

Untouched(doc) == [valid |-> TRUE, body |-> doc]
Outcomes(doc) == [valid : BOOLEAN, body : Bodies({doc[q] : q \in DOMAIN doc}) \cup {doc}]
RemovalOf(doc) == [a \in Outcomes(doc) \X Pointers |-> RemovePointer(a[1], a[2])]
RemoveAll(doc, s) == FoldLeft(RemovePointer, Untouched(doc), s)

LEMMA RemovingAll ==
  ASSUME NEW doc, IsDocument(doc), NEW s \in Seq(Pointers)
  PROVE  /\ RemoveAll(doc, <<>>) = Untouched(doc) /\ RemoveAll(doc, s) \in Outcomes(doc)
         /\ \A x \in Pointers : RemoveAll(doc, Append(s, x)) = RemovePointer(RemoveAll(doc, s), x)
<1>1. RemovalOf(doc) \in Steps(Pointers, Outcomes(doc)) /\ Untouched(doc) \in Outcomes(doc)
  <2>1. Untouched(doc) \in Outcomes(doc) BY DEF Untouched, Outcomes
  <2>2. ASSUME NEW c \in Outcomes(doc), NEW p \in Pointers
        PROVE  RemovePointer(c, p) \in Outcomes(doc)
    <3> DEFINE V == {doc[q] : q \in DOMAIN doc}
    <3>1. c \in [valid : BOOLEAN, body : Bodies(V) \cup {doc}] BY DEF Outcomes
    <3>2. DOMAIN c.body \in SUBSET Paths /\ \A z \in DOMAIN c.body : c.body[z] \in V
      <4>1. CASE c.body \in Bodies(V) BY <4>1 DEF Bodies
      <4>2. CASE c.body = doc BY <4>2 DEF IsDocument, Paths
      <4> QED BY <3>1, <4>1, <4>2
    <3> HIDE DEF V
    <3>3. Without(c.body, p) \in Bodies(V) \cup {c.body} BY <3>2, RemovalTyped
    <3> QED BY <3>1, <3>3 DEF RemovePointer, Outcomes, V
  <2> QED BY <2>1, <2>2 DEF RemovalOf, Steps
<1>2. ASSUME NEW q \in Seq(Pointers)
      PROVE  RemoveAll(doc, q) = Folded(RemovalOf(doc), Untouched(doc), q)
  <2> DEFINE N == 1..Len(q)
             StepOn(t, U) == RemovePointer(t[U \ {Max(U)}], q[Max(U)])
             IsFold(t) == t = [U \in SUBSET DOMAIN q |->
                                 IF U = {} THEN Untouched(doc) ELSE StepOn(t, U)]
             c == CHOOSE t : IsFold(t)
  <2>0. DOMAIN q = N OBVIOUS
  <2>1. PICK f \in Tables(q, Outcomes(doc)) : IsTable(f, RemovalOf(doc), Untouched(doc), q)
    BY <1>1, FoldHasTable
  <2>2. \A U \in SUBSET N : f[U] = IF U = {} THEN Untouched(doc) ELSE StepOn(f, U)
    BY <2>1, TablesAreTyped DEF IsTable, Tables, RemovalOf
  <2>3. IsFold(f)
    <3> HIDE DEF StepOn
    <3>1. f = [U \in SUBSET N |-> f[U]] BY DEF Tables
    <3> QED BY <2>0, <2>2, <3>1
  <2>4. IsFold(c) BY <2>3
  <2>5. RemoveAll(doc, q) = c[DOMAIN q] BY DEF RemoveAll, FoldLeft, MapThenFoldSet
  <2> HIDE DEF c
  <2>6. c[{}] = Untouched(doc) BY <2>4
  <2>7. TakesSteps(c, Outcomes(doc), RemovalOf(doc), q)
    BY <2>0, <2>4, TablesAreTyped DEF RemovalOf, TakesSteps
  <2>8. c[N] = Folded(RemovalOf(doc), Untouched(doc), q)
    BY <1>1, <2>6, <2>7, WhatFolds
  <2> QED BY <2>0, <2>5, <2>8
<1>3. <<>> \in Seq(Pointers) /\ \A x \in Pointers : Append(s, x) \in Seq(Pointers) OBVIOUS
<1>4. /\ Folded(RemovalOf(doc), Untouched(doc), <<>>) = Untouched(doc)
      /\ Folded(RemovalOf(doc), Untouched(doc), s) \in Outcomes(doc)
  BY <1>1, FoldingOn
<1>5. ASSUME NEW x \in Pointers
      PROVE  Folded(RemovalOf(doc), Untouched(doc), Append(s, x))
               = RemovePointer(Folded(RemovalOf(doc), Untouched(doc), s), x)
  <2>1. Folded(RemovalOf(doc), Untouched(doc), Append(s, x))
          = RemovalOf(doc)[<<Folded(RemovalOf(doc), Untouched(doc), s), x>>]
    BY <1>1, FoldingOn
  <2> QED BY <1>4, <2>1 DEF RemovalOf
<1> QED BY <1>2, <1>3, <1>4, <1>5

LEMMA OnlyWhatIsListed ==
  ASSUME NEW doc, NEW s, NEW t, ToSet(s) = ToSet(t)
  PROVE  \A body : IsWithout(body, doc, s) <=> IsWithout(body, doc, t)
<1>1. \A q : Gone(s, q) <=> Gone(t, q) BY DEF Gone
<1>2. \A q : SurvivingPlace(doc, s, q) = SurvivingPlace(doc, t, q)
  BY <1>1 DEF SurvivingPlace
<1> QED BY <1>1, <1>2 DEF IsWithout

(* The canonical body has lost what the pointers address, if none of them  *)
(* walks into an array by a key.                                           *)
HasRemoved(c, doc, s) ==
  /\ c.valid <=> \A p \in ToSet(s) : ~Misindexes(doc, p)
  /\ c.valid => IsWithout(c.body, doc, s)

LEMMA NothingRemoved ==
  ASSUME NEW doc, Received(doc)
  PROVE  IsWithout(doc, doc, <<>>)
<1>1. ToSet(<<>>) = {} /\ <<>> \in PointerLists BY NothingToOrder
<1>2. \A q : ~Gone(<<>>, q) BY <1>1 DEF Gone
<1>3. \A q \in DOMAIN doc : SurvivingPlace(doc, <<>>, q) = q
  BY <1>1, <1>2, UnmovedPlace
<1> QED BY <1>2, <1>3 DEF IsWithout

LEMMA RemovedInOrder ==
  ASSUME NEW doc, Received(doc), NEW s \in PointerLists, InRemovalOrder(s)
  PROVE  HasRemoved(RemoveAll(doc, s), doc, s)
<1> DEFINE G == {q \in PointerLists : InRemovalOrder(q) => HasRemoved(RemoveAll(doc, q), doc, q)}
<1>1. <<>> \in G
  <2>1. <<>> \in PointerLists /\ ToSet(<<>>) = {} BY NothingToOrder
  <2>2. RemoveAll(doc, <<>>) = Untouched(doc)
    BY <2>1, RemovingAll DEF PointerLists, Received
  <2>3. Untouched(doc).valid /\ Untouched(doc).body = doc BY DEF Untouched
  <2> QED BY <2>1, <2>2, <2>3, NothingRemoved DEF HasRemoved
<1>2. \A R \in Seq(Pointers) : \A p \in Pointers : R \in G => Append(R, p) \in G
  <2> SUFFICES ASSUME NEW R \in PointerLists, NEW p \in Pointers,
                      InRemovalOrder(R) => HasRemoved(RemoveAll(doc, R), doc, R),
                      InRemovalOrder(Append(R, p))
               PROVE  HasRemoved(RemoveAll(doc, Append(R, p)), doc, Append(R, p))
    BY AppendToPointers DEF PointerLists
  <2> DEFINE c == RemoveAll(doc, R)
             e == RemoveAll(doc, Append(R, p))
  <2>1. e = RemovePointer(c, p) /\ c \in Outcomes(doc)
    BY RemovingAll DEF PointerLists, Received
  <2>2. ComesAfter(R, p) /\ InRemovalOrder(R) BY LastComesAfter
  <2>3. /\ c.valid <=> \A r \in ToSet(R) : ~Misindexes(doc, r)
        /\ c.valid => IsWithout(c.body, doc, R)
    BY <2>2 DEF HasRemoved
  <2>4. ToSet(Append(R, p)) = ToSet(R) \cup {p} BY ElementsOfAppend DEF PointerLists
  <2>5. \A r : r \in ToSet(Append(R, p)) <=> r \in ToSet(R) \/ r = p BY <2>4
  <2> HIDE DEF c, e
  <2>6. CASE ~c.valid
    <3>1. e = c BY <2>1, <2>6 DEF RemovePointer
    <3> QED BY <2>3, <2>5, <2>6, <3>1 DEF HasRemoved, e
  <2>7. CASE c.valid
    <3>1. IsNext(p, c.body, doc, R) BY <2>2, <2>3, <2>7 DEF IsNext
    <3>2. Misindexes(c.body, p) <=> Misindexes(doc, p) BY <3>1, SameMisindexes
    <3>3. CASE Misindexes(c.body, p)
      <4>1. ~e.valid BY <2>1, <2>7, <3>3 DEF RemovePointer, Outcomes
      <4> QED BY <2>5, <3>2, <3>3, <4>1 DEF HasRemoved, e
    <3>4. CASE ~Misindexes(c.body, p)
      <4>1. e.valid /\ e.body = Without(c.body, p)
        BY <2>1, <2>7, <3>4 DEF RemovePointer, Outcomes
      <4>2. IsWithout(e.body, doc, Append(R, p)) BY <3>1, <4>1, RemovalStep
      <4> QED BY <2>3, <2>5, <2>7, <3>2, <3>4, <4>1, <4>2 DEF HasRemoved, e
    <3> QED BY <3>3, <3>4
  <2> QED BY <2>6, <2>7
<1> HIDE DEF G
<1>3. Seq(Pointers) \subseteq G BY <1>1, <1>2, InductionOnSequences
<1> QED BY <1>3 DEF G, PointerLists

LEMMA CanonicalBodies ==
  ASSUME NEW doc, Received(doc), NEW s \in PointerLists
  PROVE  LET c == CanonicalizeBody(doc, s) IN
         /\ c.valid <=> ~MustRefuse(doc, s)
         /\ c.valid => IsWithout(c.body, doc, s)
<1> DEFINE o == OrderedPointerRemovals(s)
<1>1. o \in PointerLists /\ InRemovalOrder(o) /\ ToSet(o) = ToSet(s) BY RemovalsAreOrdered
<1>2. CanonicalizeBody(doc, s) = IF InvalidPointerPath(s) THEN [valid |-> FALSE, body |-> doc]
                                 ELSE RemoveAll(doc, o)
  BY DEF CanonicalizeBody, RemoveAll, Untouched
<1> HIDE DEF o
<1>3. HasRemoved(RemoveAll(doc, o), doc, o) BY <1>1, RemovedInOrder
<1>4. CASE InvalidPointerPath(s) BY <1>2, <1>4 DEF MustRefuse
<1>5. CASE ~InvalidPointerPath(s)
  <2> DEFINE c == RemoveAll(doc, o)
  <2>1. CanonicalizeBody(doc, s) = c BY <1>2, <1>5
  <2>2. HasRemoved(c, doc, o) BY <1>3
  <2> HIDE DEF c
  <2>3. c.valid <=> \A p \in ToSet(s) : ~Misindexes(doc, p) BY <1>1, <2>2 DEF HasRemoved
  <2>4. c.valid => IsWithout(c.body, doc, s) BY <1>1, <2>2, OnlyWhatIsListed DEF HasRemoved
  <2> QED BY <1>5, <2>1, <2>3, <2>4 DEF MustRefuse
<1> QED BY <1>4, <1>5

-----------------------------------------------------------------------------
(* A library call canonicalises the body it was given.                     *)

LibraryOK ==
  /\ stage \in {"library", "populated", "refused"} =>
       \E call \in LibraryCalls : request.body = call.body /\ ignored = call.ignored
  /\ LET c == CanonicalizeBody(request.body, ignored) IN
       /\ stage = "populated" => c.valid /\ canonical = c.body
       /\ stage = "refused" => ~c.valid

LEMMA LibraryInit == Init => LibraryOK
  BY DEF Init, LibraryOK, Existing

LEMMA LibraryNext == LibraryOK /\ [Next]_vars => LibraryOK'
<1> SUFFICES ASSUME LibraryOK, [Next]_vars PROVE LibraryOK' OBVIOUS
<1>1. CASE PopulateCanonicalFields
  BY <1>1 DEF PopulateCanonicalFields, LibraryOK
<1>2. CASE ResolveApiKeyFails \/ BuildOutboundFails \/ SendUpstream \/ UpstreamFails
           \/ UpstreamAnswers \/ Persist \/ RecordingFails \/ LoadCassette
  <2>1. stage' \in {"sent", "returned", "ended", "replaying"}
    BY <1>2 DEF ResolveApiKeyFails, BuildOutboundFails, SendUpstream, UpstreamFails,
                UpstreamAnswers, Persist, RecordingFails, LoadCassette
  <2> QED BY <2>1 DEF LibraryOK
<1>3. CASE CallEngine
  <2>1. stage' = "replaying" BY <1>3 DEF CallEngine
  <2> QED BY <2>1 DEF LibraryOK
<1>4. CASE UNCHANGED vars
  BY <1>4 DEF LibraryOK, vars, exchangeVars
<1> QED BY <1>1, <1>2, <1>3, <1>4 DEF Next

LEMMA LibraryInvariant == Spec => []LibraryOK
  BY LibraryInit, LibraryNext, PTL DEF Spec

(* canonicalize_body (src/src/cassette/canonical/json/mod.rs) loses        *)
(* exactly what the ignored paths address in the body as received, for     *)
(* every body and every list of paths, in whatever order they are given,   *)
(* and refuses exactly the calls it must.                                  *)
THEOREM IgnoredAlways == Spec => []ExactlyIgnoredPathsAreGone
<1>1. LibraryOK => ExactlyIgnoredPathsAreGone
  <2> SUFFICES ASSUME LibraryOK, stage \in {"populated", "refused"}
               PROVE  ExactlyIgnoredPathsAreGone
    BY DEF ExactlyIgnoredPathsAreGone
  <2> DEFINE c == CanonicalizeBody(request.body, ignored)
  <2>1. PICK call \in LibraryCalls : request.body = call.body /\ ignored = call.ignored
    BY DEF LibraryOK
  <2>2. Received(request.body) /\ ignored \in PointerLists
    BY <2>1, LibraryCallsAssumption DEF Received, PointerLists, Pointers, Paths
  <2>3. /\ c.valid <=> ~MustRefuse(request.body, ignored)
        /\ c.valid => IsWithout(c.body, request.body, ignored)
    BY <2>2, CanonicalBodies
  <2>4. /\ stage = "populated" => c.valid /\ canonical = c.body
        /\ stage = "refused" => ~c.valid
    BY DEF LibraryOK
  <2> HIDE DEF c
  <2> QED BY <2>3, <2>4 DEF ExactlyIgnoredPathsAreGone
<1> QED BY <1>1, LibraryInvariant, PTL
=============================================================================
