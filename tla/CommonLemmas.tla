---------------------------- MODULE CommonLemmas ----------------------------
(* Lemmas that several proofs use: least elements and induction, stated    *)
(* over sets, and sequences that only grow at their end and fall back to   *)
(* their prefixes, as cassettes and acknowledgements do.                   *)
EXTENDS Integers, Sequences, SequencesExt, SequenceTheorems, WellFoundedInduction, TLAPS

LEMMA LeastElement ==
  ASSUME NEW S \in SUBSET Nat, S # {}
  PROVE  \E i \in S : \A j \in S : i <= j
<1>1. PICK i \in S : \A j \in S : ~(<<j, i>> \in OpToRel(<, Nat))
  BY NatLessThanWellFounded, WFMin, Zenon
<1>2. \A j \in S : i <= j
  <2> SUFFICES ASSUME NEW j \in S PROVE i <= j OBVIOUS
  <2>1. <<j, i>> \notin OpToRel(<, Nat) BY <1>1
  <2>2. ~(j < i) BY <2>1 DEF OpToRel
  <2> QED BY <2>2
<1> QED BY <1>2

LEMMA InductionOnNaturals ==
  ASSUME NEW G, 0 \in G, \A n \in Nat : n \in G => n + 1 \in G
  PROVE  Nat \subseteq G
<1> SUFFICES ASSUME Nat \ G # {} PROVE FALSE OBVIOUS
<1>1. PICK n \in Nat \ G : \A m \in Nat \ G : n <= m
  BY LeastElement
<1>2. n # 0 /\ n - 1 \in Nat /\ ~(n <= n - 1) BY <1>1
<1>3. n - 1 \in G BY <1>1, <1>2
<1> QED BY <1>1, <1>2, <1>3

(* A set of sequences that holds the empty one and is closed under Append  *)
(* holds them all.                                                         *)
LEMMA InductionOnSequences ==
  ASSUME NEW H, NEW G, <<>> \in G, \A s \in Seq(H) : \A h \in H : s \in G => Append(s, h) \in G
  PROVE  Seq(H) \subseteq G
<1> DEFINE N == {n \in Nat : \A s \in Seq(H) : Len(s) = n => s \in G}
<1>1. 0 \in N
  <2>1. \A s \in Seq(H) : Len(s) = 0 => s = <<>> OBVIOUS
  <2> QED BY <2>1
<1>2. \A n \in Nat : n \in N => n + 1 \in N
  <2> SUFFICES ASSUME NEW n \in N, NEW s \in Seq(H), Len(s) = n + 1 PROVE s \in G
    OBVIOUS
  <2>1. PICK t \in Seq(H), h \in H : s = Append(t, h)
    <3>1. s # <<>> OBVIOUS
    <3> QED BY <3>1, SequenceEmptyOrAppend
  <2>2. Len(t) = n BY <2>1
  <2> QED BY <2>1, <2>2
<1> HIDE DEF N
<1>3. Nat \subseteq N BY <1>1, <1>2, InductionOnNaturals
<1> QED BY <1>3 DEF N

(* The last and the rest of what was appended to. *)
LEMMA FrontLastOfAppend ==
  ASSUME NEW S, NEW s \in Seq(S), NEW x \in S
  PROVE  /\ Append(s, x) \in Seq(S) /\ Append(s, x) # <<>>
         /\ Last(Append(s, x)) = x
         /\ Front(Append(s, x)) = s
<1>1. /\ Append(s, x) \in Seq(S) /\ Len(Append(s, x)) = Len(s) + 1
      /\ \A k \in 1..Len(s) : Append(s, x)[k] = s[k]
      /\ Append(s, x)[Len(s) + 1] = x
  OBVIOUS
<1>2. Last(Append(s, x)) = x BY <1>1 DEF Last
<1>3. Front(Append(s, x)) = s
  <2> DEFINE a == Append(s, x)
  <2>1. SubSeq(a, 1, Len(s)) \in Seq(S) /\ Len(SubSeq(a, 1, Len(s))) = Len(s)
    BY <1>1
  <2>2. \A k \in 1..Len(s) : SubSeq(a, 1, Len(s))[k] = s[k]
    BY <1>1
  <2>3. SubSeq(a, 1, Len(s)) = s BY <2>1, <2>2, SeqEqual
  <2> QED BY <1>1, <2>3 DEF Front
<1> QED BY <1>1, <1>2, <1>3

(* The elements of a sequence that grew. *)
LEMMA ElementsOfAppend ==
  ASSUME NEW S, NEW s \in Seq(S), NEW x \in S
  PROVE  ToSet(Append(s, x)) = ToSet(s) \cup {x}
<1>1. /\ DOMAIN s = 1..Len(s) /\ Len(s) \in Nat
      /\ DOMAIN Append(s, x) = 1..(Len(s) + 1)
      /\ \A k \in 1..Len(s) : Append(s, x)[k] = s[k]
      /\ Append(s, x)[Len(s) + 1] = x
  OBVIOUS
<1>2. \A k \in 1..(Len(s) + 1) : k = Len(s) + 1 \/ k \in 1..Len(s)
  BY <1>1
<1>3. ToSet(Append(s, x)) \subseteq ToSet(s) \cup {x}
  BY <1>1, <1>2 DEF ToSet
<1>4. ToSet(s) \cup {x} \subseteq ToSet(Append(s, x))
  <2>1. \A k \in 1..Len(s) : k \in 1..(Len(s) + 1) BY <1>1
  <2>2. Len(s) + 1 \in 1..(Len(s) + 1) BY <1>1
  <2> QED BY <1>1, <2>1, <2>2 DEF ToSet
<1> QED BY <1>3, <1>4

LEMMA ElementsAreMembers ==
  ASSUME NEW S, NEW s \in Seq(S)
  PROVE  ToSet(s) \subseteq S
  BY ElementOfSeq DEF ToSet

(* A prefix agrees with the whole wherever it is defined. *)
LEMMA PrefixAgrees ==
  ASSUME NEW S, NEW s \in Seq(S), NEW t \in Seq(S)
  PROVE  IsPrefix(s, t) <=> Len(s) <= Len(t) /\ \A k \in 1..Len(s) : s[k] = t[k]
<1>1. Len(s) \in Nat /\ Len(t) \in Nat OBVIOUS
<1>2. SubSeq(s, 1, Len(s)) = s BY SubSeqFull
<1>3. ASSUME Len(s) <= Len(t)
      PROVE  SubSeq(s, 1, Len(s)) = SubSeq(t, 1, Len(s)) <=> \A k \in 1..Len(s) : s[k] = t[k]
  <2> DEFINE u == SubSeq(t, 1, Len(s))
  <2>1. u \in Seq(S) /\ Len(u) = Len(s) /\ \A k \in 1..Len(s) : u[k] = t[k]
    BY <1>1, <1>3
  <2> HIDE DEF u
  <2>2. (\A k \in 1..Len(s) : s[k] = t[k]) => s = u
    BY <2>1, SeqEqual
  <2>3. s = u => \A k \in 1..Len(s) : s[k] = t[k]
    BY <2>1
  <2> QED BY <1>2, <2>2, <2>3 DEF u
<1> QED BY <1>3 DEF IsPrefix

LEMMA PrefixOfAppend ==
  ASSUME NEW S, NEW s \in Seq(S), NEW t \in Seq(S), NEW x \in S, IsPrefix(s, t)
  PROVE  IsPrefix(s, Append(t, x))
<1>1. Len(s) <= Len(t) /\ \A k \in 1..Len(s) : s[k] = t[k]
  BY PrefixAgrees
<1>2. /\ Append(t, x) \in Seq(S) /\ Len(Append(t, x)) = Len(t) + 1
      /\ \A k \in 1..Len(t) : Append(t, x)[k] = t[k]
  OBVIOUS
<1>3. Len(s) <= Len(Append(t, x)) /\ \A k \in 1..Len(s) : s[k] = Append(t, x)[k]
  BY <1>1, <1>2
<1> QED BY <1>2, <1>3, PrefixAgrees

LEMMA PrefixOfItself ==
  ASSUME NEW S, NEW s \in Seq(S)
  PROVE  IsPrefix(s, s) /\ IsPrefix(<<>>, s) /\ (IsPrefix(s, <<>>) => s = <<>>)
<1>1. <<>> \in Seq(S) /\ Len(<<>>) = 0 OBVIOUS
<1>2. Len(s) \in Nat /\ (Len(s) = 0 => s = <<>>) OBVIOUS
<1>3. IsPrefix(s, s) BY <1>2 DEF IsPrefix
<1>4. IsPrefix(<<>>, s)
  <2>1. Len(<<>>) <= Len(s) /\ \A k \in 1..Len(<<>>) : <<>>[k] = s[k]
    BY <1>1, <1>2
  <2> QED BY <1>1, <2>1, PrefixAgrees
<1>5. IsPrefix(s, <<>>) => s = <<>>
  <2>1. IsPrefix(s, <<>>) => Len(s) <= 0 BY <1>1, PrefixAgrees
  <2> QED BY <1>2, <2>1
<1> QED BY <1>3, <1>4, <1>5

LEMMA PrefixOfPrefix ==
  ASSUME NEW S, NEW s \in Seq(S), NEW t \in Seq(S), NEW u \in Seq(S),
         IsPrefix(s, t), IsPrefix(t, u)
  PROVE  IsPrefix(s, u)
<1>1. /\ Len(s) <= Len(t) /\ \A k \in 1..Len(s) : s[k] = t[k]
      /\ Len(t) <= Len(u) /\ \A k \in 1..Len(t) : t[k] = u[k]
  BY PrefixAgrees
<1>2. Len(s) \in Nat /\ Len(t) \in Nat /\ Len(u) \in Nat OBVIOUS
<1>3. Len(s) <= Len(u) /\ \A k \in 1..Len(s) : s[k] = u[k]
  BY <1>1, <1>2
<1> QED BY <1>3, PrefixAgrees

(* A prefix is the initial part of its length. *)
LEMMA PrefixIsInitialPart ==
  ASSUME NEW S, NEW s \in Seq(S), NEW t \in Seq(S), IsPrefix(s, t)
  PROVE  s \in Prefixes(t)
<1>1. Len(s) \in 0..Len(t) /\ SubSeq(s, 1, Len(s)) = SubSeq(t, 1, Len(s))
  BY DEF IsPrefix
<1>2. SubSeq(s, 1, Len(s)) = s BY SubSeqFull
<1> QED BY <1>1, <1>2 DEF Prefixes

LEMMA InitialPart ==
  ASSUME NEW S, NEW s \in Seq(S), NEW n \in 0..Len(s)
  PROVE  LET t == SubSeq(s, 1, n) IN
         /\ t \in Seq(S) /\ Len(t) = n
         /\ \A k \in 1..n : t[k] = s[k]
         /\ ToSet(t) = {s[k] : k \in 1..n}
         /\ t \in Prefixes(s) /\ IsPrefix(t, s)
<1> DEFINE t == SubSeq(s, 1, n)
<1>1. t \in Seq(S) /\ Len(t) = n /\ \A k \in 1..n : t[k] = s[k]
  OBVIOUS
<1>2. t \in Prefixes(s) BY DEF Prefixes
<1> HIDE DEF t
<1>3. ToSet(t) = {s[k] : k \in 1..n}
  <2>1. DOMAIN t = 1..n BY <1>1
  <2> QED BY <1>1, <2>1 DEF ToSet
<1>4. IsPrefix(t, s) BY <1>1, PrefixAgrees
<1> QED BY <1>1, <1>2, <1>3, <1>4 DEF t

-----------------------------------------------------------------------------
(* Folds.  FoldLeft is a recursion over the sets of indices of a sequence, *)
(* which takes out the greatest index first.  Its operator argument is out *)
(* of the provers' reach, so the facts about it are stated of a fold whose *)
(* step is a function; a fold by an operator is shown to be such a fold.   *)
Steps(E, T) == [T \X E -> T]
Tables(s, T) == [SUBSET (1..Len(s)) -> T]

Table(step, base, s) ==
  CHOOSE table : table = [U \in SUBSET DOMAIN s |->
                            IF U = {} THEN base ELSE step[<<table[U \ {Max(U)}], s[Max(U)]>>]]

IsTable(table, step, base, s) ==
  \A U \in SUBSET (1..Len(s)) :
    table[U] = IF U = {} THEN base ELSE step[<<table[U \ {Max(U)}], s[Max(U)]>>]

Folded(step, base, s) == Table(step, base, s)[DOMAIN s]

LEMMA GreatestOfIndices ==
  ASSUME NEW n \in Nat, NEW U \in SUBSET (1..(n + 1)), U # {}
  PROVE  /\ Max(U) \in U /\ \A i \in U : i <= Max(U)
         /\ U \ {Max(U)} \in SUBSET (1..n)
         /\ n + 1 \in U => Max(U) = n + 1
<1> DEFINE S == {n + 1 - i : i \in U}
<1>1. PICK d \in S : \A e \in S : d <= e
  <2>1. \A i \in U : n + 1 - i \in Nat OBVIOUS
  <2>2. S \in SUBSET Nat /\ S # {} BY <2>1
  <2> QED BY <2>2, LeastElement
<1>2. PICK m \in U : d = n + 1 - m BY <1>1
<1>3. \A i \in U : i <= m
  <2> SUFFICES ASSUME NEW i \in U PROVE i <= m OBVIOUS
  <2>1. d <= n + 1 - i BY <1>1
  <2> QED BY <2>1, <1>2
<1>4. \A i \in U : m >= i BY <1>3
<1>5. Max(U) \in U /\ \A i \in U : Max(U) >= i
  BY <1>4 DEF Max
<1>6. \A i \in U : i \in Int /\ 1 <= i /\ i <= n + 1 OBVIOUS
<1> HIDE DEF S
<1>7. U \ {Max(U)} \in SUBSET (1..n)
  <2> SUFFICES ASSUME NEW i \in U, i # Max(U) PROVE i \in 1..n OBVIOUS
  <2>1. i \in Int /\ 1 <= i /\ i <= n + 1 BY <1>6
  <2>2. Max(U) \in Int /\ Max(U) <= n + 1 /\ Max(U) >= i BY <1>5, <1>6
  <2> QED BY <2>1, <2>2
<1> QED BY <1>5, <1>6, <1>7

LEMMA TablesExist ==
  ASSUME NEW E, NEW T, NEW base \in T, NEW step \in Steps(E, T), NEW s \in Seq(E)
  PROVE  \E table \in Tables(s, T) : IsTable(table, step, base, s)
<1> DEFINE IsTableTo(table, n) ==
             \A U \in SUBSET (1..n) :
               table[U] = IF U = {} THEN base
                          ELSE step[<<table[U \ {Max(U)}], s[Max(U)]>>]
           TablesTo(n) == {table \in [SUBSET (1..n) -> T] : IsTableTo(table, n)}
           G == {n \in Nat : n <= Len(s) => TablesTo(n) # {}}
<1>1. 0 \in G
  <2>1. \A U \in SUBSET (1..0) : U = {} OBVIOUS
  <2>2. [U \in SUBSET (1..0) |-> base] \in [SUBSET (1..0) -> T] OBVIOUS
  <2>3. IsTableTo([U \in SUBSET (1..0) |-> base], 0) BY <2>1
  <2> QED BY <2>2, <2>3
<1>2. \A n \in Nat : n \in G => n + 1 \in G
  <2> SUFFICES ASSUME NEW n \in Nat, n \in G, n + 1 <= Len(s)
               PROVE  TablesTo(n + 1) # {}
    <3> HIDE DEF TablesTo
    <3> QED OBVIOUS
  <2>0. PICK old \in TablesTo(n) : TRUE
    <3> HIDE DEF TablesTo
    <3>1. n <= Len(s) OBVIOUS
    <3> QED BY <3>1
  <2> DEFINE new == [U \in SUBSET (1..(n + 1)) |->
                       IF U \in SUBSET (1..n) THEN old[U]
                       ELSE step[<<old[U \ {Max(U)}], s[Max(U)]>>]]
  <2>1. \A U \in SUBSET (1..(n + 1)) : U # {} =>
          Max(U) \in U /\ U \ {Max(U)} \in SUBSET (1..n) /\ s[Max(U)] \in E
    <3> SUFFICES ASSUME NEW U \in SUBSET (1..(n + 1)), U # {}
                 PROVE  Max(U) \in U /\ U \ {Max(U)} \in SUBSET (1..n) /\ s[Max(U)] \in E
      OBVIOUS
    <3>1. Max(U) \in U /\ U \ {Max(U)} \in SUBSET (1..n) BY GreatestOfIndices
    <3>2. Len(s) \in Nat /\ \A i \in 1..(n + 1) : i \in 1..Len(s) OBVIOUS
    <3>3. Max(U) \in 1..Len(s) BY <3>1, <3>2
    <3> QED BY <3>1, <3>3, ElementOfSeq
  <2>2. new \in [SUBSET (1..(n + 1)) -> T]
    <3> SUFFICES ASSUME NEW U \in SUBSET (1..(n + 1)), U \notin SUBSET (1..n)
                 PROVE  step[<<old[U \ {Max(U)}], s[Max(U)]>>] \in T
      OBVIOUS
    <3>1. U # {} OBVIOUS
    <3>2. U \ {Max(U)} \in SUBSET (1..n) /\ s[Max(U)] \in E BY <2>1, <3>1
    <3>3. old[U \ {Max(U)}] \in T BY <3>2
    <3>4. \A a \in T, x \in E : step[<<a, x>>] \in T BY DEF Steps
    <3> HIDE DEF G, TablesTo, IsTableTo, new
    <3> QED BY <3>2, <3>3, <3>4
  <2>3. IsTableTo(new, n + 1)
    <3> SUFFICES ASSUME NEW U \in SUBSET (1..(n + 1))
                 PROVE  new[U] = IF U = {} THEN base
                                 ELSE step[<<new[U \ {Max(U)}], s[Max(U)]>>]
      OBVIOUS
    <3>1. CASE U = {}
      <4>1. {} \in SUBSET (1..n) OBVIOUS
      <4> QED BY <3>1, <4>1, <2>0
    <3>2. CASE U # {}
      <4>1. U \ {Max(U)} \in SUBSET (1..n) BY <2>1, <3>2
      <4>2. U \ {Max(U)} \in SUBSET (1..(n + 1)) OBVIOUS
      <4>3. new[U \ {Max(U)}] = old[U \ {Max(U)}] BY <4>1, <4>2
      <4>4. new[U] = step[<<old[U \ {Max(U)}], s[Max(U)]>>]
        <5>1. CASE U \in SUBSET (1..n) BY <5>1, <3>2, <2>0
        <5>2. CASE U \notin SUBSET (1..n) BY <5>2
        <5> QED BY <5>1, <5>2
      <4> HIDE DEF new
      <4> QED BY <3>2, <4>3, <4>4
    <3> QED BY <3>1, <3>2
  <2> HIDE DEF new, IsTableTo
  <2> QED BY <2>2, <2>3
<1>3. Nat \subseteq G
  <2> HIDE DEF G
  <2> QED BY <1>1, <1>2, InductionOnNaturals
<1>4. Len(s) \in G
  <2> HIDE DEF G
  <2>1. Len(s) \in Nat OBVIOUS
  <2> QED BY <1>3, <2>1
<1>5. TablesTo(Len(s)) # {}
  <2> HIDE DEF TablesTo
  <2> QED BY <1>4
<1> QED BY <1>5 DEF IsTable, Tables

LEMMA TablesAgree ==
  ASSUME NEW n \in Nat, NEW one, NEW other, one[{}] = other[{}],
         \A U \in SUBSET (1..n) :
           U # {} /\ one[U \ {Max(U)}] = other[U \ {Max(U)}] => one[U] = other[U]
  PROVE  one[1..n] = other[1..n]
<1> DEFINE G == {k \in Nat : k <= n => \A U \in SUBSET (1..k) : one[U] = other[U]}
<1>1. 0 \in G
  <2>1. \A U \in SUBSET (1..0) : U = {} OBVIOUS
  <2> QED BY <2>1
<1>2. \A k \in Nat : k \in G => k + 1 \in G
  <2> SUFFICES ASSUME NEW k \in G, k + 1 <= n, NEW U \in SUBSET (1..(k + 1))
               PROVE  one[U] = other[U]
    OBVIOUS
  <2>1. CASE U = {} BY <2>1
  <2>2. CASE U # {}
    <3>1. U \ {Max(U)} \in SUBSET (1..k) BY <2>2, GreatestOfIndices
    <3>2. one[U \ {Max(U)}] = other[U \ {Max(U)}] BY <3>1
    <3>3. U \in SUBSET (1..n) OBVIOUS
    <3> QED BY <2>2, <3>2, <3>3
  <2> QED BY <2>1, <2>2
<1> HIDE DEF G
<1>3. n \in G BY <1>1, <1>2, InductionOnNaturals
<1> QED BY <1>3 DEF G

LEMMA TablesAreTyped ==
  ASSUME NEW E, NEW s \in Seq(E), NEW U \in SUBSET (1..Len(s)), U # {}
  PROVE  Max(U) \in U /\ U \ {Max(U)} \in SUBSET (1..Len(s)) /\ s[Max(U)] \in E
<1>1. Len(s) \in Nat /\ U \in SUBSET (1..(Len(s) + 1)) OBVIOUS
<1>2. Max(U) \in U BY <1>1, GreatestOfIndices
<1>3. Max(U) \in 1..Len(s) BY <1>2
<1> QED BY <1>2, <1>3, ElementOfSeq

(* Every table of a fold ends in the fold's value. *)
LEMMA TableEndsInFold ==
  ASSUME NEW E, NEW T, NEW base \in T, NEW step \in Steps(E, T), NEW s \in Seq(E),
         NEW table \in Tables(s, T), IsTable(table, step, base, s)
  PROVE  table[1..Len(s)] = Folded(step, base, s)
<1> DEFINE N == 1..Len(s)
           StepOn(t, U) == step[<<t[U \ {Max(U)}], s[Max(U)]>>]
<1>0. DOMAIN s = N /\ Len(s) \in Nat OBVIOUS
<1>1. \A U \in SUBSET N : table[U] = IF U = {} THEN base ELSE StepOn(table, U)
  BY DEF IsTable
<1>2. table = [U \in SUBSET N |-> table[U]] BY DEF Tables
<1>3. table = [U \in SUBSET DOMAIN s |-> IF U = {} THEN base ELSE StepOn(table, U)]
  <2> HIDE DEF StepOn
  <2> QED BY <1>0, <1>1, <1>2
<1> DEFINE chosen == Table(step, base, s)
<1>4. chosen = [U \in SUBSET DOMAIN s |-> IF U = {} THEN base ELSE StepOn(chosen, U)]
  BY <1>3 DEF Table
<1> HIDE DEF chosen
<1>5. chosen[{}] = table[{}] BY <1>1, <1>4
<1>6. ASSUME NEW U \in SUBSET N, U # {}, chosen[U \ {Max(U)}] = table[U \ {Max(U)}]
      PROVE  chosen[U] = table[U]
  <2>1. chosen[U] = StepOn(chosen, U) BY <1>0, <1>4, <1>6
  <2>2. table[U] = StepOn(table, U) BY <1>1, <1>6
  <2> QED BY <2>1, <2>2, <1>6
<1>7. \A U \in SUBSET N :
        U # {} /\ chosen[U \ {Max(U)}] = table[U \ {Max(U)}] => chosen[U] = table[U]
  BY <1>6
<1>8. chosen[N] = table[N]
  <2> HIDE DEF StepOn
  <2> QED BY <1>0, <1>5, <1>7, TablesAgree
<1> QED BY <1>0, <1>8 DEF Folded, chosen

LEMMA FoldHasTable ==
  ASSUME NEW E, NEW T, NEW base \in T, NEW step \in Steps(E, T), NEW s \in Seq(E)
  PROVE  \E table \in Tables(s, T) :
           IsTable(table, step, base, s) /\ table[1..Len(s)] = Folded(step, base, s)
BY TablesExist, TableEndsInFold

(* What a fold is of nothing and of one element more.                      *)
LEMMA FoldingOn ==
  ASSUME NEW E, NEW T, NEW base \in T, NEW step \in Steps(E, T), NEW s \in Seq(E)
  PROVE  /\ Folded(step, base, <<>>) = base
         /\ Folded(step, base, s) \in T
         /\ \A x \in E : Folded(step, base, Append(s, x)) = step[<<Folded(step, base, s), x>>]
<1>1. Folded(step, base, <<>>) = base
  <2> DEFINE nil == <<>>
  <2>1. nil \in Seq(E) /\ 1..Len(nil) = {} OBVIOUS
  <2> HIDE DEF nil
  <2>2. PICK f \in Tables(nil, T) :
          IsTable(f, step, base, nil) /\ f[1..Len(nil)] = Folded(step, base, nil)
    BY <2>1, FoldHasTable
  <2>3. Folded(step, base, nil) = base BY <2>1, <2>2 DEF IsTable
  <2> QED BY <2>3 DEF nil
<1>2. PICK f \in Tables(s, T) :
        IsTable(f, step, base, s) /\ f[1..Len(s)] = Folded(step, base, s)
  BY FoldHasTable
<1>3. Folded(step, base, s) \in T BY <1>2 DEF Tables
<1>4. ASSUME NEW x \in E
      PROVE  Folded(step, base, Append(s, x)) = step[<<Folded(step, base, s), x>>]
  <2> DEFINE a == Append(s, x)
             n == Len(s)
  <2>1. /\ a \in Seq(E) /\ Len(a) = n + 1 /\ n \in Nat
        /\ \A k \in 1..n : a[k] = s[k]
        /\ a[n + 1] = x
    OBVIOUS
  <2>2. PICK g \in Tables(a, T) :
          IsTable(g, step, base, a) /\ g[1..Len(a)] = Folded(step, base, a)
    <3> HIDE DEF a
    <3> QED BY <2>1, FoldHasTable
  <2> HIDE DEF a, n
  <2>3. ASSUME NEW U \in SUBSET (1..n), U # {}, f[U \ {Max(U)}] = g[U \ {Max(U)}]
        PROVE  f[U] = g[U]
    <3>1. U \in SUBSET (1..(n + 1)) BY <2>1
    <3>2. Max(U) \in U BY <2>1, <2>3, <3>1, GreatestOfIndices
    <3>3. a[Max(U)] = s[Max(U)] BY <2>1, <3>2
    <3>4. f[U] = step[<<f[U \ {Max(U)}], s[Max(U)]>>] BY <1>2, <2>3 DEF IsTable, n
    <3>5. g[U] = step[<<g[U \ {Max(U)}], a[Max(U)]>>] BY <2>1, <2>2, <2>3, <3>1 DEF IsTable
    <3> QED BY <2>3, <3>3, <3>4, <3>5
  <2>4. f[{}] = g[{}]
    <3>1. f[{}] = base BY <1>2 DEF IsTable
    <3>2. g[{}] = base BY <2>2 DEF IsTable
    <3> QED BY <3>1, <3>2
  <2>5. \A U \in SUBSET (1..n) : U # {} /\ f[U \ {Max(U)}] = g[U \ {Max(U)}] => f[U] = g[U]
    BY <2>3
  <2>6. f[1..n] = g[1..n] BY <2>1, <2>4, <2>5, TablesAgree
  <2> DEFINE All == 1..(n + 1)
  <2>7. Max(All) = n + 1 /\ All \ {n + 1} = 1..n /\ All # {}
    <3>1. All \in SUBSET (1..(n + 1)) OBVIOUS
    <3>2. n + 1 \in All BY <2>1
    <3>3. All # {} BY <3>2
    <3>4. Max(All) = n + 1
      <4> HIDE DEF All
      <4> QED BY <2>1, <3>1, <3>2, <3>3, GreatestOfIndices
    <3> QED BY <2>1, <3>3, <3>4
  <2>8. g[All] = step[<<g[All \ {Max(All)}], a[Max(All)]>>] BY <2>1, <2>2, <2>7 DEF IsTable
  <2>9. g[All] = step[<<g[1..n], x>>] BY <2>1, <2>7, <2>8
  <2> QED BY <1>2, <2>1, <2>2, <2>6, <2>9 DEF a, n
<1> QED BY <1>1, <1>3, <1>4

(* Whatever takes the steps of a fold from its base ends in its value. *)
TakesSteps(c, T, step, s) ==
  \A U \in SUBSET (1..Len(s)) :
    U # {} /\ c[U \ {Max(U)}] \in T => c[U] = step[<<c[U \ {Max(U)}], s[Max(U)]>>]

LEMMA WhatFolds ==
  ASSUME NEW E, NEW T, NEW base \in T, NEW step \in Steps(E, T), NEW s \in Seq(E),
         NEW c, c[{}] = base, TakesSteps(c, T, step, s)
  PROVE  c[1..Len(s)] = Folded(step, base, s)
<1>1. PICK f \in Tables(s, T) :
        IsTable(f, step, base, s) /\ f[1..Len(s)] = Folded(step, base, s)
  BY FoldHasTable
<1>2. ASSUME NEW U \in SUBSET (1..Len(s)), U # {}, c[U \ {Max(U)}] = f[U \ {Max(U)}]
      PROVE  c[U] = f[U]
  <2>1. U \ {Max(U)} \in SUBSET (1..Len(s)) BY <1>2, TablesAreTyped
  <2>2. f[U \ {Max(U)}] \in T BY <2>1 DEF Tables
  <2>3. f[U] = step[<<f[U \ {Max(U)}], s[Max(U)]>>] BY <1>1, <1>2 DEF IsTable
  <2> QED BY <1>2, <2>2, <2>3 DEF TakesSteps
<1>3. c[{}] = f[{}] BY <1>1 DEF IsTable
<1>4. \A U \in SUBSET (1..Len(s)) : U # {} /\ c[U \ {Max(U)}] = f[U \ {Max(U)}] => c[U] = f[U]
  BY <1>2
<1>5. Len(s) \in Nat OBVIOUS
<1>6. c[1..Len(s)] = f[1..Len(s)] BY <1>3, <1>4, <1>5, TablesAgree
<1> QED BY <1>1, <1>6
=============================================================================
