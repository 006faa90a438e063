------------------------- MODULE ReplayServiceProofs ------------------------
(***************************************************************************)
(* Proofs about the replay service, for every set of requests and hashes   *)
(* and every cassette: its type invariant, that a commit never fails, that *)
(* no interaction is replayed twice, that recordings are replayed in order,*)
(* and that it refines ReplayContract.  All follow from one inductive      *)
(* invariant, IInv, whose heart is that the request holding the mutex has  *)
(* peeked an interaction that is still the engine's next choice for it.    *)
(* What a session adds up to follows from a second one, TotalsInv.         *)
(***************************************************************************)
EXTENDS ReplayService, CommonLemmas, FiniteSetTheorems

Outcomes == [kind : {"undecided", "matched"} \cup Reasons \cup Rejections, at : Nat]

(* Every earlier recording that competes with i for a request is replayed. *)
EarlierReplayed(i, h) ==
  \A j \in Positions :
    j < i /\ (mode = "SequentialStrict" \/ StableHash(j) = h) => j \in Replayed

(* Exactly the mutex's owner is between locking and unlocking. *)
LockHeld == \A r \in Requests : pc[r] \in {"locked", "peeked"} <=> owner = r

(* A peeked interaction waits for its commit, still unconsumed. *)
PeekStillGood ==
  \A r \in Requests :
    pc[r] = "peeked" =>
      /\ CanCommit(outcome[r].at)
      /\ StableHash(outcome[r].at) = asked[r]
      /\ EarlierReplayed(outcome[r].at, asked[r])
      /\ ~ShapeMissing(r, outcome[r].at)

(* A decision stands where the handler's control flow puts it. *)
DecisionsPlaced ==
  \A r \in Requests :
    /\ pc[r] \in {"peeked", "matched"} => outcome[r].kind = "matched"
    /\ outcome[r].kind = "matched" => pc[r] \in {"peeked", "matched", "done"}

IInv ==
  /\ TypeOK
  /\ LockHeld
  /\ PeekStillGood
  /\ DecisionsPlaced
  /\ CommitNeverFails
  /\ EachInteractionReplayedOnce
  /\ RecordingsReplayedInOrder
  /\ DiagnosticsStayTrue

-----------------------------------------------------------------------------
(* Facts about the engine's operators. *)

LEMMA PositionsAreAnInterval ==
  ASSUME cassette \in Cassettes
  PROVE  /\ Cardinality(Positions) \in Nat
         /\ Positions = 0..(Cardinality(Positions) - 1)
         /\ Positions \subseteq Nat
<1>1. IsFiniteSet(Positions) /\ cassette \in [0..(Cardinality(Positions) - 1) -> Interaction]
  BY CassettesAssumption DEF Positions
<1>2. Cardinality(Positions) \in Nat
  BY <1>1, FS_CardinalityType
<1>3. Positions = 0..(Cardinality(Positions) - 1)
  BY <1>1 DEF Positions
<1> QED BY <1>2, <1>3

LEMMA OldestIsLeast ==
  ASSUME NEW S \in SUBSET Nat, S # {}
  PROVE  Oldest(S) \in S /\ \A j \in S : Oldest(S) <= j
  BY LeastElement DEF Oldest

LEMMA PeekedMatch ==
  ASSUME EngineTypeOK, NEW h, IsMatch(PeekMatch(h))
  PROVE  /\ CanCommit(PeekMatch(h).at)
         /\ StableHash(PeekMatch(h).at) = h
         /\ EarlierReplayed(PeekMatch(h).at, h)
<1>1. Positions \subseteq Nat
  BY PositionsAreAnInterval DEF EngineTypeOK
<1>2. CASE mode = "SequentialStrict"
  <2>1. /\ sequential_cursor \in Positions /\ StableHash(sequential_cursor) = h
        /\ PeekMatch(h).at = sequential_cursor
    BY <1>2 DEF PeekMatch, SequentialCandidate, IsMatch, Matched, Mismatch
  <2> QED BY <2>1, <1>2 DEF CanCommit, EarlierReplayed, Replayed
<1>3. CASE mode # "SequentialStrict"
  <2> DEFINE unused == HashToIndices(h) \ consumed
  <2>1. unused # {} /\ PeekMatch(h).at = Oldest(unused)
    BY <1>3 DEF PeekMatch, KeyedCandidate, IsMatch, Matched, Mismatch
  <2>2. unused \in SUBSET Nat
    BY <1>1 DEF HashToIndices
  <2>3. Oldest(unused) \in unused /\ \A j \in unused : Oldest(unused) <= j
    BY <2>1, <2>2, OldestIsLeast
  <2>4. CanCommit(Oldest(unused)) /\ StableHash(Oldest(unused)) = h
    BY <2>3, <1>3 DEF CanCommit, HashToIndices
  <2>5. EarlierReplayed(Oldest(unused), h)
    <3> SUFFICES ASSUME NEW j \in Positions, j < Oldest(unused), StableHash(j) = h
                 PROVE  j \in consumed
      BY <1>3 DEF EarlierReplayed, Replayed
    <3>1. j \notin unused BY <2>2, <2>3, <1>1
    <3> QED BY <3>1 DEF HashToIndices
  <2> QED BY <2>1, <2>4, <2>5
<1> QED BY <1>2, <1>3

(* What a refusal says is true when it is said. *)
LEMMA PeekedMismatch ==
  ASSUME EngineTypeOK, NEW h, NEW o, o = PeekMatch(h)
  PROVE  /\ o.kind = "cassette_exhausted" => Replayed = Positions
         /\ o.kind = "interaction_already_consumed" =>
              HashToIndices(h) # {} /\ HashToIndices(h) \subseteq Replayed
         /\ o.kind = "no_matching_interaction" => HashToIndices(h) = {}
         /\ o.kind = "request_hash_mismatch" =>
              /\ o.at \in Positions /\ StableHash(o.at) # h
              /\ \A i \in Positions : i < o.at => i \in Replayed
<1>1. CASE mode = "SequentialStrict"
  <2> DEFINE n == Cardinality(Positions)
  <2>1. n \in Nat /\ Positions = 0..(n - 1) /\ sequential_cursor \in Nat
    BY PositionsAreAnInterval DEF EngineTypeOK
  <2> HIDE DEF n
  <2>2. sequential_cursor \notin Positions => \A i \in Positions : i < sequential_cursor
    BY <2>1
  <2> QED BY <1>1, <2>1, <2>2
          DEF PeekMatch, SequentialCandidate, Matched, Mismatch, Replayed
<1>2. CASE mode # "SequentialStrict"
  BY <1>2 DEF PeekMatch, KeyedCandidate, Matched, Mismatch, Replayed
<1> QED BY <1>1, <1>2

LEMMA PeekMatchType ==
  ASSUME EngineTypeOK, NEW h
  PROVE  PeekMatch(h) \in [kind : {"matched"} \cup Reasons, at : Nat]
<1>1. Positions \subseteq Nat /\ Cardinality(Positions) \in Nat
  BY PositionsAreAnInterval DEF EngineTypeOK
<1>2. CASE mode = "SequentialStrict"
  BY <1>1, <1>2 DEF PeekMatch, SequentialCandidate, Matched, Mismatch, Reasons, EngineTypeOK
<1>3. CASE mode # "SequentialStrict"
  <2> DEFINE unused == HashToIndices(h) \ consumed
  <2>1. unused \in SUBSET Nat BY <1>1 DEF HashToIndices
  <2>2. unused # {} => Oldest(unused) \in Nat BY <2>1, OldestIsLeast
  <2> QED BY <1>1, <1>3, <2>2 DEF PeekMatch, KeyedCandidate, Matched, Mismatch, Reasons
<1> QED BY <1>2, <1>3

LEMMA CommitReplays ==
  ASSUME EngineTypeOK, NEW i, CanCommit(i), CommitMatch(i)
  PROVE  /\ EngineTypeOK'
         /\ i \notin Replayed
         /\ Replayed' = Replayed \cup {i}
<1>1. Positions \subseteq Nat
  BY PositionsAreAnInterval DEF EngineTypeOK
<1>2. EngineTypeOK'
  BY <1>1 DEF CommitMatch, CanCommit, EngineTypeOK, Positions
<1>3. i \notin Replayed /\ Replayed' = Replayed \cup {i}
  BY <1>1 DEF CommitMatch, CanCommit, EngineTypeOK, Replayed, Positions
<1> QED BY <1>2, <1>3

-----------------------------------------------------------------------------
(* Type correctness. *)

LEMMA InitTypeOK == Init => TypeOK
  BY DEF Init, TypeOK, EngineInit, EngineTypeOK, Undecided, PCs

LEMMA NextTypeOK == TypeOK /\ [Next]_vars => TypeOK'
<1> SUFFICES ASSUME TypeOK, [Next]_vars PROVE TypeOK' OBVIOUS
<1> USE DEF TypeOK, EngineTypeOK, PCs, Goto, Decide, Rejected, Rejections
<1>1. CASE WithPolicy
  BY <1>1 DEF WithPolicy, engineVars, Positions
<1>2. ASSUME NEW r \in Requests, Handle(r) PROVE TypeOK'
  <2>1. CASE RejectUnreplayableRequestShape(r)
    BY <2>1 DEF RejectUnreplayableRequestShape, engineVars, Positions
  <2>2. CASE CanonicalizeObservedRequest(r)
    BY <2>2 DEF CanonicalizeObservedRequest, engineVars, Positions
  <2>3. CASE LockEngine(r)
    BY <2>3 DEF LockEngine, engineVars, Positions
  <2>4. CASE PeekAndBuild(r)
    BY <2>4, PeekMatchType DEF PeekAndBuild, engineVars, Positions
  <2>5. CASE CommitPeeked(r)
    <3>1. EngineTypeOK'
      <4>1. CASE CanCommit(outcome[r].at)
        BY <2>5, <4>1, CommitReplays DEF CommitPeeked
      <4>2. CASE ~CanCommit(outcome[r].at)
        BY <2>5, <4>2 DEF CommitPeeked, CommitMatch, Positions
      <4> QED BY <4>1, <4>2
    <3> QED BY <2>5, <3>1 DEF CommitPeeked
  <2>6. CASE LogMatch(r)
    BY <2>6 DEF LogMatch, engineVars, Positions
  <2>7. CASE LogMismatch(r)
    BY <2>7 DEF LogMismatch, engineVars, Positions
  <2> QED BY <1>2, <2>1, <2>2, <2>3, <2>4, <2>5, <2>6, <2>7 DEF Handle
<1>3. CASE UNCHANGED vars
  BY <1>3 DEF vars, serviceVars, engineVars, Positions
<1> QED BY <1>1, <1>2, <1>3 DEF Next

(* Every reachable state is well typed: positions stay inside the          *)
(* cassette, and every request is at one point of its handler.             *)
THEOREM TypeCorrect == Spec => []TypeOK
<1>1. Init => TypeOK BY InitTypeOK
<1>2. TypeOK /\ [Next]_vars => TypeOK' BY NextTypeOK
<1> QED BY <1>1, <1>2, PTL DEF Spec

-----------------------------------------------------------------------------
(* The inductive invariant. *)

LEMMA InitNothingReplayed == Init => Replayed = {}
<1> SUFFICES ASSUME Init PROVE Replayed = {} OBVIOUS
<1>1. Positions \subseteq Nat BY PositionsAreAnInterval DEF Init, EngineInit
<1>2. \A i \in Positions : ~(i < sequential_cursor) BY <1>1 DEF Init, EngineInit
<1> QED BY <1>2 DEF Init, EngineInit, Replayed

LEMMA InitIInv == Init => IInv
<1> SUFFICES ASSUME Init PROVE IInv OBVIOUS
<1>1. TypeOK BY InitTypeOK
<1>2. Replayed = {} BY InitNothingReplayed
<1>3. \A r \in Requests : pc[r] = "new" /\ outcome[r].kind = "undecided"
  BY DEF Init, Undecided
<1>4. LockHeld BY <1>3, RequestsAssumption DEF Init, LockHeld
<1>5. PeekStillGood /\ DecisionsPlaced /\ CommitNeverFails
  BY <1>3 DEF PeekStillGood, DecisionsPlaced, CommitNeverFails
<1>6. EachInteractionReplayedOnce /\ RecordingsReplayedInOrder
  BY <1>2, <1>3 DEF EachInteractionReplayedOnce, RecordingsReplayedInOrder, Spent
<1>7. DiagnosticsStayTrue
  BY <1>3 DEF DiagnosticsStayTrue
<1> QED BY <1>1, <1>4, <1>5, <1>6, <1>7 DEF IInv

(* Steps that neither touch the engine nor take or leave the mutex nor     *)
(* decide a match: only r's place, and perhaps its rejection, change.      *)
LEMMA QuietStep ==
  ASSUME IInv, TypeOK', UNCHANGED <<engineVars, asked, owner>>,
         NEW r \in Requests, NEW here, NEW there,
         Goto(r, here, there),
         here \notin {"locked", "peeked"}, there \notin {"locked", "peeked", "matched"},
         \/ outcome' = outcome /\ (outcome[r].kind = "matched" => there = "done" /\ here = "matched")
         \/ Decide(r, Rejected("malformed_json")) /\ outcome[r].kind # "matched"
  PROVE  IInv'
<1> USE DEF TypeOK, Goto, Decide, Rejected
<1>1. /\ UNCHANGED <<cassette, mode, sequential_cursor, consumed, asked, owner>>
      /\ \A s \in Requests \ {r} : pc'[s] = pc[s] /\ outcome'[s] = outcome[s]
      /\ pc[r] = here /\ pc'[r] = there
  BY DEF IInv, engineVars
<1>2. /\ outcome'[r].kind = "matched" => outcome'[r] = outcome[r]
      /\ outcome'[r].kind \in Reasons => outcome'[r] = outcome[r]
      /\ outcome[r].kind = "matched" => outcome'[r] = outcome[r]
      /\ outcome'[r].kind = "internal" => outcome'[r] = outcome[r]
  BY DEF IInv, Reasons
<1>3. \A s \in Requests : Spent(s)' <=> Spent(s)
  BY <1>1, <1>2 DEF Spent, IInv, DecisionsPlaced
<1>4. LockHeld'
  BY <1>1 DEF IInv, LockHeld
<1>5. PeekStillGood'
  BY <1>1 DEF IInv, PeekStillGood, ShapeMissing, CanCommit, StableHash, EarlierReplayed, Replayed, Positions
<1>6. DecisionsPlaced'
  BY <1>1, <1>2 DEF IInv, DecisionsPlaced
<1>7. CommitNeverFails'
  BY <1>1, <1>2 DEF IInv, CommitNeverFails
<1>8. \A s \in Requests : Spent(s) => outcome'[s] = outcome[s]
  BY <1>1, <1>2 DEF Spent
<1>9. EachInteractionReplayedOnce'
  BY <1>1, <1>3, <1>8 DEF IInv, EachInteractionReplayedOnce, Replayed, Positions
<1>10. RecordingsReplayedInOrder'
  BY <1>1, <1>3, <1>8 DEF IInv, RecordingsReplayedInOrder, StableHash, Replayed, Positions
<1>11. DiagnosticsStayTrue'
  <2>1. \A s \in Requests : outcome'[s].kind \in Reasons => outcome'[s] = outcome[s]
    BY <1>1, <1>2
  <2>2. /\ Replayed' = Replayed /\ Positions' = Positions
        /\ cassette' = cassette /\ asked' = asked
    BY <1>1 DEF Replayed, Positions
  <2> SUFFICES ASSUME NEW s \in Requests, outcome'[s] = outcome[s]
      PROVE  LET o == outcome[s] IN
             /\ o.kind = "cassette_exhausted" => Replayed = Positions
             /\ o.kind = "interaction_already_consumed" =>
                  HashToIndices(asked[s]) # {} /\ HashToIndices(asked[s]) \subseteq Replayed
             /\ o.kind = "no_matching_interaction" => HashToIndices(asked[s]) = {}
             /\ o.kind = "request_hash_mismatch" =>
                  /\ o.at \in Positions /\ StableHash(o.at) # asked[s]
                  /\ \A i \in Positions : i < o.at => i \in Replayed
    BY <2>1, <2>2 DEF DiagnosticsStayTrue, StableHash, HashToIndices, Reasons
  <2> QED BY DEF IInv, DiagnosticsStayTrue
<1> QED BY <1>4, <1>5, <1>6, <1>7, <1>9, <1>10, <1>11 DEF IInv

LEMMA LockEngineStep ==
  ASSUME IInv, TypeOK', NEW r \in Requests, LockEngine(r)
  PROVE  IInv'
<1> USE DEF TypeOK, Goto
<1>1. /\ UNCHANGED <<cassette, mode, sequential_cursor, consumed, asked, outcome>>
      /\ \A s \in Requests \ {r} : pc'[s] = pc[s]
      /\ pc[r] = "canonical" /\ pc'[r] = "locked"
      /\ owner = NoOne /\ owner' = r
  BY DEF IInv, LockEngine, engineVars
<1>2. \A s \in Requests : Spent(s)' <=> Spent(s)
  BY <1>1 DEF Spent
<1>3. LockHeld'
  BY <1>1, RequestsAssumption DEF IInv, LockHeld
<1>4. PeekStillGood'
  BY <1>1 DEF IInv, PeekStillGood, ShapeMissing, CanCommit, StableHash, EarlierReplayed, Replayed, Positions
<1>5. DecisionsPlaced' /\ CommitNeverFails'
  BY <1>1 DEF IInv, DecisionsPlaced, CommitNeverFails
<1>6. EachInteractionReplayedOnce' /\ RecordingsReplayedInOrder'
  BY <1>1, <1>2 DEF IInv, EachInteractionReplayedOnce, RecordingsReplayedInOrder,
                    StableHash, Replayed, Positions
<1>7. DiagnosticsStayTrue'
  BY <1>1 DEF IInv, DiagnosticsStayTrue, StableHash, HashToIndices, Replayed, Positions
<1> QED BY <1>3, <1>4, <1>5, <1>6, <1>7 DEF IInv

(* The peek decides under the mutex; nothing is consumed yet. *)
LEMMA PeekAndBuildStep ==
  ASSUME IInv, TypeOK', NEW r \in Requests, PeekAndBuild(r)
  PROVE  IInv'
<1> DEFINE found == PeekMatch(asked[r])
<1>1. EngineTypeOK /\ found \in [kind : {"matched"} \cup Reasons, at : Nat]
  BY PeekMatchType DEF IInv, TypeOK
<1>2. IsMatch(found) => /\ CanCommit(found.at)
                        /\ StableHash(found.at) = asked[r]
                        /\ EarlierReplayed(found.at, asked[r])
  BY <1>1, PeekedMatch
<1>3. /\ found.kind = "cassette_exhausted" => Replayed = Positions
      /\ found.kind = "interaction_already_consumed" =>
           HashToIndices(asked[r]) # {} /\ HashToIndices(asked[r]) \subseteq Replayed
      /\ found.kind = "no_matching_interaction" => HashToIndices(asked[r]) = {}
      /\ found.kind = "request_hash_mismatch" =>
           /\ found.at \in Positions /\ StableHash(found.at) # asked[r]
           /\ \A i \in Positions : i < found.at => i \in Replayed
  BY <1>1, PeekedMismatch
<1>4. /\ UNCHANGED <<cassette, mode, sequential_cursor, consumed, asked>>
      /\ \A s \in Requests \ {r} : pc'[s] = pc[s] /\ outcome'[s] = outcome[s]
      /\ pc[r] = "locked" /\ outcome[r].kind # "matched" /\ owner = r
      /\ \/ /\ IsMatch(found) /\ ~ShapeMissing(r, found.at)
            /\ pc'[r] = "peeked" /\ outcome'[r] = found /\ owner' = r
         \/ pc'[r] = "done" /\ outcome'[r] = Rejected("stream_cassette_required") /\ owner' = NoOne
         \/ ~IsMatch(found) /\ pc'[r] = "mismatched" /\ outcome'[r] = found /\ owner' = NoOne
  <2>1. /\ UNCHANGED <<cassette, mode, sequential_cursor, consumed, asked>>
        /\ \A s \in Requests \ {r} : pc'[s] = pc[s] /\ outcome'[s] = outcome[s]
        /\ pc[r] = "locked"
    BY DEF IInv, TypeOK, PeekAndBuild, Goto, Decide, engineVars
  <2>2. outcome[r].kind # "matched" /\ owner = r
    BY <2>1 DEF IInv, DecisionsPlaced, LockHeld
  <2>3. \/ /\ IsMatch(found) /\ ~ShapeMissing(r, found.at)
           /\ pc'[r] = "peeked" /\ outcome'[r] = found /\ owner' = r
        \/ pc'[r] = "done" /\ outcome'[r] = Rejected("stream_cassette_required") /\ owner' = NoOne
        \/ ~IsMatch(found) /\ pc'[r] = "mismatched" /\ outcome'[r] = found /\ owner' = NoOne
    BY <2>2 DEF IInv, TypeOK, PeekAndBuild, Goto, Decide
  <2> QED BY <2>1, <2>2, <2>3
<1> HIDE DEF found
<1>5. \A s \in Requests : Spent(s)' <=> Spent(s)
  BY <1>4 DEF Spent, IsMatch, Rejected
<1>6. LockHeld'
  BY <1>4, RequestsAssumption DEF IInv, LockHeld
<1>7. PeekStillGood'
  BY <1>2, <1>4 DEF IInv, PeekStillGood, ShapeMissing, CanCommit, StableHash, EarlierReplayed, Replayed, Positions
<1>8. DecisionsPlaced' /\ CommitNeverFails'
  BY <1>1, <1>4 DEF IInv, DecisionsPlaced, CommitNeverFails, IsMatch, Rejected, Reasons
<1>9. \A s \in Requests : Spent(s) => outcome'[s] = outcome[s]
  BY <1>4 DEF Spent
<1>10. EachInteractionReplayedOnce'
  BY <1>4, <1>5, <1>9 DEF IInv, EachInteractionReplayedOnce, Replayed, Positions
<1>11. RecordingsReplayedInOrder'
  BY <1>4, <1>5, <1>9 DEF IInv, RecordingsReplayedInOrder, StableHash, Replayed, Positions
<1>12. DiagnosticsStayTrue'
  <2> SUFFICES ASSUME NEW s \in Requests
      PROVE  LET o == outcome'[s] IN
             /\ o.kind = "cassette_exhausted" => Replayed = Positions
             /\ o.kind = "interaction_already_consumed" =>
                  HashToIndices(asked[s]) # {} /\ HashToIndices(asked[s]) \subseteq Replayed
             /\ o.kind = "no_matching_interaction" => HashToIndices(asked[s]) = {}
             /\ o.kind = "request_hash_mismatch" =>
                  /\ o.at \in Positions /\ StableHash(o.at) # asked[s]
                  /\ \A i \in Positions : i < o.at => i \in Replayed
    BY <1>4 DEF DiagnosticsStayTrue, StableHash, HashToIndices, Replayed, Positions
  <2>1. CASE s = r
    BY <2>1, <1>3, <1>4 DEF IsMatch, Rejected
  <2>2. CASE s # r
    BY <2>2, <1>4 DEF IInv, DiagnosticsStayTrue
  <2> QED BY <2>1, <2>2
<1> QED BY <1>6, <1>7, <1>8, <1>10, <1>11, <1>12 DEF IInv

(* The commit consumes what was peeked: the mutex kept it available. *)
LEMMA CommitPeekedStep ==
  ASSUME IInv, TypeOK', NEW r \in Requests, CommitPeeked(r)
  PROVE  IInv'
<1> DEFINE i == outcome[r].at
<1>1. /\ pc[r] = "peeked" /\ owner = r /\ outcome[r].kind = "matched"
      /\ CanCommit(i) /\ StableHash(i) = asked[r] /\ EarlierReplayed(i, asked[r])
      /\ CommitMatch(i)
  BY DEF IInv, CommitPeeked, Goto, LockHeld, PeekStillGood, DecisionsPlaced
<1>2. i \notin Replayed /\ Replayed' = Replayed \cup {i}
  BY <1>1, CommitReplays DEF IInv, TypeOK
<1>3. /\ UNCHANGED <<cassette, mode, asked, outcome>>
      /\ \A s \in Requests \ {r} : pc'[s] = pc[s]
      /\ pc'[r] = "matched" /\ owner' = NoOne
  BY <1>1 DEF IInv, TypeOK, CommitPeeked, Goto, Decide, CommitMatch
<1>4. \A s \in Requests \ {r} : pc[s] \notin {"locked", "peeked"}
  BY <1>1 DEF IInv, LockHeld
<1>5. \A s \in Requests : Spent(s)' <=> Spent(s) \/ s = r
  BY <1>1, <1>3 DEF Spent
<1>6. LockHeld' /\ PeekStillGood'
  BY <1>3, <1>4, RequestsAssumption DEF LockHeld, PeekStillGood
<1>7. DecisionsPlaced' /\ CommitNeverFails'
  BY <1>1, <1>3 DEF IInv, DecisionsPlaced, CommitNeverFails
<1>8. EachInteractionReplayedOnce'
  <2>1. \A s \in Requests : Spent(s) => outcome[s].at \in Replayed
    BY DEF IInv, EachInteractionReplayedOnce
  <2>2. \A s, t \in Requests :
          Spent(s)' /\ Spent(t)' /\ outcome'[s].at = outcome'[t].at => s = t
    BY <1>2, <1>3, <1>5, <2>1 DEF IInv, EachInteractionReplayedOnce
  <2>3. {outcome'[s].at : s \in {t \in Requests : Spent(t)'}}
          = {outcome[s].at : s \in {t \in Requests : Spent(t)}} \cup {i}
    BY <1>3, <1>5
  <2> QED BY <1>2, <2>2, <2>3 DEF IInv, EachInteractionReplayedOnce
<1>9. RecordingsReplayedInOrder'
  <2> SUFFICES ASSUME NEW s \in Requests, Spent(s)',
                      NEW j \in Positions, j < outcome[s].at,
                      mode = "SequentialStrict" \/ StableHash(j) = asked[s]
               PROVE  StableHash(outcome[s].at) = asked[s] /\ j \in Replayed
    BY <1>1, <1>2, <1>3, <1>5 DEF IInv, RecordingsReplayedInOrder, StableHash, Positions
  <2>1. CASE s = r
    BY <2>1, <1>1 DEF EarlierReplayed
  <2>2. CASE s # r
    BY <2>2, <1>5 DEF IInv, RecordingsReplayedInOrder
  <2> QED BY <2>1, <2>2
<1>10. DiagnosticsStayTrue'
  <2>1. Replayed' \subseteq Positions
    BY <1>1, <1>2, <1>3 DEF IInv, TypeOK, EngineTypeOK, Replayed, CanCommit, Positions
  <2>2. Replayed \subseteq Replayed' /\ Positions' = Positions
    BY <1>2, <1>3 DEF Positions
  <2> HIDE DEF i
  <2> QED BY <1>3, <2>1, <2>2 DEF IInv, DiagnosticsStayTrue, StableHash, HashToIndices, Positions
<1> QED BY <1>6, <1>7, <1>8, <1>9, <1>10 DEF IInv

LEMMA NextIInv == IInv /\ [Next]_vars => IInv'
<1> SUFFICES ASSUME IInv, [Next]_vars PROVE IInv' OBVIOUS
<1>1. TypeOK' BY NextTypeOK DEF IInv
<1>2. ASSUME UNCHANGED <<engineVars, asked, pc, outcome, owner>> PROVE IInv'
  <2>1. UNCHANGED <<cassette, mode, sequential_cursor, consumed, asked, pc, outcome, owner>>
    BY <1>2 DEF engineVars
  <2>2. \A r \in Requests : Spent(r)' <=> Spent(r) BY <2>1 DEF Spent
  <2>3. LockHeld' /\ DecisionsPlaced' /\ CommitNeverFails'
    BY <2>1 DEF IInv, LockHeld, DecisionsPlaced, CommitNeverFails
  <2>4. PeekStillGood'
    BY <2>1 DEF IInv, PeekStillGood, ShapeMissing, CanCommit, StableHash, EarlierReplayed, Replayed, Positions
  <2>5. EachInteractionReplayedOnce' /\ RecordingsReplayedInOrder'
    BY <2>1, <2>2 DEF IInv, EachInteractionReplayedOnce, RecordingsReplayedInOrder,
                      StableHash, Replayed, Positions
  <2>6. DiagnosticsStayTrue'
    BY <2>1 DEF IInv, DiagnosticsStayTrue, StableHash, HashToIndices, Replayed, Positions
  <2> QED BY <1>1, <2>3, <2>4, <2>5, <2>6 DEF IInv
<1>3. CASE WithPolicy
  BY <1>2, <1>3 DEF WithPolicy
<1>4. ASSUME NEW r \in Requests, Handle(r) PROVE IInv'
  <2> USE DEF IInv, DecisionsPlaced
  <2>1. CASE RejectUnreplayableRequestShape(r)
    BY <1>1, <2>1, QuietStep DEF RejectUnreplayableRequestShape, Goto
  <2>2. CASE CanonicalizeObservedRequest(r)
    <3>1. outcome[r].kind # "matched" BY <2>2 DEF CanonicalizeObservedRequest, Goto
    <3> QED BY <1>1, <2>2, <3>1, QuietStep DEF CanonicalizeObservedRequest
  <2>3. CASE LockEngine(r)
    BY <1>1, <2>3, LockEngineStep
  <2>4. CASE PeekAndBuild(r)
    BY <1>1, <2>4, PeekAndBuildStep
  <2>5. CASE CommitPeeked(r)
    BY <1>1, <2>5, CommitPeekedStep
  <2>6. CASE LogMatch(r)
    BY <1>1, <2>6, QuietStep DEF LogMatch
  <2>7. CASE LogMismatch(r)
    <3>1. outcome[r].kind # "matched" BY <2>7 DEF LogMismatch, Goto
    <3> QED BY <1>1, <2>7, <3>1, QuietStep DEF LogMismatch
  <2> QED BY <1>4, <2>1, <2>2, <2>3, <2>4, <2>5, <2>6, <2>7 DEF Handle
<1>5. CASE UNCHANGED vars
  BY <1>2, <1>5 DEF vars, serviceVars
<1> QED BY <1>3, <1>4, <1>5 DEF Next

LEMMA AlwaysIInv == Spec => []IInv
<1>1. Init => IInv BY InitIInv
<1>2. IInv /\ [Next]_vars => IInv' BY NextIInv
<1> QED BY <1>1, <1>2, PTL DEF Spec

(* No interaction is replayed to two requests, and a refused request       *)
(* consumes nothing.                                                       *)
THEOREM ReplayedOnce == Spec => []EachInteractionReplayedOnce
<1>1. IInv => EachInteractionReplayedOnce BY DEF IInv
<1> QED BY <1>1, AlwaysIInv, PTL

(* The internal error of a commit that finds its match gone cannot occur.  *)
THEOREM CommitSafe == Spec => []CommitNeverFails
<1>1. IInv => CommitNeverFails BY DEF IInv
<1> QED BY <1>1, AlwaysIInv, PTL

(* A request is answered from a recording of its own hash, and no          *)
(* competing earlier recording is left behind.                             *)
THEOREM InOrder == Spec => []RecordingsReplayedInOrder
<1>1. IInv => RecordingsReplayedInOrder BY DEF IInv
<1> QED BY <1>1, AlwaysIInv, PTL

(* A mismatch diagnostic stays true after it was sent. *)
THEOREM DiagnosticsSound == Spec => []DiagnosticsStayTrue
<1>1. IInv => DiagnosticsStayTrue BY DEF IInv
<1> QED BY <1>1, AlwaysIInv, PTL

-----------------------------------------------------------------------------
(* The service implements the contract.  The step that answers a request   *)
(* is its commit, its peek when that refuses, or its rejection; every      *)
(* other step leaves the contract's state alone.                           *)

(* What the engine picks is all the contract may offer. *)
LEMMA PeekIsTheOffer ==
  ASSUME EngineTypeOK, NEW h
  PROVE  Contract!Offered(h) = IF IsMatch(PeekMatch(h)) THEN {PeekMatch(h).at} ELSE {}
<1>1. Positions \subseteq Nat
  BY PositionsAreAnInterval DEF EngineTypeOK
<1>2. CASE mode = "SequentialStrict"
  <2> DEFINE n == Cardinality(Positions)
  <2>1. n \in Nat /\ Positions = 0..(n - 1) /\ sequential_cursor \in Nat
    BY PositionsAreAnInterval DEF EngineTypeOK
  <2> HIDE DEF n
  <2>2. Positions \ Replayed = sequential_cursor..(n - 1)
    BY <1>2, <2>1 DEF Replayed
  <2>3. Contract!Offered(h) = {i \in sequential_cursor..(n - 1) :
           cassette[i].hash = h /\ \A j \in sequential_cursor..(n - 1) : i <= j}
    BY <1>2, <2>2 DEF Contract!Offered
  <2>4. \A i \in sequential_cursor..(n - 1) :
          (\A j \in sequential_cursor..(n - 1) : i <= j) <=> i = sequential_cursor
    BY <2>1
  <2>5. sequential_cursor \in Positions <=> sequential_cursor \in sequential_cursor..(n - 1)
    BY <2>1
  <2> QED BY <1>2, <2>3, <2>4, <2>5
          DEF PeekMatch, SequentialCandidate, Matched, Mismatch, IsMatch, StableHash
<1>3. CASE mode # "SequentialStrict"
  <2> DEFINE unused == HashToIndices(h) \ consumed
  <2>1. Contract!Offered(h) = {i \in unused : \A j \in unused : i <= j}
    BY <1>3 DEF Contract!Offered, Replayed, HashToIndices, StableHash
  <2>2. unused \in SUBSET Nat BY <1>1 DEF HashToIndices
  <2>3. unused # {} => Oldest(unused) \in unused /\ \A j \in unused : Oldest(unused) <= j
    BY <2>2, OldestIsLeast
  <2>4. unused # {} => Contract!Offered(h) = {Oldest(unused)}
    BY <2>1, <2>2, <2>3
  <2> HIDE DEF unused
  <2>5. unused = {} => Contract!Offered(h) = {} BY <2>1
  <2> USE DEF unused
  <2>6. CASE unused = {}
    BY <1>3, <2>5, <2>6 DEF PeekMatch, KeyedCandidate, Matched, Mismatch, IsMatch
  <2>7. CASE unused # {}
    BY <1>3, <2>4, <2>7 DEF PeekMatch, KeyedCandidate, Matched, Mismatch, IsMatch
  <2> QED BY <2>6, <2>7
<1> QED BY <1>2, <1>3

LEMMA InitContract == Init => Contract!Init
<1> SUFFICES ASSUME Init PROVE Contract!Init OBVIOUS
<1>1. Positions \ Replayed = Positions
  BY InitNothingReplayed
<1>2. Answer = [r \in Requests |-> -1]
  BY DEF Init, Answer, Spent
<1> QED BY <1>1, <1>2
        DEF Init, EngineInit, Contract!Init, Contract!Unanswered, Positions, Modes

(* A step that leaves the engine and the answers alone is a stutter. *)
LEMMA ContractStutter ==
  ASSUME UNCHANGED <<cassette, mode, sequential_cursor, consumed, asked>>,
         Answer' = Answer
  PROVE  UNCHANGED Contract!contractVars
BY DEF Contract!contractVars, Replayed, Positions

(* A request that may not be answered from the stock is refused. *)
LEMMA ContractRefuse ==
  ASSUME UNCHANGED <<cassette, mode, sequential_cursor, consumed, asked>>,
         NEW r \in Requests, Answer[r] = -1, Contract!Answerable(r) = {},
         Answer' = [Answer EXCEPT ![r] = -2]
  PROVE  Contract!Next
<1>1. Contract!Refuse(r)
  BY DEF Contract!Refuse, Contract!Unanswered, Contract!Refused, Replayed, Positions
<1> QED BY <1>1 DEF Contract!Next

LEMMA StepContract == IInv /\ [Next]_vars => [Contract!Next]_Contract!contractVars
<1> SUFFICES ASSUME IInv, [Next]_vars, UNCHANGED Contract!contractVars => FALSE
             PROVE  Contract!Next
  OBVIOUS
<1> USE DEF IInv, TypeOK
<1>1. CASE WithPolicy
  BY <1>1, ContractStutter DEF WithPolicy, engineVars, Answer, Spent
<1>2. CASE UNCHANGED vars
  BY <1>2, ContractStutter DEF vars, serviceVars, engineVars, Answer, Spent
<1>3. ASSUME NEW r \in Requests, Handle(r) PROVE Contract!Next
  <2> USE DEF Goto, Decide
  <2>1. CASE RejectUnreplayableRequestShape(r)
    <3>1. Contract!Answerable(r) = {}
      <4>1. \A i \in Positions : cassette[i].hash # MalformedBody
        BY CassettesAssumption, RequestsAssumption DEF EngineTypeOK, Positions, Interaction
      <4> QED BY <2>1, <4>1 DEF RejectUnreplayableRequestShape,
                                Contract!Answerable, Contract!Offered
    <3>2. Answer[r] = -1 /\ Answer' = [Answer EXCEPT ![r] = -2]
      BY <2>1 DEF RejectUnreplayableRequestShape, Answer, Spent, Rejected
    <3> QED BY <2>1, <3>1, <3>2, ContractRefuse
            DEF RejectUnreplayableRequestShape, engineVars
  <2>2. CASE CanonicalizeObservedRequest(r)
    BY <2>2, ContractStutter DEF CanonicalizeObservedRequest, engineVars, Answer, Spent
  <2>3. CASE LockEngine(r)
    BY <2>3, ContractStutter DEF LockEngine, engineVars, Answer, Spent
  <2>4. CASE PeekAndBuild(r)
    <3> DEFINE found == PeekMatch(asked[r])
    <3>1. Contract!Offered(asked[r]) = IF IsMatch(found) THEN {found.at} ELSE {}
      BY PeekIsTheOffer
    <3> HIDE DEF found
    <3>2. /\ UNCHANGED <<cassette, mode, sequential_cursor, consumed, asked>>
          /\ pc[r] = "locked" /\ Answer[r] = -1
      BY <2>4 DEF PeekAndBuild, engineVars, Answer, Spent
    <3>3. CASE IsMatch(found) /\ ~ShapeMissing(r, found.at)
      <4>1. Answer' = Answer
        BY <2>4, <3>2, <3>3 DEF PeekAndBuild, Answer, Spent, found
      <4> QED BY <3>2, <4>1, ContractStutter
    <3>4. CASE IsMatch(found) /\ ShapeMissing(r, found.at)
      <4>1. Contract!Answerable(r) = {}
        BY <3>1, <3>4 DEF Contract!Answerable, Contract!Playable, ShapeMissing
      <4>2. Answer' = [Answer EXCEPT ![r] = -2]
        <5>1. /\ pc' = [pc EXCEPT ![r] = "done"]
              /\ outcome' = [outcome EXCEPT ![r] = Rejected("stream_cassette_required")]
          BY <2>4, <3>4 DEF PeekAndBuild, found
        <5>2. \A s \in Requests \ {r} : Spent(s)' <=> Spent(s)
          BY <5>1 DEF Spent
        <5> QED BY <3>2, <5>1, <5>2 DEF Answer, Spent, Rejected
      <4> QED BY <3>2, <4>1, <4>2, ContractRefuse
    <3>5. CASE ~IsMatch(found)
      <4>1. Contract!Answerable(r) = {}
        BY <3>1, <3>5 DEF Contract!Answerable
      <4>2. Answer' = [Answer EXCEPT ![r] = -2]
        <5>1. /\ pc' = [pc EXCEPT ![r] = "mismatched"]
              /\ outcome' = [outcome EXCEPT ![r] = found]
          BY <2>4, <3>5 DEF PeekAndBuild, found
        <5>2. \A s \in Requests \ {r} : Spent(s)' <=> Spent(s)
          BY <5>1 DEF Spent
        <5> QED BY <3>2, <3>5, <5>1, <5>2 DEF Answer, Spent, IsMatch
      <4> QED BY <3>2, <4>1, <4>2, ContractRefuse
    <3> QED BY <3>3, <3>4, <3>5
  <2>5. CASE CommitPeeked(r)
    <3> DEFINE i == outcome[r].at
    <3>1. /\ pc[r] = "peeked" /\ CanCommit(i) /\ CommitMatch(i)
          /\ StableHash(i) = asked[r] /\ EarlierReplayed(i, asked[r])
          /\ ~ShapeMissing(r, i) /\ outcome[r].kind = "matched"
      BY <2>5 DEF CommitPeeked, PeekStillGood, DecisionsPlaced
    <3>2. i \in Positions \ Replayed /\ Replayed' = Replayed \cup {i}
      BY <3>1, CommitReplays DEF CanCommit
    <3>3. UNCHANGED <<cassette, mode, asked>>
      BY <2>5, <3>1 DEF CommitPeeked, CommitMatch
    <3>4. Answer[r] = -1 /\ Answer' = [Answer EXCEPT ![r] = i]
      BY <2>5, <3>1 DEF CommitPeeked, Answer, Spent
    <3>5. i \in Contract!Answerable(r)
      <4>1. Positions \subseteq Nat BY PositionsAreAnInterval DEF EngineTypeOK
      <4>2. \A j \in Positions \ Replayed :
              mode = "SequentialStrict" \/ cassette[j].hash = asked[r] => i <= j
        BY <3>1, <3>2, <4>1 DEF EarlierReplayed, StableHash
      <4>3. cassette \in [Positions -> Interaction]
        BY CassettesAssumption DEF EngineTypeOK, Positions
      <4>4. Contract!Playable(i, asked[r])
        BY <3>1, <3>2, <4>3 DEF Contract!Playable, ShapeMissing, Interaction, Shapes
      <4> QED BY <3>1, <3>2, <4>2, <4>4
              DEF Contract!Answerable, Contract!Offered, StableHash
    <3> HIDE DEF i
    <3>6. (Positions \ Replayed)' = (Positions \ Replayed) \ {i}
      BY <3>2, <3>3 DEF Positions
    <3>7. Contract!Replay(r)
      BY <3>3, <3>4, <3>5, <3>6 DEF Contract!Replay, Contract!Unanswered
    <3> QED BY <3>7 DEF Contract!Next
  <2>6. CASE LogMatch(r)
    <3>1. Answer' = Answer BY <2>6 DEF LogMatch, Answer, Spent, DecisionsPlaced
    <3> QED BY <2>6, <3>1, ContractStutter DEF LogMatch, engineVars
  <2>7. CASE LogMismatch(r)
    <3>1. Answer' = Answer BY <2>7 DEF LogMismatch, Answer, Spent, DecisionsPlaced
    <3> QED BY <2>7, <3>1, ContractStutter DEF LogMismatch, engineVars
  <2> QED BY <1>3, <2>1, <2>2, <2>3, <2>4, <2>5, <2>6, <2>7 DEF Handle
<1> QED BY <1>1, <1>2, <1>3 DEF Next

(* Whatever the requests, the cassette and the interleaving, the service   *)
(* behaves as the contract: one atomic answer per request.                 *)
THEOREM Implementation == Spec => ImplementsContract
<1>1. Init => Contract!Init BY InitContract
<1>2. IInv /\ [Next]_vars => [Contract!Next]_Contract!contractVars BY StepContract
<1> QED BY <1>1, <1>2, AlwaysIInv, PTL DEF Spec, ImplementsContract, Contract!Spec

-----------------------------------------------------------------------------
(* What a whole replay session adds up to: the two counters trail the      *)
(* engine by the handlers that have yet to log, and keyed replay forgives  *)
(* the order in which requests arrive.  TotalsInv, inductive with the help *)
(* of IInv, carries both.                                                  *)


(* A refusal stands where the handler's control flow puts it, and says     *)
(* what its kind of refusal can be about.                                  *)
RefusalsPlaced ==
  \A r \in Requests :
    /\ outcome[r].kind = "undecided" <=> pc[r] \in {"new", "canonical", "locked"}
    /\ pc[r] = "mismatched" => outcome[r].kind \in Reasons
    /\ outcome[r].kind \in Reasons => pc[r] \in {"mismatched", "done"}
    /\ outcome[r].kind = "malformed_json" => asked[r] = MalformedBody
    /\ outcome[r].kind = "request_hash_mismatch" => mode = "SequentialStrict"

(* The next recording of a hash is one that no stream request may take.    *)
Blocked(h) ==
  LET left == HashToIndices(h) \ Replayed
  IN  left # {} /\ cassette[Oldest(left)].shape = "NonStream"

(* A hash whose stream request was refused for shape stays blocked.        *)
WrongShapeBlocks ==
  \A r \in Requests :
    mode = "Keyed" /\ outcome[r].kind = "stream_cassette_required" =>
      asked[r] \in StreamHashes /\ Blocked(asked[r])

(* The sets the counters count, finite since finitely many requests came.  *)
Started == {r \in Requests : pc[r] # "new"}
UnloggedMatches == {r \in Requests : pc[r] = "matched"}
UnloggedMismatches == {r \in Requests : pc[r] = "mismatched"}
Refused == {r \in Requests : outcome[r].kind \in Reasons}

CountsTrail ==
  /\ IsFiniteSet(Started)
  /\ matched_count + Cardinality(UnloggedMatches) = Cardinality(Replayed)
  /\ mismatch_count + Cardinality(UnloggedMismatches) = Cardinality(Refused)

TotalsInv == RefusalsPlaced /\ WrongShapeBlocks /\ CountsTrail
-----------------------------------------------------------------------------
(* What a step of a handler does, seen from the totals. *)

StaysQuiet ==
  /\ Replayed' = Replayed
  /\ matched_count' = matched_count /\ mismatch_count' = mismatch_count

HandlerMoves(r) ==
  /\ pc[r] \in {"new", "canonical"} /\ pc'[r] \in {"canonical", "locked"}
  /\ outcome'[r] = outcome[r] /\ StaysQuiet

BodyIsRejected(r) ==
  /\ pc[r] = "new" /\ pc'[r] = "done"
  /\ outcome'[r].kind = "malformed_json" /\ asked[r] = MalformedBody /\ StaysQuiet

PeekFinds(r) ==
  /\ pc[r] = "locked" /\ pc'[r] = "peeked"
  /\ outcome'[r] = PeekMatch(asked[r]) /\ outcome'[r].kind = "matched" /\ StaysQuiet

ShapeIsRefused(r) ==
  /\ pc[r] = "locked" /\ pc'[r] = "done"
  /\ outcome'[r].kind = "stream_cassette_required"
  /\ IsMatch(PeekMatch(asked[r])) /\ ShapeMissing(r, PeekMatch(asked[r]).at) /\ StaysQuiet

PeekRefuses(r) ==
  /\ pc[r] = "locked" /\ pc'[r] = "mismatched"
  /\ outcome'[r] = PeekMatch(asked[r]) /\ outcome'[r].kind \in Reasons /\ StaysQuiet

MatchIsCommitted(r) ==
  /\ pc[r] = "peeked" /\ pc'[r] = "matched" /\ outcome'[r] = outcome[r]
  /\ outcome[r].at \notin Replayed /\ Replayed' = Replayed \cup {outcome[r].at}
  /\ matched_count' = matched_count /\ mismatch_count' = mismatch_count

MatchIsLogged(r) ==
  /\ pc[r] = "matched" /\ pc'[r] = "done" /\ outcome'[r] = outcome[r]
  /\ Replayed' = Replayed
  /\ matched_count' = matched_count + 1 /\ mismatch_count' = mismatch_count

MismatchIsLogged(r) ==
  /\ pc[r] = "mismatched" /\ pc'[r] = "done" /\ outcome'[r] = outcome[r]
  /\ Replayed' = Replayed
  /\ matched_count' = matched_count /\ mismatch_count' = mismatch_count + 1

LEMMA HandlerEffect ==
  ASSUME IInv, NEW r \in Requests, Handle(r)
  PROVE  /\ UNCHANGED <<cassette, mode, asked>>
         /\ \A s \in Requests \ {r} : pc'[s] = pc[s] /\ outcome'[s] = outcome[s]
         /\ \/ HandlerMoves(r) \/ BodyIsRejected(r) \/ PeekFinds(r) \/ ShapeIsRefused(r)
            \/ PeekRefuses(r) \/ MatchIsCommitted(r) \/ MatchIsLogged(r) \/ MismatchIsLogged(r)
<1> USE DEF Goto, Decide, Rejected, StaysQuiet
<1>1. TypeOK BY DEF IInv
<1>2. ASSUME UNCHANGED engineVars
      PROVE  UNCHANGED <<cassette, mode>> /\ Replayed' = Replayed
  BY <1>2 DEF engineVars, Replayed, Positions
<1>3. CASE RejectUnreplayableRequestShape(r)
  BY <1>1, <1>2, <1>3 DEF TypeOK, RejectUnreplayableRequestShape, BodyIsRejected
<1>4. CASE CanonicalizeObservedRequest(r) \/ LockEngine(r)
  BY <1>1, <1>2, <1>4 DEF TypeOK, CanonicalizeObservedRequest, LockEngine, HandlerMoves
<1>5. CASE PeekAndBuild(r)
  <2> DEFINE found == PeekMatch(asked[r])
  <2>1. found \in [kind : {"matched"} \cup Reasons, at : Nat]
    BY <1>1, PeekMatchType DEF TypeOK
  <2>2. IsMatch(found) <=> found.kind \notin Reasons
    BY <2>1 DEF IsMatch, Reasons
  <2> HIDE DEF found
  <2>3. /\ UNCHANGED <<engineVars, asked, matched_count, mismatch_count>>
        /\ pc[r] = "locked" /\ \E p \in {"peeked", "done", "mismatched"} : pc' = [pc EXCEPT ![r] = p]
        /\ \E o : outcome' = [outcome EXCEPT ![r] = o]
    BY <1>5 DEF PeekAndBuild
  <2>4. \A s \in Requests \ {r} : pc'[s] = pc[s] /\ outcome'[s] = outcome[s]
    BY <1>1, <2>3 DEF TypeOK
  <2>5. \/ IsMatch(found) /\ pc'[r] = "peeked" /\ outcome'[r] = found
        \/ /\ IsMatch(found) /\ ShapeMissing(r, found.at)
           /\ pc'[r] = "done" /\ outcome'[r].kind = "stream_cassette_required"
        \/ ~IsMatch(found) /\ pc'[r] = "mismatched" /\ outcome'[r] = found
    BY <1>1, <1>5 DEF TypeOK, PeekAndBuild, found
  <2> QED BY <1>2, <2>2, <2>3, <2>4, <2>5
          DEF PeekFinds, ShapeIsRefused, PeekRefuses, IsMatch, found
<1>6. CASE CommitPeeked(r)
  <2> DEFINE i == outcome[r].at
  <2>1. /\ pc[r] = "peeked" /\ CanCommit(i) /\ CommitMatch(i)
        /\ UNCHANGED <<asked, matched_count, mismatch_count>>
    BY <1>6 DEF IInv, CommitPeeked, PeekStillGood
  <2>2. i \notin Replayed /\ Replayed' = Replayed \cup {i}
    BY <1>1, <2>1, CommitReplays DEF TypeOK
  <2>3. UNCHANGED <<cassette, mode>> BY <2>1 DEF CommitMatch
  <2>4. /\ pc' = [pc EXCEPT ![r] = "matched"] /\ outcome' = [outcome EXCEPT ![r] = outcome[r]]
    BY <1>6, <2>1 DEF CommitPeeked
  <2> QED BY <1>1, <2>1, <2>2, <2>3, <2>4 DEF TypeOK, MatchIsCommitted
<1>7. CASE LogMatch(r) \/ LogMismatch(r)
  BY <1>1, <1>2, <1>7 DEF TypeOK, LogMatch, LogMismatch, MatchIsLogged, MismatchIsLogged
<1> QED BY <1>3, <1>4, <1>5, <1>6, <1>7 DEF Handle

(* What keyed mode refuses, and what it finds: the oldest recording left.  *)
LEMMA KeyedPeek ==
  ASSUME EngineTypeOK, NEW h
  PROVE  /\ PeekMatch(h).kind = "request_hash_mismatch" => mode = "SequentialStrict"
         /\ mode = "Keyed" /\ IsMatch(PeekMatch(h)) =>
              LET left == HashToIndices(h) \ Replayed
              IN  left # {} /\ PeekMatch(h).at = Oldest(left)
  BY DEF PeekMatch, SequentialCandidate, KeyedCandidate, Matched, Mismatch, IsMatch, Replayed

(* A hash that is blocked stays blocked: the commit is of another hash.    *)
LEMMA BlockedStays ==
  ASSUME IInv, NEW r \in Requests, Handle(r), mode = "Keyed",
         NEW h \in StreamHashes, Blocked(h)
  PROVE  Blocked(h)'
<1>1. UNCHANGED <<cassette, mode>>
  BY HandlerEffect
<1>2. HashToIndices(h)' = HashToIndices(h)
  BY <1>1 DEF HashToIndices, StableHash, Positions
<1>3. CASE Replayed' = Replayed
  BY <1>1, <1>2, <1>3 DEF Blocked
<1>4. CASE MatchIsCommitted(r)
  <2> DEFINE i == outcome[r].at
             left == HashToIndices(h) \ Replayed
  <2>1. /\ StableHash(i) = asked[r] /\ EarlierReplayed(i, asked[r])
        /\ ~ShapeMissing(r, i) /\ i \in Positions /\ i \notin Replayed
        /\ Replayed' = Replayed \cup {i}
    BY <1>4 DEF IInv, PeekStillGood, MatchIsCommitted, CanCommit
  <2>2. i \notin left
    <3> SUFFICES ASSUME i \in left PROVE FALSE OBVIOUS
    <3>1. asked[r] = h BY <2>1 DEF HashToIndices
    <3>2. Positions \subseteq Nat
      BY PositionsAreAnInterval DEF IInv, TypeOK, EngineTypeOK
    <3>3. left \subseteq Nat BY <3>2 DEF HashToIndices
    <3>4. Oldest(left) \in left /\ \A j \in left : Oldest(left) <= j
      BY <3>3, OldestIsLeast
    <3>5. Oldest(left) \in Positions /\ StableHash(Oldest(left)) = h /\ Oldest(left) \notin Replayed
      BY <3>4 DEF HashToIndices
    <3>6. ~(Oldest(left) < i) BY <2>1, <3>1, <3>5 DEF EarlierReplayed
    <3>7. Oldest(left) <= i /\ Oldest(left) \in Nat /\ i \in Nat
      BY <2>1, <3>2, <3>4, <3>5
    <3> HIDE DEF i, left
    <3>8. Oldest(left) = i BY <3>6, <3>7
    <3> USE DEF i, left
    <3> QED BY <2>1, <3>1, <3>8 DEF Blocked, ShapeMissing
  <2>3. (HashToIndices(h) \ Replayed)' = left BY <1>2, <2>1, <2>2
  <2> QED BY <1>1, <2>3 DEF Blocked
<1> QED BY <1>3, <1>4, HandlerEffect
        DEF HandlerMoves, BodyIsRejected, PeekFinds, ShapeIsRefused, PeekRefuses, MatchIsLogged,
            MismatchIsLogged, StaysQuiet

LEMMA StepRefusalsPlaced ==
  ASSUME IInv, RefusalsPlaced, NEW r \in Requests, Handle(r)
  PROVE  RefusalsPlaced'
<1> DEFINE Placed(s) ==
      /\ outcome[s].kind = "undecided" <=> pc[s] \in {"new", "canonical", "locked"}
      /\ pc[s] = "mismatched" => outcome[s].kind \in Reasons
      /\ outcome[s].kind \in Reasons => pc[s] \in {"mismatched", "done"}
      /\ outcome[s].kind = "malformed_json" => asked[s] = MalformedBody
      /\ outcome[s].kind = "request_hash_mismatch" => mode = "SequentialStrict"
<1>1. UNCHANGED <<mode, asked>> BY HandlerEffect
<1>2. \A s \in Requests : Placed(s) BY DEF RefusalsPlaced
<1>3. \A s \in Requests \ {r} : Placed(s)' BY <1>1, <1>2, HandlerEffect
<1>4. Placed(r)'
  <2>1. PeekMatch(asked[r]).kind = "request_hash_mismatch" => mode = "SequentialStrict"
    BY KeyedPeek DEF IInv, TypeOK
  <2>2. outcome[r].kind = "matched" => pc[r] \in {"peeked", "matched", "done"}
    BY DEF IInv, DecisionsPlaced
  <2>3. pc[r] \in {"peeked", "matched"} => outcome[r].kind = "matched"
    BY DEF IInv, DecisionsPlaced
  <2>4. Placed(r) BY <1>2
  <2> QED BY <1>1, <2>1, <2>2, <2>3, <2>4, HandlerEffect
          DEF HandlerMoves, BodyIsRejected, PeekFinds, ShapeIsRefused, PeekRefuses,
              MatchIsCommitted, MatchIsLogged, MismatchIsLogged, Reasons
<1> QED BY <1>3, <1>4 DEF RefusalsPlaced

LEMMA StepWrongShapeBlocks ==
  ASSUME IInv, RefusalsPlaced, WrongShapeBlocks, NEW r \in Requests, Handle(r)
  PROVE  WrongShapeBlocks'
<1>1. UNCHANGED <<cassette, mode, asked>> BY HandlerEffect
<1> SUFFICES ASSUME NEW s \in Requests, mode = "Keyed",
                    outcome'[s].kind = "stream_cassette_required",
                    NEW h, h = asked[s]
             PROVE  h \in StreamHashes /\ Blocked(h)'
  BY <1>1 DEF WrongShapeBlocks, Blocked, HashToIndices
<1>2. CASE outcome[s].kind = "stream_cassette_required"
  <2>1. h \in StreamHashes /\ Blocked(h) BY <1>2 DEF WrongShapeBlocks
  <2> QED BY <2>1, BlockedStays
<1>3. CASE outcome[s].kind # "stream_cassette_required"
  <2>1. s = r BY <1>3, HandlerEffect
  <2>2. ShapeIsRefused(r)
    BY <1>3, <2>1, HandlerEffect
       DEF HandlerMoves, BodyIsRejected, PeekFinds, PeekRefuses, MatchIsCommitted,
           MatchIsLogged, MismatchIsLogged, Reasons
  <2>3. /\ h \in StreamHashes /\ IsMatch(PeekMatch(h))
        /\ cassette[PeekMatch(h).at].shape = "NonStream"
    BY <2>1, <2>2 DEF ShapeIsRefused, ShapeMissing
  <2>4. Blocked(h)
    BY <2>3, KeyedPeek DEF IInv, TypeOK, Blocked
  <2> QED BY <2>3, <2>4, BlockedStays
<1> QED BY <1>2, <1>3

(* What the counters count is finite: finitely many requests have come.    *)
LEMMA CountedIsFinite ==
  ASSUME TypeOK, RefusalsPlaced, IsFiniteSet(Started)
  PROVE  /\ IsFiniteSet(UnloggedMatches) /\ Cardinality(UnloggedMatches) \in Nat
         /\ IsFiniteSet(UnloggedMismatches) /\ Cardinality(UnloggedMismatches) \in Nat
         /\ IsFiniteSet(Refused) /\ Cardinality(Refused) \in Nat
         /\ IsFiniteSet(Replayed) /\ Cardinality(Replayed) \in Nat
<1>1. UnloggedMatches \subseteq Started /\ UnloggedMismatches \subseteq Started
  BY DEF UnloggedMatches, UnloggedMismatches, Started
<1>2. Refused \subseteq Started
  BY DEF RefusalsPlaced, Refused, Started, Reasons
<1>3. IsFiniteSet(Positions) /\ Replayed \subseteq Positions
  BY CassettesAssumption DEF TypeOK, EngineTypeOK, Positions, Replayed
<1> QED BY <1>1, <1>2, <1>3, FS_Subset, FS_CardinalityType

(* A handler's step moves a count and what it counts together. *)
LEMMA StepCountsTrail ==
  ASSUME IInv, RefusalsPlaced, RefusalsPlaced', CountsTrail, NEW r \in Requests, Handle(r)
  PROVE  CountsTrail'
<1>1. \A s \in Requests \ {r} : pc'[s] = pc[s] /\ outcome'[s] = outcome[s]
  BY HandlerEffect
<1>2. IsFiniteSet(Started')
  <2>1. IsFiniteSet(Started \cup {r}) BY FS_AddElement DEF CountsTrail
  <2>2. Started' \subseteq Started \cup {r} BY <1>1 DEF Started
  <2> QED BY <2>1, <2>2, FS_Subset
<1>3. /\ IsFiniteSet(UnloggedMatches) /\ Cardinality(UnloggedMatches) \in Nat
      /\ IsFiniteSet(UnloggedMismatches) /\ Cardinality(UnloggedMismatches) \in Nat
      /\ IsFiniteSet(Refused) /\ Cardinality(Refused) \in Nat
      /\ IsFiniteSet(Replayed) /\ Cardinality(Replayed) \in Nat
      /\ matched_count \in Nat /\ mismatch_count \in Nat
  BY CountedIsFinite DEF IInv, TypeOK, CountsTrail
<1>4. /\ matched_count + Cardinality(UnloggedMatches) = Cardinality(Replayed)
      /\ mismatch_count + Cardinality(UnloggedMismatches) = Cardinality(Refused)
  BY DEF CountsTrail
<1> SUFFICES /\ matched_count' + Cardinality(UnloggedMatches') = Cardinality(Replayed')
             /\ mismatch_count' + Cardinality(UnloggedMismatches') = Cardinality(Refused')
  BY <1>2 DEF CountsTrail
<1>5. CASE HandlerMoves(r) \/ BodyIsRejected(r) \/ PeekFinds(r) \/ ShapeIsRefused(r)
  <2>1. /\ pc[r] \notin {"matched", "mismatched"} /\ pc'[r] \notin {"matched", "mismatched"}
        /\ outcome[r].kind \notin Reasons /\ outcome'[r].kind \notin Reasons /\ StaysQuiet
    BY <1>5 DEF HandlerMoves, BodyIsRejected, PeekFinds, ShapeIsRefused, RefusalsPlaced, Reasons
  <2>2. UnloggedMatches' = UnloggedMatches /\ UnloggedMismatches' = UnloggedMismatches
    BY <1>1, <2>1 DEF UnloggedMatches, UnloggedMismatches
  <2>3. Refused' = Refused BY <1>1, <2>1 DEF Refused
  <2> QED BY <1>4, <2>1, <2>2, <2>3 DEF StaysQuiet
<1>6. CASE PeekRefuses(r)
  <2>1. r \notin UnloggedMismatches /\ UnloggedMismatches' = UnloggedMismatches \cup {r}
    BY <1>1, <1>6 DEF PeekRefuses, UnloggedMismatches
  <2>2. r \notin Refused /\ Refused' = Refused \cup {r}
    BY <1>1, <1>6 DEF PeekRefuses, Refused, RefusalsPlaced, Reasons
  <2>3. UnloggedMatches' = UnloggedMatches
    BY <1>1, <1>6 DEF PeekRefuses, UnloggedMatches
  <2>4. /\ Cardinality(UnloggedMismatches') = Cardinality(UnloggedMismatches) + 1
        /\ Cardinality(Refused') = Cardinality(Refused) + 1
    BY <1>3, <2>1, <2>2, FS_AddElement
  <2> QED BY <1>3, <1>4, <1>6, <2>3, <2>4 DEF PeekRefuses, StaysQuiet
<1>7. CASE MatchIsCommitted(r)
  <2>1. r \notin UnloggedMatches /\ UnloggedMatches' = UnloggedMatches \cup {r}
    BY <1>1, <1>7 DEF MatchIsCommitted, UnloggedMatches
  <2>2. UnloggedMismatches' = UnloggedMismatches /\ Refused' = Refused
    BY <1>1, <1>7 DEF MatchIsCommitted, UnloggedMismatches, Refused
  <2>3. outcome[r].at \notin Replayed /\ Replayed' = Replayed \cup {outcome[r].at}
    BY <1>7 DEF MatchIsCommitted
  <2>4. /\ Cardinality(UnloggedMatches') = Cardinality(UnloggedMatches) + 1
        /\ Cardinality(Replayed') = Cardinality(Replayed) + 1
    BY <1>3, <2>1, <2>3, FS_AddElement
  <2> QED BY <1>3, <1>4, <1>7, <2>2, <2>4 DEF MatchIsCommitted
<1>8. CASE MatchIsLogged(r)
  <2>1. r \in UnloggedMatches /\ UnloggedMatches' = UnloggedMatches \ {r}
    BY <1>1, <1>8 DEF MatchIsLogged, UnloggedMatches
  <2>2. UnloggedMismatches' = UnloggedMismatches /\ Refused' = Refused
    BY <1>1, <1>8 DEF MatchIsLogged, UnloggedMismatches, Refused
  <2>3. Cardinality(UnloggedMatches') = Cardinality(UnloggedMatches) - 1
    BY <1>3, <2>1, FS_RemoveElement
  <2> QED BY <1>3, <1>4, <1>8, <2>2, <2>3 DEF MatchIsLogged
<1>9. CASE MismatchIsLogged(r)
  <2>1. r \in UnloggedMismatches /\ UnloggedMismatches' = UnloggedMismatches \ {r}
    BY <1>1, <1>9 DEF MismatchIsLogged, UnloggedMismatches
  <2>2. UnloggedMatches' = UnloggedMatches /\ Refused' = Refused
    BY <1>1, <1>9 DEF MismatchIsLogged, UnloggedMatches, Refused
  <2>3. Cardinality(UnloggedMismatches') = Cardinality(UnloggedMismatches) - 1
    BY <1>3, <2>1, FS_RemoveElement
  <2> QED BY <1>3, <1>4, <1>9, <2>2, <2>3 DEF MismatchIsLogged
<1> QED BY <1>5, <1>6, <1>7, <1>8, <1>9, HandlerEffect
-----------------------------------------------------------------------------
(* The session's totals, for every behaviour of the service. *)

LEMMA InitTotals == Init => TotalsInv
<1> SUFFICES ASSUME Init PROVE TotalsInv OBVIOUS
<1>1. \A r \in Requests : pc[r] = "new" /\ outcome[r].kind = "undecided"
  BY DEF Init, Undecided
<1>2. RefusalsPlaced /\ WrongShapeBlocks
  BY <1>1 DEF RefusalsPlaced, WrongShapeBlocks, Reasons
<1>3. Started = {} /\ UnloggedMatches = {} /\ UnloggedMismatches = {} /\ Refused = {}
  BY <1>1 DEF Started, UnloggedMatches, UnloggedMismatches, Refused, Reasons
<1>4. Replayed = {} /\ matched_count = 0 /\ mismatch_count = 0
  BY InitNothingReplayed DEF Init
<1>5. CountsTrail
  BY <1>3, <1>4, FS_EmptySet DEF CountsTrail
<1> QED BY <1>2, <1>5 DEF TotalsInv

LEMMA NextTotals == IInv /\ TotalsInv /\ [Next]_vars => TotalsInv'
<1> SUFFICES ASSUME IInv, TotalsInv, [Next]_vars PROVE TotalsInv' OBVIOUS
<1>1. CASE WithPolicy \/ UNCHANGED vars
  <2>1. UNCHANGED <<cassette, mode, sequential_cursor, consumed,
                    asked, pc, outcome, matched_count, mismatch_count>>
    BY <1>1 DEF WithPolicy, vars, serviceVars, engineVars
  <2>2. Replayed' = Replayed BY <2>1 DEF Replayed, Positions
  <2>3. RefusalsPlaced' BY <2>1 DEF TotalsInv, RefusalsPlaced
  <2>4. WrongShapeBlocks'
    BY <2>1, <2>2 DEF TotalsInv, WrongShapeBlocks, Blocked, HashToIndices, StableHash, Positions
  <2>5. CountsTrail'
    BY <2>1, <2>2 DEF TotalsInv, CountsTrail, Started, UnloggedMatches, UnloggedMismatches, Refused
  <2> QED BY <2>3, <2>4, <2>5 DEF TotalsInv
<1>2. ASSUME NEW r \in Requests, Handle(r) PROVE TotalsInv'
  BY <1>2, StepRefusalsPlaced, StepWrongShapeBlocks, StepCountsTrail DEF TotalsInv
<1> QED BY <1>1, <1>2 DEF Next

LEMMA AlwaysTotals == Spec => [](IInv /\ TotalsInv)
<1>1. Init => IInv /\ TotalsInv BY InitIInv, InitTotals
<1>2. IInv /\ TotalsInv /\ [Next]_vars => (IInv /\ TotalsInv)'
  BY NextIInv, NextTotals
<1> QED BY <1>1, <1>2, PTL DEF Spec

(* The counters trail the engine by exactly the handlers that have let go  *)
(* of the mutex and have yet to log (log_match_decision), however many     *)
(* requests a session has.                                                 *)
THEOREM CountersTrail == Spec => []CountersTrailTheEngine
<1>1. TotalsInv => CountersTrailTheEngine
  BY DEF TotalsInv, CountsTrail, CountersTrailTheEngine, UnloggedMatches, UnloggedMismatches, Refused
<1> QED BY <1>1, AlwaysTotals, PTL

LEMMA EveryoneWasServed ==
  ASSUME IInv, TotalsInv, mode = "Keyed", \A r \in Requests : pc[r] = "done",
         NEW h \in Hashes, ~(HashToIndices(h) \subseteq Replayed), ~(h \in StreamHashes /\ Blocked(h)),
         NEW r \in Requests, asked[r] = h
  PROVE  Spent(r)
<1>1. outcome[r].kind \in {"undecided", "matched"} \cup Reasons \cup Rejections
  BY DEF IInv, TypeOK
<1>2. outcome[r].kind # "undecided" /\ outcome[r].kind # "request_hash_mismatch"
  BY DEF TotalsInv, RefusalsPlaced
<1>3. outcome[r].kind # "malformed_json"
  BY RequestsAssumption DEF TotalsInv, RefusalsPlaced
<1>4. outcome[r].kind # "stream_cassette_required"
  BY DEF TotalsInv, WrongShapeBlocks
<1>5. outcome[r].kind # "internal"
  BY DEF IInv, CommitNeverFails
<1>6. /\ outcome[r].kind # "cassette_exhausted"
      /\ outcome[r].kind # "interaction_already_consumed"
      /\ outcome[r].kind # "no_matching_interaction"
  BY DEF IInv, DiagnosticsStayTrue, HashToIndices
<1> QED BY <1>1, <1>2, <1>3, <1>4, <1>5, <1>6 DEF Spent, Reasons, Rejections

(* Keyed replay forgives the order requests arrive in: when all are        *)
(* answered, a hash has had one recording replayed per request, unless its *)
(* recordings ran out or its next one is of a shape no stream can take     *)
(* (keyed_candidate, match_recorded_response).                             *)
THEOREM ArrivalOrderForgiven == Spec => []KeyedReplayIgnoresArrivalOrder
<1>1. ASSUME IInv, TotalsInv PROVE KeyedReplayIgnoresArrivalOrder
  <2> SUFFICES ASSUME mode = "Keyed", \A r \in Requests : pc[r] = "done", NEW h \in Hashes,
                      ~(HashToIndices(h) \subseteq Replayed), ~(h \in StreamHashes /\ Blocked(h))
               PROVE  Cardinality(HashToIndices(h) \cap Replayed)
                        = Cardinality({r \in Requests : asked[r] = h})
    BY DEF KeyedReplayIgnoresArrivalOrder, Blocked
  <2> DEFINE asking == {r \in Requests : asked[r] = h}
             replayed == HashToIndices(h) \cap Replayed
             given == [r \in asking |-> outcome[r].at]
  <2>1. \A r \in asking : Spent(r)
    BY <1>1, EveryoneWasServed
  <2>2. \A r \in asking : outcome[r].at \in replayed
    BY <1>1, <2>1 DEF IInv, EachInteractionReplayedOnce, RecordingsReplayedInOrder,
                      HashToIndices, TypeOK, EngineTypeOK, Replayed
  <2>3. given \in Injection(asking, replayed)
    BY <1>1, <2>1, <2>2 DEF IInv, EachInteractionReplayedOnce, Injection, IsInjective
  <2>4. \A i \in replayed : \E r \in asking : outcome[r].at = i
    BY <1>1 DEF IInv, EachInteractionReplayedOnce, RecordingsReplayedInOrder, HashToIndices
  <2>5. given \in Surjection(asking, replayed)
    BY <2>2, <2>4 DEF Surjection
  <2>6. IsFiniteSet(replayed)
    BY <1>1, CountedIsFinite, FS_Subset DEF IInv, TotalsInv, CountsTrail
  <2> HIDE DEF asking, replayed, given
  <2>7. Cardinality(asking) = Cardinality(replayed)
    BY <2>3, <2>5, <2>6, FS_Injection
  <2> QED BY <2>7 DEF asking, replayed
<1> QED BY <1>1, AlwaysTotals, PTL
=============================================================================
