---------------------------- MODULE ReplayEngine ----------------------------
(***************************************************************************)
(* The cassette matching engine of replay mode (ReplayMatchEngine): which  *)
(* recorded interaction answers a request, and what consuming it changes.  *)
(*                                                                         *)
(* An interaction is its stable hash and the shape of its recorded         *)
(* response.  A cassette is a function from the positions 0..n-1 (the      *)
(* indices of the code's Vec) to interactions.  The module holds the       *)
(* engine's state and its operations; ReplayEngineCalls drives them as a   *)
(* sequential library, ReplayService as a concurrent HTTP service.         *)
(***************************************************************************)
EXTENDS Integers, FiniteSets

CONSTANTS
  Hashes,     \* the stable hashes of canonical requests
  NoHash,     \* an interaction whose stable_hash is None
  Cassettes   \* the cassettes the store may load

Modes == {"SequentialStrict", "Keyed"}
Shapes == {"Stream", "NonStream"}

Interaction == [hash : Hashes \cup {NoHash}, shape : Shapes]

ASSUME CassettesAssumption ==
  \A c \in Cassettes :
    /\ IsFiniteSet(DOMAIN c)
    /\ c \in [0..(Cardinality(DOMAIN c) - 1) -> Interaction]

ASSUME NoHashAssumption == NoHash \notin Hashes

VARIABLES
  cassette,           \* the loaded cassette, owned by the engine
  mode,               \* MatchMode
  sequential_cursor,  \* index of the next interaction in sequential mode
  consumed            \* positions already replayed in keyed mode

engineVars == <<cassette, mode, sequential_cursor, consumed>>

Positions == DOMAIN cassette

StableHash(i) == cassette[i].hash

(***************************************************************************)
(* Construction: every interaction must carry a stable hash.               *)
(***************************************************************************)
EveryInteractionHashed == \A i \in Positions : StableHash(i) # NoHash

EngineInit ==
  /\ cassette \in Cassettes
  /\ mode \in Modes
  /\ sequential_cursor = 0
  /\ consumed = {}

(***************************************************************************)
(* Outcomes.  A match names the interaction; a mismatch names its reason   *)
(* code and the position its diagnostic reports.                           *)
(***************************************************************************)
Reasons == {"request_hash_mismatch", "cassette_exhausted",
            "no_matching_interaction", "interaction_already_consumed"}

Matched(i) == [kind |-> "matched", at |-> i]
Mismatch(reason, i) == [kind |-> reason, at |-> i]

IsMatch(outcome) == outcome.kind = "matched"

(* Mutant: the newest recording is taken first. *)
Newest(S) == CHOOSE i \in S : \A j \in S : j <= i

Oldest(S) == CHOOSE i \in S : \A j \in S : i <= j

(* Mutant: the cassette counts as exhausted one interaction too early. *)
SequentialCandidateStopsEarly(h) ==
  IF sequential_cursor + 1 \notin Positions
  THEN Mismatch("cassette_exhausted", sequential_cursor)
  ELSE IF StableHash(sequential_cursor) # h
  THEN Mismatch("request_hash_mismatch", sequential_cursor)
  ELSE Matched(sequential_cursor)

SequentialCandidate(h) ==
  IF sequential_cursor \notin Positions
  THEN Mismatch("cassette_exhausted", sequential_cursor)
  ELSE IF StableHash(sequential_cursor) # h
  THEN Mismatch("request_hash_mismatch", sequential_cursor)
  ELSE Matched(sequential_cursor)

HashToIndices(h) == {i \in Positions : StableHash(i) = h}

(* Mutant: keyed matching never looks behind what is already consumed. *)
KeyedCandidateLooksAhead(h) ==
  LET ahead == {i \in HashToIndices(h) : \A j \in consumed : i > j}
  IN  IF ahead # {} THEN Matched(Oldest(ahead))
      ELSE Mismatch("interaction_already_consumed", Cardinality(Positions))

KeyedCandidate(h) ==
  LET unused == HashToIndices(h) \ consumed
  IN  IF HashToIndices(h) = {}
      THEN Mismatch("no_matching_interaction", Cardinality(Positions))
      ELSE IF unused = {}
      THEN Mismatch("interaction_already_consumed", Cardinality(Positions))
      ELSE Matched(Oldest(unused))

(* peek_match: inspects, never changes the engine. *)
PeekMatch(h) ==
  IF mode = "SequentialStrict" THEN SequentialCandidate(h) ELSE KeyedCandidate(h)

(* Mutants: a commit does not ask whether keyed mode has consumed the      *)
(* interaction; a strict commit accepts any position up to the cursor.     *)
CanCommitTwice(i) ==
  i \in Positions /\ (mode = "SequentialStrict" => sequential_cursor = i)

(* The condition under which commit_match(i) returns true. *)
CanCommit(i) ==
  /\ i \in Positions
  /\ IF mode = "SequentialStrict" THEN sequential_cursor = i ELSE i \notin consumed

(* Mutants: keyed mode marks the neighbour, or nothing, as consumed. *)
CommitMatchMarksNext(i) ==
  /\ consumed' = IF CanCommit(i) /\ mode = "Keyed" THEN consumed \cup {i + 1} ELSE consumed
  /\ sequential_cursor' =
       IF CanCommit(i) /\ mode = "SequentialStrict"
       THEN sequential_cursor + 1 ELSE sequential_cursor
  /\ UNCHANGED <<cassette, mode>>

CommitMatchForgetsKeyed(i) ==
  /\ sequential_cursor' =
       IF CanCommit(i) /\ mode = "SequentialStrict"
       THEN sequential_cursor + 1 ELSE sequential_cursor
  /\ UNCHANGED <<cassette, mode, consumed>>

(* The effect of commit_match(i); when it returns false nothing changes. *)
CommitMatch(i) ==
  /\ IF ~CanCommit(i)
     THEN UNCHANGED <<sequential_cursor, consumed>>
     ELSE IF mode = "SequentialStrict"
     THEN sequential_cursor' = sequential_cursor + 1 /\ UNCHANGED consumed
     ELSE consumed' = consumed \cup {i} /\ UNCHANGED sequential_cursor
  /\ UNCHANGED <<cassette, mode>>

(* next_match: selects and consumes in one call. *)
SequentialMatch(h) ==
  /\ mode = "SequentialStrict"
  /\ sequential_cursor' = IF IsMatch(SequentialCandidate(h))
                          THEN sequential_cursor + 1 ELSE sequential_cursor
  /\ UNCHANGED <<cassette, mode, consumed>>

KeyedMatch(h) ==
  /\ mode = "Keyed"
  /\ consumed' = IF IsMatch(KeyedCandidate(h))
                 THEN consumed \cup {KeyedCandidate(h).at} ELSE consumed
  /\ UNCHANGED <<cassette, mode, sequential_cursor>>

NextMatch(h) == SequentialMatch(h) \/ KeyedMatch(h)

(* The positions that have been replayed, whichever mode counts them. *)
Replayed ==
  IF mode = "SequentialStrict"
  THEN {i \in Positions : i < sequential_cursor} ELSE consumed

EngineTypeOK ==
  /\ cassette \in Cassettes
  /\ mode \in Modes
  /\ sequential_cursor \in Nat
  /\ consumed \subseteq Positions
=============================================================================
