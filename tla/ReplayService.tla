---------------------------- MODULE ReplayService ---------------------------
(***************************************************************************)
(* The replay service (ReplayService behind the axum route): concurrent    *)
(* chat-completions requests that share one matching engine behind a       *)
(* mutex, and two relaxed counters outside it.                             *)
(*                                                                         *)
(* One request runs synchronously in its handler, so a client that goes    *)
(* away cannot stop it half way; requests interleave at the mutex and at   *)
(* the counters.  The critical section is kept as separate steps (lock,    *)
(* peek, commit) so that what the mutex protects is checked, not assumed.  *)
(***************************************************************************)
EXTENDS ReplayEngine

CONSTANTS
  Requests,       \* the chat-completions requests of one session
  StreamHashes,   \* hashes of requests whose body has "stream": true
  MalformedBody,  \* a body that does not parse as JSON
  NoOne           \* the mutex is free

ASSUME RequestsAssumption ==
  /\ StreamHashes \subseteq Hashes
  /\ MalformedBody \notin Hashes \cup {NoHash}
  /\ NoOne \notin Requests

VARIABLES
  phase,            \* "loaded", then "serving" or "refused" (InvalidCassette)
  asked,            \* what each request carries
  pc,               \* where each request's handler is
  outcome,          \* the handler's decision for its request
  owner,            \* who holds the engine mutex
  matched_count,
  mismatch_count

serviceVars ==
  <<phase, asked, pc, outcome, owner, matched_count, mismatch_count>>
vars == <<engineVars, serviceVars>>

Undecided == [kind |-> "undecided", at |-> 0]
Rejected(kind) == [kind |-> kind, at |-> 0]
Rejections == {"malformed_json", "stream_cassette_required", "internal"}

Init ==
  /\ EngineInit
  /\ phase = "loaded"
  /\ asked \in [Requests -> Hashes \cup {MalformedBody}]
  /\ pc = [r \in Requests |-> "new"]
  /\ outcome = [r \in Requests |-> Undecided]
  /\ owner = NoOne
  /\ matched_count = 0
  /\ mismatch_count = 0

Goto(r, here, there) ==
  /\ pc[r] = here
  /\ pc' = [pc EXCEPT ![r] = there]

Decide(r, o) == outcome' = [outcome EXCEPT ![r] = o]

(* Start-up builds the engine, or fails on the first unhashed interaction. *)
WithPolicy ==
  /\ phase = "loaded"
  /\ phase' = IF EveryInteractionHashed THEN "serving" ELSE "refused"
  /\ UNCHANGED <<engineVars, asked, pc, outcome, owner,
                 matched_count, mismatch_count>>

(* Mutant: a rejected body is counted as a mismatch. *)
RejectedBodyIsCounted(r) ==
  /\ phase = "serving"
  /\ asked[r] = MalformedBody
  /\ Goto(r, "new", "mismatched")
  /\ Decide(r, Rejected("malformed_json"))
  /\ UNCHANGED <<engineVars, phase, asked, owner, matched_count, mismatch_count>>

(* Up to the mutex: a body that is not JSON is rejected before matching.   *)
RejectUnreplayableRequestShape(r) ==
  /\ phase = "serving"
  /\ asked[r] = MalformedBody
  /\ Goto(r, "new", "done")
  /\ Decide(r, Rejected("malformed_json"))
  /\ UNCHANGED <<engineVars, phase, asked, owner, matched_count, mismatch_count>>

CanonicalizeObservedRequest(r) ==
  /\ phase = "serving"
  /\ asked[r] # MalformedBody
  /\ Goto(r, "new", "canonical")
  /\ UNCHANGED <<engineVars, phase, asked, outcome, owner,
                 matched_count, mismatch_count>>

(* Mutant: the engine is used without its mutex. *)
UseEngineUnlocked(r) ==
  /\ Goto(r, "canonical", "locked")
  /\ owner' = r
  /\ UNCHANGED <<engineVars, phase, asked, outcome, matched_count, mismatch_count>>

LockEngine(r) ==
  /\ owner = NoOne
  /\ Goto(r, "canonical", "locked")
  /\ owner' = r
  /\ UNCHANGED <<engineVars, phase, asked, outcome, matched_count, mismatch_count>>

(* A stream request cannot be answered from a non-stream recording.        *)
ShapeMissing(r, i) ==
  asked[r] \in StreamHashes /\ cassette[i].shape = "NonStream"

(* Mutants: a recording of the wrong shape is consumed (next_match in      *)
(* place of peek_match), or its early return keeps the guard.              *)
WrongShapeIsConsumed(r) ==
  LET found == PeekMatch(asked[r]) IN
  \/ /\ IsMatch(found) /\ ~ShapeMissing(r, found.at)
     /\ Goto(r, "locked", "peeked")
     /\ Decide(r, found)
     /\ UNCHANGED <<engineVars, owner, phase, asked, matched_count, mismatch_count>>
  \/ /\ IsMatch(found) /\ ShapeMissing(r, found.at)
     /\ CommitMatch(found.at)
     /\ Goto(r, "locked", "done")
     /\ Decide(r, Rejected("stream_cassette_required"))
     /\ owner' = NoOne
     /\ UNCHANGED <<phase, asked, matched_count, mismatch_count>>
  \/ /\ ~IsMatch(found)
     /\ Goto(r, "locked", "mismatched")
     /\ Decide(r, found)
     /\ owner' = NoOne
     /\ UNCHANGED <<engineVars, phase, asked, matched_count, mismatch_count>>

WrongShapeKeepsGuard(r) ==
  LET found == PeekMatch(asked[r]) IN
  /\ \/ /\ IsMatch(found) /\ ~ShapeMissing(r, found.at)
        /\ Goto(r, "locked", "peeked")
        /\ Decide(r, found)
        /\ UNCHANGED owner
     \/ /\ IsMatch(found) /\ ShapeMissing(r, found.at)
        /\ Goto(r, "locked", "done")
        /\ Decide(r, Rejected("stream_cassette_required"))
        /\ UNCHANGED owner
     \/ /\ ~IsMatch(found)
        /\ Goto(r, "locked", "mismatched")
        /\ Decide(r, found)
        /\ owner' = NoOne
  /\ UNCHANGED <<engineVars, phase, asked, matched_count, mismatch_count>>

(* Peek, build the response and, on a mismatch or a wrong shape, let the   *)
(* guard go without committing.                                            *)
PeekAndBuild(r) ==
  LET found == PeekMatch(asked[r]) IN
  /\ \/ /\ IsMatch(found) /\ ~ShapeMissing(r, found.at)
        /\ Goto(r, "locked", "peeked")
        /\ Decide(r, found)
        /\ UNCHANGED owner
     \/ /\ IsMatch(found) /\ ShapeMissing(r, found.at)
        /\ Goto(r, "locked", "done")
        /\ Decide(r, Rejected("stream_cassette_required"))
        /\ owner' = NoOne
     \/ /\ ~IsMatch(found)
        /\ Goto(r, "locked", "mismatched")
        /\ Decide(r, found)
        /\ owner' = NoOne
  /\ UNCHANGED <<engineVars, phase, asked, matched_count, mismatch_count>>

(* Commit what was peeked; a commit that fails is an internal error.       *)
CommitPeeked(r) ==
  LET i == outcome[r].at IN
  /\ CommitMatch(i)
  /\ Goto(r, "peeked", IF CanCommit(i) THEN "matched" ELSE "done")
  /\ Decide(r, IF CanCommit(i) THEN outcome[r] ELSE Rejected("internal"))
  /\ owner' = NoOne
  /\ UNCHANGED <<phase, asked, matched_count, mismatch_count>>

(* After the guard is dropped: count, log, respond.                        *)
LogMatch(r) ==
  /\ Goto(r, "matched", "done")
  /\ matched_count' = matched_count + 1
  /\ UNCHANGED <<engineVars, phase, asked, outcome, owner, mismatch_count>>

LogMismatch(r) ==
  /\ Goto(r, "mismatched", "done")
  /\ mismatch_count' = mismatch_count + 1
  /\ UNCHANGED <<engineVars, phase, asked, outcome, owner, matched_count>>

Handle(r) ==
  \/ RejectUnreplayableRequestShape(r)
  \/ CanonicalizeObservedRequest(r)
  \/ LockEngine(r)
  \/ PeekAndBuild(r)
  \/ CommitPeeked(r)
  \/ LogMatch(r)
  \/ LogMismatch(r)

Next == WithPolicy \/ \E r \in Requests : Handle(r)

(* The runtime polls every handler it started.  A client need not send its *)
(* request, so nothing is assumed of the two actions that begin a handler. *)
Fairness ==
  \A r \in Requests :
    WF_vars(LockEngine(r) \/ PeekAndBuild(r) \/ CommitPeeked(r)
              \/ LogMatch(r) \/ LogMismatch(r))

Spec == Init /\ [][Next]_vars
FairSpec == Spec /\ Fairness

-----------------------------------------------------------------------------
PCs == {"new", "canonical", "locked", "peeked", "matched", "mismatched", "done"}

TypeOK ==
  /\ EngineTypeOK
  /\ phase \in {"loaded", "serving", "refused"}
  /\ asked \in [Requests -> Hashes \cup {MalformedBody}]
  /\ pc \in [Requests -> PCs]
  /\ outcome \in [Requests ->
       [kind : {"undecided", "matched"} \cup Reasons \cup Rejections, at : Nat]]
  /\ owner \in Requests \cup {NoOne}
  /\ matched_count \in Nat
  /\ mismatch_count \in Nat

(* The requests whose recording is spent: committed, counted or not yet.   *)
Spent(r) == outcome[r].kind = "matched" /\ pc[r] \in {"matched", "done"}

(* No interaction is replayed to two requests, and the engine's record of  *)
(* what is replayed is exactly what the requests were given: nothing is    *)
(* consumed by a request that was refused.                                 *)
EachInteractionReplayedOnce ==
  /\ \A r, s \in Requests :
       Spent(r) /\ Spent(s) /\ outcome[r].at = outcome[s].at => r = s
  /\ Replayed = {outcome[r].at : r \in {s \in Requests : Spent(s)}}

(* The branch "failed to commit previously peeked replay match" in         *)
(* match_recorded_response is dead: the lock is held from peek to commit.  *)
CommitNeverFails == \A r \in Requests : outcome[r].kind # "internal"

(* A request is answered from a recording of its own hash, and every       *)
(* recording that should have gone first (all earlier ones in sequential   *)
(* mode, earlier ones of the same hash in keyed mode) is already replayed. *)
RecordingsReplayedInOrder ==
  \A r \in Requests :
    Spent(r) =>
      /\ StableHash(outcome[r].at) = asked[r]
      /\ \A i \in Positions :
           /\ i < outcome[r].at
           /\ mode = "SequentialStrict" \/ StableHash(i) = asked[r]
           => i \in Replayed

(* What a 409 tells the client stays true after it was said, although the  *)
(* engine is shared and may have moved on: an exhausted cassette stays     *)
(* exhausted, consumed recordings stay consumed, and the expected position *)
(* had every earlier interaction replayed and a different hash.            *)
DiagnosticsStayTrue ==
  \A r \in Requests :
    LET o == outcome[r] IN
    /\ o.kind = "cassette_exhausted" => Replayed = Positions
    /\ o.kind = "interaction_already_consumed" =>
         HashToIndices(asked[r]) # {} /\ HashToIndices(asked[r]) \subseteq Replayed
    /\ o.kind = "no_matching_interaction" => HashToIndices(asked[r]) = {}
    /\ o.kind = "request_hash_mismatch" =>
         /\ o.at \in Positions /\ StableHash(o.at) # asked[r]
         /\ \A i \in Positions : i < o.at => i \in Replayed

(* The counters trail the engine by exactly the handlers that have dropped *)
(* the lock and not yet logged, so they agree with it when all are done.   *)
CountersTrailTheEngine ==
  /\ matched_count + Cardinality({r \in Requests : pc[r] = "matched"})
       = Cardinality(Replayed)
  /\ mismatch_count + Cardinality({r \in Requests : pc[r] = "mismatched"})
       = Cardinality({r \in Requests : outcome[r].kind \in Reasons})

(* Keyed mode forgives the order requests arrive in: once all requests are *)
(* answered, each hash has had as many of its recordings replayed as it    *)
(* was asked for and the cassette holds, unless its next recording has the *)
(* wrong shape.                                                            *)
KeyedReplayIgnoresArrivalOrder ==
  mode = "Keyed" /\ (\A r \in Requests : pc[r] = "done") =>
    \A h \in Hashes :
      LET asking   == {r \in Requests : asked[r] = h}
          replayed == HashToIndices(h) \cap Replayed
      IN  \/ Cardinality(replayed) = Cardinality(asking)
          \/ replayed = HashToIndices(h)
          \/ /\ h \in StreamHashes
             /\ cassette[Oldest(HashToIndices(h) \ Replayed)].shape = "NonStream"

(* Every request the server took gets an answer. *)
EveryRequestAnswered ==
  \A r \in Requests : pc[r] # "new" ~> pc[r] = "done"

(* Replay as a client sees it: each request is answered in one step.  The  *)
(* step is the commit for a replayed recording and the peek for a refusal. *)
Answer ==
  [r \in Requests |->
     IF Spent(r) THEN outcome[r].at
     ELSE IF pc[r] \in {"mismatched", "done"} THEN -2 ELSE -1]

Contract ==
  INSTANCE ReplayContract WITH
    recorded  <- cassette,
    ordered   <- (mode = "SequentialStrict"),
    remaining <- Positions \ Replayed,
    answer    <- Answer

ImplementsContract == Contract!Spec
=============================================================================
