---------------------------- MODULE RecordReplay ----------------------------
(***************************************************************************)
(* A cassette's life across two harnesses: one records a session and is    *)
(* shut down, a second one replays the cassette to an agent that sends the *)
(* same requests again, in the order of cause and effect it had.           *)
(*                                                                         *)
(* The recording server is RecordService, the replaying one ReplayService; *)
(* this module adds the lifecycle around them (RunningHarness and          *)
(* ServerHandle) and the file that connects them.  The second harness      *)
(* starts as soon as shutdown has returned, while blocking appends of      *)
(* clients that went away may still be running.                            *)
(***************************************************************************)
EXTENDS Integers, Sequences, FiniteSets

CONSTANTS
  Requests, StreamRequests, MaxChunks, NoOne,
  Hashes, NoHash, MalformedBody,
  HashOf        \* the stable hash of each request; two may share one

ASSUME SessionAssumption ==
  /\ IsFiniteSet(Requests) /\ StreamRequests \subseteq Requests
  /\ MaxChunks \in Nat
  /\ NoOne \notin Requests
  /\ NoHash \notin Hashes /\ MalformedBody \notin Hashes \cup {NoHash}
  /\ HashOf \in [Requests -> Hashes]

VARIABLES
  stage,        \* "recording", "stopping", "stopped", "replaying"
  keyConfigured, pc, reply, forwarded, transcript, recording_failed, task,
  storeOwner, log, acked, recorded_count, failure_count, interaction_seq,
  failed, precededBy,
  cassette, mode, sequential_cursor, consumed, phase, asked, replayPc, outcome,
  owner, matched_count, mismatch_count

recordVars ==
  <<keyConfigured, pc, reply, forwarded, transcript, recording_failed, task,
    storeOwner, log, acked, recorded_count, failure_count, interaction_seq,
    failed, precededBy>>
replayVars ==
  <<cassette, mode, sequential_cursor, consumed, phase, asked, replayPc,
    outcome, owner, matched_count, mismatch_count>>
vars == <<stage, recordVars, replayVars>>

Shape(r) == IF r \in StreamRequests THEN "Stream" ELSE "NonStream"

(* The cassettes a session of these requests can leave. *)
SessionCassettes ==
  UNION {[0..(n - 1) -> {[hash |-> HashOf[r], shape |-> Shape(r)] : r \in Requests}] :
           n \in 0..Cardinality(Requests)}

Record == INSTANCE RecordService

Replay == INSTANCE ReplayService WITH
  pc           <- replayPc,
  Cassettes    <- SessionCassettes,
  StreamHashes <- {HashOf[r] : r \in StreamRequests}

Empty == [i \in {} |-> 0]

(* A fresh cassette, a bound recording server, and no second harness yet.  *)
Init ==
  /\ stage = "recording"
  /\ Record!Init
  /\ Replay!Init
  /\ cassette = Empty /\ mode = "Keyed"
  /\ asked = HashOf

-----------------------------------------------------------------------------
(* The handlers of the recording server run on until they end; new ones    *)
(* begin only while it accepts connections.                                *)
RecordRequest(r) ==
  /\ stage = "recording"
  /\ Record!ResolveApiKeyFails(r) \/ Record!SendUpstream(r)
  /\ UNCHANGED <<stage, replayVars>>

RecordHandler(r) ==
  /\ \/ Record!UpstreamAnswers(r) \/ Record!StreamStep(r)
     \/ Record!AppendReturns(r) \/ Record!Disconnect(r)
  /\ UNCHANGED <<stage, replayVars>>

(* Blocking appends belong to no connection and run on in every stage.     *)
BlockingAppend(r) ==
  /\ Record!TaskRuns(r)
  /\ UNCHANGED <<stage, replayVars>>

(* shutdown: the signal closes the listener ...                            *)
Shutdown ==
  /\ stage = "recording"
  /\ stage' = "stopping"
  /\ UNCHANGED <<recordVars, replayVars>>

(* Mutant: a connection counts as open until its request is answered.      *)
ServerStopsOnceAnswered ==
  /\ stage = "stopping"
  /\ \A r \in Requests : pc[r] \in {"new", "done"}
  /\ stage' = "stopped"
  /\ UNCHANGED <<recordVars, replayVars>>

(* ... and returns when the serving task has seen every connection end.    *)
ServerStops ==
  /\ stage = "stopping"
  /\ \A r \in Requests : pc[r] \in {"new", "done", "dropped"}
  /\ stage' = "stopped"
  /\ UNCHANGED <<recordVars, replayVars>>

-----------------------------------------------------------------------------
(* Mutant: the newest interaction comes first. *)
LoadReversed ==
  [i \in 0..(Len(log) - 1) |->
     LET r == log[Len(log) - i].request IN [hash |-> HashOf[r], shape |-> Shape(r)]]

(* The cassette as open_for_replay reads it from the file. *)
Load ==
  [i \in 0..(Len(log) - 1) |->
     LET r == log[i + 1].request IN [hash |-> HashOf[r], shape |-> Shape(r)]]

StartReplayHarness ==
  /\ stage = "stopped"
  /\ stage' = "replaying"
  /\ cassette' = Load
  /\ mode' \in Replay!Modes
  /\ UNCHANGED <<recordVars, sequential_cursor, consumed, phase, asked, replayPc,
                 outcome, owner, matched_count, mismatch_count>>

(* The agent repeats a request it sent, once it has the answers it had     *)
(* when it sent it.                                                        *)
MaySend(r) ==
  /\ pc[r] # "new"
  /\ \A s \in precededBy[r] : replayPc[s] = "done"

ReplayStep ==
  /\ stage = "replaying"
  /\ \/ Replay!WithPolicy
     \/ \E r \in Requests :
          /\ replayPc[r] = "new" => MaySend(r)
          /\ Replay!Handle(r)
  /\ UNCHANGED <<stage, recordVars>>

Next ==
  \/ \E r \in Requests : RecordRequest(r) \/ RecordHandler(r) \/ BlockingAppend(r)
  \/ Shutdown \/ ServerStops \/ StartReplayHarness
  \/ ReplayStep

Spec == Init /\ [][Next]_vars

(* As for the two services; the serving task is polled like any other.     *)
Fairness ==
  /\ \A r \in Requests :
       /\ WF_vars(Record!UpstreamAnswers(r) /\ UNCHANGED <<stage, replayVars>>)
       /\ WF_vars(BlockingAppend(r))
  /\ \A r \in Requests \ StreamRequests :
       WF_vars(Record!AppendReturns(r) /\ UNCHANGED <<stage, replayVars>>)
  /\ WF_vars(ServerStops)

FairSpec == Spec /\ Fairness

-----------------------------------------------------------------------------
(* The position of a request's exchange in the loaded cassette. *)
PositionsOf(r) == {i \in Replay!Positions : log[i + 1].request = r}

(* What a client saw completed, and the harness did not count as failed,   *)
(* is in the cassette the second harness loads, exactly once, although     *)
(* other clients went away, failed, or still had appends running when      *)
(* shutdown returned.                                                      *)
CompletedExchangesAreLoaded ==
  stage = "replaying" =>
    \A r \in Requests :
      reply[r] = Record!Completed(r) /\ r \notin failed =>
        Cardinality(PositionsOf(r)) = 1

(* Every exchange of the session was recorded and no client went away.     *)
RecordedWhole ==
  /\ keyConfigured
  /\ failed = {}
  /\ \A r \in Requests : pc[r] \in {"new", "done"}

InTurn(S) ==
  \A r, s \in S : r = s \/ r \in precededBy[s] \/ s \in precededBy[r]

Sent == {r \in Requests : pc[r] # "new"}

(* The requests whose order matters to the one r: in strict mode all of    *)
(* them, in keyed mode those with its hash.                                *)
Rivals(r) ==
  IF mode = "SequentialStrict" THEN Sent ELSE {s \in Sent : HashOf[s] = HashOf[r]}

(* A session recorded whole replays as it was: in keyed mode no request    *)
(* goes unanswered, in strict mode none of an agent that sends one request *)
(* at a time; and where the rivals of a request came in turn, the request  *)
(* gets its own recording back.                                            *)
ReplayRepeatsTheSession ==
  stage = "replaying" /\ RecordedWhole =>
    \A r \in Sent :
      /\ mode = "Keyed" \/ InTurn(Sent) =>
           outcome[r].kind \in {"undecided", "matched"}
      /\ outcome[r].kind = "matched" /\ InTurn(Rivals(r)) =>
           outcome[r].at \in PositionsOf(r)

(* Appends and responses come to an end before, during and after shutdown, *)
(* whatever fails and whoever disconnects.                                 *)
AppendsAndResponsesEnd == Record!AppendsAndResponsesEnd

(* shutdown returns when no client holds a stream open: upstream calls,    *)
(* appends and their handlers all come to an end.                          *)
StreamsOver == \A r \in StreamRequests : pc[r] \in {"new", "done", "dropped"}

ShutdownReturns == stage = "stopping" /\ StreamsOver ~> stage # "stopping"
=============================================================================
