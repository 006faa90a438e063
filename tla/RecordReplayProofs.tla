------------------------- MODULE RecordReplayProofs -------------------------
(***************************************************************************)
(* Proofs about a recorded and replayed session, for every finite set of   *)
(* requests: completed exchanges are loaded by the second harness, and a   *)
(* session recorded whole is replayed as it was.                           *)
(*                                                                         *)
(* The proofs compose those of the two services, instantiated as R and P:  *)
(* their inductive invariants hold of the two halves of a session, and     *)
(* SessionInv adds what connects them, the cassette the second harness     *)
(* loads and the causal order in which the agent sends again.              *)
(***************************************************************************)
EXTENDS RecordReplay, CommonLemmas, FiniteSetTheorems

R == INSTANCE RecordServiceProofs

P == INSTANCE ReplayServiceProofs WITH
  pc           <- replayPc,
  Cassettes    <- SessionCassettes,
  StreamHashes <- {HashOf[r] : r \in StreamRequests}

-----------------------------------------------------------------------------
(* A session meets the assumptions of the two services, and its steps are  *)
(* theirs.                                                                 *)

LEMMA RecordingAssumptions == R!RequestsAssumption
  BY SessionAssumption DEF R!RequestsAssumption

LEMMA RecordInit == Record!Init => R!Init
  BY DEF Record!Init, R!Init, Record!Store!Init, R!Store!Init

LEMMA RecordedAppendRuns ==
  ASSUME NEW r \in Requests
  PROVE  Record!TaskRuns(r) => R!TaskRuns(r)
  BY DEF Record!TaskRuns, R!TaskRuns, Record!TaskStep, R!TaskStep,
         Record!TaskLocksStore, R!TaskLocksStore, Record!TaskPersists, R!TaskPersists,
         Record!TaskSucceeds, R!TaskSucceeds, Record!TaskFails, R!TaskFails,
         Record!Recording, R!Recording, Record!Store!Persist, R!Store!Persist,
         Record!Store!Acknowledge, R!Store!Acknowledge, Record!Store!Holds, R!Store!Holds,
         Record!Store!ToSet, R!Store!ToSet, Record!streamVars, R!streamVars,
         Record!countVars, R!countVars

LEMMA RecordStep ==
  ASSUME NEW r \in Requests,
         \/ Record!ResolveApiKeyFails(r) \/ Record!SendUpstream(r)
         \/ Record!UpstreamAnswers(r) \/ Record!StreamStep(r)
         \/ Record!AppendReturns(r) \/ Record!Disconnect(r)
         \/ Record!TaskRuns(r)
  PROVE  R!StepOf(r)
<1> USE DEF Record!Goto, Record!Reply, Record!Spawn, Record!CountFailure, Record!Completed,
            R!Goto, R!Reply, R!Spawn, R!CountFailure, R!Completed,
            Record!streamVars, Record!storeVars, Record!countVars,
            R!streamVars, R!storeVars, R!countVars
<1>1. /\ Record!ResolveApiKeyFails(r) => R!ResolveApiKeyFails(r)
      /\ Record!SendUpstream(r) => R!SendUpstream(r)
      /\ Record!Disconnect(r) => R!Disconnect(r)
  BY DEF Record!ResolveApiKeyFails, R!ResolveApiKeyFails, Record!SendUpstream, R!SendUpstream,
         Record!Disconnect, R!Disconnect
<1>2. /\ \A here : Record!BuildAndAppend(r, here) => R!BuildAndAppend(r, here)
      /\ \A here : Record!GiveUpRecording(r, here) => R!GiveUpRecording(r, here)
  BY DEF Record!BuildAndAppend, R!BuildAndAppend, Record!GiveUpRecording, R!GiveUpRecording
<1>3. Record!UpstreamAnswers(r) => R!UpstreamAnswers(r)
  BY <1>2
     DEF Record!UpstreamAnswers, R!UpstreamAnswers, Record!UpstreamFails, R!UpstreamFails,
         Record!RecordResponse, R!RecordResponse, Record!RecordingStream, R!RecordingStream
<1>4. Record!StreamStep(r) => R!StreamStep(r)
  BY <1>2
     DEF Record!StreamStep, R!StreamStep, Record!ObserveChunk, R!ObserveChunk,
         Record!ForwardUnobservedChunk, R!ForwardUnobservedChunk,
         Record!ForwardChunk, R!ForwardChunk, Record!ChunkFails, R!ChunkFails,
         Record!FinishRecording, R!FinishRecording, Record!FinishUnrecorded, R!FinishUnrecorded
<1>5. Record!AppendReturns(r) => R!AppendReturns(r)
  BY <1>2
     DEF Record!AppendReturns, R!AppendReturns, Record!AppendSucceeded, R!AppendSucceeded,
         Record!AppendFailed, R!AppendFailed
<1>6. Record!TaskRuns(r) => R!TaskRuns(r) BY RecordedAppendRuns
<1> QED BY <1>1, <1>3, <1>4, <1>5, <1>6 DEF R!StepOf

(* The replay service's assumptions hold of the cassettes a session leaves. *)
LEMMA ReplayAssumptions ==
  P!CassettesAssumption /\ P!NoHashAssumption /\ P!RequestsAssumption
<1>1. P!NoHashAssumption BY SessionAssumption DEF P!NoHashAssumption
<1>2. P!RequestsAssumption
  <2>1. \A r \in StreamRequests : HashOf[r] \in Hashes BY SessionAssumption
  <2> QED BY <2>1, SessionAssumption DEF P!RequestsAssumption
<1>3. P!CassettesAssumption
  <2> SUFFICES ASSUME NEW c \in SessionCassettes
               PROVE  IsFiniteSet(DOMAIN c)
                      /\ c \in [0..(Cardinality(DOMAIN c) - 1) -> P!Interaction]
    BY DEF P!CassettesAssumption, IsFiniteSet, P!IsFiniteSet, Cardinality, P!Cardinality
  <2>1. PICK n \in 0..Cardinality(Requests) :
          c \in [0..(n - 1) -> {[hash |-> HashOf[r], shape |-> Shape(r)] : r \in Requests}]
    BY DEF SessionCassettes
  <2>2. n \in Nat BY SessionAssumption, FS_CardinalityType
  <2>3. IsFiniteSet(0..(n - 1)) /\ Cardinality(0..(n - 1)) = n
    BY <2>2, FS_Interval
  <2>4. \A r \in Requests : [hash |-> HashOf[r], shape |-> Shape(r)] \in P!Interaction
    BY SessionAssumption DEF P!Interaction, P!Shapes, Shape
  <2>5. DOMAIN c = 0..(n - 1) BY <2>1
  <2> QED BY <2>1, <2>3, <2>4, <2>5
<1> QED BY <1>1, <1>2, <1>3

LEMMA ReplayInit == Replay!Init => P!Init
  BY DEF Replay!Init, P!Init, Replay!EngineInit, P!EngineInit, Replay!Modes, P!Modes,
         Replay!Undecided, P!Undecided

LEMMA SameMatching ==
  /\ \A h : Replay!PeekMatch(h) = P!PeekMatch(h)
  /\ \A i : Replay!CanCommit(i) <=> P!CanCommit(i)
  /\ \A o : Replay!IsMatch(o) <=> P!IsMatch(o)
<1> USE DEF Replay!Matched, P!Matched, Replay!Mismatch, P!Mismatch, Replay!Positions, P!Positions,
            Replay!StableHash, P!StableHash, Replay!HashToIndices, P!HashToIndices
<1>1. \A h : Replay!SequentialCandidate(h) = P!SequentialCandidate(h)
  BY DEF Replay!SequentialCandidate, P!SequentialCandidate
<1>2. \A S : Replay!Oldest(S) = P!Oldest(S)
  BY DEF Replay!Oldest, P!Oldest
<1>3. Replay!Cardinality(Replay!Positions) = P!Cardinality(P!Positions)
  BY DEF Replay!Cardinality, P!Cardinality
<1>4. \A h : Replay!KeyedCandidate(h) = P!KeyedCandidate(h)
  BY <1>2, <1>3 DEF Replay!KeyedCandidate, P!KeyedCandidate
<1> QED BY <1>1, <1>4 DEF Replay!PeekMatch, P!PeekMatch, Replay!CanCommit, P!CanCommit,
                          Replay!IsMatch, P!IsMatch

LEMMA ReplayStepIsAService ==
  ASSUME NEW r \in Requests
  PROVE  /\ Replay!WithPolicy => P!WithPolicy
         /\ Replay!Handle(r) => P!Handle(r)
<1> USE DEF Replay!Goto, P!Goto, Replay!Decide, P!Decide, Replay!Rejected, P!Rejected,
            Replay!engineVars, P!engineVars
<1>1. Replay!WithPolicy => P!WithPolicy
  BY DEF Replay!WithPolicy, P!WithPolicy, Replay!EveryInteractionHashed, P!EveryInteractionHashed,
         Replay!Positions, P!Positions, Replay!StableHash, P!StableHash
<1>2. /\ Replay!RejectUnreplayableRequestShape(r) => P!RejectUnreplayableRequestShape(r)
      /\ Replay!CanonicalizeObservedRequest(r) => P!CanonicalizeObservedRequest(r)
      /\ Replay!LockEngine(r) => P!LockEngine(r)
      /\ Replay!LogMatch(r) => P!LogMatch(r)
      /\ Replay!LogMismatch(r) => P!LogMismatch(r)
  BY DEF Replay!RejectUnreplayableRequestShape, P!RejectUnreplayableRequestShape,
         Replay!CanonicalizeObservedRequest, P!CanonicalizeObservedRequest,
         Replay!LockEngine, P!LockEngine, Replay!LogMatch, P!LogMatch,
         Replay!LogMismatch, P!LogMismatch
<1>3. Replay!PeekAndBuild(r) => P!PeekAndBuild(r)
  BY SameMatching DEF Replay!PeekAndBuild, P!PeekAndBuild, Replay!ShapeMissing, P!ShapeMissing
<1>4. Replay!CommitPeeked(r) => P!CommitPeeked(r)
  BY SameMatching DEF Replay!CommitPeeked, P!CommitPeeked, Replay!CommitMatch, P!CommitMatch
<1> QED BY <1>1, <1>2, <1>3, <1>4 DEF Replay!Handle, P!Handle

-----------------------------------------------------------------------------
(* The first harness is a record service from its start to its last append.*)

LEMMA OneRequestRecords ==
  ASSUME R!IInv, NEW r \in Requests, R!StepOf(r)
  PROVE  R!IInv'
  BY RecordingAssumptions, R!StepIInv

LEMMA NobodyRecords ==
  ASSUME R!IInv, UNCHANGED recordVars
  PROVE  R!IInv'
<1>1. UNCHANGED R!vars
  BY DEF recordVars, R!vars, R!streamVars, R!storeVars, R!countVars
<1> QED BY <1>1, RecordingAssumptions, R!StutterIInv

(* What is logged stays logged, and an ended handler's task has ended too. *)
LEMMA LogOnlyGrows ==
  ASSUME R!IInv, NEW r \in Requests, R!StepOf(r)
  PROVE  /\ Len(log) \in Nat /\ Len(log') \in Nat /\ Len(log) <= Len(log')
         /\ \A k \in 1..Len(log) : log'[k] = log[k]
<1>1. log \in Seq(R!Recordings) BY DEF R!IInv, R!TypeOK
<1>2. log' = log \/ R!TaskPersists(r) \/ R!TaskSucceeds(r)
  BY RecordingAssumptions, R!CassetteEffect
<1>3. R!TaskSucceeds(r) => log' = log
  BY DEF R!TaskSucceeds, R!Store!Acknowledge
<1>4. R!TaskPersists(r) => log' = Append(log, R!Recording(r))
  BY DEF R!TaskPersists, R!Store!Persist
<1>5. R!Recording(r) \in R!Recordings
  BY RecordingAssumptions, R!RecordingsAreRecords DEF R!IInv
<1> QED BY <1>1, <1>2, <1>3, <1>4, <1>5

(* A blocking append touches nothing but its task and the store. *)
LEMMA TaskTouchesStoreOnly ==
  ASSUME R!IInv, NEW r \in Requests, R!TaskRuns(r)
  PROVE  /\ UNCHANGED <<keyConfigured, pc, reply, precededBy, failed>>
         /\ task[r] \in {"queued", "writing", "written"}
         /\ \A q \in Requests \ {r} : task'[q] = task[q]
<1>1. task \in [Requests -> {"none", "queued", "writing", "written", "ok", "err"}]
  BY DEF R!IInv, R!TypeOK
<1> QED
  BY <1>1 DEF R!TaskRuns, R!TaskLocksStore, R!TaskPersists, R!TaskSucceeds, R!TaskFails,
              R!TaskStep, R!countVars

LEMMA KeyDecidesReply ==
  ASSUME R!IInv, NEW r \in Requests, R!StepOf(r)
  PROVE  /\ keyConfigured' = keyConfigured
         /\ keyConfigured => \A q \in Requests : reply'[q] = "missing_key" => reply[q] = "missing_key"
<1> USE DEF R!Goto, R!Reply, R!Spawn, R!CountFailure, R!streamVars, R!storeVars, R!countVars
<1>1. reply \in [Requests -> {"none", "missing_key", "internal", "headers",
                              "stream_error", "eof", "response"}]
  BY DEF R!IInv, R!TypeOK
<1>2. CASE R!ResolveApiKeyFails(r) \/ R!SendUpstream(r) \/ R!Disconnect(r)
  BY <1>2 DEF R!ResolveApiKeyFails, R!SendUpstream, R!Disconnect
<1>3. CASE R!TaskRuns(r) BY <1>3, TaskTouchesStoreOnly
<1>4. \A here : R!BuildAndAppend(r, here) => UNCHANGED <<keyConfigured, reply>>
  BY DEF R!BuildAndAppend
<1>5. \A here : R!GiveUpRecording(r, here) =>
        /\ keyConfigured' = keyConfigured
        /\ reply' = [reply EXCEPT ![r] = R!Completed(r)]
  BY DEF R!GiveUpRecording
<1>6. R!Completed(r) # "missing_key" BY DEF R!Completed
<1>7. CASE R!UpstreamAnswers(r)
  BY <1>1, <1>4, <1>5, <1>6, <1>7
     DEF R!UpstreamAnswers, R!UpstreamFails, R!RecordResponse, R!RecordingStream
<1>8. CASE R!StreamStep(r)
  BY <1>1, <1>4, <1>5, <1>6, <1>8
     DEF R!StreamStep, R!ObserveChunk, R!ForwardUnobservedChunk, R!ForwardChunk, R!ChunkFails,
         R!FinishRecording, R!FinishUnrecorded
<1>9. CASE R!AppendReturns(r)
  BY <1>1, <1>5, <1>6, <1>9 DEF R!AppendReturns, R!AppendSucceeded, R!AppendFailed
<1> QED BY <1>2, <1>3, <1>7, <1>8, <1>9 DEF R!StepOf

-----------------------------------------------------------------------------
(* The session invariant. *)

(* The stages follow each other: no handler is running once shutdown has   *)
(* returned, and the second harness has done nothing before it starts.     *)
StagesOK ==
  /\ stage \in {"recording", "stopping", "stopped", "replaying"}
  /\ stage \in {"stopped", "replaying"} =>
       \A r \in Requests : pc[r] \in {"new", "done", "dropped"}
  /\ keyConfigured => \A r \in Requests : reply[r] # "missing_key"
  /\ asked = HashOf
  /\ stage # "replaying" => P!Init

Loaded(r) == [hash |-> HashOf[r], shape |-> Shape(r)]

(* The second harness holds the beginning of the cassette that was on disk *)
(* when it started, and with it every exchange a client saw completed.     *)
CassetteLoaded ==
  stage = "replaying" =>
    /\ \A i \in DOMAIN cassette :
         i + 1 \in 1..Len(log) /\ cassette[i] = Loaded(log[i + 1].request)
    /\ \A r \in Requests : pc[r] = "done" /\ task[r] = "ok" =>
         \E i \in DOMAIN cassette : log[i + 1].request = r

(* What the agent repeats it had sent, and after the same answers.         *)
SentAgain ==
  stage = "replaying" =>
    \A r \in Requests : replayPc[r] # "new" => MaySend(r)

SessionInv ==
  /\ R!IInv /\ P!IInv /\ P!TotalsInv
  /\ StagesOK
  /\ CassetteLoaded
  /\ SentAgain

LEMMA ReplayingIsQuiet ==
  ASSUME P!IInv, P!TotalsInv, UNCHANGED replayVars
  PROVE  P!IInv' /\ P!TotalsInv' /\ (P!Init => P!Init')
<1>1. UNCHANGED P!vars
  BY DEF replayVars, P!vars, P!engineVars, P!serviceVars
<1>2. P!IInv' /\ P!TotalsInv'
  BY <1>1, ReplayAssumptions, P!NextIInv, P!NextTotals
<1>3. P!Init => P!Init'
  BY DEF P!Init, P!EngineInit, replayVars
<1> QED BY <1>2, <1>3

LEMMA SessionInit == Init => SessionInv
<1> SUFFICES ASSUME Init PROVE SessionInv OBVIOUS
<1>1. R!Init /\ P!Init BY RecordInit, ReplayInit DEF Init
<1>2. R!IInv BY <1>1, RecordingAssumptions, R!InitIInv
<1>3. P!IInv /\ P!TotalsInv BY <1>1, ReplayAssumptions, P!InitIInv, P!InitTotals
<1>4. StagesOK
  <2>1. \A r \in Requests : reply[r] # "missing_key" BY DEF Init, Record!Init
  <2> QED BY <1>1, <2>1 DEF Init, StagesOK
<1> QED BY <1>2, <1>3, <1>4 DEF Init, SessionInv, CassetteLoaded, SentAgain

(* A step of the first harness.  While the second one replays, only        *)
(* blocking appends of clients that went away are left.                    *)
LEMMA RecordingStep ==
  ASSUME SessionInv, NEW r \in Requests,
         RecordRequest(r) \/ RecordHandler(r) \/ BlockingAppend(r)
  PROVE  /\ R!StepOf(r) /\ UNCHANGED <<stage, replayVars>>
         /\ stage \in {"stopped", "replaying"} => R!TaskRuns(r)
<1>1. R!StepOf(r) /\ UNCHANGED <<stage, replayVars>>
  BY RecordStep DEF RecordRequest, RecordHandler, BlockingAppend
<1>2. ASSUME stage \in {"stopped", "replaying"} PROVE R!TaskRuns(r)
  <2>1. pc[r] \in {"new", "done", "dropped"} BY <1>2 DEF SessionInv, StagesOK
  <2>2. pc[r] \notin {"upstream", "streaming", "appending"} BY <2>1
  <2>3. ~RecordRequest(r) BY <1>2 DEF RecordRequest
  <2>4. ~RecordHandler(r)
    BY <2>2
       DEF RecordHandler, Record!UpstreamAnswers, Record!UpstreamFails, Record!RecordResponse,
           Record!RecordingStream, Record!BuildAndAppend, Record!GiveUpRecording,
           Record!StreamStep, Record!ObserveChunk, Record!ForwardUnobservedChunk,
           Record!ForwardChunk, Record!ChunkFails, Record!FinishRecording,
           Record!FinishUnrecorded, Record!AppendReturns, Record!AppendSucceeded,
           Record!AppendFailed, Record!Disconnect, Record!Goto
  <2> QED BY <2>3, <2>4, RecordedAppendRuns DEF BlockingAppend
<1> QED BY <1>1, <1>2

LEMMA RecordingKeepsSession ==
  ASSUME SessionInv, NEW r \in Requests,
         RecordRequest(r) \/ RecordHandler(r) \/ BlockingAppend(r)
  PROVE  SessionInv'
<1>1. /\ R!StepOf(r) /\ UNCHANGED <<stage, replayVars>>
      /\ stage \in {"stopped", "replaying"} => R!TaskRuns(r)
  BY RecordingStep
<1>2. R!IInv' BY <1>1, OneRequestRecords DEF SessionInv
<1>3. P!IInv' /\ P!TotalsInv' /\ (P!Init => P!Init')
  BY <1>1, ReplayingIsQuiet DEF SessionInv
<1>4. stage \in {"stopped", "replaying"} =>
        /\ UNCHANGED <<keyConfigured, pc, reply, precededBy, failed>>
        /\ task[r] \in {"queued", "writing", "written"}
        /\ \A q \in Requests \ {r} : task'[q] = task[q]
  BY <1>1, TaskTouchesStoreOnly DEF SessionInv
<1>5. StagesOK'
  <2>1. keyConfigured' => \A q \in Requests : reply'[q] # "missing_key"
    BY <1>1, KeyDecidesReply DEF SessionInv, StagesOK
  <2> QED BY <1>1, <1>3, <1>4, <2>1 DEF SessionInv, StagesOK, replayVars
<1>6. CassetteLoaded'
  <2> SUFFICES ASSUME stage = "replaying" PROVE CassetteLoaded'
    BY <1>1 DEF CassetteLoaded
  <2>1. /\ Len(log) \in Nat /\ Len(log') \in Nat /\ Len(log) <= Len(log')
        /\ \A k \in 1..Len(log) : log'[k] = log[k]
    BY <1>1, LogOnlyGrows DEF SessionInv
  <2>2. cassette' = cassette BY <1>1 DEF replayVars
  <2>3. \A i \in DOMAIN cassette :
          /\ i + 1 \in 1..Len(log) /\ i + 1 \in 1..Len(log')
          /\ log'[i + 1] = log[i + 1]
          /\ cassette[i] = Loaded(log[i + 1].request)
    BY <2>1 DEF SessionInv, CassetteLoaded
  <2>4. pc[r] # "done"
    BY <1>4 DEF SessionInv, R!IInv, R!HandlersOK, R!TaskFollowsHandler
  <2>5. \A q \in Requests : pc'[q] = "done" /\ task'[q] = "ok" =>
          pc[q] = "done" /\ task[q] = "ok"
    BY <1>4, <2>4
  <2> QED BY <2>2, <2>3, <2>5 DEF SessionInv, CassetteLoaded
<1>7. SentAgain'
  BY <1>1, <1>4 DEF SessionInv, SentAgain, MaySend, replayVars
<1> QED BY <1>2, <1>3, <1>5, <1>6, <1>7 DEF SessionInv

LEMMA StoppingKeepsSession ==
  ASSUME SessionInv, Shutdown \/ ServerStops
  PROVE  SessionInv'
<1>1. /\ UNCHANGED <<recordVars, replayVars>>
      /\ \/ stage = "recording" /\ stage' = "stopping"
         \/ /\ stage = "stopping" /\ stage' = "stopped"
            /\ \A r \in Requests : pc[r] \in {"new", "done", "dropped"}
  BY DEF Shutdown, ServerStops
<1>2. R!IInv' BY <1>1, NobodyRecords DEF SessionInv
<1>3. P!IInv' /\ P!TotalsInv' /\ (P!Init => P!Init')
  BY <1>1, ReplayingIsQuiet DEF SessionInv
<1>4. StagesOK'
  BY <1>1, <1>3 DEF SessionInv, StagesOK, recordVars, replayVars
<1> QED BY <1>1, <1>2, <1>3, <1>4 DEF SessionInv, CassetteLoaded, SentAgain

(* Each request is recorded at most once, so the file holds no more        *)
(* interactions than there were requests.                                  *)
LEMMA LogIsASessionsLog ==
  ASSUME R!IInv
  PROVE  /\ Len(log) \in 0..Cardinality(Requests)
         /\ \A k \in 1..Len(log) : log[k].request \in Requests
<1>1. /\ \A k \in 1..Len(log) : log[k].request \in Requests
      /\ Len(log) \in Nat
  BY RecordingAssumptions, R!LoggedRecordings DEF R!IInv
<1> DEFINE n == Len(log)
<1>2. \A j, k \in 1..Len(log) : log[j].request = log[k].request => j = k
  BY DEF R!IInv, R!LogFollowsTasks
<1> DEFINE f == [k \in 1..Len(log) |-> log[k].request]
<1>3. f \in Injection(1..Len(log), Requests)
  BY <1>1, <1>2 DEF Injection, IsInjective
<1>4. Cardinality(1..Len(log)) <= Cardinality(Requests)
  BY <1>3, FS_Injection, SessionAssumption
<1>5. Cardinality(1..n) = n
  <2> HIDE DEF n
  <2>1. n \in Nat BY <1>1 DEF n
  <2>2. Cardinality(1..n) = IF 1 > n THEN 0 ELSE n - 1 + 1 BY <2>1, FS_Interval
  <2> QED BY <2>1, <2>2
<1>6. Cardinality(Requests) \in Nat
  BY FS_CardinalityType, SessionAssumption
<1> QED BY <1>1, <1>4, <1>5, <1>6

LEMMA LoadIsASessionCassette ==
  ASSUME R!IInv
  PROVE  /\ Load \in SessionCassettes
         /\ DOMAIN Load = 0..(Len(log) - 1)
         /\ \A i \in 0..(Len(log) - 1) : Load[i] = Loaded(log[i + 1].request)
<1>1. /\ Len(log) \in 0..Cardinality(Requests)
      /\ \A k \in 1..Len(log) : log[k].request \in Requests
  BY LogIsASessionsLog
<1>2. \A i \in 0..(Len(log) - 1) : log[i + 1].request \in Requests
  BY <1>1
<1>3. Load \in [0..(Len(log) - 1) ->
                  {[hash |-> HashOf[r], shape |-> Shape(r)] : r \in Requests}]
  BY <1>2 DEF Load
<1> QED BY <1>1, <1>3 DEF SessionCassettes, Load, Loaded

LEMMA FreshReplayIsSound == P!Init => P!IInv /\ P!TotalsInv
  BY ReplayAssumptions, P!InitIInv, P!InitTotals

LEMMA StartKeepsSession ==
  ASSUME SessionInv, StartReplayHarness
  PROVE  SessionInv'
<1> USE DEF StartReplayHarness
<1>1. R!IInv' BY NobodyRecords DEF SessionInv
<1>2. P!Init'
  <2>1. P!Init BY DEF SessionInv, StagesOK
  <2>2. cassette' \in SessionCassettes BY LoadIsASessionCassette DEF SessionInv
  <2>3. mode' \in P!Modes BY DEF Replay!Modes, P!Modes
  <2> QED BY <2>1, <2>2, <2>3 DEF P!Init, P!EngineInit
<1>3. P!IInv' /\ P!TotalsInv'
  BY <1>2, FreshReplayIsSound, PTL
<1>4. StagesOK' BY DEF SessionInv, StagesOK, recordVars
<1>5. CassetteLoaded'
  <2>1. /\ cassette' = Load /\ UNCHANGED recordVars
        /\ DOMAIN Load = 0..(Len(log) - 1)
        /\ \A i \in 0..(Len(log) - 1) : Load[i] = Loaded(log[i + 1].request)
    BY LoadIsASessionCassette DEF SessionInv
  <2>2. Len(log) \in Nat BY LogIsASessionsLog DEF SessionInv
  <2>3. \A i \in 0..(Len(log) - 1) : i + 1 \in 1..Len(log) BY <2>2
  <2>4. ASSUME NEW r \in Requests, task[r] = "ok"
        PROVE  \E i \in 0..(Len(log) - 1) : log[i + 1].request = r
    <3>1. PICK k \in 1..Len(log) : log[k].request = r
      BY <2>4 DEF SessionInv, R!IInv, R!LogFollowsTasks, R!Recorded
    <3>2. k - 1 \in 0..(Len(log) - 1) /\ (k - 1) + 1 = k BY <2>2
    <3> QED BY <3>1, <3>2
  <2>5. DOMAIN cassette' = 0..(Len(log) - 1) BY <2>1
  <2> QED BY <2>1, <2>3, <2>4, <2>5 DEF CassetteLoaded, recordVars
<1>6. SentAgain'
  BY DEF SessionInv, StagesOK, SentAgain, P!Init
<1> QED BY <1>1, <1>3, <1>4, <1>5, <1>6 DEF SessionInv

LEMMA ReplayingKeepsSession ==
  ASSUME SessionInv, ReplayStep
  PROVE  SessionInv'
<1>1. stage = "replaying" /\ UNCHANGED <<stage, recordVars>> BY DEF ReplayStep
<1>2. CASE Replay!WithPolicy
  <2>1. P!WithPolicy
    <3>1. CASE Requests = {}
      BY <1>2 DEF Replay!WithPolicy, P!WithPolicy, Replay!EveryInteractionHashed,
                  P!EveryInteractionHashed, Replay!Positions, P!Positions,
                  Replay!StableHash, P!StableHash, Replay!engineVars, P!engineVars
    <3> QED BY <3>1, <1>2, ReplayStepIsAService
  <2>2. R!IInv' BY <1>1, NobodyRecords DEF SessionInv
  <2>3. P!IInv' /\ P!TotalsInv'
    BY <2>1, ReplayAssumptions, P!NextIInv, P!NextTotals DEF SessionInv, P!Next
  <2> QED
    BY <1>1, <2>1, <2>2, <2>3
       DEF SessionInv, StagesOK, CassetteLoaded, SentAgain, MaySend, P!WithPolicy,
           P!engineVars, recordVars
<1>3. ASSUME NEW r \in Requests, replayPc[r] = "new" => MaySend(r), Replay!Handle(r)
      PROVE  SessionInv'
  <2>1. P!Handle(r) BY <1>3, ReplayStepIsAService
  <2>2. R!IInv' BY <1>1, NobodyRecords DEF SessionInv
  <2>3. P!IInv' /\ P!TotalsInv'
    BY <2>1, ReplayAssumptions, P!NextIInv, P!NextTotals DEF SessionInv, P!Next
  <2>4. /\ UNCHANGED <<cassette, mode, asked>>
        /\ \A s \in Requests \ {r} : replayPc'[s] = replayPc[s] /\ outcome'[s] = outcome[s]
        /\ replayPc[r] # "done"
    BY <2>1, ReplayAssumptions, P!HandlerEffect
       DEF SessionInv, P!HandlerMoves, P!BodyIsRejected, P!PeekFinds, P!ShapeIsRefused,
           P!PeekRefuses, P!MatchIsCommitted, P!MatchIsLogged, P!MismatchIsLogged
  <2>5. StagesOK' BY <1>1, <2>4 DEF SessionInv, StagesOK, recordVars
  <2>6. CassetteLoaded' BY <1>1, <2>4 DEF SessionInv, CassetteLoaded, recordVars
  <2>7. SentAgain'
    <3> SUFFICES ASSUME NEW s \in Requests, replayPc'[s] # "new"
                 PROVE  MaySend(s)'
      BY DEF SentAgain
    <3>1. MaySend(s)
      BY <1>1, <1>3, <2>4 DEF SessionInv, SentAgain
    <3>2. precededBy[s] \subseteq Requests
      BY DEF SessionInv, R!IInv, R!TypeOK
    <3> QED BY <1>1, <2>4, <3>1, <3>2 DEF MaySend, recordVars
  <2> QED BY <2>2, <2>3, <2>5, <2>6, <2>7 DEF SessionInv
<1> QED BY <1>2, <1>3 DEF ReplayStep

LEMMA NextSession == SessionInv /\ [Next]_vars => SessionInv'
<1> SUFFICES ASSUME SessionInv, [Next]_vars PROVE SessionInv' OBVIOUS
<1>1. CASE UNCHANGED vars
  <2>1. UNCHANGED <<stage, recordVars, replayVars>> BY <1>1 DEF vars
  <2>2. R!IInv' BY <2>1, NobodyRecords DEF SessionInv
  <2>3. P!IInv' /\ P!TotalsInv' /\ (P!Init => P!Init')
    BY <2>1, ReplayingIsQuiet DEF SessionInv
  <2> QED
    BY <2>1, <2>2, <2>3
       DEF SessionInv, StagesOK, CassetteLoaded, SentAgain, MaySend, recordVars, replayVars
<1>2. CASE Next
  BY <1>2, RecordingKeepsSession, StoppingKeepsSession, StartKeepsSession, ReplayingKeepsSession
     DEF Next
<1> QED BY <1>1, <1>2

LEMMA AlwaysSession == Spec => []SessionInv
  BY SessionInit, NextSession, PTL DEF Spec
-----------------------------------------------------------------------------
LEMMA DoneIsLoaded ==
  ASSUME SessionInv, stage = "replaying", NEW r \in Requests,
         pc[r] = "done", reply[r] # "missing_key", r \notin failed
  PROVE  \E i \in DOMAIN cassette : PositionsOf(r) = {i}
<1>1. task[r] = "ok"
  BY DEF SessionInv, R!IInv, R!HandlersOK, R!EndsAreAccountedFor
<1>2. PICK i \in DOMAIN cassette : log[i + 1].request = r
  BY <1>1 DEF SessionInv, CassetteLoaded
<1>3. \A j \in DOMAIN cassette : j + 1 \in 1..Len(log)
  BY DEF SessionInv, CassetteLoaded
<1>4. DOMAIN cassette \subseteq Nat
  BY ReplayAssumptions, P!PositionsAreAnInterval
     DEF SessionInv, P!IInv, P!TypeOK, P!EngineTypeOK, P!Positions
<1>5. ASSUME NEW j \in DOMAIN cassette, log[j + 1].request = r PROVE j = i
  <2>1. j + 1 = i + 1
    BY <1>2, <1>3, <1>5 DEF SessionInv, R!IInv, R!LogFollowsTasks
  <2> QED BY <1>4, <2>1
<1> QED BY <1>2, <1>5 DEF PositionsOf, Replay!Positions

(* What a client saw completed and the harness did not count as failed is  *)
(* in the cassette the second harness loads, exactly once, although other  *)
(* clients left or had appends running when shutdown returned              *)
(* (RunningHarness::shutdown, open_for_replay).                            *)
THEOREM CompletedAreLoaded == Spec => []CompletedExchangesAreLoaded
<1>1. SessionInv => CompletedExchangesAreLoaded
  <2> SUFFICES ASSUME SessionInv, stage = "replaying", NEW r \in Requests,
                      reply[r] = Record!Completed(r), r \notin failed
               PROVE  Cardinality(PositionsOf(r)) = 1
    BY DEF CompletedExchangesAreLoaded
  <2>1. reply[r] \in {"eof", "response"} BY DEF Record!Completed
  <2>2. pc[r] = "done"
    BY <2>1 DEF SessionInv, R!IInv, R!HandlersOK, R!EndsAreAccountedFor
  <2>3. PICK i \in DOMAIN cassette : PositionsOf(r) = {i}
    BY <2>1, <2>2, DoneIsLoaded
  <2> QED BY <2>3, FS_Singleton
<1> QED BY <1>1, AlwaysSession, PTL
-----------------------------------------------------------------------------
(* A session recorded whole, while it is replayed. *)

(* Requests of one hash expect the same kind of answer: "stream" is in the *)
(* body the hash covers, and the harness records and replays with no       *)
(* ignored paths (IgnorePathConfig::default).                              *)
HashTellsShape ==
  \A r \in StreamRequests, s \in Requests : HashOf[s] = HashOf[r] => s \in StreamRequests

Replaying == SessionInv /\ stage = "replaying" /\ RecordedWhole

LEMMA SentAreLoaded ==
  ASSUME Replaying, NEW r \in Sent
  PROVE  \E i \in DOMAIN cassette : PositionsOf(r) = {i}
<1>1. r \in Requests /\ pc[r] = "done" /\ reply[r] # "missing_key" /\ r \notin failed
  BY DEF Replaying, RecordedWhole, Sent, SessionInv, StagesOK
<1> QED BY <1>1, DoneIsLoaded DEF Replaying

LEMMA LoadedAreSent ==
  ASSUME Replaying, NEW i \in DOMAIN cassette
  PROVE  /\ i \in Nat /\ i + 1 \in 1..Len(log)
         /\ log[i + 1].request \in Sent
         /\ cassette[i].hash = HashOf[log[i + 1].request]
         /\ cassette[i].shape = Shape(log[i + 1].request)
         /\ i \in PositionsOf(log[i + 1].request)
<1>1. i \in Nat
  BY ReplayAssumptions, P!PositionsAreAnInterval
     DEF Replaying, SessionInv, P!IInv, P!TypeOK, P!EngineTypeOK, P!Positions
<1>2. i + 1 \in 1..Len(log) /\ cassette[i] = Loaded(log[i + 1].request)
  BY DEF Replaying, SessionInv, CassetteLoaded
<1> DEFINE s == log[i + 1].request
<1>3. s \in Requests /\ task[s] \in {"written", "ok"}
  BY <1>2 DEF Replaying, SessionInv, R!IInv, R!LogFollowsTasks, R!Recorded
<1>4. pc[s] # "new"
  BY <1>3 DEF Replaying, SessionInv, R!IInv, R!HandlersOK, R!TaskFollowsHandler
<1> QED BY <1>1, <1>2, <1>3, <1>4 DEF Sent, Loaded, PositionsOf, Replay!Positions

LEMMA OnePositionEach ==
  ASSUME Replaying, NEW r, NEW i \in PositionsOf(r), NEW j \in PositionsOf(r)
  PROVE  i = j
<1>1. i + 1 \in 1..Len(log) /\ j + 1 \in 1..Len(log) /\ i \in Nat /\ j \in Nat
  BY LoadedAreSent DEF PositionsOf, Replay!Positions
<1>2. i + 1 = j + 1
  BY <1>1 DEF Replaying, SessionInv, R!IInv, R!LogFollowsTasks, PositionsOf
<1> QED BY <1>1, <1>2

(* Who was given an interaction had sent the request it answers. *)
LEMMA SpentHaveSent ==
  ASSUME Replaying, NEW t \in Requests, P!Spent(t)
  PROVE  /\ t \in Sent /\ outcome[t].kind = "matched"
         /\ outcome[t].at \in DOMAIN cassette /\ outcome[t].at \in P!Replayed
         /\ cassette[outcome[t].at].hash = HashOf[t]
<1>1. t \in Sent
  BY DEF Replaying, SessionInv, SentAgain, MaySend, Sent, P!Spent
<1>2. outcome[t].at \in P!Replayed
  BY DEF Replaying, SessionInv, P!IInv, P!EachInteractionReplayedOnce
<1>3. P!Replayed \subseteq DOMAIN cassette
  BY DEF Replaying, SessionInv, P!IInv, P!TypeOK, P!EngineTypeOK, P!Replayed, P!Positions
<1>4. cassette[outcome[t].at].hash = HashOf[t]
  BY DEF Replaying, SessionInv, StagesOK, P!IInv, P!RecordingsReplayedInOrder, P!StableHash
<1> QED BY <1>1, <1>2, <1>3, <1>4 DEF P!Spent

LEMMA SameRivals ==
  ASSUME NEW r, NEW s, mode = "SequentialStrict" \/ HashOf[s] = HashOf[r]
  PROVE  Rivals(s) = Rivals(r)
  BY DEF Rivals

(* Where requests came in turn, nobody else is given one's recording.      *)
LEMMA OwnIsUnspent ==
  ASSUME Replaying, ReplayRepeatsTheSession, NEW r \in Sent,
         outcome[r].kind = "undecided", InTurn(Rivals(r)),
         NEW p \in PositionsOf(r)
  PROVE  p \notin P!Replayed
<1> SUFFICES ASSUME p \in P!Replayed PROVE FALSE OBVIOUS
<1>1. PICK t \in Requests : P!Spent(t) /\ outcome[t].at = p
  BY DEF Replaying, SessionInv, P!IInv, P!EachInteractionReplayedOnce
<1>2. t \in Sent /\ outcome[t].kind = "matched" /\ cassette[p].hash = HashOf[t]
  BY <1>1, SpentHaveSent
<1>3. p \in DOMAIN cassette /\ log[p + 1].request = r
  BY DEF PositionsOf, Replay!Positions
<1>4. HashOf[t] = HashOf[r] BY <1>2, <1>3, LoadedAreSent
<1>5. InTurn(Rivals(t)) BY <1>4, SameRivals
<1>6. p \in PositionsOf(t)
  BY <1>1, <1>2, <1>5 DEF Replaying, ReplayRepeatsTheSession
<1>7. t = r BY <1>3, <1>6 DEF PositionsOf
<1> QED BY <1>2, <1>7

(* Where requests came in turn, the next recording is that of the next     *)
(* request: an earlier one's is spent, and a later one's comes later.      *)
LEMMA NextIsOwn ==
  ASSUME Replaying, ReplayRepeatsTheSession, NEW r \in Sent, MaySend(r),
         outcome[r].kind = "undecided", InTurn(Rivals(r)),
         NEW i \in DOMAIN cassette, i \notin P!Replayed,
         log[i + 1].request \in Rivals(r),
         P!EarlierReplayed(i, HashOf[r])
  PROVE  log[i + 1].request = r
<1> DEFINE s == log[i + 1].request
<1>1. /\ i \in Nat /\ i + 1 \in 1..Len(log) /\ s \in Sent /\ i \in PositionsOf(s)
      /\ s \in Requests /\ r \in Requests
  BY LoadedAreSent DEF Sent
<1> HIDE DEF s
<1>2. mode = "SequentialStrict" \/ HashOf[s] = HashOf[r] BY DEF Rivals, s
<1>3. r \in Rivals(r) BY DEF Rivals, Sent
<1>4. ASSUME s \in precededBy[r] PROVE FALSE
  <2>1. replayPc[s] = "done" BY <1>4 DEF MaySend
  <2>2. outcome[s].kind # "undecided"
    BY <1>1, <2>1 DEF Replaying, SessionInv, P!TotalsInv, P!RefusalsPlaced
  <2>3. mode = "Keyed" \/ InTurn(Sent)
    <3>1. mode \in {"SequentialStrict", "Keyed"}
      BY DEF Replaying, SessionInv, P!IInv, P!TypeOK, P!EngineTypeOK, P!Modes
    <3> QED BY <3>1 DEF Rivals
  <2>4. outcome[s].kind = "matched"
    BY <1>1, <2>2, <2>3 DEF Replaying, ReplayRepeatsTheSession
  <2>5. InTurn(Rivals(s)) BY <1>2, SameRivals
  <2>6. outcome[s].at \in PositionsOf(s)
    BY <1>1, <2>4, <2>5 DEF Replaying, ReplayRepeatsTheSession
  <2>7. outcome[s].at = i BY <1>1, <2>6, OnePositionEach
  <2>8. P!Spent(s) BY <2>1, <2>4 DEF P!Spent
  <2> QED BY <1>1, <2>7, <2>8, SpentHaveSent
<1>5. ASSUME r \in precededBy[s] PROVE FALSE
  <2>1. PICK p \in DOMAIN cassette : PositionsOf(r) = {p} BY SentAreLoaded
  <2>2. log[p + 1].request = r /\ p \in PositionsOf(r) BY <2>1 DEF PositionsOf
  <2>3. p \in Nat /\ p + 1 \in 1..Len(log) /\ cassette[p].hash = HashOf[r]
    BY <2>2, LoadedAreSent
  <2>4. p + 1 < i + 1
    BY <1>1, <1>5, <2>2, <2>3
       DEF s, Replaying, SessionInv, R!IInv, R!SequentialAgentsRecordInOrder
  <2>5. p \in P!Replayed
    BY <1>1, <2>3, <2>4 DEF P!EarlierReplayed, P!Positions, P!StableHash
  <2> QED BY <2>2, <2>5, OwnIsUnspent
<1>6. s = r \/ s \in precededBy[r] \/ r \in precededBy[s]
  BY <1>3 DEF InTurn, s
<1> QED BY <1>4, <1>5, <1>6 DEF s

(* A hash was recorded as often as it was sent, and each recording spent   *)
(* answered a different request: whoever still asks finds one left.        *)
LEMMA RecordingsSuffice ==
  ASSUME Replaying, NEW r \in Sent, outcome[r].kind = "undecided"
  PROVE  \E i \in DOMAIN cassette : cassette[i].hash = HashOf[r] /\ i \notin P!Replayed
<1> SUFFICES ASSUME \A i \in DOMAIN cassette : cassette[i].hash = HashOf[r] => i \in P!Replayed
             PROVE  FALSE
  OBVIOUS
<1> DEFINE A == {i \in DOMAIN cassette : cassette[i].hash = HashOf[r]}
           D == {t \in Sent : HashOf[t] = HashOf[r]}
           f == [t \in D |-> CHOOSE i \in DOMAIN cassette : PositionsOf(t) = {i}]
           g == [i \in A |-> CHOOSE t \in Requests : P!Spent(t) /\ outcome[t].at = i]
<1>1. IsFiniteSet(D) /\ IsFiniteSet(D \ {r}) /\ r \in D
  <2>1. D \in SUBSET Requests /\ D \ {r} \in SUBSET Requests /\ r \in D BY DEF Sent
  <2> QED BY <2>1, FS_Subset, SessionAssumption
<1>2. f \in Injection(D, A)
  <2>1. \A t \in D : f[t] \in DOMAIN cassette /\ PositionsOf(t) = {f[t]}
    BY SentAreLoaded
  <2> HIDE DEF f
  <2>2. \A t \in D : log[f[t] + 1].request = t
    BY <2>1 DEF PositionsOf
  <2>3. \A t \in D : f[t] \in A
    BY <2>1, <2>2, LoadedAreSent
  <2>4. f \in [D -> A] BY <2>3 DEF f
  <2>5. \A s, t \in D : f[s] = f[t] => s = t BY <2>2
  <2> QED BY <2>4, <2>5 DEF Injection, IsInjective
<1>3. g \in Injection(A, D \ {r})
  <2>1. \A i \in A : \E t \in Requests : P!Spent(t) /\ outcome[t].at = i
    BY DEF Replaying, SessionInv, P!IInv, P!EachInteractionReplayedOnce
  <2>2. \A i \in A : g[i] \in Requests /\ P!Spent(g[i]) /\ outcome[g[i]].at = i
    BY <2>1
  <2> HIDE DEF g
  <2>3. \A i \in A : g[i] \in D \ {r}
    <3> SUFFICES ASSUME NEW i \in A PROVE g[i] \in D \ {r} OBVIOUS
    <3>1. /\ g[i] \in Sent /\ outcome[g[i]].kind = "matched"
          /\ cassette[i].hash = HashOf[g[i]]
      BY <2>2, SpentHaveSent
    <3>2. g[i] # r BY <3>1
    <3> QED BY <3>1, <3>2
  <2>4. g \in [A -> D \ {r}] BY <2>3 DEF g
  <2>5. \A i, j \in A : g[i] = g[j] => i = j BY <2>2
  <2> QED BY <2>4, <2>5 DEF Injection, IsInjective
<1> HIDE DEF A, D, f, g
<1>4. /\ IsFiniteSet(A) /\ Cardinality(A) <= Cardinality(D \ {r})
      /\ Cardinality(D) <= Cardinality(A)
  <2>1. IsFiniteSet(A) /\ Cardinality(A) <= Cardinality(D \ {r})
    BY <1>1, <1>3, FS_Injection
  <2> QED BY <1>2, <2>1, FS_Injection
<1>5. Cardinality(D \ {r}) = Cardinality(D) - 1
  BY <1>1, FS_RemoveElement
<1>6. Cardinality(A) \in Nat /\ Cardinality(D) \in Nat
  BY <1>1, <1>4, FS_CardinalityType
<1> QED BY <1>4, <1>5, <1>6

(* What the engine finds for a request of a session recorded whole.        *)
LEMMA FoundFits ==
  ASSUME HashTellsShape, Replaying, ReplayRepeatsTheSession, NEW r \in Sent, MaySend(r),
         outcome[r].kind = "undecided", P!IsMatch(P!PeekMatch(HashOf[r]))
  PROVE  /\ ~P!ShapeMissing(r, P!PeekMatch(HashOf[r]).at)
         /\ InTurn(Rivals(r)) => P!PeekMatch(HashOf[r]).at \in PositionsOf(r)
<1> DEFINE i == P!PeekMatch(HashOf[r]).at
<1>1. P!CanCommit(i) /\ P!StableHash(i) = HashOf[r] /\ P!EarlierReplayed(i, HashOf[r])
  BY ReplayAssumptions, P!PeekedMatch DEF Replaying, SessionInv, P!IInv, P!TypeOK
<1> HIDE DEF i
<1>2. i \in DOMAIN cassette /\ cassette[i].hash = HashOf[r]
  BY <1>1 DEF P!CanCommit, P!StableHash, P!Positions
<1>3. i \notin P!Replayed
  BY <1>1, <1>2, LoadedAreSent DEF P!CanCommit, P!Replayed
<1> DEFINE s == log[i + 1].request
<1>4. /\ s \in Sent /\ HashOf[s] = HashOf[r] /\ i \in PositionsOf(s)
      /\ cassette[i].shape = Shape(s)
  BY <1>2, LoadedAreSent
<1>5. ~P!ShapeMissing(r, i)
  <2> SUFFICES ASSUME asked[r] \in {HashOf[q] : q \in StreamRequests}
               PROVE  cassette[i].shape # "NonStream"
    BY DEF P!ShapeMissing
  <2>1. s \in StreamRequests
    BY <1>4 DEF HashTellsShape, Replaying, SessionInv, StagesOK, Sent
  <2> QED BY <1>4, <2>1 DEF Shape
<1>6. s \in Rivals(r) BY <1>4 DEF Rivals
<1>7. InTurn(Rivals(r)) => s = r
  BY <1>1, <1>2, <1>3, <1>6, NextIsOwn
<1> QED BY <1>4, <1>5, <1>7 DEF i

(* It finds something: always in keyed mode, in strict mode if all         *)
(* requests came in turn.                                                  *)
LEMMA SomethingIsFound ==
  ASSUME Replaying, ReplayRepeatsTheSession, NEW r \in Sent, MaySend(r),
         outcome[r].kind = "undecided", mode = "Keyed" \/ InTurn(Sent)
  PROVE  P!IsMatch(P!PeekMatch(HashOf[r]))
<1> DEFINE o == P!PeekMatch(HashOf[r])
<1> SUFFICES ASSUME ~P!IsMatch(o) PROVE FALSE OBVIOUS
<1>1. /\ o.kind = "cassette_exhausted" => P!Replayed = P!Positions
      /\ o.kind = "interaction_already_consumed" =>
           P!HashToIndices(HashOf[r]) # {} /\ P!HashToIndices(HashOf[r]) \subseteq P!Replayed
      /\ o.kind = "no_matching_interaction" => P!HashToIndices(HashOf[r]) = {}
      /\ o.kind = "request_hash_mismatch" =>
           /\ o.at \in P!Positions /\ P!StableHash(o.at) # HashOf[r]
           /\ \A i \in P!Positions : i < o.at => i \in P!Replayed
  BY ReplayAssumptions, P!PeekedMismatch DEF Replaying, SessionInv, P!IInv, P!TypeOK
<1>2. PICK p \in DOMAIN cassette : PositionsOf(r) = {p} BY SentAreLoaded
<1>3. log[p + 1].request = r /\ p \in PositionsOf(r) BY <1>2 DEF PositionsOf
<1>4. cassette[p].hash = HashOf[r] BY <1>3, LoadedAreSent
<1>5. CASE mode = "Keyed"
  <2>1. o.kind \in {"no_matching_interaction", "interaction_already_consumed"}
    BY <1>5 DEF P!PeekMatch, P!KeyedCandidate, P!IsMatch, P!Matched, P!Mismatch
  <2>2. p \in P!HashToIndices(HashOf[r])
    BY <1>4 DEF P!HashToIndices, P!Positions, P!StableHash
  <2>3. PICK i \in DOMAIN cassette : cassette[i].hash = HashOf[r] /\ i \notin P!Replayed
    BY RecordingsSuffice
  <2> QED BY <1>1, <2>1, <2>2, <2>3 DEF P!HashToIndices, P!Positions, P!StableHash
<1>6. CASE mode = "SequentialStrict"
  <2>1. InTurn(Rivals(r)) /\ Rivals(r) = Sent BY <1>6 DEF Rivals
  <2>2. p \notin P!Replayed BY <1>3, <2>1, OwnIsUnspent
  <2>3. \/ o.kind = "cassette_exhausted"
        \/ o.kind = "request_hash_mismatch" /\ o.at = sequential_cursor
    BY <1>6 DEF P!PeekMatch, P!SequentialCandidate, P!IsMatch, P!Matched, P!Mismatch
  <2> DEFINE i == sequential_cursor
  <2>4. /\ i \in DOMAIN cassette /\ cassette[i].hash # HashOf[r]
        /\ \A j \in DOMAIN cassette : j < i => j \in P!Replayed
    BY <1>1, <2>2, <2>3 DEF P!Positions, P!StableHash
  <2>5. i \notin P!Replayed
    BY <1>6, <2>4, LoadedAreSent DEF P!Replayed
  <2>6. log[i + 1].request \in Sent /\ cassette[i].hash = HashOf[log[i + 1].request]
    BY <2>4, LoadedAreSent
  <2>7. P!EarlierReplayed(i, HashOf[r])
    BY <2>4 DEF P!EarlierReplayed, P!Positions
  <2>8. log[i + 1].request = r
    BY <2>1, <2>4, <2>5, <2>6, <2>7, NextIsOwn
  <2> QED BY <2>4, <2>6, <2>8
<1>7. mode \in {"SequentialStrict", "Keyed"}
  BY DEF Replaying, SessionInv, P!IInv, P!TypeOK, P!EngineTypeOK, P!Modes
<1> QED BY <1>5, <1>6, <1>7

(* A step that decides nothing, and that the recording does not see.       *)
LEMMA UndecidingStep ==
  ASSUME SessionInv, ReplayRepeatsTheSession,
         UNCHANGED <<stage, keyConfigured, failed, pc, precededBy, cassette, mode, outcome>>,
         \A i \in DOMAIN cassette : log'[i + 1] = log[i + 1]
  PROVE  ReplayRepeatsTheSession'
<1>1. \A r : PositionsOf(r)' = PositionsOf(r) BY DEF PositionsOf, Replay!Positions
<1>2. Sent' = Sent /\ (RecordedWhole' => RecordedWhole) BY DEF Sent, RecordedWhole
<1>3. \A r : Rivals(r)' = Rivals(r) BY <1>2 DEF Rivals
<1>4. \A S : InTurn(S)' <=> InTurn(S) BY DEF InTurn
<1> QED BY <1>1, <1>2, <1>3, <1>4 DEF ReplayRepeatsTheSession

LEMMA RecordingRepeats ==
  ASSUME SessionInv, ReplayRepeatsTheSession, NEW r \in Requests,
         RecordRequest(r) \/ RecordHandler(r) \/ BlockingAppend(r)
  PROVE  ReplayRepeatsTheSession'
<1>1. /\ R!StepOf(r) /\ UNCHANGED <<stage, replayVars>>
      /\ stage \in {"stopped", "replaying"} => R!TaskRuns(r)
  BY RecordingStep
<1>2. CASE stage # "replaying" BY <1>1, <1>2 DEF ReplayRepeatsTheSession
<1>3. CASE stage = "replaying"
  <2>1. UNCHANGED <<keyConfigured, pc, precededBy, failed>>
    BY <1>1, <1>3, TaskTouchesStoreOnly DEF SessionInv
  <2>2. \A i \in DOMAIN cassette : log'[i + 1] = log[i + 1]
    BY <1>1, <1>3, LogOnlyGrows DEF SessionInv, CassetteLoaded
  <2> QED BY <1>1, <2>1, <2>2, UndecidingStep DEF replayVars
<1> QED BY <1>2, <1>3

LEMMA ReplayingRepeats ==
  ASSUME HashTellsShape, SessionInv, ReplayRepeatsTheSession, stage = "replaying",
         UNCHANGED <<stage, recordVars>>,
         NEW r \in Requests, replayPc[r] = "new" => MaySend(r), Replay!Handle(r)
  PROVE  ReplayRepeatsTheSession'
<1>1. P!Handle(r) BY ReplayStepIsAService
<1>2. /\ UNCHANGED <<cassette, mode, asked>>
      /\ \A s \in Requests \ {r} : replayPc'[s] = replayPc[s] /\ outcome'[s] = outcome[s]
      /\ \/ P!HandlerMoves(r) \/ P!BodyIsRejected(r) \/ P!PeekFinds(r) \/ P!ShapeIsRefused(r)
         \/ P!PeekRefuses(r) \/ P!MatchIsCommitted(r) \/ P!MatchIsLogged(r)
         \/ P!MismatchIsLogged(r)
  BY <1>1, ReplayAssumptions, P!HandlerEffect DEF SessionInv
<1>3. MaySend(r) BY DEF SessionInv, SentAgain
<1>4. r \in Sent BY <1>3 DEF Sent, MaySend
<1>5. asked[r] = HashOf[r] /\ asked[r] # MalformedBody
  BY SessionAssumption DEF SessionInv, StagesOK
<1> SUFFICES ASSUME RecordedWhole' PROVE ReplayRepeatsTheSession'
  BY DEF ReplayRepeatsTheSession
<1>6. Replaying BY DEF Replaying, RecordedWhole, recordVars
<1>7. /\ \A s : PositionsOf(s)' = PositionsOf(s)
      /\ Sent' = Sent
      /\ \A S : InTurn(S)' <=> InTurn(S)
  BY <1>2 DEF PositionsOf, Replay!Positions, Sent, InTurn, recordVars
<1>8. \A s : Rivals(s)' = Rivals(s) BY <1>2, <1>7 DEF Rivals
<1>9. \/ outcome'[r] = outcome[r]
      \/ /\ mode = "Keyed" \/ InTurn(Sent) => outcome'[r].kind = "matched"
         /\ outcome'[r].kind = "matched" /\ InTurn(Rivals(r)) => outcome'[r].at \in PositionsOf(r)
  <2>1. CASE P!HandlerMoves(r) \/ P!MatchIsCommitted(r) \/ P!MatchIsLogged(r)
             \/ P!MismatchIsLogged(r)
    BY <2>1 DEF P!HandlerMoves, P!MatchIsCommitted, P!MatchIsLogged, P!MismatchIsLogged
  <2>2. CASE P!BodyIsRejected(r) BY <1>5, <2>2 DEF P!BodyIsRejected
  <2>3. ASSUME replayPc[r] = "locked" PROVE outcome[r].kind = "undecided"
    BY <2>3 DEF SessionInv, P!TotalsInv, P!RefusalsPlaced
  <2>4. CASE P!PeekFinds(r)
    BY <1>3, <1>4, <1>5, <1>6, <2>3, <2>4, FoundFits DEF P!PeekFinds, P!IsMatch
  <2>5. CASE P!ShapeIsRefused(r)
    BY <1>3, <1>4, <1>5, <1>6, <2>3, <2>5, FoundFits DEF P!ShapeIsRefused
  <2>6. CASE P!PeekRefuses(r)
    <3>1. outcome'[r].kind # "matched" BY <2>6 DEF P!PeekRefuses, P!Reasons
    <3>2. ~P!IsMatch(P!PeekMatch(HashOf[r]))
      BY <1>5, <2>6, <3>1 DEF P!PeekRefuses, P!IsMatch
    <3> QED
      BY <1>3, <1>4, <1>6, <2>3, <2>6, <3>1, <3>2, SomethingIsFound DEF P!PeekRefuses
  <2> QED BY <1>2, <2>1, <2>2, <2>4, <2>5, <2>6
<1>10. \A s \in Sent :
         /\ mode = "Keyed" \/ InTurn(Sent) => outcome'[s].kind \in {"undecided", "matched"}
         /\ outcome'[s].kind = "matched" /\ InTurn(Rivals(s)) => outcome'[s].at \in PositionsOf(s)
  <2>1. \A s \in Sent : s # r => outcome'[s] = outcome[s] BY <1>2 DEF Sent
  <2> QED BY <1>6, <1>9, <2>1 DEF Replaying, ReplayRepeatsTheSession
<1> QED BY <1>2, <1>7, <1>8, <1>10 DEF ReplayRepeatsTheSession

LEMMA NextRepeats ==
  ASSUME HashTellsShape, SessionInv, ReplayRepeatsTheSession, [Next]_vars
  PROVE  ReplayRepeatsTheSession'
<1>1. CASE UNCHANGED vars
  BY <1>1, UndecidingStep DEF vars, recordVars, replayVars
<1>2. CASE \E r \in Requests : RecordRequest(r) \/ RecordHandler(r) \/ BlockingAppend(r)
  BY <1>2, RecordingRepeats
<1>3. CASE Shutdown \/ ServerStops
  BY <1>3 DEF Shutdown, ServerStops, ReplayRepeatsTheSession
<1>4. CASE StartReplayHarness
  <2>1. \A r \in Requests : outcome'[r].kind = "undecided"
    BY <1>4 DEF StartReplayHarness, SessionInv, StagesOK, P!Init, P!Undecided
  <2> QED BY <2>1 DEF ReplayRepeatsTheSession, Sent
<1>5. CASE ReplayStep
  <2>1. stage = "replaying" /\ UNCHANGED <<stage, recordVars>> BY <1>5 DEF ReplayStep
  <2>2. CASE Replay!WithPolicy
    BY <2>1, <2>2, UndecidingStep DEF Replay!WithPolicy, Replay!engineVars, recordVars
  <2> QED BY <1>5, <2>1, <2>2, ReplayingRepeats DEF ReplayStep
<1> QED BY <1>1, <1>2, <1>3, <1>4, <1>5 DEF Next

(* A session recorded whole replays as it was, where a request's hash      *)
(* tells whether it streams: keyed replay answers every request, strict    *)
(* replay those of an agent that sends one at a time, and requests that    *)
(* came in turn get their own recordings back (append, open_for_replay,    *)
(* match_recorded_response).                                               *)
THEOREM SessionIsRepeated ==
  ASSUME HashTellsShape
  PROVE  Spec => []ReplayRepeatsTheSession
<1>1. Init => ReplayRepeatsTheSession BY DEF Init, ReplayRepeatsTheSession
<1>2. SessionInv /\ ReplayRepeatsTheSession /\ [Next]_vars => ReplayRepeatsTheSession'
  BY HashTellsShape, NextRepeats
<1> QED BY <1>1, <1>2, AlwaysSession, PTL DEF Spec

(* The session is the record service's behaviour in its first harness: all *)
(* that is proved of RecordService holds of it, after shutdown has         *)
(* returned and while the second harness replays as well.                  *)
THEOREM FirstHarnessRecords == Spec => Record!Spec
<1>1. Init => Record!Init BY DEF Init
<1>2. [Next]_vars => [Record!Next]_(Record!vars)
  <2> SUFFICES ASSUME [Next]_vars PROVE [Record!Next]_(Record!vars) OBVIOUS
  <2>1. UNCHANGED recordVars => UNCHANGED Record!vars
    BY DEF recordVars, Record!vars, Record!streamVars, Record!storeVars, Record!countVars
  <2>2. CASE UNCHANGED vars BY <2>1, <2>2 DEF vars
  <2>3. CASE Shutdown \/ ServerStops \/ StartReplayHarness \/ ReplayStep
    BY <2>1, <2>3 DEF Shutdown, ServerStops, StartReplayHarness, ReplayStep
  <2>4. CASE \E r \in Requests : RecordRequest(r) \/ RecordHandler(r) \/ BlockingAppend(r)
    BY <2>4 DEF RecordRequest, RecordHandler, BlockingAppend, Record!Next
  <2> QED BY <2>2, <2>3, <2>4 DEF Next
<1> QED BY <1>1, <1>2, PTL DEF Spec, Record!Spec
=============================================================================
