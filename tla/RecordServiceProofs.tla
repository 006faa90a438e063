-------------------------- MODULE RecordServiceProofs ------------------------
(***************************************************************************)
(* Proofs about the record service, for every set of requests, finite or   *)
(* not, and every bound on the chunks of a stream: nothing is lost         *)
(* silently, recorded streams are whole, acknowledgements follow the       *)
(* cassette, sequential agents record in order, and the counters balance.  *)
(*                                                                         *)
(* Two invariants carry them.  IInv relates each handler to its blocking   *)
(* task and the tasks to the cassette; CountInv, proved with its help,     *)
(* says which requests each counter has counted.                           *)
(***************************************************************************)
EXTENDS RecordService, CommonLemmas, FiniteSetTheorems

TypeOK ==
  /\ keyConfigured \in BOOLEAN
  /\ pc \in [Requests -> {"new", "upstream", "streaming", "appending", "done", "dropped"}]
  /\ reply \in [Requests -> {"none", "missing_key", "internal", "headers",
                             "stream_error", "eof", "response"}]
  /\ forwarded \in [Requests -> 0..MaxChunks]
  /\ transcript \in [Requests -> 0..MaxChunks]
  /\ recording_failed \subseteq Requests /\ failed \subseteq Requests
  /\ task \in [Requests -> {"none", "queued", "writing", "written", "ok", "err"}]
  /\ storeOwner \in Requests \cup {NoOne}
  /\ log \in Seq(Recordings) /\ acked \in Seq(Recordings)
  /\ recorded_count \in Nat /\ failure_count \in Nat /\ interaction_seq \in Nat
  /\ precededBy \in [Requests -> SUBSET Requests]

(* A handler and its task: the task is spawned once, when the response is  *)
(* whole, and is over before the handler is, unless the client left.       *)
TaskFollowsHandler(r) ==
  /\ pc[r] = "appending" => task[r] # "none"
  /\ task[r] # "none" => pc[r] \in {"appending", "done", "dropped"}
  /\ task[r] \in {"queued", "writing", "written"} => pc[r] # "done"

(* What a stream's transcript holds while it is still being recorded.      *)
TranscriptFollowsStream(r) ==
  /\ transcript[r] <= forwarded[r]
  /\ r \notin recording_failed => transcript[r] = forwarded[r]
  /\ r \in recording_failed =>
       /\ r \in failed /\ task[r] = "none"
       /\ pc[r] \in {"streaming", "done", "dropped"}

(* How a handler that ended has ended: recorded, or counted as failed.     *)
EndsAreAccountedFor(r) ==
  /\ pc[r] # "done" => reply[r] \in {"none", "headers"}
  /\ pc[r] = "done" /\ task[r] = "ok" => reply[r] = Completed(r)
  /\ pc[r] = "done" /\ task[r] # "ok" /\ reply[r] # "missing_key" => r \in failed
  /\ reply[r] = "missing_key" => task[r] = "none" /\ r \notin failed
  /\ r \in failed =>
       task[r] \in {"none", "err"} /\ (pc[r] = "done" \/ r \in recording_failed)

HandlersOK ==
  \A r \in Requests :
    TaskFollowsHandler(r) /\ TranscriptFollowsStream(r) /\ EndsAreAccountedFor(r)

(* Exactly the mutex's owner has a task between locking and unlocking.     *)
StoreLocked ==
  \A r \in Requests : task[r] \in {"writing", "written"} <=> storeOwner = r

(* The cassette holds one recording of each request whose task wrote it.   *)
LogFollowsTasks ==
  /\ Recorded = {r \in Requests : task[r] \in {"written", "ok"}}
  /\ \A k \in 1..Len(log) : log[k].chunks = forwarded[log[k].request]
  /\ \A j, k \in 1..Len(log) : log[j].request = log[k].request => j = k

(* The acknowledgements are the cassette, short of what the mutex's owner  *)
(* has written.                                                            *)
AckedFollowsLog ==
  /\ \A k \in 1..Len(acked) : k <= Len(log) /\ acked[k] = log[k]
  /\ \/ Len(log) = Len(acked) /\ \A r \in Requests : task[r] # "written"
     \/ Len(log) = Len(acked) + 1 /\ task[log[Len(log)].request] = "written"

(* What preceded a request was done, and so were its task and its append.  *)
PrecedersAreDone ==
  \A r \in Requests :
    /\ \A s \in precededBy[r] : pc[s] = "done"
    /\ pc[r] = "new" => precededBy[r] = {}

IInv ==
  /\ TypeOK
  /\ HandlersOK
  /\ StoreLocked
  /\ LogFollowsTasks
  /\ AckedFollowsLog
  /\ PrecedersAreDone
  /\ SequentialAgentsRecordInOrder

(* The requests each counter has counted: so far finitely many.            *)
Numbered == {r \in Requests : pc[r] # "new" /\ reply[r] # "missing_key"}
Acknowledged == {r \in Requests : task[r] = "ok"}
Counted == {r \in Acknowledged : pc[r] = "done"}
FailedTwice == {r \in recording_failed : reply[r] = "stream_error"}

CountInv ==
  /\ IsFiniteSet({r \in Requests : pc[r] # "new"})
  /\ interaction_seq = Cardinality(Numbered)
  /\ recorded_count = Cardinality(Counted)
  /\ Len(acked) = Cardinality(Acknowledged)
  /\ failure_count = Cardinality(failed) + Cardinality(FailedTwice)
-----------------------------------------------------------------------------
(* What any step does to the requests. *)

StepOf(r) ==
  \/ ResolveApiKeyFails(r) \/ SendUpstream(r)
  \/ UpstreamAnswers(r) \/ StreamStep(r) \/ AppendReturns(r)
  \/ TaskRuns(r)
  \/ Disconnect(r)

LEMMA RecordingsAreRecords ==
  ASSUME TypeOK, NEW r \in Requests
  PROVE  /\ Recording(r) \in Recordings
         /\ Recording(r).request = r /\ Recording(r).chunks = transcript[r]
  BY DEF TypeOK, Recording, Recordings

LEMMA LoggedRecordings ==
  ASSUME TypeOK
  PROVE  /\ \A k \in 1..Len(log) :
              /\ log[k].request \in Requests
              /\ log[k] = [request |-> log[k].request, chunks |-> log[k].chunks]
         /\ Len(log) \in Nat /\ Len(acked) \in Nat
<1>1. log \in Seq(Recordings) /\ acked \in Seq(Recordings) BY DEF TypeOK
<1>2. \A k \in 1..Len(log) : log[k] \in Recordings BY <1>1, ElementOfSeq
<1> QED BY <1>1, <1>2 DEF Recordings

LEMMA StepTypeOK ==
  ASSUME IInv, NEW r \in Requests, StepOf(r)
  PROVE  TypeOK'
<1> USE DEF TypeOK, Goto, Reply, Spawn, CountFailure, streamVars, storeVars, countVars
<1>1. TypeOK BY DEF IInv
<1>2. CASE ResolveApiKeyFails(r) BY <1>1, <1>2 DEF ResolveApiKeyFails
<1>3. CASE SendUpstream(r) BY <1>1, <1>3 DEF SendUpstream
<1>4. CASE UpstreamFails(r) BY <1>1, <1>4 DEF UpstreamFails
<1>5. ASSUME NEW here, BuildAndAppend(r, here) PROVE TypeOK'
  BY <1>1, <1>5 DEF BuildAndAppend
<1>6. ASSUME NEW here, GiveUpRecording(r, here) PROVE TypeOK'
  BY <1>1, <1>6 DEF GiveUpRecording, Completed
<1>7. CASE RecordingStream(r) BY <1>1, <1>7 DEF RecordingStream
<1>8. CASE ObserveChunk(r)
  <2>1. forwarded[r] < MaxChunks /\ transcript[r] < MaxChunks
    BY <1>1, <1>8, RequestsAssumption
       DEF IInv, HandlersOK, TranscriptFollowsStream, ObserveChunk, ForwardChunk
  <2>2. forwarded' \in [Requests -> 0..MaxChunks] /\ transcript' \in [Requests -> 0..MaxChunks]
    BY <1>1, <1>8, <2>1, RequestsAssumption DEF ObserveChunk, ForwardChunk
  <2>3. pc' \in [Requests -> {"new", "upstream", "streaming", "appending", "done", "dropped"}]
    BY <1>1, <1>8 DEF ObserveChunk, ForwardChunk
  <2>4. /\ UNCHANGED <<keyConfigured, reply, precededBy, task, storeOwner, log, acked,
                       recorded_count, interaction_seq>>
        /\ recording_failed' \subseteq Requests /\ failed' \subseteq Requests
        /\ failure_count' \in Nat
    BY <1>1, <1>8 DEF ObserveChunk, ForwardChunk
  <2> QED BY <1>1, <2>2, <2>3, <2>4
<1>9. CASE ForwardUnobservedChunk(r)
  BY <1>1, <1>9, RequestsAssumption DEF ForwardUnobservedChunk, ForwardChunk
<1>10. CASE ChunkFails(r) BY <1>1, <1>10 DEF ChunkFails
<1>11. CASE FinishUnrecorded(r) BY <1>1, <1>11 DEF FinishUnrecorded
<1>12. CASE TaskLocksStore(r) BY <1>1, <1>12 DEF TaskLocksStore, TaskStep
<1>13. CASE TaskPersists(r)
  <2>1. log' = Append(log, Recording(r)) /\ acked' = acked
    BY <1>13 DEF TaskPersists, Store!Persist
  <2> QED BY <1>1, <1>13, <2>1, RecordingsAreRecords DEF TaskPersists, TaskStep
<1>14. CASE TaskSucceeds(r)
  <2>1. acked' = Append(acked, Recording(r)) /\ log' = log
    BY <1>14 DEF TaskSucceeds, Store!Acknowledge
  <2> QED BY <1>1, <1>14, <2>1, RecordingsAreRecords DEF TaskSucceeds, TaskStep
<1>15. CASE TaskFails(r) BY <1>1, <1>15 DEF TaskFails, TaskStep
<1>16. CASE AppendSucceeded(r) BY <1>1, <1>16 DEF AppendSucceeded, Completed
<1>17. CASE Disconnect(r) BY <1>1, <1>17 DEF Disconnect
<1> QED BY <1>2, <1>3, <1>4, <1>5, <1>6, <1>7, <1>8, <1>9, <1>10, <1>11, <1>12, <1>13,
           <1>14, <1>15, <1>16, <1>17
        DEF StepOf, UpstreamAnswers, RecordResponse, StreamStep, FinishRecording,
            AppendReturns, AppendFailed, TaskRuns

(* A step touches one request. *)
LEMMA OthersUntouched ==
  ASSUME TypeOK, NEW r \in Requests, StepOf(r)
  PROVE  \A s \in Requests \ {r} :
           /\ pc'[s] = pc[s] /\ reply'[s] = reply[s] /\ task'[s] = task[s]
           /\ forwarded'[s] = forwarded[s] /\ transcript'[s] = transcript[s]
           /\ precededBy'[s] = precededBy[s]
           /\ s \in failed' <=> s \in failed
           /\ s \in recording_failed' <=> s \in recording_failed
<1> USE DEF TypeOK, Goto, Reply, Spawn, CountFailure, streamVars, storeVars, countVars
<1>1. CASE ResolveApiKeyFails(r) \/ SendUpstream(r)
  BY <1>1 DEF ResolveApiKeyFails, SendUpstream
<1>2. CASE UpstreamAnswers(r)
  BY <1>2 DEF UpstreamAnswers, UpstreamFails, RecordResponse, RecordingStream,
              BuildAndAppend, GiveUpRecording
<1>3. CASE StreamStep(r)
  <2>1. CASE ObserveChunk(r) \/ ForwardUnobservedChunk(r)
    BY <2>1 DEF ObserveChunk, ForwardUnobservedChunk, ForwardChunk
  <2>2. CASE ChunkFails(r) \/ FinishRecording(r) \/ FinishUnrecorded(r)
    BY <2>2 DEF ChunkFails, FinishRecording, FinishUnrecorded, BuildAndAppend, GiveUpRecording
  <2> QED BY <1>3, <2>1, <2>2 DEF StreamStep
<1>4. CASE AppendReturns(r)
  BY <1>4 DEF AppendReturns, AppendSucceeded, AppendFailed, GiveUpRecording
<1>5. CASE TaskRuns(r)
  BY <1>5 DEF TaskRuns, TaskLocksStore, TaskPersists, TaskSucceeds, TaskFails, TaskStep
<1>6. CASE Disconnect(r)
  BY <1>6 DEF Disconnect
<1> QED BY <1>1, <1>2, <1>3, <1>4, <1>5, <1>6 DEF StepOf

LEMMA StepHandlersOK ==
  ASSUME IInv, NEW r \in Requests, StepOf(r)
  PROVE  HandlersOK'
<1> DEFINE OK(s) == TaskFollowsHandler(s) /\ TranscriptFollowsStream(s) /\ EndsAreAccountedFor(s)
<1>1. TypeOK /\ TypeOK' /\ OK(r) BY StepTypeOK DEF IInv, HandlersOK
<1>2. \A s \in Requests \ {r} : OK(s)'
  BY OthersUntouched
     DEF IInv, HandlersOK, TaskFollowsHandler, TranscriptFollowsStream, EndsAreAccountedFor, Completed
<1>3. OK(r)'
  <2> USE <1>1 DEF TypeOK, Goto, Reply, Spawn, CountFailure, streamVars, storeVars, countVars,
               TaskFollowsHandler, TranscriptFollowsStream, EndsAreAccountedFor, Completed
  <2>1. CASE ResolveApiKeyFails(r) \/ SendUpstream(r)
    BY <2>1 DEF ResolveApiKeyFails, SendUpstream
  <2>2. CASE UpstreamFails(r) \/ RecordResponse(r)
    BY <2>2 DEF UpstreamFails, RecordResponse, BuildAndAppend, GiveUpRecording
  <2>3. CASE RecordingStream(r)
    BY <2>3 DEF RecordingStream
  <2>4. CASE ObserveChunk(r)
    BY <2>4, RequestsAssumption DEF ObserveChunk, ForwardChunk
  <2>5. CASE ForwardUnobservedChunk(r)
    BY <2>5, RequestsAssumption DEF ForwardUnobservedChunk, ForwardChunk
  <2>6. CASE ChunkFails(r) \/ FinishUnrecorded(r)
    BY <2>6 DEF ChunkFails, FinishUnrecorded
  <2>7. CASE FinishRecording(r)
    BY <2>7 DEF FinishRecording, BuildAndAppend, GiveUpRecording
  <2>8. CASE AppendReturns(r)
    BY <2>8 DEF AppendReturns, AppendSucceeded, AppendFailed, GiveUpRecording
  <2>9. CASE TaskRuns(r)
    BY <2>9 DEF TaskRuns, TaskLocksStore, TaskPersists, TaskSucceeds, TaskFails, TaskStep
  <2>10. CASE Disconnect(r)
    BY <2>10 DEF Disconnect
  <2> QED BY <2>1, <2>2, <2>3, <2>4, <2>5, <2>6, <2>7, <2>8, <2>9, <2>10
          DEF StepOf, UpstreamAnswers, StreamStep
<1> QED BY <1>2, <1>3 DEF HandlersOK
LEMMA StepStoreLocked ==
  ASSUME IInv, NEW r \in Requests, StepOf(r)
  PROVE  StoreLocked'
<1> USE RequestsAssumption DEF TypeOK, StoreLocked, Goto, Reply, Spawn, CountFailure,
        streamVars, storeVars, countVars
<1>1. TypeOK /\ StoreLocked /\ (pc[r] \in {"upstream", "streaming"} => task[r] = "none")
  BY DEF IInv, HandlersOK, TaskFollowsHandler
<1>2. CASE TaskRuns(r)
  <2>1. CASE TaskLocksStore(r)
    BY <1>1, <2>1 DEF TaskLocksStore, TaskStep
  <2>2. CASE TaskPersists(r)
    BY <1>1, <2>2 DEF TaskPersists, TaskStep
  <2>3. CASE TaskSucceeds(r)
    BY <1>1, <2>3 DEF TaskSucceeds, TaskStep
  <2>4. CASE TaskFails(r)
    BY <1>1, <2>4 DEF TaskFails, TaskStep
  <2> QED BY <1>2, <2>1, <2>2, <2>3, <2>4 DEF TaskRuns
<1>3. ASSUME NEW here \in {"upstream", "streaming"}, BuildAndAppend(r, here) PROVE StoreLocked'
  BY <1>1, <1>3 DEF BuildAndAppend
<1>4. CASE UNCHANGED storeVars
  BY <1>1, <1>4
<1>5. \/ TaskRuns(r) \/ UNCHANGED storeVars
      \/ \E here \in {"upstream", "streaming"} : BuildAndAppend(r, here)
  BY DEF StepOf, ResolveApiKeyFails, SendUpstream, UpstreamAnswers, UpstreamFails,
         RecordResponse, RecordingStream, StreamStep, ObserveChunk, ForwardUnobservedChunk,
         ForwardChunk, ChunkFails, FinishRecording, FinishUnrecorded, AppendReturns,
         AppendSucceeded, AppendFailed, GiveUpRecording, Disconnect
<1> QED BY <1>2, <1>3, <1>4, <1>5

(* A step touches the cassette only when its task persists or succeeds; it *)
(* never reopens a handler, and leaves what was recorded alone.            *)
LEMMA CassetteEffect ==
  ASSUME IInv, NEW r \in Requests, StepOf(r)
  PROVE  /\ \/ /\ log' = log /\ acked' = acked
               /\ \A w \in {"written", "ok"} : task'[r] = w <=> task[r] = w
            \/ TaskPersists(r) \/ TaskSucceeds(r)
         /\ task[r] # "none" => forwarded'[r] = forwarded[r] /\ precededBy'[r] = precededBy[r]
         /\ pc[r] = "done" => pc'[r] = "done"
         /\ \/ precededBy'[r] = precededBy[r]
            \/ precededBy'[r] = {s \in Requests : pc[s] = "done"}
         /\ pc'[r] = "new" => pc[r] = "new" /\ precededBy'[r] = precededBy[r]
<1> USE DEF TypeOK, Goto, Reply, Spawn, CountFailure, streamVars, storeVars, countVars
<1>1. TypeOK /\ TaskFollowsHandler(r) BY DEF IInv, HandlersOK
<1> USE <1>1 DEF TaskFollowsHandler
<1>2. CASE ResolveApiKeyFails(r) \/ SendUpstream(r)
  BY <1>2 DEF ResolveApiKeyFails, SendUpstream
<1>3. CASE UpstreamAnswers(r)
  BY <1>3 DEF UpstreamAnswers, UpstreamFails, RecordResponse, RecordingStream,
              BuildAndAppend, GiveUpRecording
<1>4. CASE StreamStep(r)
  <2>1. CASE ObserveChunk(r) \/ ForwardUnobservedChunk(r)
    BY <2>1 DEF ObserveChunk, ForwardUnobservedChunk, ForwardChunk
  <2>2. CASE ChunkFails(r) \/ FinishRecording(r) \/ FinishUnrecorded(r)
    BY <2>2 DEF ChunkFails, FinishRecording, FinishUnrecorded, BuildAndAppend, GiveUpRecording
  <2> QED BY <1>4, <2>1, <2>2 DEF StreamStep
<1>5. CASE AppendReturns(r)
  BY <1>5 DEF AppendReturns, AppendSucceeded, AppendFailed, GiveUpRecording
<1>6. CASE TaskRuns(r)
  BY <1>6 DEF TaskRuns, TaskLocksStore, TaskPersists, TaskSucceeds, TaskFails, TaskStep
<1>7. CASE Disconnect(r)
  BY <1>7 DEF Disconnect
<1> QED BY <1>2, <1>3, <1>4, <1>5, <1>6, <1>7 DEF StepOf

LEMMA StepPrecedersAreDone ==
  ASSUME IInv, NEW r \in Requests, StepOf(r)
  PROVE  PrecedersAreDone'
<1>1. \A s \in Requests : pc[s] = "done" => pc'[s] = "done"
  BY OthersUntouched, CassetteEffect DEF IInv
<1>2. \A s \in Requests : precededBy[s] \subseteq Requests /\ precededBy'[s] \subseteq Requests
  BY StepTypeOK DEF IInv, TypeOK
<1>3. ASSUME NEW s \in Requests, s # r
      PROVE  /\ \A t \in precededBy'[s] : pc'[t] = "done"
             /\ pc'[s] = "new" => precededBy'[s] = {}
  BY <1>1, <1>2, <1>3, OthersUntouched DEF IInv, PrecedersAreDone
<1>4. \A t \in precededBy'[r] : pc'[t] = "done"
  BY <1>1, <1>2, CassetteEffect DEF IInv, PrecedersAreDone
<1>5. pc'[r] = "new" => precededBy'[r] = {}
  BY CassetteEffect DEF IInv, PrecedersAreDone
<1> QED BY <1>3, <1>4, <1>5 DEF PrecedersAreDone

(* Steps that leave the cassette alone.                                    *)
LEMMA CassetteUntouched ==
  ASSUME IInv, NEW r \in Requests, StepOf(r), ~TaskPersists(r), ~TaskSucceeds(r)
  PROVE  LogFollowsTasks' /\ AckedFollowsLog' /\ SequentialAgentsRecordInOrder'
<1>1. /\ log' = log /\ acked' = acked
      /\ \A s \in Requests : \A w \in {"written", "ok"} : task'[s] = w <=> task[s] = w
  BY CassetteEffect, OthersUntouched DEF IInv
<1>2. Recorded' = Recorded BY <1>1 DEF Recorded
<1>3. \A k \in 1..Len(log) : log[k].request \in Requests /\ log[k].request \in Recorded
  BY LoggedRecordings DEF IInv, Recorded
<1>4. ASSUME NEW s \in Recorded
      PROVE  s \in Requests /\ forwarded'[s] = forwarded[s] /\ precededBy'[s] = precededBy[s]
  <2>1. s \in Requests /\ task[s] # "none"
    BY DEF IInv, LogFollowsTasks
  <2> QED BY <2>1, CassetteEffect, OthersUntouched DEF IInv
<1>5. LogFollowsTasks'
  BY <1>1, <1>2, <1>3, <1>4 DEF IInv, LogFollowsTasks
<1>6. AckedFollowsLog'
  <2>1. Len(log) \in Nat /\ Len(acked) \in Nat BY DEF IInv, TypeOK
  <2>2. \A k \in 1..Len(acked) : k <= Len(log)' /\ acked'[k] = log'[k]
    BY <1>1 DEF IInv, AckedFollowsLog
  <2>3. CASE Len(log) = Len(acked) /\ \A s \in Requests : task[s] # "written"
    BY <1>1, <2>2, <2>3 DEF AckedFollowsLog
  <2>4. CASE Len(log) = Len(acked) + 1 /\ task[log[Len(log)].request] = "written"
    <3>1. log[Len(log)].request \in Requests BY <1>3, <2>1, <2>4
    <3>2. task'[log[Len(log)].request] = "written" BY <1>1, <2>4, <3>1
    <3> QED BY <1>1, <2>2, <2>4, <3>2 DEF AckedFollowsLog
  <2> QED BY <2>3, <2>4 DEF IInv, AckedFollowsLog
<1>7. SequentialAgentsRecordInOrder'
  BY <1>1, <1>3, <1>4 DEF IInv, SequentialAgentsRecordInOrder
<1> QED BY <1>5, <1>6, <1>7
(* The append adds one recording at the end of the cassette.               *)
LEMMA PersistStep ==
  ASSUME IInv, NEW r \in Requests, TaskPersists(r)
  PROVE  LogFollowsTasks' /\ AckedFollowsLog' /\ SequentialAgentsRecordInOrder'
<1> DEFINE x == Recording(r)
           n == Len(log) + 1
<1>1. TypeOK BY DEF IInv
<1>2. /\ log' = Append(log, x) /\ acked' = acked
      /\ task[r] = "writing" /\ task' = [task EXCEPT ![r] = "written"]
      /\ UNCHANGED <<forwarded, precededBy>>
  BY DEF TaskPersists, TaskStep, Store!Persist, streamVars
<1>3. /\ task'[r] = "written" /\ \A s \in Requests \ {r} : task'[s] = task[s]
  BY <1>1, <1>2 DEF TypeOK
<1>4. storeOwner = r /\ \A s \in Requests \ {r} : task[s] # "written" /\ task[s] # "writing"
  BY <1>2 DEF IInv, StoreLocked
<1>5. x \in Recordings /\ x.request = r /\ x.chunks = forwarded[r]
  <2>1. r \notin recording_failed /\ transcript[r] = forwarded[r]
    BY <1>2 DEF IInv, HandlersOK, TranscriptFollowsStream
  <2> QED BY <1>1, <2>1, RecordingsAreRecords
<1>6. /\ Len(log) \in Nat /\ Len(acked) \in Nat /\ Len(log') = n
      /\ \A k \in 1..Len(log) : log'[k] = log[k] /\ log[k].request \in Requests
      /\ log'[n] = x
  <2>1. log \in Seq(Recordings) BY <1>1 DEF TypeOK
  <2>2. \A k \in 1..Len(log) : log[k].request \in Requests BY <1>1, LoggedRecordings
  <2>3. Len(log) \in Nat /\ Len(acked) \in Nat BY <1>1, LoggedRecordings
  <2> HIDE DEF x
  <2>4. /\ Len(log') = Len(log) + 1 /\ log'[Len(log) + 1] = x
        /\ \A k \in 1..Len(log) : log'[k] = log[k]
    BY <1>2, <1>5, <2>1
  <2> QED BY <2>2, <2>3, <2>4
<1> HIDE DEF x, n
<1>7. \A k \in 1..n : k = n \/ k \in 1..Len(log)
  BY <1>6 DEF n
<1>8. \A k \in 1..Len(log) : log[k].request # r /\ log[k].request \in Recorded
  <2>1. r \notin Recorded BY <1>2 DEF IInv, LogFollowsTasks
  <2> QED BY <2>1 DEF Recorded
<1>9. LogFollowsTasks'
  <2>1. Recorded' = Recorded \cup {r}
    <3>1. n \in 1..n /\ \A k \in 1..Len(log) : k \in 1..n BY <1>6 DEF n
    <3> QED BY <1>5, <1>6, <1>7, <3>1 DEF Recorded
  <2>2. Recorded' = {s \in Requests : task'[s] \in {"written", "ok"}}
    BY <1>2, <1>3, <2>1 DEF IInv, LogFollowsTasks
  <2>3. \A k \in 1..n : log'[k].chunks = forwarded'[log'[k].request]
    BY <1>2, <1>5, <1>6, <1>7 DEF IInv, LogFollowsTasks
  <2>4. \A j, k \in 1..n : log'[j].request = log'[k].request => j = k
    BY <1>5, <1>6, <1>7, <1>8 DEF IInv, LogFollowsTasks
  <2> QED BY <1>6, <2>2, <2>3, <2>4 DEF LogFollowsTasks
<1>10. AckedFollowsLog'
  <2>1. Len(log) = Len(acked)
    <3> SUFFICES ASSUME Len(log) = Len(acked) + 1, task[log[Len(log)].request] = "written"
                 PROVE  FALSE
      BY DEF IInv, AckedFollowsLog
    <3>1. Len(log) \in 1..Len(log) BY <1>6
    <3> QED BY <1>4, <1>6, <1>8, <3>1
  <2>2. \A k \in 1..Len(acked) : k <= Len(log') /\ acked[k] = log'[k]
    BY <1>6, <2>1 DEF IInv, AckedFollowsLog, n
  <2>3. Len(log') = Len(acked) + 1 /\ task'[log'[Len(log')].request] = "written"
    BY <1>3, <1>5, <1>6, <2>1 DEF n
  <2> QED BY <1>2, <2>2, <2>3 DEF AckedFollowsLog
<1>11. SequentialAgentsRecordInOrder'
  <2>1. ASSUME NEW s \in Requests PROVE r \notin precededBy[s]
    BY <1>2 DEF IInv, PrecedersAreDone, HandlersOK, TaskFollowsHandler
  <2>2. \A j, k \in 1..n : log'[j].request \in precededBy'[log'[k].request] => j < k
    <3> SUFFICES ASSUME NEW j \in 1..n, NEW k \in 1..n,
                        log'[j].request \in precededBy[log'[k].request]
                 PROVE  j < k
      BY <1>2
    <3>1. log'[k].request \in Requests BY <1>5, <1>6, <1>7
    <3>2. j # n BY <1>5, <1>6, <2>1, <3>1
    <3>3. j \in 1..Len(log) BY <1>7, <3>2
    <3>4. CASE k = n BY <1>6, <3>3, <3>4 DEF n
    <3>5. CASE k \in 1..Len(log)
      BY <1>6, <3>3, <3>5 DEF IInv, SequentialAgentsRecordInOrder
    <3> QED BY <1>7, <3>4, <3>5
  <2> QED BY <1>6, <2>2 DEF SequentialAgentsRecordInOrder
<1> QED BY <1>9, <1>10, <1>11

(* What is acknowledged is the last recording of the cassette.             *)
LEMMA AcknowledgeStep ==
  ASSUME IInv, NEW r \in Requests, TaskSucceeds(r)
  PROVE  /\ LogFollowsTasks' /\ AckedFollowsLog' /\ SequentialAgentsRecordInOrder'
         /\ Len(acked') = Len(acked) + 1
<1> DEFINE x == Recording(r)
<1>1. TypeOK BY DEF IInv
<1>2. /\ acked' = Append(acked, x) /\ log' = log
      /\ task[r] = "written" /\ task' = [task EXCEPT ![r] = "ok"]
      /\ UNCHANGED <<forwarded, precededBy>>
  BY DEF TaskSucceeds, TaskStep, Store!Acknowledge, streamVars
<1>3. task'[r] = "ok" /\ \A s \in Requests \ {r} : task'[s] = task[s]
  BY <1>1, <1>2 DEF TypeOK
<1>4. \A s \in Requests \ {r} : task[s] # "written"
  BY <1>2 DEF IInv, StoreLocked
<1>5. x \in Recordings /\ x = [request |-> r, chunks |-> forwarded[r]]
  <2>1. r \notin recording_failed /\ transcript[r] = forwarded[r]
    BY <1>2 DEF IInv, HandlersOK, TranscriptFollowsStream
  <2> QED BY <1>1, <2>1, RecordingsAreRecords DEF Recording
<1>6. /\ Len(log) = Len(acked) + 1 /\ task[log[Len(log)].request] = "written"
      /\ Len(log) \in Nat /\ Len(acked) \in Nat
  BY <1>1, <1>2, LoggedRecordings DEF IInv, AckedFollowsLog
<1>7. log[Len(log)] = x
  <2>1. Len(log) \in 1..Len(log) BY <1>6
  <2>2. log[Len(log)].request = r BY <1>1, <1>4, <1>6, <2>1, LoggedRecordings
  <2>3. log[Len(log)].chunks = forwarded[r] BY <2>1, <2>2 DEF IInv, LogFollowsTasks
  <2> QED BY <1>1, <1>5, <2>1, <2>2, <2>3, LoggedRecordings
<1>8. /\ Len(acked') = Len(acked) + 1 /\ acked'[Len(acked) + 1] = x
      /\ \A k \in 1..Len(acked) : acked'[k] = acked[k]
  <2>1. acked \in Seq(Recordings) BY <1>1 DEF TypeOK
  <2> QED BY <1>2, <1>5, <2>1
<1> HIDE DEF x
<1>9. AckedFollowsLog'
  <2>1. \A k \in 1..Len(acked') : k <= Len(log) /\ acked'[k] = log[k]
    <3>1. \A k \in 1..Len(acked') : k = Len(acked) + 1 \/ k \in 1..Len(acked)
      BY <1>6, <1>8
    <3> QED BY <1>6, <1>7, <1>8, <3>1 DEF IInv, AckedFollowsLog
  <2>2. Len(log) = Len(acked') /\ \A s \in Requests : task'[s] # "written"
    BY <1>3, <1>4, <1>6, <1>8
  <2> QED BY <1>2, <2>1, <2>2 DEF AckedFollowsLog
<1>10. LogFollowsTasks'
  <2>1. Recorded' = Recorded BY <1>2 DEF Recorded
  <2>2. \A s \in Requests : task'[s] \in {"written", "ok"} <=> task[s] \in {"written", "ok"}
    BY <1>2, <1>3
  <2>3. {s \in Requests : task[s] \in {"written", "ok"}}
          = {s \in Requests : task'[s] \in {"written", "ok"}}
    BY <2>2
  <2> QED BY <1>2, <2>1, <2>3 DEF IInv, LogFollowsTasks
<1>11. SequentialAgentsRecordInOrder'
  BY <1>2 DEF IInv, SequentialAgentsRecordInOrder
<1> QED BY <1>8, <1>9, <1>10, <1>11

LEMMA InitIInv == Init => IInv
<1> SUFFICES ASSUME Init PROVE IInv OBVIOUS
<1> USE DEF Init, Store!Init
<1>1. log = <<>> /\ acked = <<>> /\ Len(log) = 0 /\ Len(acked) = 0 OBVIOUS
<1>2. TypeOK
  <2>1. log \in Seq(Recordings) /\ acked \in Seq(Recordings) BY <1>1, EmptySeq
  <2> QED BY <2>1, RequestsAssumption DEF TypeOK
<1>3. HandlersOK
  BY RequestsAssumption
     DEF HandlersOK, TaskFollowsHandler, TranscriptFollowsStream, EndsAreAccountedFor
<1>4. StoreLocked BY RequestsAssumption DEF StoreLocked
<1>5. LogFollowsTasks
  <2>1. Recorded = {} BY <1>1 DEF Recorded
  <2> QED BY <1>1, <2>1 DEF LogFollowsTasks
<1>6. AckedFollowsLog /\ PrecedersAreDone /\ SequentialAgentsRecordInOrder
  BY <1>1 DEF AckedFollowsLog, PrecedersAreDone, SequentialAgentsRecordInOrder
<1> QED BY <1>2, <1>3, <1>4, <1>5, <1>6 DEF IInv

LEMMA StepIInv ==
  ASSUME IInv, NEW r \in Requests, StepOf(r)
  PROVE  IInv'
<1>1. TypeOK' /\ HandlersOK' /\ StoreLocked' /\ PrecedersAreDone'
  BY StepTypeOK, StepHandlersOK, StepStoreLocked, StepPrecedersAreDone
<1>2. LogFollowsTasks' /\ AckedFollowsLog' /\ SequentialAgentsRecordInOrder'
  BY PersistStep, AcknowledgeStep, CassetteUntouched
<1> QED BY <1>1, <1>2 DEF IInv

LEMMA StutterIInv == IInv /\ UNCHANGED vars => IInv'
<1> SUFFICES ASSUME IInv, UNCHANGED vars PROVE IInv' OBVIOUS
<1> USE DEF vars, streamVars, storeVars, countVars
<1>1. TypeOK' /\ StoreLocked' /\ PrecedersAreDone'
  BY DEF IInv, TypeOK, StoreLocked, PrecedersAreDone
<1>2. HandlersOK'
  BY DEF IInv, HandlersOK, TaskFollowsHandler, TranscriptFollowsStream, EndsAreAccountedFor,
         Completed
<1>3. LogFollowsTasks' /\ AckedFollowsLog' /\ SequentialAgentsRecordInOrder'
  BY DEF IInv, LogFollowsTasks, Recorded, AckedFollowsLog, SequentialAgentsRecordInOrder
<1> QED BY <1>1, <1>2, <1>3 DEF IInv

LEMMA AlwaysIInv == Spec => []IInv
<1>1. Init => IInv BY InitIInv
<1>2. IInv /\ [Next]_vars => IInv'
  BY StepIInv, StutterIInv DEF Next, StepOf
<1> QED BY <1>1, <1>2, PTL DEF Spec

-----------------------------------------------------------------------------
(* A handler that runs to its end has recorded its exchange or counted a   *)
(* failure for it, whatever the others do and whoever disconnects.         *)
THEOREM NothingLostSilently == Spec => []NoSilentLoss
<1>1. IInv => NoSilentLoss
  BY DEF IInv, HandlersOK, TaskFollowsHandler, EndsAreAccountedFor, LogFollowsTasks, NoSilentLoss
<1> QED BY <1>1, AlwaysIInv, PTL

(* A recorded stream is what its client was sent, whole and parsed.        *)
THEOREM WholeStreams == Spec => []RecordedStreamsAreWhole
<1>1. ASSUME IInv PROVE RecordedStreamsAreWhole
  <2> SUFFICES ASSUME NEW k \in 1..Len(log)
               PROVE  LET r == log[k].request IN
                      /\ log[k].chunks = forwarded[r]
                      /\ r \notin recording_failed
                      /\ pc[r] # "done" \/ reply[r] = Completed(r)
    BY DEF RecordedStreamsAreWhole
  <2> DEFINE r == log[k].request
  <2>1. r \in Requests /\ task[r] \in {"written", "ok"} /\ log[k].chunks = forwarded[r]
    BY <1>1 DEF IInv, LogFollowsTasks, Recorded
  <2> HIDE DEF r
  <2>2. r \notin recording_failed /\ (pc[r] # "done" \/ reply[r] = Completed(r))
    BY <1>1, <2>1 DEF IInv, HandlersOK, TaskFollowsHandler, TranscriptFollowsStream,
                      EndsAreAccountedFor
  <2> QED BY <2>1, <2>2 DEF r
<1> QED BY <1>1, AlwaysIInv, PTL

(* The store mutex orders acknowledgements as the cassette orders writes.  *)
THEOREM AcknowledgedInOrder == Spec => []AcknowledgedInCassetteOrder
<1>1. ASSUME IInv PROVE AcknowledgedInCassetteOrder
  <2>1. acked \in Seq(Recordings) /\ log \in Seq(Recordings)
    BY <1>1 DEF IInv, TypeOK
  <2>2. Len(acked) \in Nat /\ Len(log) \in Nat BY <2>1
  <2>3. Len(acked) <= Len(log) /\ Len(log) <= Len(acked) + 1
    BY <1>1, <2>2 DEF IInv, AckedFollowsLog
  <2>4. \A k \in 1..Len(acked) : acked[k] = log[k]
    BY <1>1 DEF IInv, AckedFollowsLog
  <2>5. IsPrefix(acked, log) BY <2>1, <2>3, <2>4, PrefixAgrees
  <2> QED BY <2>3, <2>5 DEF AcknowledgedInCassetteOrder
<1> QED BY <1>1, AlwaysIInv, PTL

(* What was done before a request was sent precedes it in the cassette.    *)
THEOREM SequentialAgents == Spec => []SequentialAgentsRecordInOrder
<1>1. IInv => SequentialAgentsRecordInOrder BY DEF IInv
<1> QED BY <1>1, AlwaysIInv, PTL
-----------------------------------------------------------------------------
(* The counters. *)

(* Each step counts at most one request in each counter, and never one     *)
(* that was counted before.                                                *)
NumbersAtMost(r) ==
  \/ interaction_seq' = interaction_seq /\ (r \in Numbered' <=> r \in Numbered)
  \/ interaction_seq' = interaction_seq + 1 /\ r \in Numbered' \ Numbered

RecordsAtMost(r) ==
  \/ recorded_count' = recorded_count /\ (r \in Counted' <=> r \in Counted)
  \/ recorded_count' = recorded_count + 1 /\ r \in Counted' \ Counted

AcknowledgesAtMost(r) ==
  \/ acked' = acked /\ (r \in Acknowledged' <=> r \in Acknowledged)
  \/ Len(acked') = Len(acked) + 1 /\ r \in Acknowledged' \ Acknowledged

FailsAtMost(r) ==
  \/ /\ failure_count' = failure_count
     /\ r \in failed' <=> r \in failed
     /\ r \in FailedTwice' <=> r \in FailedTwice
  \/ /\ failure_count' = failure_count + 1
     /\ r \in failed' \ failed
     /\ r \in FailedTwice' <=> r \in FailedTwice
  \/ /\ failure_count' = failure_count + 1
     /\ r \in failed' <=> r \in failed
     /\ r \in FailedTwice' \ FailedTwice

LEMMA DisjointParts ==
  ASSUME NEW S, NEW T, IsFiniteSet(S), IsFiniteSet(T), S \cap T = {}
  PROVE  Cardinality(S \cup T) = Cardinality(S) + Cardinality(T)
<1>1. Cardinality(S \cup T) = Cardinality(S) + Cardinality(T) - Cardinality({})
  BY FS_Union
<1>2. Cardinality({}) = 0 /\ Cardinality(S) \in Nat /\ Cardinality(T) \in Nat
  BY FS_EmptySet, FS_CardinalityType
<1> QED BY <1>1, <1>2

LEMMA StepCounts ==
  ASSUME IInv, NEW r \in Requests, StepOf(r)
  PROVE  NumbersAtMost(r) /\ RecordsAtMost(r) /\ AcknowledgesAtMost(r) /\ FailsAtMost(r)
<1> USE DEF TypeOK, Goto, Reply, Spawn, CountFailure, streamVars, storeVars, countVars,
            TaskFollowsHandler, TranscriptFollowsStream, EndsAreAccountedFor, Completed,
            NumbersAtMost, RecordsAtMost, AcknowledgesAtMost, FailsAtMost,
            Numbered, Acknowledged, Counted, FailedTwice
<1>1. TypeOK /\ TaskFollowsHandler(r) /\ TranscriptFollowsStream(r) /\ EndsAreAccountedFor(r)
  BY DEF IInv, HandlersOK
<1> USE <1>1
<1>2. CASE ResolveApiKeyFails(r) BY <1>2 DEF ResolveApiKeyFails
<1>3. CASE SendUpstream(r) BY <1>3 DEF SendUpstream
<1>4. CASE UpstreamFails(r) BY <1>4 DEF UpstreamFails
<1>5. CASE RecordResponse(r)
  BY <1>5 DEF RecordResponse, BuildAndAppend, GiveUpRecording
<1>6. CASE RecordingStream(r) BY <1>6 DEF RecordingStream
<1>7. CASE ObserveChunk(r) BY <1>7 DEF ObserveChunk, ForwardChunk
<1>8. CASE ForwardUnobservedChunk(r) BY <1>8 DEF ForwardUnobservedChunk, ForwardChunk
<1>9. CASE ChunkFails(r) BY <1>9 DEF ChunkFails
<1>10. CASE FinishRecording(r)
  BY <1>10 DEF FinishRecording, BuildAndAppend, GiveUpRecording
<1>11. CASE FinishUnrecorded(r) BY <1>11 DEF FinishUnrecorded
<1>12. CASE AppendSucceeded(r) BY <1>12 DEF AppendSucceeded
<1>13. CASE AppendFailed(r) BY <1>13 DEF AppendFailed, GiveUpRecording
<1>14. CASE TaskLocksStore(r) \/ TaskFails(r)
  BY <1>14 DEF TaskLocksStore, TaskFails, TaskStep
<1>15. CASE TaskPersists(r) BY <1>15 DEF TaskPersists, TaskStep, Store!Persist
<1>16. CASE TaskSucceeds(r)
  <2>1. Len(acked') = Len(acked) + 1 BY <1>16, AcknowledgeStep
  <2> QED BY <1>16, <2>1 DEF TaskSucceeds, TaskStep
<1>17. CASE Disconnect(r) BY <1>17 DEF Disconnect
<1> QED BY <1>2, <1>3, <1>4, <1>5, <1>6, <1>7, <1>8, <1>9, <1>10, <1>11, <1>12, <1>13,
           <1>14, <1>15, <1>16, <1>17
        DEF StepOf, UpstreamAnswers, StreamStep, AppendReturns, TaskRuns

(* The sets that are counted are finite while finitely many requests have  *)
(* been received.                                                          *)
LEMMA CountedAreFinite ==
  ASSUME IInv, IsFiniteSet({r \in Requests : pc[r] # "new"})
  PROVE  /\ IsFiniteSet(Numbered) /\ IsFiniteSet(Acknowledged) /\ IsFiniteSet(Counted)
         /\ IsFiniteSet(failed) /\ IsFiniteSet(FailedTwice)
         /\ Cardinality(Numbered) \in Nat /\ Cardinality(Acknowledged) \in Nat
         /\ Cardinality(Counted) \in Nat /\ Cardinality(failed) \in Nat
         /\ Cardinality(FailedTwice) \in Nat
<1> DEFINE Started == {r \in Requests : pc[r] # "new"}
<1>1. \A r \in Requests : pc[r] = "new" => task[r] = "none" /\ r \notin failed /\ r \notin recording_failed
  BY DEF IInv, HandlersOK, TaskFollowsHandler, TranscriptFollowsStream, EndsAreAccountedFor
<1>2. /\ Numbered \subseteq Started /\ Acknowledged \subseteq Started /\ Counted \subseteq Started
      /\ failed \subseteq Started /\ FailedTwice \subseteq Started
  BY <1>1 DEF IInv, TypeOK, Numbered, Acknowledged, Counted, FailedTwice
<1> HIDE DEF Started
<1>3. /\ IsFiniteSet(Numbered) /\ IsFiniteSet(Acknowledged) /\ IsFiniteSet(Counted)
      /\ IsFiniteSet(failed) /\ IsFiniteSet(FailedTwice)
  <2>1. IsFiniteSet(Started) BY DEF Started
  <2> QED BY <1>2, <2>1, FS_Subset
<1> QED BY <1>3, FS_CardinalityType

LEMMA StepCountInv ==
  ASSUME IInv, CountInv, NEW r \in Requests, StepOf(r)
  PROVE  CountInv'
<1>1. /\ IsFiniteSet(Numbered) /\ IsFiniteSet(Acknowledged) /\ IsFiniteSet(Counted)
      /\ IsFiniteSet(failed) /\ IsFiniteSet(FailedTwice)
      /\ Cardinality(failed) \in Nat /\ Cardinality(FailedTwice) \in Nat
  BY CountedAreFinite DEF CountInv
<1>2. \A s \in Requests \ {r} :
        /\ pc'[s] = pc[s] /\ reply'[s] = reply[s] /\ task'[s] = task[s]
        /\ s \in failed' <=> s \in failed
        /\ s \in recording_failed' <=> s \in recording_failed
  BY OthersUntouched DEF IInv
<1>3. TypeOK /\ TypeOK' BY StepTypeOK DEF IInv
<1>4. \A s \in Requests \ {r} :
        /\ s \in Numbered' <=> s \in Numbered
        /\ s \in Acknowledged' <=> s \in Acknowledged
        /\ s \in Counted' <=> s \in Counted
        /\ s \in FailedTwice' <=> s \in FailedTwice
  BY <1>2 DEF Numbered, Acknowledged, Counted, FailedTwice
<1>5. /\ Numbered \subseteq Requests /\ Acknowledged \subseteq Requests
      /\ Counted \subseteq Requests /\ failed \subseteq Requests /\ FailedTwice \subseteq Requests
      /\ Numbered' \subseteq Requests /\ Acknowledged' \subseteq Requests
      /\ Counted' \subseteq Requests /\ failed' \subseteq Requests /\ FailedTwice' \subseteq Requests
  BY <1>3 DEF TypeOK, Numbered, Acknowledged, Counted, FailedTwice
<1>6. IsFiniteSet({s \in Requests : pc'[s] # "new"})
  <2>1. {s \in Requests : pc'[s] # "new"} \subseteq {s \in Requests : pc[s] # "new"} \cup {r}
    BY <1>2
  <2>2. IsFiniteSet({s \in Requests : pc[s] # "new"} \cup {r})
    BY FS_AddElement DEF CountInv
  <2> QED BY <2>1, <2>2, FS_Subset
<1>7. interaction_seq' = Cardinality(Numbered')
  <2>1. CASE r \in Numbered' <=> r \in Numbered
    <3>1. Numbered' = Numbered BY <1>4, <1>5, <2>1
    <3> QED BY <2>1, <3>1, StepCounts DEF NumbersAtMost, CountInv
  <2>2. CASE r \in Numbered' \ Numbered
    <3>1. Numbered' = Numbered \cup {r} BY <1>4, <1>5, <2>2
    <3> QED BY <1>1, <2>2, <3>1, StepCounts, FS_AddElement DEF NumbersAtMost, CountInv
  <2> QED BY <2>1, <2>2, StepCounts DEF NumbersAtMost
<1>8. recorded_count' = Cardinality(Counted')
  <2>1. CASE r \in Counted' <=> r \in Counted
    <3>1. Counted' = Counted BY <1>4, <1>5, <2>1
    <3> QED BY <2>1, <3>1, StepCounts DEF RecordsAtMost, CountInv
  <2>2. CASE r \in Counted' \ Counted
    <3>1. Counted' = Counted \cup {r} BY <1>4, <1>5, <2>2
    <3> QED BY <1>1, <2>2, <3>1, StepCounts, FS_AddElement DEF RecordsAtMost, CountInv
  <2> QED BY <2>1, <2>2, StepCounts DEF RecordsAtMost
<1>9. Len(acked') = Cardinality(Acknowledged')
  <2>1. CASE r \in Acknowledged' <=> r \in Acknowledged
    <3>1. Acknowledged' = Acknowledged BY <1>4, <1>5, <2>1
    <3> QED BY <2>1, <3>1, StepCounts DEF AcknowledgesAtMost, CountInv
  <2>2. CASE r \in Acknowledged' \ Acknowledged
    <3>1. Acknowledged' = Acknowledged \cup {r} BY <1>4, <1>5, <2>2
    <3> QED BY <1>1, <2>2, <3>1, StepCounts, FS_AddElement DEF AcknowledgesAtMost, CountInv
  <2> QED BY <2>1, <2>2, StepCounts DEF AcknowledgesAtMost
<1>10. failure_count' = Cardinality(failed') + Cardinality(FailedTwice')
  <2>1. CASE r \in failed' \ failed
    <3>1. failed' = failed \cup {r} /\ FailedTwice' = FailedTwice
      BY <1>2, <1>4, <1>5, <2>1, StepCounts DEF FailsAtMost
    <3>2. Cardinality(failed') = Cardinality(failed) + 1
      BY <1>1, <2>1, <3>1, FS_AddElement
    <3>3. failure_count' = failure_count + 1 BY <2>1, StepCounts DEF FailsAtMost
    <3> QED BY <1>1, <3>1, <3>2, <3>3 DEF CountInv
  <2>2. CASE r \in FailedTwice' \ FailedTwice
    <3>1. FailedTwice' = FailedTwice \cup {r} /\ failed' = failed
      BY <1>2, <1>4, <1>5, <2>2, StepCounts DEF FailsAtMost
    <3>2. Cardinality(FailedTwice') = Cardinality(FailedTwice) + 1
      BY <1>1, <2>2, <3>1, FS_AddElement
    <3>3. failure_count' = failure_count + 1 BY <2>2, StepCounts DEF FailsAtMost
    <3> QED BY <1>1, <3>1, <3>2, <3>3 DEF CountInv
  <2>3. CASE ~(r \in failed' \ failed) /\ ~(r \in FailedTwice' \ FailedTwice)
    <3>1. failure_count' = failure_count /\ failed' = failed /\ FailedTwice' = FailedTwice
      BY <1>2, <1>4, <1>5, <2>3, StepCounts DEF FailsAtMost
    <3> QED BY <3>1 DEF CountInv
  <2> QED BY <2>1, <2>2, <2>3
<1> QED BY <1>6, <1>7, <1>8, <1>9, <1>10 DEF CountInv

LEMMA AlwaysCountInv == Spec => []CountInv
<1>1. Init => CountInv
  <2> SUFFICES ASSUME Init PROVE CountInv OBVIOUS
  <2> USE DEF Init, Store!Init
  <2>1. /\ {r \in Requests : pc[r] # "new"} = {} /\ Numbered = {} /\ Acknowledged = {}
        /\ Counted = {} /\ FailedTwice = {} /\ failed = {}
    BY DEF Numbered, Acknowledged, Counted, FailedTwice
  <2>2. IsFiniteSet({}) /\ Cardinality({}) = 0 BY FS_EmptySet
  <2>3. /\ Len(acked) = 0 /\ interaction_seq = 0 /\ recorded_count = 0
        /\ failure_count = 0
    OBVIOUS
  <2> HIDE DEF Init, Store!Init
  <2>4. failure_count = Cardinality(failed) + Cardinality(FailedTwice)
    BY <2>1, <2>2, <2>3
  <2> QED BY <2>1, <2>2, <2>3, <2>4 DEF CountInv
<1>2. IInv /\ CountInv /\ [Next]_vars => CountInv'
  <2> SUFFICES ASSUME IInv, CountInv, [Next]_vars PROVE CountInv' OBVIOUS
  <2>1. CASE UNCHANGED vars
    BY <2>1 DEF CountInv, Numbered, Acknowledged, Counted, FailedTwice, vars, streamVars,
                storeVars, countVars
  <2>2. CASE Next
    <3>1. PICK r \in Requests : StepOf(r) BY <2>2 DEF Next, StepOf
    <3> QED BY <3>1, StepCountInv
  <2> QED BY <2>1, <2>2
<1> QED BY <1>1, <1>2, AlwaysIInv, PTL DEF Spec

(* The recorded counter misses exactly the persisted interactions whose    *)
(* client left before the handler could count them.                        *)
THEOREM CountTrails == Spec => []RecordedCountTrailsTheCassette
<1>1. ASSUME IInv, CountInv PROVE RecordedCountTrailsTheCassette
  <2> DEFINE Uncounted == {r \in Requests : task[r] = "ok" /\ pc[r] # "done"}
  <2>1. Acknowledged = Counted \cup Uncounted /\ Counted \cap Uncounted = {}
        /\ Uncounted \subseteq Acknowledged
    BY DEF Acknowledged, Counted
  <2>2. IsFiniteSet(Counted) /\ IsFiniteSet(Uncounted)
    BY <1>1, <2>1, CountedAreFinite, FS_Subset DEF CountInv
  <2>3. Cardinality(Acknowledged) = Cardinality(Counted) + Cardinality(Uncounted)
    BY <2>1, <2>2, DisjointParts
  <2> QED BY <1>1, <2>3 DEF CountInv, RecordedCountTrailsTheCassette
<1> QED BY <1>1, AlwaysIInv, AlwaysCountInv, PTL

(* Once nothing is in flight, what was numbered was recorded or failed;    *)
(* the failure counter counts a request twice only when its stream first   *)
(* failed to parse and then broke off.                                     *)
THEOREM CountsBalance == Spec => []CountersBalance
<1>1. ASSUME IInv, CountInv PROVE CountersBalance
  <2> SUFFICES ASSUME \A r \in Requests : pc[r] \in {"new", "done"}
               PROVE  interaction_seq = recorded_count + Cardinality(failed)
    BY <1>1 DEF CountInv, FailedTwice, CountersBalance
  <2>1. \A r \in Requests :
          /\ r \in Numbered <=> r \in Counted \/ r \in failed
          /\ ~(r \in Counted /\ r \in failed)
    BY <1>1 DEF IInv, HandlersOK, TaskFollowsHandler, TranscriptFollowsStream,
                EndsAreAccountedFor, Completed, Numbered, Counted, Acknowledged
  <2>2. Numbered \subseteq Requests /\ Counted \subseteq Requests /\ failed \subseteq Requests
    BY <1>1 DEF IInv, TypeOK, Numbered, Counted, Acknowledged
  <2>3. Numbered = Counted \cup failed /\ Counted \cap failed = {}
    BY <2>1, <2>2
  <2>4. IsFiniteSet(Counted) /\ IsFiniteSet(failed)
    BY <1>1, CountedAreFinite DEF CountInv
  <2>5. Cardinality(Numbered) = Cardinality(Counted) + Cardinality(failed)
    BY <2>3, <2>4, DisjointParts
  <2> QED BY <1>1, <2>5 DEF CountInv
<1> QED BY <1>1, AlwaysIInv, AlwaysCountInv, PTL
=============================================================================
