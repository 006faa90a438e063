---------------------------- MODULE RecordService ---------------------------
(***************************************************************************)
(* The record service (RecordService, StreamRecordingState): concurrent    *)
(* chat-completions requests proxied upstream, buffered or streamed, each  *)
(* appended to the shared cassette by a task on the blocking pool that     *)
(* holds the store mutex while it writes.                                  *)
(*                                                                         *)
(* A handler advances from one await to the next.  At any await its client *)
(* may disconnect, which drops the handler and everything it would have    *)
(* done after that await; a blocking task already spawned runs on.  The    *)
(* store itself is the log of CassetteLog, which CassetteStore implements. *)
(***************************************************************************)
EXTENDS Integers, Sequences, SequencesExt, FiniteSets

CONSTANTS
  Requests,         \* the chat-completions requests of one session
  StreamRequests,   \* those with "stream": true in their body
  MaxChunks,        \* bound on the chunks of one upstream stream
  NoOne             \* the store mutex is free

ASSUME RequestsAssumption ==
  /\ StreamRequests \subseteq Requests
  /\ MaxChunks \in Nat
  /\ NoOne \notin Requests

VARIABLES
  keyConfigured,    \* the API-key variable is set in the environment
  pc,               \* the await each request's handler is at
  reply,            \* what the client has been told
  forwarded,        \* chunks passed to the client
  transcript,       \* chunks kept in raw_transcript
  recording_failed, \* requests whose stream did not parse
  task,             \* the blocking append of each request
  storeOwner,       \* who holds the store mutex
  log, acked,       \* the cassette
  recorded_count, failure_count, interaction_seq,
  failed,           \* history: requests that counted a failure
  precededBy        \* history: requests already done when this one was sent

storeVars == <<task, storeOwner, log, acked>>
countVars == <<recorded_count, failure_count, interaction_seq, failed>>
streamVars == <<forwarded, transcript, recording_failed>>
vars == <<keyConfigured, pc, reply, precededBy, streamVars, storeVars, countVars>>

(* What is appended for a request: whose exchange it is and how much of    *)
(* the response it holds.                                                  *)
Recordings == [request : Requests, chunks : 0..MaxChunks]
Recording(r) == [request |-> r, chunks |-> transcript[r]]

Store == INSTANCE CassetteLog WITH Interactions <- Recordings

Init ==
  /\ keyConfigured \in BOOLEAN
  /\ pc = [r \in Requests |-> "new"]
  /\ reply = [r \in Requests |-> "none"]
  /\ forwarded = [r \in Requests |-> 0]
  /\ transcript = [r \in Requests |-> 0]
  /\ recording_failed = {}
  /\ task = [r \in Requests |-> "none"]
  /\ storeOwner = NoOne
  /\ Store!Init
  /\ recorded_count = 0 /\ failure_count = 0 /\ interaction_seq = 0
  /\ failed = {}
  /\ precededBy = [r \in Requests |-> {}]

-----------------------------------------------------------------------------
Goto(r, here, there) ==
  /\ pc[r] = here
  /\ pc' = [pc EXCEPT ![r] = there]

Reply(r, what) == reply' = [reply EXCEPT ![r] = what]

Spawn(r) == task' = [task EXCEPT ![r] = "queued"]

CountFailure(r) ==
  /\ failure_count' = failure_count + 1
  /\ failed' = failed \cup {r}
  /\ UNCHANGED <<recorded_count, interaction_seq>>

(* How a request's exchange ends for its client when it ends well. *)
Completed(r) == IF r \in StreamRequests THEN "eof" ELSE "response"

-----------------------------------------------------------------------------
(* The first poll of a handler runs to the upstream call's await.  Without *)
(* a key the request fails before it is numbered or counted.               *)
ResolveApiKeyFails(r) ==
  /\ ~keyConfigured
  /\ Goto(r, "new", "done")
  /\ Reply(r, "missing_key")
  /\ UNCHANGED <<keyConfigured, precededBy, streamVars, storeVars, countVars>>

SendUpstream(r) ==
  /\ keyConfigured
  /\ Goto(r, "new", "upstream")
  /\ interaction_seq' = interaction_seq + 1
  /\ precededBy' = [precededBy EXCEPT ![r] = {s \in Requests : pc[s] = "done"}]
  /\ UNCHANGED <<keyConfigured, reply, streamVars, storeVars,
                 recorded_count, failure_count, failed>>

(* Mutant: a failed upstream call is not counted. *)
UpstreamFailureUncounted(r) ==
  /\ Goto(r, "upstream", "done")
  /\ Reply(r, "internal")
  /\ UNCHANGED <<keyConfigured, precededBy, streamVars, storeVars, countVars>>

UpstreamFails(r) ==
  /\ Goto(r, "upstream", "done")
  /\ Reply(r, "internal")
  /\ CountFailure(r)
  /\ UNCHANGED <<keyConfigured, precededBy, streamVars, storeVars>>

(* Mutant: the exchange completes without waiting for its append. *)
CompleteBeforeAppend(r, here) ==
  /\ Goto(r, here, "done")
  /\ Reply(r, Completed(r))
  /\ Spawn(r)
  /\ UNCHANGED <<keyConfigured, precededBy, streamVars,
                 storeOwner, log, acked, countVars>>

(* build_interaction or build_stream_interaction, then the append's await. *)
BuildAndAppend(r, here) ==
  /\ Goto(r, here, "appending")
  /\ Spawn(r)
  /\ UNCHANGED <<keyConfigured, reply, precededBy, streamVars,
                 storeOwner, log, acked, countVars>>

(* A failure to build or to parse the end of a stream is counted; the      *)
(* client still gets the upstream response.                                *)
GiveUpRecording(r, here) ==
  /\ Goto(r, here, "done")
  /\ Reply(r, Completed(r))
  /\ CountFailure(r)
  /\ UNCHANGED <<keyConfigured, precededBy, streamVars, storeVars>>

RecordResponse(r) ==
  /\ r \notin StreamRequests
  /\ BuildAndAppend(r, "upstream") \/ GiveUpRecording(r, "upstream")

-----------------------------------------------------------------------------
(* Streaming: the response is returned at once and its body is polled.     *)
RecordingStream(r) ==
  /\ r \in StreamRequests
  /\ Goto(r, "upstream", "streaming")
  /\ Reply(r, "headers")
  /\ UNCHANGED <<keyConfigured, precededBy, streamVars, storeVars, countVars>>

(* observe_chunk: the bytes join the transcript before they are parsed;    *)
(* once parsing has failed the transcript is left alone.  The chunk is     *)
(* forwarded in every case.                                                *)
ForwardChunk(r) ==
  /\ forwarded[r] < MaxChunks
  /\ Goto(r, "streaming", "streaming")
  /\ forwarded' = [forwarded EXCEPT ![r] = @ + 1]
  /\ UNCHANGED <<keyConfigured, reply, precededBy, storeVars>>

(* Mutant: a stream that does not parse is given up without a count.       *)
ParseFailureUncounted(r) ==
  /\ r \notin recording_failed
  /\ ForwardChunk(r)
  /\ transcript' = [transcript EXCEPT ![r] = @ + 1]
  /\ recording_failed' \in {recording_failed, recording_failed \cup {r}}
  /\ UNCHANGED countVars

ObserveChunk(r) ==
  /\ r \notin recording_failed
  /\ ForwardChunk(r)
  /\ transcript' = [transcript EXCEPT ![r] = @ + 1]
  /\ \/ UNCHANGED <<recording_failed, countVars>>
     \/ recording_failed' = recording_failed \cup {r} /\ CountFailure(r)

ForwardUnobservedChunk(r) ==
  /\ r \in recording_failed
  /\ ForwardChunk(r)
  /\ UNCHANGED <<transcript, recording_failed, countVars>>

ChunkFails(r) ==
  /\ Goto(r, "streaming", "done")
  /\ Reply(r, "stream_error")
  /\ CountFailure(r)
  /\ UNCHANGED <<keyConfigured, precededBy, streamVars, storeVars>>

(* Mutant: a stream that did not parse is appended all the same. *)
FinishRegardless(r) == BuildAndAppend(r, "streaming") \/ GiveUpRecording(r, "streaming")

(* finish_recording at the end of the upstream body. *)
FinishRecording(r) ==
  /\ r \notin recording_failed
  /\ BuildAndAppend(r, "streaming") \/ GiveUpRecording(r, "streaming")

FinishUnrecorded(r) ==
  /\ r \in recording_failed
  /\ Goto(r, "streaming", "done")
  /\ Reply(r, "eof")
  /\ UNCHANGED <<keyConfigured, precededBy, streamVars, storeVars, countVars>>

-----------------------------------------------------------------------------
(* append_interaction's blocking task. *)
TaskStep(r, here, there) ==
  /\ task[r] = here
  /\ task' = [task EXCEPT ![r] = there]
  /\ UNCHANGED <<keyConfigured, pc, reply, precededBy, streamVars, countVars>>

(* Mutant: the task writes without the store mutex. *)
TaskSkipsLock(r) ==
  /\ TaskStep(r, "queued", "writing")
  /\ storeOwner' = r
  /\ UNCHANGED <<log, acked>>

TaskLocksStore(r) ==
  /\ storeOwner = NoOne
  /\ TaskStep(r, "queued", "writing")
  /\ storeOwner' = r
  /\ UNCHANGED <<log, acked>>

TaskPersists(r) ==
  /\ TaskStep(r, "writing", "written")
  /\ Store!Persist(Recording(r))
  /\ UNCHANGED storeOwner

TaskSucceeds(r) ==
  /\ TaskStep(r, "written", "ok")
  /\ Store!Acknowledge(Recording(r))
  /\ storeOwner' = NoOne

(* Mutant: a failed append keeps the store mutex. *)
TaskFailsLocked(r) ==
  /\ TaskStep(r, "writing", "err")
  /\ UNCHANGED <<storeOwner, log, acked>>

TaskFails(r) ==
  /\ TaskStep(r, "writing", "err")
  /\ storeOwner' = NoOne
  /\ UNCHANGED <<log, acked>>

(* The handler resumes from the append's await, counts, and completes.     *)
AppendSucceeded(r) ==
  /\ task[r] = "ok"
  /\ Goto(r, "appending", "done")
  /\ Reply(r, Completed(r))
  /\ recorded_count' = recorded_count + 1
  /\ UNCHANGED <<keyConfigured, precededBy, streamVars, storeVars,
                 failure_count, interaction_seq, failed>>

(* Mutant: a failed append is counted as a recording. *)
AppendFailedCountsRecorded(r) ==
  /\ task[r] = "err"
  /\ Goto(r, "appending", "done")
  /\ Reply(r, Completed(r))
  /\ recorded_count' = recorded_count + 1
  /\ UNCHANGED <<keyConfigured, precededBy, streamVars, storeVars,
                 failure_count, interaction_seq, failed>>

AppendFailed(r) ==
  /\ task[r] = "err"
  /\ GiveUpRecording(r, "appending")

(* The client goes away while the handler waits: its future is dropped.    *)
Disconnect(r) ==
  /\ pc[r] \in {"upstream", "streaming", "appending"}
  /\ pc' = [pc EXCEPT ![r] = "dropped"]
  /\ UNCHANGED <<keyConfigured, reply, precededBy, streamVars, storeVars, countVars>>

UpstreamAnswers(r) == UpstreamFails(r) \/ RecordResponse(r) \/ RecordingStream(r)

StreamStep(r) ==
  \/ ObserveChunk(r) \/ ForwardUnobservedChunk(r) \/ ChunkFails(r)
  \/ FinishRecording(r) \/ FinishUnrecorded(r)

TaskRuns(r) ==
  TaskLocksStore(r) \/ TaskPersists(r) \/ TaskSucceeds(r) \/ TaskFails(r)

AppendReturns(r) == AppendSucceeded(r) \/ AppendFailed(r)

Next ==
  \E r \in Requests :
    \/ ResolveApiKeyFails(r) \/ SendUpstream(r)
    \/ UpstreamAnswers(r) \/ StreamStep(r) \/ AppendReturns(r)
    \/ TaskRuns(r)
    \/ Disconnect(r)

Spec == Init /\ [][Next]_vars

(* The upstream call ends within the upstream client's 30 second timeouts, *)
(* the blocking pool runs what was spawned, and a buffered handler whose   *)
(* append is over is polled.  A stream's body is polled only as its client *)
(* reads it, and nothing makes a client read, send or disconnect.          *)
Fairness ==
  /\ \A r \in Requests : WF_vars(UpstreamAnswers(r)) /\ WF_vars(TaskRuns(r))
  /\ \A r \in Requests \ StreamRequests : WF_vars(AppendReturns(r))

FairSpec == Spec /\ Fairness

-----------------------------------------------------------------------------
Recorded == {log[k].request : k \in 1..Len(log)}

(* A handler that runs to its end leaves a trace: its exchange is in the   *)
(* cassette or a failure was counted for it, never both and never neither. *)
(* In particular a client sees the end of a stream only after that.        *)
NoSilentLoss ==
  \A r \in Requests :
    pc[r] = "done" /\ reply[r] # "missing_key" =>
      (r \in Recorded) # (r \in failed)

(* recorded_count never runs ahead of the cassette: it misses exactly the  *)
(* written interactions whose handler has not resumed, or never will.      *)
RecordedCountTrailsTheCassette ==
  recorded_count
    + Cardinality({r \in Requests : task[r] = "ok" /\ pc[r] # "done"}) = Len(acked)

(* The store mutex makes acknowledgements follow the cassette's order and  *)
(* leaves at most one interaction written but not acknowledged.            *)
AcknowledgedInCassetteOrder ==
  IsPrefix(acked, log) /\ Len(log) <= Len(acked) + 1

(* A recorded stream is the whole stream: every chunk its client was sent, *)
(* and nothing of a stream that broke off or did not parse.                *)
RecordedStreamsAreWhole ==
  \A k \in 1..Len(log) :
    LET r == log[k].request IN
    /\ log[k].chunks = forwarded[r]
    /\ r \notin recording_failed
    /\ pc[r] # "done" \/ reply[r] = Completed(r)

(* An agent that waits for each response before its next request gets a    *)
(* cassette in the order of its requests, which strict replay depends on.  *)
SequentialAgentsRecordInOrder ==
  \A j, k \in 1..Len(log) :
    log[j].request \in precededBy[log[k].request] => j < k

(* Every numbered interaction ends up recorded or failed, unless its       *)
(* client went away: the three counters balance once nothing is in flight. *)
(* failure_count counts a stream twice that first fails to parse and then  *)
(* breaks off.                                                             *)
CountersBalance ==
  /\ (\A r \in Requests : pc[r] \in {"new", "done"}) =>
       interaction_seq = recorded_count + Cardinality(failed)
  /\ failure_count = Cardinality(failed)
       + Cardinality({r \in recording_failed : reply[r] = "stream_error"})

(* "Dropping a request future does not cancel a blocking write that has    *)
(* already started": an append comes to its end, client or no client, and  *)
(* a buffered request that is not dropped gets its response.               *)
AppendsAndResponsesEnd ==
  \A r \in Requests :
    /\ task[r] = "queued" ~> task[r] \in {"ok", "err"}
    /\ r \notin StreamRequests =>
         (pc[r] = "upstream" ~> pc[r] \in {"done", "dropped"})

(* recorded_count as record.rs documents it: the "Number of interactions   *)
(* successfully persisted in this session", read when nothing is running.  *)
RecordedCountIsPersistedCount ==
  (\A r \in Requests :
     pc[r] \in {"new", "done", "dropped"} /\ task[r] \in {"none", "ok", "err"})
  => recorded_count = Len(log)
=============================================================================
