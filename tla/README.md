# Spycatcher harness: TLA+ models

Spycatcher is an HTTP harness for LLM chat completions. In *record* mode it
proxies `POST /v1/chat/completions` to an upstream and appends every exchange
to a cassette file; in *replay* mode it answers the same route from a cassette.
These modules model what is concurrent, crash-prone or order-dependent in it,
and the pure rules by which requests are matched, headers chosen and settings
layered.
TLC checks small instances of all of it. TLAPS proves all of its safety for every
instance: of the engine, the two services, the store, streams, sessions,
harnesses, processes and of an exchange from end to end.

## The system

| Component | State it keeps | Operations | What makes it correct |
| --- | --- | --- | --- |
| Matching engine (`cassette/matching/*`) | cassette, mode, `sequential_cursor`, `consumed` | `with_policy`, `next_match`, `peek_match`, `commit_match` | no interaction is handed out twice; recorded order is kept |
| Replay service (`replay*.rs`) | engine behind a mutex, two relaxed counters | `handle_chat_completions` | one atomic decision per request; diagnostics that stay true |
| Replay adapter (`server/replay_handler.rs`, `replay_stream.rs`) | none | rendering of events, eager below 64 KiB | the body reads back as the recorded events |
| Cassette store (`cassette/filesystem.rs`) | cassette in memory, the file, a temporary file | open, probe, append (`flush`) | the file is always a cassette and only grows |
| Record service (`server/record*.rs`) | shared store behind a mutex, three counters | buffered and streamed exchanges | nothing is lost silently; order of appends |
| Stream recorder and SSE parser (`record_stream/*`, `sse.rs`) | transcript, events, offsets, parser buffer | `observe_chunk`, `finish_recording`, `feed`, `finish` | chunk boundaries never show |
| Lifecycle (`lib.rs`, `server/runtime.rs`) | listener task, shutdown channel | `start_harness`, `shutdown` | a shutdown waits for what was promised |
| Canonical requests (`cassette/canonical/*`), diff (`cassette/diff.rs`), stream policy | none (pure) | canonicalise, hash, diff | equal requests hash equally; a diff names every difference and nothing else |
| Header policy (`http_exchange.rs`), upstream client (`upstream.rs`) | configuration only | select, redact, build and send the upstream request | redaction before persistence; credentials are replaced; the recorded request is the client's |
| Configuration (`config.rs`, `cli/*`), localisation (`i18n.rs`, `cli/localiz*`) | settings of a process | layer, validate, choose a locale | flag before environment before file before default, setting by setting |
| The binary (`bin/*`) and its output | exit status | parse, load, start, wait, exit | the status tells what happened |

How they interact: a handler of the record server calls the upstream client,
builds an interaction and hands it to a blocking task, which locks the shared
store and flushes the file. A handler of the replay server locks the engine,
peeks, builds the response, commits, unlocks, counts. A recorded stream is
parsed while its chunks are forwarded and appended before the client sees the
end of the body. The two modes meet only in the cassette file.

Hard behaviour: handlers interleave at two mutexes and around relaxed counters;
a client may disconnect at any await, which drops its handler but not a write
already handed to the blocking pool; each system call of a flush may fail, the
process may die between two of them, power may fail; upstream chunks are cut
anywhere. The full list, line by line, is in `PROJECT.json` under `hazards`.

## Modules

| Module | Models | Notes |
| --- | --- | --- |
| `ReplayEngine` | `ReplayMatchEngine` | state and operations; no specification of its own |
| `ReplayEngineCalls` | the engine as a library | one caller mixing `next_match`, `peek_match`, `commit_match` |
| `ReplayService` | `ReplayService` and its axum handler | lock, peek, commit and counting are separate steps |
| `ReplayContract` | what replay promises a client | abstract: one step per request |
| `CassetteStore` | `FilesystemCassetteStore` | one step per system call; crash and power loss |
| `CassetteLog` | what a cassette promises | abstract: append-only log with acknowledgements |
| `RecordService` | `RecordService` with streams and the blocking task | uses `CassetteLog` for the store, which `CassetteStore` implements |
| `SseParser` | `SseParser` | `feed` and `finish` over tokens |
| `StreamBody` | `build_stream_body` | rendering, eager limit |
| `StreamRecorder` | `StreamRecordingState` | parser, transcript and offsets of one stream; replays what it recorded |
| `RecordReplay` | a recording session, `RunningHarness::shutdown`, a replay of its cassette | composes `RecordService` and `ReplayService` |
| `HarnessLifecycle` | `start_harness`, `shutdown` and the stores of several harnesses on one path | names and files apart: a store keeps writing to the file it opened |
| `CanonicalBody` | `canonicalize_body` | order of the ignored paths' removal; the reference is in the same module |
| `CanonicalRequest` | `canonicalize`, `canonicalize_query`, `canonical_diff_summary` | a query text is a sequence of bytes, each plain or percent-escaped |
| `HeaderPolicy` | header selection and redaction, the upstream request's headers and URL | names in any spelling; values are opaque |
| `Exchange` | one exchange from the client's request to its replay | composes `HeaderPolicy`, `CanonicalRequest` and `ReplayEngineCalls` (by INSTANCE) |
| `CommandLine` | `build_config`, locale selection, validation | pure: layers in, settings out |
| `Process` | the binary: launch, parse, load, run, exit, kill | composes `HarnessLifecycle` and `CommandLine` |
| `ReplayServiceProofs` | proofs about `ReplayService` | includes the totals: counters and arrival order |
| `CassetteStoreProofs` | proofs about `CassetteStore` | includes the refinement of `CassetteLog` |
| `RecordServiceProofs` | proofs about `RecordService` | |
| `RecordReplayProofs` | proofs about `RecordReplay` | composes the invariants of the two services, by INSTANCE |
| `ProcessProofs` | proofs about `HarnessLifecycle` and `Process` | |
| `StreamRecorderProofs` | proofs about `StreamRecorder`, `SseParser` and `StreamBody` | |
| `ExchangeProofs` | proofs about `Exchange` | with lemmas on header selection, engine calls, the diff, sorted queries and the removal of ignored paths |
| `CommonLemmas` | least elements, induction over sets, prefixes, folds | used by the other proofs |

`MC*` modules give the constants values; `*.cfg` name the properties. Operators
marked *Mutant* in comments are wrong variants of the definition that follows
them, kept to show that each property can be broken; nothing else refers to them.

### Correspondence to the code

* **Steps.** A step ends where another actor can get in: at an `await`, at
  taking or releasing a mutex, at a system call. `match_recorded_response` is
  three steps (`LockEngine`, `PeekAndBuild`, `CommitPeeked`) although the mutex
  makes them one; that they behave as one is what `ImplementsContract` checks.
* **Replay handlers** contain no `await`, so a client that disconnects cannot
  stop them: there is no disconnect action in `ReplayService`.
* **Record handlers** are dropped at an `await` by `Disconnect`; the blocking
  task (`TaskLocksStore` to `TaskSucceeds`/`TaskFails`) lives on.
* **Data.** A request is its stable hash and whether it asks for a stream; an
  interaction is a hash and a shape (stream or not). A file's content is a
  sequence of interactions, `Absent`, or `Torn` (does not decode). In
  `RecordService` a recorded stream is its number of chunks; `StreamRecorder`
  has the bytes, as tokens: terminators, `data`, colon, space, and one two-byte
  character in two halves. `"data"` also stands for ordinary text.
* **Power loss.** `survivors` is the set of contents the name may refer to after
  a power failure: every version since the last failure, because the directory
  is never synced, and `Torn` if a file was renamed before `sync_all`.
* **A session recorded whole** (`ReplayRepeatsTheSession`) has no failure and no
  disconnect: a client that leaves during the append and sends its request again
  gets it recorded twice, and strict replay of that session stops at the second.
* **A document** in `CanonicalBody` is a function from paths to node kinds and
  scalars, so the order of keys, which the code sorts away, does not exist. A
  received one has no gaps in its arrays (`ArraysHaveNoGaps`). The empty pointer
  is not among the ignored paths: the code refuses a path that does not start
  with a slash. `IndexTokens` and `PaddedTokens` are the tokens that read as array
  indices, and the zero-padded ones, which stand for every malformed path.
* **Hashes** are canonical forms in `Exchange` (SHA-256 is taken to be injective)
  and model values elsewhere.
* **Headers** are sequences of name and value, as a header map iterates. Names
  are texts where their spelling matters; `Spellings`, `Listed` and `Encoded` are
  the graphs of lower-casing, of splitting a `Connection` value, and of the
  percent encoding of a value that is no text, for the values of an instance.
* **A query on the wire** is re-encoded: `Url::set_query` escapes spaces, quotes,
  `<`, `>`, controls and non-ASCII bytes (`SetQuery`). What is recorded is the
  client's own text, so `RecordedIsWhatTheClientSent` compares the parameters that
  the two decode to.
* **Exchange** has no concurrency and no bytes of bodies: `RecordService` and
  `StreamRecorder` have those. It starts in one of three ways: an exchange to
  record and replay, an existing cassette to replay, or a library call with
  ignored paths, for which the harness itself has no setting.
* **A process** layers flags, environment and file: each setting comes from the
  most explicit layer that has it. `ortho_config` reads and merges them; that the binary then takes the
  locale from the flags and its nested form from the rest is the project's code.
  A kill tears the file being written and frees the address. The binary waits
  for nothing between start and shutdown, so a process answers only connections
  that the graceful shutdown still serves; embedded harnesses serve as long as
  their caller likes.
* **Appends of clients that left** are of two kinds. One under way goes on
  (`clientGone`); one that still waits for the store's mutex (`orphans`) may begin
  even after the server has stopped. `ServerStops` waits for neither.
* **Opening a cassette** may fail for its contents or for any reason the file
  system has; a start fails alike. A stopping server drops its listener at some
  point before it has stopped, so `BindListener` may then go either way.
* **Flushes** have all their system calls, crashes and power loss in
  `CassetteStore`. `HarnessLifecycle` keeps the ones that touch a shared name:
  create, write with sync, rename.
* **The probe** (`probe_record_write_access`) opens and flushes; on a missing
  cassette the opening flushes too, so `purpose` goes `seed`, then `probe`.

## Runs

| Run | Question | Bounds and why they are enough |
| --- | --- | --- |
| `replay_safety` | Can concurrent requests get a recording twice, out of order, or a diagnostic that is or becomes false? | 4 requests, 3 hashes, all recorded cassettes of up to 3 interactions, edited ones with a wrong shape or no hash, both modes. Four requests on three recordings exhaust any cassette with requests still in flight. |
| `replay_liveness_refinement` | Is each request answered, and as if atomically? | 3 requests, 2 hashes, no symmetry |
| `cassette_store` | Is the file a cassette at every instant, and what survives? | 3 appends, 2 kills, 1 power loss at any system call, any call failing |
| `record_safety` | Is every exchange recorded or counted as failed, in a usable order? | 3 requests, 2 of them streams of up to 2 chunks, every failure, disconnects anywhere |
| `stream_recorder` | Do chunk boundaries, line endings, comments or framing ever change what is recorded or replayed? | all streams of up to 6 tokens in chunks of 1 or 2, two instants. Six tokens hold three comments, a multi-line event, or a CRLF-framed event; the eager limit is 5 tokens, so that one event fits and two do not |
| `record_replay` | Is what clients saw completed in the replayed cassette, and does a session recorded whole replay as it was? | 3 requests, 2 of one hash, one a stream (of no chunks: chunks are `record_safety`'s) |
| `shutdown` | Do appends and responses end, and does a graceful shutdown return? | a buffered request and a stream of one chunk, which contend for the store; a client that neither reads its stream nor leaves may hold up shutdown, so `ShutdownReturns` speaks of the time after streams |
| `exchange` | What of an exchange leaves for upstream, for the cassette and for the client, which requests does it later answer, and is the explanation of a mismatch exact? | three families, each varying one side: 32 sets of client headers with 16 of configured ones and 3 redaction lists; 32 sets of answer headers with 3 statuses and both kinds of body; all queries of up to 3 segments out of 7 (order, escapes, repetition, no value, empty). Documents of up to 3 levels with up to 3 ignored paths in any order; cassettes of up to 4 interactions over 2 requests under any sequence of engine calls, or of one interaction over every small document |
| `empty_diff` | *violation*: does every mismatch carry a diff? | one recorded body with `-0.0`, every small document asked |
| `lifecycle` | What do failing starts, later sessions, shutdowns and kills leave of a cassette; with which settings does a process run; what does its exit status say? | 3 embedded harnesses of any mode on 2 addresses; or one process, one setting varied at a time over flag, environment and file, with files that do not decode, help and wrong command lines under any early locale; or two processes that record or replay, each perhaps killed. A missing, an earlier or an undecodable cassette, 2 appends, any flush failing; recorders follow each other when nothing runs any more |
| `hand_over` | *violation*: is the cassette append-only when a recorder starts as the last one's shutdown returns? | 2 harnesses, 2 appends |
| `recorded_count` | *violation*: does `recorded_count` count what was persisted? | 2 requests |

TLC checks `ReplayService`'s type invariant; the other modules' type invariants
are conjuncts of the inductive invariants in their proof modules.

Deadlock checking is off where the system really stops: all requests answered,
the stream over, the bounded store idle with its interactions used.

### Fairness

`ReplayService` assumes weak fairness of each handler past its first step: the
runtime polls what it started, and a mutex held by a handler that itself goes on
is released. `RecordService` assumes that the upstream call ends (the client
has timeouts), that the blocking pool runs what was spawned, and that a buffered
handler is polled once its append is over. Nothing is assumed of clients: they
need not send, read a stream, or stay connected. `RecordReplay` adds that the
serving task is polled, so that the server stops once its connections are done.

### Findings

* `recorded_count`: the counter is documented as the number of interactions
  persisted, but is incremented by the handler after the append's `await`. A
  client that disconnects meanwhile leaves a persisted interaction uncounted.
  `RecordedCountTrailsTheCassette` states what does hold: the gap is exactly
  those interactions.
* `hand_over`: `shutdown` waits for connections, not for a blocking append whose
  client went away. A recorder started on the same path right after truncates,
  with its write probe, the temporary file that the append then renames over the
  cassette. The design promises a store that only appends. `lifecycle` shows
  what does hold: started when nothing runs any more, it only grows.

* `empty_diff`: hashes are taken of serialised requests, in which `-0.0` and `0.0`
  differ; the diff compares numbers, for which they are equal. A body that
  differs in nothing else is refused with an empty diff. `DiffNamesEveryDifference`
  states what does hold: but for the sign of a zero the diff is exact.

Two divergences are noted without a run. A comment line that a bare CR ends at
the end of a stream makes the stream incomplete, although `finish` is documented
to return events a trailing CR held back; `WholeStreamsAreRecorded` states that
this is the only such case. And the user's guide offers `verify` on the command
line for cassette checks, while `start_harness` fails in that mode even for a
good cassette (`OpenForReplay` goes to `failed`).

## Proofs

Every safety property that a passing run checks is a theorem. A theorem holds for every value of the constants that satisfies the
named assumptions of the modules; TLC evaluates those on each run. None bounds an
instance: sets of requests, hashes and interactions, cassettes, numbers of
chunks, kills and power failures, streams, headers, queries and documents are
arbitrary. Requests may be infinite in number except in a session, where they are counted.

Most properties are not inductive alone. Each module below has an inductive
invariant; what it adds is what the actions rely on without saying so.

* **`ReplayServiceProofs`** (`CassettesAssumption`, `NoHashAssumption`,
  `RequestsAssumption`): `TypeCorrect`, `ReplayedOnce`, `CommitSafe`, `InOrder`,
  `DiagnosticsSound`, and the refinement `Implementation`. `CommitPeeked` acts on
  a position chosen by an earlier step, so `IInv` adds that only the holder of
  the mutex is between lock and commit (`LockHeld`), that what it peeked is still
  what `PeekMatch` would return (`PeekStillGood`), and that a handler's place
  determines the kind of decision it has taken (`DecisionsPlaced`). `CountersTrail`
  and `ArrivalOrderForgiven` need a second invariant, `TotalsInv`: which refusals
  stand where, that a hash refused for its shape stays blocked, and which finite
  sets of requests the counters count.
* **`CassetteStoreProofs`** (`ContentsAssumption`, `BoundsAssumption`):
  `NeverTorn`, `AppendsUndone`, `AckedKept`, and the refinement `Implementation`.
  `IInv` says what memory is to the file at each system call: ahead by the
  interaction in flight (`FlushWritesAhead`), whole and synced in the temporary
  file before the rename (`TempIsWhole`), equal to the file after it
  (`RenamedIsMemory`); and that all a power failure can bring back are earlier
  versions of the same log (`SurvivorsAreEarlier`).
* **`RecordServiceProofs`** (`RequestsAssumption`): `NothingLostSilently`,
  `WholeStreams`, `AcknowledgedInOrder`, `SequentialAgents`, `CountTrails`,
  `CountsBalance`. `IInv` relates a handler, which its client may drop, to its
  blocking task, which goes on (`TaskFollowsHandler`, `EndsAreAccountedFor`), and
  the tasks to the cassette (`StoreLocked`, `LogFollowsTasks`, `AckedFollowsLog`).
  The counters then follow from `CountInv`: each is the size of a set of requests
  that each step changes by one.
* **`RecordReplayProofs`** (`SessionAssumption`): `FirstHarnessRecords`, a
  refinement: the session is `RecordService`'s behaviour in its first harness, so
  the theorems above hold of it; `CompletedAreLoaded`; and `SessionIsRepeated`,
  under `HashTellsShape`: requests of one hash are all streams or none. That is so
  because the hash covers the whole body, `stream` included, as long as no body
  path is ignored, and the harness ignores none. `SessionInv` puts the invariants
  of the two services side by side and adds that the loaded cassette is a
  beginning of the file that holds all that was completed (`CassetteLoaded`), and
  that the agent repeats causes before effects (`SentAgain`). The last theorem
  then rests on two arguments: each hash is recorded as often as it was sent, so
  whoever asks finds a recording left (`RecordingsSuffice`); and the oldest one
  left is the asker's own, since an earlier request's is spent and a later
  request's lies behind (`NextIsOwn`).
* **`StreamRecorderProofs`** (`StreamAssumption`, `EagerLimitAssumption`):
  `ChunkingNeverShowsAlways`, `WholeStreamsAreRecordedAlways`,
  `OffsetsSayWhenEventsArrivedAlways`, `CommentsNeverTouchDataAlways`,
  `ReplayedBodyReadsBackAlways`. The parser works on its buffer a chunk at a time;
  the properties read the whole transcript. `IInv` adds to the first two properties
  what joins them while the stream runs: the parser's events, data lines and buffer
  are those of a reading, byte by byte, of all that has arrived but a last CR
  (`KeepsPace`), and each event carries the instant at which the bytes that ended
  it arrived, or at which the stream ended (`KeepsTime`). That a chunk keeps pace is an induction over the lines
  it ends. The other two theorems are about the reading alone: without its
  comments a stream reads to the same data events, by induction over its bytes;
  and what `BuildStreamBody` renders reads back as the events it renders, by
  induction over the events, whether it is sent eagerly or in chunks.
* **`ProcessProofs`** (the assumptions of
  `HarnessLifecycle`, `CommandLine` and `Process`): `AckedStay`, `ServesAPrefix`,
  `OnlyGrows`, `StatusTellsTheTruth`, `RunsAsAsked`. All five assume
  `HandOver = "quiet"`: the constant that says when the next recorder may start.
  The run `hand_over` shows that the third fails otherwise. `LifecycleInv` says that
  at most one recorder is under way (`OneRecorder`), that the cassette never has
  the temporary name (`NamesApart`), that an append still waiting for the store
  belongs to a recorder that has been serving and is not acknowledged
  (`OrphansWait`), and what an open store's memory is to the
  file (`StoreIsCurrent`, `ReplayerIsBehind`).
* **`ExchangeProofs`** (`ExchangesAssumption`, `ResentAssumption`,
  `CassettesAssumption`, `LibraryCallsAssumption`, `IndexTokensAssumption`):
  `SecretsAreOut`, `RecordedAsSent` (with `EncodedReadsTheSame` for its query),
  `ReplayAnswersAlike` from `RecordingOK`, which says what each stage has sent,
  returned and persisted, and from what dropping names does to a list of headers (`DroppingStep`,
  `DroppingTwice`, `TextOfDropping`); `HandedOutOnce` from `EngineOK`;
  `DiffIsComplete` from `DiffIsExact`, for any two documents.

  `MatchedAlways` says that two queries have one canonical form exactly when they
  carry the same parameters equally often: `PairBefore` is a strict total order,
  so a sorted list is determined by how often each pair occurs in it, and
  insertion keeps lists sorted and pairs counted. `LoadedOK` adds that what an
  exchange replays from is its own recording.

  `IgnoredAlways` rests on the order of removal, because each removal of an array
  entry renumbers those behind it. `RemovalsAreOrdered`: whatever the order of the
  configured paths, each is removed once, deeper ones first, and of one array the
  higher index first. `RemovalStep` is one removal, in that order: no array above
  the next path has been renumbered in front of it, so the path still addresses
  the node it addressed in the body as received; the survivors are at distinct
  places (`PlacesDiffer`), and renumbering takes each to its place among the
  survivors of one path more (`MovedPlace`). Induction over the list does the rest.

Induction: the library's induction theorems take an operator as a parameter and
cannot be used here. `CommonLemmas` has induction over a *set*
(`InductionOnNaturals`, `InductionOnSequences`, from the least element of a set
of naturals). With it recursions are proved to be what they should: `Dropping`
over headers, and the folds of parser, queries and pointers, which `FoldingOn`
unfolds one element at a time.

Only model-checked is liveness: `EveryRequestAnswered`, `AppendsAndResponsesEnd`
and `ShutdownReturns`. Their proofs take fairness and `ENABLED`, which are out of
the prover's reach.

## Plan

The models are done, in this order: the replay engine and service with contract
and proofs; the cassette store and log; the record service; streams; the session
from recording to replay; start-up and several harnesses; canonical requests,
header policy and the exchange end to end; command line, configuration and
processes. Proved since: the store and its refinement, the record service, the
totals of replay, harnesses and processes, the exchange, the session, streams,
the matching of requests and the ignored paths. Nothing that the prover can reach
is left; code that is added to the harness starts at the first step again: its
hazards, a model, a run, a proof.

## Not modelled

* `reqwest`, `axum`, `serde`, `clap` and `ortho_config` are seen only through how
  the code uses them: what they decode, merge or refuse is an input.
* Message texts, log and metric wording, the layout of help: no property speaks
  of them. Which localizer and which stream are used is modelled,
  but for the fallback to a `NoOpLocalizer` (`localizer.rs:83`): it is taken when
  the catalogue embedded in the binary is invalid, which no input can bring about.
* SHA-256 and the bytes of the canonical serialisation: a hash stands for the
  form it is taken of.
* Settings that are only carried along (redaction, extra headers, upstream
  details, replay options) are inputs of `Exchange`; their layering, which is
  that of the settings `CommandLine` has, is left out.
* Poisoned mutexes: no code panics while holding one. The sizes of counters
  (`u64`): a session does not come near them.
