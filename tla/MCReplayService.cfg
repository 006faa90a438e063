SPECIFICATION Spec
CONSTANTS
  Hashes = {a, b, s}
  StreamHashes = {s}
  NoHash = NoHash
  MalformedBody = MalformedBody
  NoOne = NoOne
  Requests = {r1, r2, r3, r4}
  Cassettes <- SmallCassettes
SYMMETRY RequestSymmetry
INVARIANTS
  TypeOK
  EachInteractionReplayedOnce
  CommitNeverFails
  RecordingsReplayedInOrder
  DiagnosticsStayTrue
  CountersTrailTheEngine
  KeyedReplayIgnoresArrivalOrder
CHECK_DEADLOCK FALSE
