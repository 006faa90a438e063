SPECIFICATION FairSpec
CONSTANTS
  Hashes = {a, s}
  StreamHashes = {s}
  NoHash = NoHash
  MalformedBody = MalformedBody
  NoOne = NoOne
  Requests = {r1, r2, r3}
  Cassettes <- SmallCassettes
PROPERTIES
  ImplementsContract
  EveryRequestAnswered
CHECK_DEADLOCK FALSE
