SPECIFICATION Spec
CONSTANTS
  r1 = r1
  r2 = r2
  r3 = r3
  a = a
  b = b
  Requests = {r1, r2, r3}
  StreamRequests = {r3}
  MaxChunks = 0
  NoOne = NoOne
  Hashes = {a, b}
  NoHash = NoHash
  MalformedBody = MalformedBody
  HashOf <- TwoHashes
INVARIANTS
  CompletedExchangesAreLoaded
  ReplayRepeatsTheSession
CHECK_DEADLOCK FALSE
