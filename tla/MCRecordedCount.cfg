SPECIFICATION Spec
CONSTANTS
  Requests = {r1, r2}
  StreamRequests = {}
  MaxChunks = 0
  NoOne = NoOne
INVARIANT RecordedCountIsPersistedCount
CHECK_DEADLOCK FALSE
