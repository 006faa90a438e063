SPECIFICATION Spec
CONSTANTS
  Requests = {r1, s1, s2}
  StreamRequests = {s1, s2}
  MaxChunks = 2
  NoOne = NoOne
SYMMETRY RequestSymmetry
INVARIANTS
  NoSilentLoss
  RecordedCountTrailsTheCassette
  AcknowledgedInCassetteOrder
  RecordedStreamsAreWhole
  SequentialAgentsRecordInOrder
  CountersBalance
CHECK_DEADLOCK FALSE
