SPECIFICATION Spec
CONSTANTS
  Alphabet = {"CR", "LF", "data", "colon", "space", "lead", "cont"}
  MaxTokens = 6
  MaxChunk = 2
  MaxElapsed = 1
  EagerLimit = 5
INVARIANTS
  ChunkingNeverShows
  WholeStreamsAreRecorded
  OffsetsSayWhenEventsArrived
  CommentsNeverTouchData
  ReplayedBodyReadsBack
CHECK_DEADLOCK FALSE
