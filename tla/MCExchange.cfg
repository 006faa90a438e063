SPECIFICATION Spec
CONSTANTS
  IndexTokens <- MCIndexTokens
  PaddedTokens <- MCPaddedTokens
  Spellings <- MCSpellings
  Listed <- MCListed
  Encoded <- MCEncoded
  InvalidNames = {"bad name"}
  Exchanges <- MCExchanges
  LibraryCalls <- CallsOfTheLibrary
  Cassettes <- MCCassettes
  Resent <- MCResent
  ApiKey = ApiKey
  NoHash = NoHash
  Nothing = Nothing
INVARIANTS
  SecretsStayOut
  RecordedIsWhatTheClientSent
  ReplayRepeatsTheResponse
  MatchedMeansSameRequest
  DiffNamesEveryDifference
  ExactlyIgnoredPathsAreGone
  HandedOutOnceInOrder
CHECK_DEADLOCK FALSE
