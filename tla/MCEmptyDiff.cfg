SPECIFICATION Spec
CONSTANTS
  IndexTokens <- MCIndexTokens
  PaddedTokens <- MCPaddedTokens
  Spellings <- MCSpellings
  Listed <- MCListed
  Encoded <- MCEncoded
  InvalidNames = {"bad name"}
  Exchanges = {}
  LibraryCalls = {}
  Cassettes <- ZeroCassettes
  Resent <- MCResent
  ApiKey = ApiKey
  NoHash = NoHash
  Nothing = Nothing
INVARIANT MismatchIncludesADiff
CHECK_DEADLOCK FALSE
