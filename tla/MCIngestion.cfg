SPECIFICATION Spec
CONSTANTS
  None = None
  Processes = {"w"}
  Tickers = {"apple", "tesla"}
  Retrying = {"reddit", "stocktwits"}
  MaxPages = 2
  Retries = 1
  FEED_LIMIT = 4
  GLOBAL_CANDIDATE_LIMIT = 8
  GLOBAL_MAX_PER_SOURCE = 2
  GLOBAL_MAX_PER_TICKER = 3
  SUBREDDITS <- MCSubreddits
  PUBLIC_SUBREDDITS <- MCPublic
  Sources <- MCSources
  Pages <- MCPages
  Symbols <- MCSymbols
  StoredBefore <- MCStoredBefore
INVARIANT TypeOK
INVARIANT NothingSkipped
INVARIANT FeedsBalanced
PROPERTY RunsEnd
