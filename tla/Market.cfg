SPECIFICATION MarketSpec
CONSTANTS
  None = None
  LastDay = 4
  monthOf <- MCMonths
  BarsPerDay = 2
  BucketBars = 2
  Periods <- MCPeriods
  Lacking <- MCLacking
  Twice <- MCTwice
  DownloadRuns = 2
  Overlap = 2
  PageSize = 2
  ClockErrors <- MCClockErrors
  FirstLengths = {3}
  ShortestPlan = 4
  EndOfSync = 7
  Timeframes = {1, 2, 4}
  Shapes <- MCShapes
  Starts = {0, 1, 2, 3}
  MaxSource = 8
  candlesAt <- MCCandles
  Multiple = 2
  Recognised <- MCRecognised
  Buffer = 0
  LookaheadMin = 2
  LookaheadMax = 3
  WatchMin = 1
  WatchMax = 2
  Callers = {a, b, c}
  MaxAttempts = 2
  Interval = 2
  BaseBackoff = 1
  MaxBackoff = 3
  RetryAfters = {0, 5}
  Builds = {p, q}
  Analytics = 2
  frames <- MCFrames
  MetadataMaxAge = 1
  MaxAge = 1
  MaxSkew = 1
  MaxMetricAge = 1
  MaxContextAge = 1
  MinRefreshInterval = 2
  Lags <- MCLags
  EndOfFeed = 2
INVARIANTS HistoriesHold CandlesHold SwingsHold FeedHolds
PROPERTIES NoRepaint
CHECK_DEADLOCK FALSE
