SPECIFICATION SessionSpec
CONSTANTS
  Rate = 40
  SearchGranularity = 30
  MaxRetries = 1
  LineRate = 0
  RateBound = 40
  Options <- SessionOptions
  Sessions <- AllSessions
INVARIANTS MeasuredAtRate TrialIsIsolated
PROPERTIES FlushedWhenQuiet SessionSearches
CHECK_DEADLOCK FALSE
