SPECIFICATION DutSpec
CONSTANTS
  Rate = 64
  SearchGranularity = 25
  MaxRetries = 1
  LineRate = 100
  RateBound = 100
  Options <- SearchOptions
  Limits <- InterestingLimits
INVARIANTS ReportedRateIsRight NoPassIsRight
PROPERTY DutTerminates
CHECK_DEADLOCK FALSE
