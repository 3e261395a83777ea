SPECIFICATION Spec
CONSTANTS
  Rate = 40
  SearchGranularity = 40
  MaxRetries = 1
  LineRate = 60
  RateBound = 60
  Options <- AllOptions
INVARIANTS TypeOK RateInRange JudgedAsRun FinishedIsValidated
PROPERTIES RepeatIsFinal RetriesStartFresh
CHECK_DEADLOCK FALSE
