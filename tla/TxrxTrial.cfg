SPECIFICATION FairSpec
CONSTANTS
  NumPairs = 1
  Counters <- TwelveCounters
  SoftwareCounters = 12
  FirstId = 1
  ActiveOf <- BothWays
  Params <- SomeCommandLines
INVARIANTS StreamsAreTold JudgedFairly CutShortIsFlagged
PROPERTY ProcessEnds
CHECK_DEADLOCK FALSE
