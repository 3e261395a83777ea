SPECIFICATION FairSpec
CONSTANTS
  NumPairs = 2
  Path <- TwoWay
  Layout <- FourFlows
  MaxLossPct = 10
  RateTolerance = 5
  Trials <- SomeTrials
  EvalParams <- EachGranularity
INVARIANTS NothingMissed PassMeansDelivered CleanTrialPasses
PROPERTIES StreamsAreRead TrialReturns
CHECK_DEADLOCK FALSE
