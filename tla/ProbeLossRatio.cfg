SPECIFICATION Spec
CONSTANTS
  NumPairs = 2
  MaxLossPct = 2
  ParamSet <- AllGranularities
  ProbeLosses <- InterestingLosses
  MaxFlaws = 1
INVARIANT ProbeLossLimited
CHECK_DEADLOCK FALSE
