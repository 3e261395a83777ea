SPECIFICATION Spec
CONSTANTS
  NumPairs = 2
  MaxLossPct = 2
  ParamSet <- AllGranularities
  ProbeLosses <- InterestingLosses
  MaxFlaws = 2
INVARIANTS PassIffMet QuitsForAReason
CHECK_DEADLOCK FALSE
