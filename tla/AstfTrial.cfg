SPECIFICATION Spec
CONSTANTS
  ParamSet <- SomeParams
  Setups <- SomeSetups
  Seconds <- SomeSeconds
  OldCounts <- TenDrops
INVARIANTS PassIsEarned QuitsWithoutTraffic
PROPERTY TrialEnds
CHECK_DEADLOCK FALSE
