SPECIFICATION FairSpec
CONSTANTS
  MaxPolls = 2
  ExitCodes <- FailOrKill
INVARIANTS TypeOK MeasureTogether GoodTrialIsComplete CleanReturn
PROPERTY TrialReturns
CHECK_DEADLOCK FALSE
