SPECIFICATION FairSpec
CONSTANTS
  NumPairs = 2
  Counters <- Enough
  SoftwareCounters = 24
  FirstId = 1000
  ActiveOf <- BothWays
  Second = 2
  Runtime = 22
  LatencyRate = 2
  WarmupRate = 4
  Interval = 2
  MaxPackets = 16
  MaxSamples = 2
  Params <- SomeParams
INVARIANTS OffersTheProfile StreamsAreTold TaughtInTime SamplesAreLogged
PROPERTY ProcessEnds
CHECK_DEADLOCK FALSE
