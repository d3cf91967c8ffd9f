SPECIFICATION FairSpec
CONSTANTS
  RawIntervals <- OnlyUnset
  Unset = Unset
  Garbage = Garbage
  DefaultInterval = 3
  Modulus = 64
  MaxFetch = 1
  MaxCalls = 1
  InitialDelay = 1
  ProbePeriod = 1
  FailureThreshold = 3
  MaxStep = 0
  Far = 13
  MaxDisturbances = 1
PROPERTY
  StuckWatchIsCaught
