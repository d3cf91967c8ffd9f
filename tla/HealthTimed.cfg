SPECIFICATION FairSpec
CONSTANTS
  RawIntervals <- Settings
  Unset = Unset
  Garbage = Garbage
  DefaultInterval = 5
  Modulus = 64
  MaxFetch = 5
  MaxCalls = 5
  InitialDelay = 1
  ProbePeriod = 2
  FailureThreshold = 3
  MaxStep = 2
  Far = 24
  MaxDisturbances = 4
INVARIANTS
  TypeOK
  IInv
  NeverStale
PROPERTIES
  WedgedIsRestarted
  KilledForCause
