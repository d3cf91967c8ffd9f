SPECIFICATION FairSpec
CONSTANTS
  PolicyIds = {0, 1}
  ProfileLabels = {"power"}
  TurboLabels = {"absent"}
  Hosts <- LockableIntel
  Drifts = {"balance_power"}
  Gone = Gone
  MaxDisturbances = 2
PROPERTY
  DriftHealsEverywhere
