SPECIFICATION Spec
CONSTANTS
  PolicyIds = {0, 1}
  ProfileLabels = {"power"}
  TurboLabels = {"absent"}
  Hosts <- OnlyBare
  Drifts = {"balance_power"}
  Gone = Gone
  MaxDisturbances = 0
INVARIANT
  UnsupportedMeansNoPolicies
