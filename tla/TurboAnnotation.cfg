SPECIFICATION Spec
CONSTANTS
  PolicyIds = {0, 1}
  ProfileLabels = {"performance"}
  TurboLabels = {"enabled"}
  Hosts <- OnlyPassive
  Drifts = {"balance_power"}
  Gone = Gone
  MaxDisturbances = 0
INVARIANT
  UnsupportedTurboIsReported
