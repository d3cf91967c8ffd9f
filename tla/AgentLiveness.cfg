SPECIFICATION FairSpec
CONSTANTS
  PolicyIds = {0, 1}
  ProfileLabels = {"power", "ultra"}
  TurboLabels = {"enabled"}
  Hosts <- IntelHosts
  Drifts = {"balance_power"}
  Gone = Gone
  MaxDisturbances = 2
PROPERTIES
  Converges
  InvalidLabelIsWarned
  NoHotLoop
