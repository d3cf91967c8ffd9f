SPECIFICATION Spec
CONSTANTS
  PolicyIds = {0, 1}
  ProfileLabels = {"power", "ultra"}
  TurboLabels = {"enabled"}
  Hosts <- IntelHosts
  Drifts = {"balance_power"}
  Gone = Gone
  MaxDisturbances = 3
INVARIANTS
  TypeOK
  IInv
  HardwareFollowsLabels
  AnnotationsFollowReport
