SPECIFICATION Spec
CONSTANTS
  PolicyIds = {0, 1}
  ProfileLabels = {"absent", "performance"}
  TurboLabels = {"enabled", "on"}
  Hosts <- MixedHosts
  Drifts = {"balance_power"}
  Gone = Gone
  MaxDisturbances = 2
INVARIANTS
  HardwareFollowsLabels
  AnnotationsFollowReport
PROPERTY
  KeepsContract
  RestIsKept
