SPECIFICATION Spec
CONSTANTS
  PolicyIds <- TwoAndTen
  Hosts <- ChangingHosts
  PathRank <- AsPaths
  Contents = {"power", "128"}
  MaxDisturbances = 2
INVARIANTS
  TypeOK
  IInv
  QuietDiscoveryIsExact
  FilesWereShown
  ExitIsAccountedFor
