SPECIFICATION FairSpec
CONSTANTS
  PolicyIds = {0, 1}
  Agents = {agent}
  Clis = {cli}
  AgentLabels <- OneLabel
  CliArgs <- TwoArgs
  Hosts <- AmdHosts
  MaxDisturbances = 3
INVARIANTS
  TypeOK
  IInv
  AloneIsAtomic
  ReadsBack
PROPERTY
  AgentsWin
