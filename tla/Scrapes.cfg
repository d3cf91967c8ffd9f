SPECIFICATION Spec
CONSTANTS
  PolicyIds = {0}
  Hosts <- IntelHosts
  LabelSets <- TwoLabels
  ReadOrders <- Orders
  MaxObserves = 2
INVARIANTS
  TypeOK
  ShownWasReported
  QuietScrapeShowsReport
