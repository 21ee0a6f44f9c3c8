SPECIFICATION Spec
CONSTANTS
  Workers = {w1, w2}
  Main = main
  CacheSize = 2
  MaxAir = 3
  MaxCommands = 3
  MaxChanges = 1
  MaxFaults = 1
INVARIANTS
  HandlersBounded
  ScanReportedOnce
  ScanFollowsSwitch
  ListComplete
  CommandsAccounted
PROPERTY ChangeIsReported
CHECK_DEADLOCK FALSE
