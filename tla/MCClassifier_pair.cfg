SPECIFICATION FairSpec
CONSTANTS
  v1 = v1  v2 = v2  z1 = z1
  Vessel <- TwoVessels
  ZoneID <- OneZone
  Point <- TwoPoints
  Polygon <- MCPolygon
  Severity <- MCSeverity
  ZoneFile <- ReefFile
  ZoneUpdate <- NoUpdate
  NumWorkers = 2
  ShardOf <- OwnShard
  WorkerCap = 1
  ViolationsCap = 2
  HeartbeatInterval = 1
  StaleAfter = 1
  SweepPeriod = 1
  MaxTime = 0
INVARIANTS OverflowKeepsLatest BlocksOnlyWhenRobbed
PROPERTIES RecordsProcessed
CHECK_DEADLOCK FALSE
CONSTRAINT NoShutdown
