SPECIFICATION Spec
CONSTANTS
  v1 = v1  v2 = v2  z1 = z1
  Vessel <- OneVessel
  ZoneID <- OneZone
  Point <- TwoPoints
  Polygon <- MCPolygon
  Severity <- MCSeverity
  ZoneFile <- ReefFile
  ZoneUpdate <- ReefUpdate
  NumWorkers = 1
  ShardOf <- SameShard
  WorkerCap = 1
  ViolationsCap = 1
  HeartbeatInterval = 1
  StaleAfter = 1
  SweepPeriod = 1
  MaxTime = 2
INVARIANTS TypeOK AlertsMatchPositions
PROPERTIES ImplementsAlertFeed
CHECK_DEADLOCK FALSE
