SPECIFICATION FairSpec
CONSTANTS
  a = a  b = b
  ByteBase = 8
  IntWidth = 2
  FloatWidth = 1
  DoubleWidth = 2
  NumWorkers = 2
  WireCap = 2
  VesselCount = 2
  BatchSize = 2
  MaxBatches = 2
  ReportOf <- MCReportOf
  Worker <- MCWorker
  Hash <- MCHash
  QueueCap = 1
  LatRange <- MCRange
  LonRange <- MCRange
INVARIANTS TypeOK FramesWhole EveryBatchCounted
PROPERTIES ImplementsPositionLog BatchesDecode FeedStops
CHECK_DEADLOCK FALSE
