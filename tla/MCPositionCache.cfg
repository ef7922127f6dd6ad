SPECIFICATION FairSpec
CONSTANTS
  v1 = v1  r1 = r1
  Vessel <- OneVessel
  Reader <- OneReader
  TTL = 1
  MaxTime = 3
  MaxReports = 3
INVARIANTS TypeOK NeverOvercounts LastKnown FlushComplete KeptUntilExpired
PROPERTIES ExpiredAreEvicted
CHECK_DEADLOCK FALSE
