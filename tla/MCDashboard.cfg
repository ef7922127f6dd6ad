SPECIFICATION Spec
CONSTANTS
  v1 = v1  v2 = v2  z1 = z1  None = None  Absent = Absent
  Row <- MCRow
  Vessel <- MCVessel
  Zone <- MCZone
  DefaultLimit = 2
  MaxLimit = 3
  MaxAlerts = 4
  BroadcastCap = 1
  WireCap = 2
  FrameCap = 2
INVARIANTS TypeOK HistoryAndStreamMeet StreamShowsOnce PagesCoverHistory
CHECK_DEADLOCK FALSE
