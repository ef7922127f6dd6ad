SPECIFICATION Spec
CONSTANTS
  z1 = z1  z2 = z2  z3 = z3
  ZoneID <- MCZoneID
  Point <- MCPoint
  Polygon <- MCPolygon
  Severity <- MCSeverity
  ZoneFile <- MCZoneFile
INVARIANTS TypeOK ChecksMatchAreas CutsShareNoPosition
PROPERTIES ImplementsRegistry
