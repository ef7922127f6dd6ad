SPECIFICATION Spec
CONSTANTS
  LatMin = 0
  LatMax = 8
  LonMin = 400
  LonMax = 408
  Inset = 1
INVARIANT KeepsToItsWaters
PROPERTY RoutesTransit
