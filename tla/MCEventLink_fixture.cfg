SPECIFICATION Spec
CONSTANTS
  MaxEvents <- Few
  Oversize <- OneOversize
  WireCap = 2
INVARIANTS OneEventPerLine
