SPECIFICATION Spec
CONSTANTS
  g1 = g1
  g2 = g2
  r1 = r1
  r2 = r2
  r3 = r3
  r4 = r4
  Torn = Torn
  None = None
  Records = {r1, r2, r3, r4}
  Malformed = {}
  Gateways = {g1, g2}
  Gateway <- MCGateways
  MaxQueue = 2
  WriteBatch = 2
  SegmentLines = 1
  MaxSegments = 2
  MaxBatch = 2
  Accepts = 1
  MaxEnds = 2
  Mishaps = {"crash", "timeout", "cursor"}
SYMMETRY SymmetryGateways
INVARIANTS
  RecordedNotLost
  CursorBehindRows
  StoredInOrder
CHECK_DEADLOCK FALSE
