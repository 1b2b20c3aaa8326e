SPECIFICATION Spec
CONSTANTS
  g1 = g1
  g2 = g2
  r1 = r1
  r2 = r2
  r3 = r3
  Torn = Torn
  None = None
  Records = {r1, r2, r3}
  Malformed = {}
  Gateways = {g1}
  Gateway <- MCGateway
  MaxQueue = 2
  WriteBatch = 2
  SegmentLines = 2
  MaxSegments = 2
  MaxBatch = 2
  Accepts = 1
  MaxEnds = 1
  Mishaps = {"write"}
INVARIANTS
  RecordedNotLost
CHECK_DEADLOCK FALSE
