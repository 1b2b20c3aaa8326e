SPECIFICATION FairSpec
CONSTANTS
  g1 = g1
  g2 = g2
  r1 = r1
  r2 = r2
  r3 = r3
  Torn = Torn
  None = None
  Records = {r1, r2, r3}
  Malformed = {r3}
  Gateways = {g1}
  Gateway <- MCGateway
  MaxQueue = 2
  WriteBatch = 2
  SegmentLines = 1
  MaxSegments = 2
  MaxBatch = 2
  Accepts = 1
  MaxEnds = 1
  Mishaps = {"crash", "write"}
INVARIANTS
  TypeOK
  Accounted
PROPERTIES
  Exported
CHECK_DEADLOCK FALSE
