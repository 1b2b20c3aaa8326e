SPECIFICATION Spec
CONSTANTS
  a1 = a1
  c1 = c1
  c2 = c2
  e1 = e1
  e2 = e2
  e3 = e3
  m1 = m1
  m2 = m2
  m3 = m3
  b1 = b1
  b2 = b2
  Reaper = Reaper
  Reachable = Reachable
  Absent = Absent
  NoEngine = NoEngine
  NoLid = NoLid
  Clients = {c1, c2}
  Admins = {a1}
  Lids = {m1, m2, m3}
  Engines = {e1, e2, e3}
  Bindings = {b1, b2}
  KeepWarm = {b1}
  Ceilings = {1, 2, 3}
  Watermarks = {FALSE}
  AdminCalls = {"ceiling"}
  Mishaps = {}
  Priority <- MCPriority
SYMMETRY SymmetryLids
INVARIANTS
  TypeOK
  IdleWithinCeiling
PROPERTIES
  SweepIsExact
  PriorityRespected
  LaunchFits
CHECK_DEADLOCK FALSE
