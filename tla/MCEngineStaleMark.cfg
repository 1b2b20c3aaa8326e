SPECIFICATION Spec
CONSTANTS
  a1 = a1
  c1 = c1
  c2 = c2
  e1 = e1
  e2 = e2
  m1 = m1
  b1 = b1
  b2 = b2
  Reaper = Reaper
  Reachable = Reachable
  Absent = Absent
  NoEngine = NoEngine
  NoLid = NoLid
  Clients = {c1, c2}
  Admins = {a1}
  Lids = {m1}
  Engines = {e1, e2}
  Bindings = {b1}
  KeepWarm = {}
  Ceilings = {1}
  Watermarks = {FALSE}
  AdminCalls = {"evict"}
  Mishaps = {"break"}
  Priority <- MCPriority1
SYMMETRY Symmetry
INVARIANTS
  FailedIsBroken
CHECK_DEADLOCK FALSE
