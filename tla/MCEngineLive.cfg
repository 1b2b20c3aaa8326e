SPECIFICATION FairSpec
CONSTANTS
  a1 = a1
  c1 = c1
  c2 = c2
  e1 = e1
  e2 = e2
  m1 = m1
  m2 = m2
  b1 = b1
  b2 = b2
  Reaper = Reaper
  Reachable = Reachable
  Absent = Absent
  NoEngine = NoEngine
  NoLid = NoLid
  Clients = {c1, c2}
  Admins = {a1}
  Lids = {m1, m2}
  Engines = {e1, e2}
  Bindings = {b1}
  KeepWarm = {}
  Ceilings = {1, 2}
  Watermarks = {FALSE}
  AdminCalls = {"ceiling"}
  Mishaps = {"expire"}
  Priority <- MCPriority1
PROPERTIES
 DrainEnds
 IdleReaped
 CeilingReasserted
CHECK_DEADLOCK FALSE
