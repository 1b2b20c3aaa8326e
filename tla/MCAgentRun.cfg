SPECIFICATION FairSpec
CONSTANTS
  w1 = w1
  w2 = w2
  c1 = c1
  c2 = c2
  Workers = {w1, w2}
  Callers = {c1, c2}
  Graphs <- MCGraphs
  Mishaps = {"crash", "overlap", "cancel", "fault", "sweep"}
  MaxStarts = 3
INVARIANTS
 TypeOK
 ReplayAgrees
 MapBounded
 GateTakesOneAnswer
 GateVisible
 RowTellsOutcome
PROPERTIES
 OutcomeStays
 KeepsPromise
 RunEnds
CHECK_DEADLOCK FALSE
