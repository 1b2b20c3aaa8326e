SPECIFICATION FairSpec
CONSTANTS
  r1 = r1
  r2 = r2
  w1 = w1
  d1 = d1
  d2 = d2
  NoOne = NoOne
  Runs = {r1, r2}
  Writers = {w1}
  Deleters = {d1, d2}
  MaxStarts = 2
INVARIANTS
 TypeOK
 TurnsWhole
 OutcomeAndTurn
PROPERTIES
 KeepsLog
 RequestsEnd
CHECK_DEADLOCK FALSE
