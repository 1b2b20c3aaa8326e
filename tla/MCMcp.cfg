SPECIFICATION FairSpec
CONSTANTS
  t1 = t1
  t2 = t2
  t3 = t3
  a = a
  b = b
  NoTask = NoTask
  NoConfig = NoConfig
  Callers = {t1, t2}
  Admins = {t3}
  Configs = {a, b}
INVARIANTS
 TypeOK
 CurrentIsFresh
 NoneForgotten
PROPERTIES
 GoodOnesKept
 EveryOperationEnds
CHECK_DEADLOCK FALSE
