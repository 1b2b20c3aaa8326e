SPECIFICATION Spec
CONSTANTS
  w1 = w1
  w2 = w2
  c1 = c1
  c2 = c2
  Workers = {w1, w2}
  Callers = {c1, c2}
  Graphs <- MCGraphs
  Mishaps = {"overlap"}
  MaxStarts = 2
PROPERTY OutcomeFinal
CHECK_DEADLOCK FALSE
