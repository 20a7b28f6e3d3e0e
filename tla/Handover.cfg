SPECIFICATION FairSpec
CONSTANTS
  w1 = w1
  w2 = w2
  t1 = t1
  t2 = t2
  t3 = t3
  None = None
  Worker = {w1}
  Task = {t1, t2}
  Late = {}
  HasTimer = TRUE
PROPERTIES HandedRun
CHECK_DEADLOCK FALSE
