SPECIFICATION FairSpec
CONSTANTS
  w1 = w1
  w2 = w2
  t1 = t1
  t2 = t2
  t3 = t3
  None = None
  Worker = {w1, w2}
  Task = {t1, t2, t3}
  Late = {t3}
  HasTimer = TRUE
INVARIANTS TypeOK RunOnce ReadyBeforeRun ExclusiveHandover
PROPERTIES PendingServed
CHECK_DEADLOCK FALSE
