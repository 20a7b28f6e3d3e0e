SPECIFICATION Spec
CONSTANTS
  Worker = {w1, w2}
  Closer = closer
  Accepted <- AcceptedMessages
  MonthOf <- Months
  MaxMessage = 3
  MaxStarts = 0
CHECK_DEADLOCK FALSE
INVARIANT WriteGoesOn
SYMMETRY Workers
