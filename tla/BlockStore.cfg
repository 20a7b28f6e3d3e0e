SPECIFICATION Spec
CONSTANTS
  Worker = {w1, w2}
  Closer = closer
  Accepted <- AcceptedMessages
  MonthOf <- Months
  MaxMessage = 3
  MaxStarts = 3
CHECK_DEADLOCK FALSE
INVARIANTS TypeOK IndexLeadsToLine ReadFinds WithoutGap WrittenInOrder
PROPERTY RestartKeepsNumbers
SYMMETRY Workers
