SPECIFICATION Spec
CONSTANTS
  alice = alice
  bob = bob
  Unknown = Unknown
  Community <- One
  Topic <- OneTopic
  LastKnown <- OneStart
INVARIANTS TypeOK Chronological RestartPoint TasksOwned
PROPERTIES ImplementsLedger
CHECK_DEADLOCK FALSE
