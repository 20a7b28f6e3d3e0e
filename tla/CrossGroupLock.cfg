SPECIFICATION Spec
CONSTANTS
  alice = alice
  bob = bob
  Unknown = Unknown
  Community <- Two
  Topic <- MutualTopics
  LastKnown <- TwoStarts
INVARIANTS NoLockCycle
CHECK_DEADLOCK FALSE
