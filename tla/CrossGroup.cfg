SPECIFICATION FairSpec
CONSTANTS
  alice = alice
  bob = bob
  Unknown = Unknown
  Community <- Two
  Topic <- TwoTopics
  LastKnown <- TwoStarts
INVARIANTS PairBeforeInbound
PROPERTIES LockReleased
CHECK_DEADLOCK FALSE
