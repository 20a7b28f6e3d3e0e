SPECIFICATION FairSpec
CONSTANTS
  alice = alice
  bob = bob
  Unknown = Unknown
  Community <- One
  Topic <- OneTopic
  LastKnown <- OneStart
PROPERTIES CalledAgain
CHECK_DEADLOCK FALSE
