SPECIFICATION FairSpec
CONSTANTS
  c1 = c1
  c2 = c2
  Community <- MCCommunity
  Files <- MCFiles
  Addressbooks <- MCAddressbooks
  MaxClients = 1
  MaxConfirmed <- MCMaxConfirmed
CHECK_DEADLOCK FALSE
INVARIANTS TypeOK OnlyTasksAreLost NoCallAfterExit
PROPERTY ShutdownEnds
