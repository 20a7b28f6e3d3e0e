SPECIFICATION Spec
CONSTANTS
  alice = alice
  bob = bob
  gmw = gmw
  link1 = link1
  link2 = link2
  NoKey = NoKey
  UnsetBalance = UnsetBalance
  Ledger <- TheLedger
  Requests <- AllRequests
  FromNumber <- Following
  Direction <- Directions
  NotificationWorkers = 1
  MaxNotifyTasks = 1
  BlockUriType = {"", "graphql"}
INVARIANTS TypeOK ClientReadsAll AnswersMatchScan WalletSlices DecayFollowsNewest  ToldIsFound OneOutcome
