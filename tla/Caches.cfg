SPECIFICATION Spec
CONSTANTS
  MaxMessage = 4
  Deferred <- DeferredTransfers
  Redeems <- Redemptions
  Keys <- PublicKeys
  Signature <- Signatures
  Targets <- TimeoutDates
  Window = 2
  StartupCache = 2
  MaxStarts = 2
CHECK_DEADLOCK FALSE
INVARIANTS TypeOK IndicesNameKeys OpenIsScheduled ConfirmedTwiceIfForgotten IdsLeadToTransaction
