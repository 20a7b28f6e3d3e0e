SPECIFICATION FairSpec
CONSTANTS
  old = old
  new = new
  OldTopic = old
  NewTopic = new
  NoTopic = NoTopic
  Topic <- Topics
  Valid <- ValidMessages
  Chunked <- ChunkedMessages
  PageSize = 2
  MaxStarts = 2
INVARIANTS TypeOK HistoryMeetsNews OldTopicFinished OnlyConfirmedDropped
PROPERTY PublishedDecided
CHECK_DEADLOCK FALSE
