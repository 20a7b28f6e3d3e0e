----------------------------- MODULE TopicSync ------------------------------
(***************************************************************************)
(* How a node catches up with the topic of a community and stays with it:  *)
(* FileBasedProvider::init asks a consensus node for the topic,            *)
(* task::SyncTopicOnStartup checks the last transaction, reads the         *)
(* history page by page from the mirror node and starts listening, and     *)
(* client::hiero::TopicMessageQuery follows the subscription.  Both hand   *)
(* the messages to the ordering manager, of which only the order of its    *)
(* decisions is here (see SimpleOrderingManager for the rest).             *)
(*                                                                         *)
(* A message is its rank by consensus timestamp, over both topics of the   *)
(* community: the one it began with and the one that replaces it.          *)
(***************************************************************************)
EXTENDS Integers, Sequences, FiniteSetsExt

CONSTANTS
  OldTopic, NewTopic, \* the topic of the community, and its replacement
  NoTopic,            \* an empty topic id
  Topic,              \* message -> the topic it is published on
  Valid,              \* messages that become a transaction
  Chunked,            \* messages of several chunks
  PageSize,           \* MAGIC_NUMBER_MIRROR_API_GET_TOPIC_MESSAGES_BULK_SIZE
  MaxStarts           \* bound: number of restarts

Message == DOMAIN Topic

ASSUME TopicAssumption ==
  /\ Topic \in Seq({OldTopic, NewTopic})
  /\ OldTopic # NewTopic /\ NoTopic \notin {OldTopic, NewTopic}
  /\ Valid \subseteq Message /\ Chunked \subseteq Message \ Valid
  /\ PageSize \in Nat \ {0}
  /\ MaxStarts \in Nat

\* The old topic has ended when the new one begins.
ASSUME TopicReplaced ==
  \A m, n \in Message : Topic[m] = OldTopic /\ Topic[n] = NewTopic => m < n

VARIABLES
  published,        \* messages 1..published exist
  mHieroTopicId,    \* the topic of the config file
  \* on disk
  chain,            \* messages whose transactions are in the blockchain
  lastSequenceNumber,  \* LAST_HIERO_TOPIC_SEQUENCE_NUMBER
  lastTopicId,      \* LAST_HIERO_TOPIC_ID, or none yet
  \* the ordering manager
  mTransactions,    \* undecided messages
  mLastSequenceNumber,
  passed,           \* history: messages refused, or dropped as stale
  \* SyncTopicOnStartup
  at,               \* where the task is
  topicInfo,        \* the topic id in the answer
  mLastKnownTopicId,
  mConfirmedAtLastReadedTransaction,
  pageFailed,       \* history: a request for a page has failed
  \* MessageListenerQuery
  mCallStatus,
  outstanding,      \* an operation has its tag in the completion queue
  mResponseReader,  \* whether it is set
  listenFrom,
  streamed,         \* the last message that came
  mIsClosed,
  \* the process
  mode, starts,
  lost              \* history: confirmed messages that are not in the chain any more

disk == <<chain, lastSequenceNumber, lastTopicId>>
manager == <<mTransactions, mLastSequenceNumber, passed>>
sync == <<at, topicInfo, mLastKnownTopicId,
          mConfirmedAtLastReadedTransaction, pageFailed>>
listener == <<mCallStatus, outstanding, mResponseReader, listenFrom, streamed, mIsClosed>>
world == <<published, mHieroTopicId>>
process == <<mode, starts, lost>>
vars == <<world, disk, manager, sync, listener, process>>

SyncState == {"waiting", "closed", "check", "history", "newTopic", "listen",
              "call", "reader", "listening"}
CallStatus == {"none", "STATUS_CREATE", "STATUS_WRITE", "STATUS_PROCESSING",
               "STATUS_FINISH", "shutdown", "returned"}
LastTransactionState == {"IDENTICAL", "NONE", "NOT_FOUND", "INVALID", "NOT_IDENTICAL"}
StatusCode == {"OK", "NOT_FOUND", "RESOURCE_EXHAUSTED", "UNAVAILABLE", "INTERNAL", "other"}

Running == mode = "up"
Last(S) == IF S = {} THEN 0 ELSE Max(S)
On(topic) == {m \in 1..published : Topic[m] = topic}

\* Mutant: the two topics number their messages together.
NumberedTogether(m) == m

SequenceNumber(m) == Cardinality({k \in 1..m : Topic[k] = Topic[m]})

\* Consensus.
Publish ==
  /\ published < Len(Topic)
  /\ published' = published + 1
  /\ UNCHANGED <<mHieroTopicId, disk, manager, sync, listener, process>>

-----------------------------------------------------------------------------
(* SyncTopicOnStartup.                                                     *)

(* The call of a start: unaryCall leaves it to a reactor of its own, which *)
(* gets one answer, or an error, and then closes.                          *)
GetTopicInfo == at' = "waiting" /\ topicInfo' = NoTopic
Calling == Running /\ at = "waiting"

(* The task becomes ready when the answer arrives, and never if the call   *)
(* ends with an error, or its answer is no message.                        *)
OnDone(topic) ==
  /\ Calling
  /\ topicInfo' = topic
  /\ at' = "check"
  /\ UNCHANGED <<world, disk, manager, mLastKnownTopicId,
                 mConfirmedAtLastReadedTransaction, pageFailed, listener, process>>

OnDoneWithError ==
  /\ Calling
  /\ at' = "closed"
  /\ UNCHANGED <<world, disk, manager, topicInfo, mLastKnownTopicId,
                 mConfirmedAtLastReadedTransaction, pageFailed, listener, process>>

(* A request to the mirror node ends with an exception, or with a document *)
(* that has `_status' if something went wrong there.  requestAndCatch      *)
(* makes a null document of both.                                          *)
Reply == {"exception", "_status", "result"}
IsErrorInRequest(reply) == reply = "_status"
IsNull(reply) == reply = "exception" \/ IsErrorInRequest(reply)

(* What getTopicMessageByConsensusTimestamp of a transaction that is in    *)
(* the chain may show: the topic is not asked for.                         *)
GetTopicMessage(reply) ==
  IF IsNull(reply) THEN {"NOT_FOUND"} ELSE {"IDENTICAL", "INVALID", "NOT_IDENTICAL"}

(* The mirror node is asked for the message at the timestamp of the last   *)
(* transaction.  No answer, an invalid and a different transaction are     *)
(* treated alike.  Mutant: the whole topic is not read again then.         *)
ReadFromLast(result) == Last(chain)

ReadFrom(result) == IF result = "IDENTICAL" THEN Last(chain) ELSE 0

(* Mutant: the number in the state db is always the one to begin with,     *)
(* counted up once.                                                        *)
NextInState(result) == lastSequenceNumber + 1

FirstNumber(result) ==
  IF result = "IDENTICAL" THEN SequenceNumber(Max(chain)) ELSE lastSequenceNumber

CheckLastTransaction(result) ==
  /\ Running /\ at = "check"
  /\ IF chain = {} THEN result = "NONE"
     ELSE \E reply \in Reply : result \in GetTopicMessage(reply)
  /\ mLastSequenceNumber' = FirstNumber(result)
  /\ mConfirmedAtLastReadedTransaction' = ReadFrom(result)
  /\ at' = "history"
  /\ UNCHANGED <<world, disk, mTransactions, passed, topicInfo, mLastKnownTopicId,
                 pageFailed, listener, process>>

(* listTopicMessagesById: the first messages after the given time, as the  *)
(* mirror node promises them.  Mutant: those after the next.               *)
After(topic, from) == {m \in On(topic) : m > from}

FirstOf(S) ==
  {page \in SUBSET S :
     /\ Cardinality(page) <= PageSize
     /\ Cardinality(page) < PageSize => page = S
     /\ \A m \in page, k \in S : k < m => k \in page}

PagesAfterNext(topic, from) == FirstOf(After(topic, from + 1))

Pages(topic, from) == FirstOf(After(topic, from))

(* Mutant: the topic of the answer at once.                                *)
TopicOfAnswer == IF topicInfo = NoTopic THEN mLastKnownTopicId ELSE topicInfo

ReadTopic == IF at = "history" THEN mLastKnownTopicId ELSE topicInfo

AfterTopic ==
  IF at = "history" /\ topicInfo \notin {NoTopic, mLastKnownTopicId}
  THEN "newTopic" ELSE "listen"

(* One round of the loop in loadTransactionsFromMirrorNode.  A request     *)
(* that fails gives an empty result, like the end of the topic.            *)
LoadPage(reply) ==
  LET pages == Pages(ReadTopic, mConfirmedAtLastReadedTransaction) IN
  /\ Running /\ at \in {"history", "newTopic"}
  /\ \E page \in (IF IsNull(reply) THEN {{}} ELSE pages) :
     /\ mTransactions' = mTransactions \cup page
     /\ mConfirmedAtLastReadedTransaction' =
          IF page = {} THEN mConfirmedAtLastReadedTransaction ELSE Max(page)
     /\ at' = IF Cardinality(page) = PageSize THEN at ELSE AfterTopic
     /\ pageFailed' = (pageFailed \/ page \notin pages)
  /\ UNCHANGED <<world, disk, mLastSequenceNumber, passed, topicInfo,
                 mLastKnownTopicId, listener, process>>

(* The thread of a new query waits for events before there is a call.      *)
StartThread == mCallStatus' = "STATUS_CREATE" /\ UNCHANGED <<outstanding, mResponseReader>>

(* startListening.  The new MessageListenerQuery starts its thread;        *)
(* subscribeTopic starts the call and only then sets the reader; then the  *)
(* topic is remembered.                                                    *)
StartListening ==
  /\ Running /\ at = "listen"
  /\ listenFrom' = mConfirmedAtLastReadedTransaction + 1
  /\ at' = "call"
  /\ StartThread
  /\ UNCHANGED <<world, disk, manager, topicInfo, mLastKnownTopicId,
                 mConfirmedAtLastReadedTransaction, pageFailed, streamed, mIsClosed, process>>

StartCall ==
  /\ Running /\ at = "call"
  /\ outstanding' = TRUE
  /\ at' = "reader"
  /\ UNCHANGED <<world, disk, manager, topicInfo, mLastKnownTopicId,
                 mConfirmedAtLastReadedTransaction, pageFailed, mCallStatus,
                 mResponseReader, listenFrom, streamed, mIsClosed, process>>

SetResponseReader ==
  /\ Running /\ at = "reader"
  /\ mResponseReader' = TRUE
  /\ lastTopicId' = mHieroTopicId
  /\ at' = "listening"
  /\ UNCHANGED <<world, chain, lastSequenceNumber, manager, topicInfo,
                 mLastKnownTopicId, mConfirmedAtLastReadedTransaction, pageFailed,
                 mCallStatus, outstanding, listenFrom, streamed, mIsClosed, process>>

Sync ==
  \/ \E result \in LastTransactionState : CheckLastTransaction(result)
  \/ \E reply \in Reply : LoadPage(reply)
  \/ StartListening \/ StartCall \/ SetResponseReader

-----------------------------------------------------------------------------
(* The process ends: a crash, an exception or a null pointer.  The state   *)
(* db is as it was, but the last lines of the block file, or all of them,  *)
(* may not have been written.                                              *)
Down(how) ==
  /\ mode' = how
  /\ \E top \in chain \cup {0} : chain' = {m \in chain : m <= top}
  /\ lost' = lost \cup (chain \ chain')
  /\ mTransactions' = {}
  /\ mCallStatus' = "none" /\ outstanding' = FALSE /\ mResponseReader' = FALSE
  /\ UNCHANGED <<world, lastSequenceNumber, lastTopicId, mLastSequenceNumber, passed,
                 sync, listenFrom, streamed, mIsClosed, starts>>

Crash == Running /\ Down("down")

(* A result without the members of a page or of a message is an exception  *)
(* nobody catches but the worker, which ends the process.                  *)
MemberMissing ==
  /\ Running /\ at \in {"check", "history", "newTopic"}
  /\ at = "check" => chain # {}
  /\ Down("aborted")

-----------------------------------------------------------------------------
(* TopicMessageQuery::ThreadFunction, one event of the completion queue    *)
(* per action.                                                             *)

Event(status) == Running /\ mCallStatus = status /\ outstanding

(* STATUS_CREATE.  Without ok nothing is started and no event comes again. *)
CallStarted(ok) ==
  /\ Event("STATUS_CREATE")
  /\ IF ok /\ ~mResponseReader
     THEN Down("nullReader")
     ELSE /\ mCallStatus' = IF ok THEN "STATUS_WRITE" ELSE mCallStatus
          /\ outstanding' = ok
          /\ UNCHANGED <<world, disk, manager, sync, mResponseReader, listenFrom,
                         streamed, mIsClosed, process>>

(* STATUS_WRITE.                                                           *)
QuerySent(ok) ==
  /\ Event("STATUS_WRITE")
  /\ mCallStatus' = IF ok THEN "STATUS_PROCESSING" ELSE mCallStatus
  /\ outstanding' = ok
  /\ UNCHANGED <<world, disk, manager, sync, mResponseReader, listenFrom, streamed,
                 mIsClosed, process>>

(* MessageListenerQuery.  A message of several chunks ends the process     *)
(* (LOG_F(FATAL, ...)); any other goes to the ordering manager.            *)
OnMessageArrived(m) ==
  IF m \in Chunked
  THEN Down("aborted")
  ELSE /\ mTransactions' = mTransactions \cup {m}
       /\ streamed' = m
       /\ UNCHANGED <<world, disk, mLastSequenceNumber, passed, sync, mCallStatus,
                      outstanding, mResponseReader, listenFrom, mIsClosed, process>>

OnConnectionClosed == mIsClosed' = TRUE

(* STATUS_PROCESSING with a message: the next of the topic.  Mutant: the   *)
(* query asks for messages after the time from which to listen.            *)
NewsAfterFrom == {m \in On(mHieroTopicId) : m > listenFrom /\ m > streamed}

News == {m \in On(mHieroTopicId) : m >= listenFrom /\ m > streamed}

MessageArrived ==
  /\ Event("STATUS_PROCESSING")
  /\ News # {}
  /\ OnMessageArrived(Min(News))

(* STATUS_PROCESSING without: the stream has ended.                        *)
StreamEnded ==
  /\ Event("STATUS_PROCESSING")
  /\ mCallStatus' = "STATUS_FINISH"
  /\ UNCHANGED <<world, disk, manager, sync, outstanding, mResponseReader, listenFrom,
                 streamed, mIsClosed, process>>

(* STATUS_FINISH: the queue is shut down.  After a status that allows to   *)
(* retry the loop goes on, but no query is sent again; otherwise it ends.  *)
ShouldRetry(status) == status \in {"NOT_FOUND", "RESOURCE_EXHAUSTED", "UNAVAILABLE", "INTERNAL"}

Finished(status) ==
  /\ Event("STATUS_FINISH")
  /\ mCallStatus' = IF ShouldRetry(status) THEN "shutdown" ELSE "returned"
  /\ outstanding' = FALSE
  /\ UNCHANGED <<world, disk, manager, sync, mResponseReader, listenFrom, streamed,
                 mIsClosed, process>>

(* The queue says SHUTDOWN from now on, at every round.                    *)
QueueShutdown ==
  /\ Running /\ mCallStatus = "shutdown"
  /\ OnConnectionClosed
  /\ UNCHANGED <<world, disk, manager, sync, mCallStatus, outstanding, mResponseReader,
                 listenFrom, streamed, process>>

ThreadFunction ==
  \/ \E ok \in BOOLEAN : CallStarted(ok) \/ QuerySent(ok)
  \/ MessageArrived \/ StreamEnded
  \/ \E status \in StatusCode : Finished(status)
  \/ QueueShutdown

-----------------------------------------------------------------------------
(* The ordering manager, with the first of its messages.  It may be a      *)
(* duplicate of one that is in the chain, which confirming refuses.        *)

First == Min(mTransactions)
Started == at \notin {"waiting", "closed", "check"}

IsStale(m) ==
  mLastSequenceNumber # 0 /\ mLastSequenceNumber >= SequenceNumber(m)

DropStale ==
  /\ Running /\ Started /\ mTransactions # {}
  /\ IsStale(First)
  /\ mTransactions' = mTransactions \ {First}
  /\ passed' = passed \cup {First}
  /\ UNCHANGED <<world, disk, mLastSequenceNumber, sync, listener, process>>

(* The number before this one is stored when confirming succeeds or is     *)
(* refused, not when the task of the message has failed.                   *)
UpdateLastKnownSequenceNumber(m) ==
  \/ lastSequenceNumber' = mLastSequenceNumber
  \/ m \notin Valid /\ UNCHANGED lastSequenceNumber

ProcessTransaction ==
  /\ Running /\ Started /\ mTransactions # {}
  /\ SequenceNumber(First) = mLastSequenceNumber + 1
  /\ IF First \in Valid
     THEN chain' = chain \cup {First} /\ lost' = lost \ {First} /\ UNCHANGED passed
     ELSE passed' = passed \cup {First} /\ UNCHANGED <<chain, lost>>
  /\ UpdateLastKnownSequenceNumber(First)
  /\ mLastSequenceNumber' = SequenceNumber(First)
  /\ mTransactions' = mTransactions \ {First}
  /\ UNCHANGED <<world, lastTopicId, sync, listener, mode, starts>>

Order == DropStale \/ ProcessTransaction

-----------------------------------------------------------------------------
(* A start of the process: FileBased::initOnline reads the state.  The     *)
(* config may name the new topic once the old one has ended.               *)

ReadState(value, default) == IF value = NoTopic THEN default ELSE value

Online(topic) ==
  /\ mHieroTopicId' = topic
  /\ mLastKnownTopicId' = ReadState(lastTopicId, topic)
  /\ GetTopicInfo
  /\ mConfirmedAtLastReadedTransaction' = 0
  /\ listenFrom' = 0 /\ streamed' = 0 /\ mIsClosed' = FALSE
  /\ mode' = "up"

OldEnded == \A m \in Message : Topic[m] = OldTopic => m <= published

Restart(topic) ==
  /\ ~Running /\ starts < MaxStarts
  /\ starts' = starts + 1
  /\ topic = mHieroTopicId \/ (topic = NewTopic /\ OldEnded)
  /\ Online(topic)
  /\ mLastSequenceNumber' = 0
  /\ UNCHANGED <<published, disk, mTransactions, passed, pageFailed, mCallStatus,
                 outstanding, mResponseReader, lost>>

Init ==
  /\ published \in 0..Len(Topic)
  /\ mHieroTopicId = OldTopic
  /\ chain = {} /\ lastSequenceNumber = 0 /\ lastTopicId = NoTopic
  /\ mTransactions = {} /\ mLastSequenceNumber = 0 /\ passed = {}
  /\ at = "waiting" /\ topicInfo = NoTopic
  /\ mLastKnownTopicId = OldTopic
  /\ mConfirmedAtLastReadedTransaction = 0 /\ pageFailed = FALSE
  /\ mCallStatus = "none" /\ outstanding = FALSE /\ mResponseReader = FALSE
  /\ listenFrom = 0 /\ streamed = 0 /\ mIsClosed = FALSE
  /\ mode = "up" /\ starts = 0 /\ lost = {}

Next ==
  \/ Publish
  \/ \E topic \in {mHieroTopicId, NoTopic} : OnDone(topic)
  \/ OnDoneWithError
  \/ Sync \/ ThreadFunction \/ Order
  \/ Crash \/ MemberMissing
  \/ \E topic \in {OldTopic, NewTopic} : Restart(topic)

Spec == Init /\ [][Next]_vars

(***************************************************************************)
(* The worker runs the task, the manager's thread its loop, and the        *)
(* connection delivers while it holds.  Nobody owes an answer to           *)
(* getTopicInfo, and the page requests may all fail.                       *)
(***************************************************************************)
FairSpec ==
  /\ Spec
  /\ WF_vars(Sync) /\ WF_vars(Order)
  /\ WF_vars(\E ok \in BOOLEAN : CallStarted(ok) \/ QuerySent(ok))
  /\ WF_vars(MessageArrived)

-----------------------------------------------------------------------------
Numbers ==
  {0} \cup {Cardinality({k \in 1..m : Topic[k] = Topic[m]}) : m \in Message}

TypeOK ==
  /\ published \in 0..Len(Topic)
  /\ mHieroTopicId \in {OldTopic, NewTopic}
  /\ chain \subseteq Message
  /\ lastSequenceNumber \in Numbers
  /\ lastTopicId \in {NoTopic, OldTopic, NewTopic}
  /\ mTransactions \subseteq Message
  /\ mLastSequenceNumber \in Numbers
  /\ passed \subseteq Message
  /\ at \in SyncState
  /\ topicInfo \in {NoTopic, OldTopic, NewTopic}
  /\ mLastKnownTopicId \in {OldTopic, NewTopic}
  /\ mConfirmedAtLastReadedTransaction \in 0..Len(Topic)
  /\ pageFailed \in BOOLEAN
  /\ mCallStatus \in CallStatus
  /\ outstanding \in BOOLEAN /\ mResponseReader \in BOOLEAN
  /\ listenFrom \in 0..Len(Topic) + 1
  /\ streamed \in 0..Len(Topic)
  /\ mIsClosed \in BOOLEAN
  /\ mode \in {"up", "down", "nullReader", "aborted"}
  /\ starts \in 0..MaxStarts
  /\ lost \subseteq Message

Seen == chain \cup mTransactions \cup passed

(***************************************************************************)
(* History and subscription meet: once a node listens, it has taken from   *)
(* the history every message of its topic that the subscription will not   *)
(* bring, also if requests for pages failed, the last transaction was not  *)
(* found, or the topic was replaced since the last run.                    *)
(***************************************************************************)
HistoryMeetsNews ==
  Running /\ at \in {"call", "reader", "listening"} =>
    \A m \in On(mHieroTopicId) : m < listenFrom \/ m <= streamed => m \in Seen

(***************************************************************************)
(* The end of a topic that was replaced is taken from the history as well, *)
(* if no request for a page has failed.                                    *)
(***************************************************************************)
OldTopicFinished ==
  /\ Running /\ at \in {"call", "reader", "listening"}
  /\ mLastKnownTopicId # mHieroTopicId /\ ~pageFailed
  => On(mLastKnownTopicId) \subseteq Seen

(***************************************************************************)
(* A valid message the ordering manager comes to drop as stale was         *)
(* confirmed before, or a decided message of the other topic has its       *)
(* number or a higher one.  It is not always in the chain: the number in   *)
(* the state db may be ahead of the block file after a crash, and what the *)
(* crash took is dropped then; but whatever pages, crashes and restarts    *)
(* there are, a message that was never confirmed is dropped only in favour *)
(* of the other topic.                                                     *)
(***************************************************************************)
NumberTaken(m) ==
  \E k \in chain \cup lost \cup passed :
    Topic[k] # Topic[m] /\ SequenceNumber(k) >= SequenceNumber(m)

OnlyConfirmedDropped ==
  Running /\ Started =>
    \A m \in mTransactions \cap Valid :
      m = First /\ IsStale(m) => m \in chain \cup lost \/ NumberTaken(m)

(***************************************************************************)
(* What is published is decided, while the process is up and the           *)
(* subscription holds: neither between the pages nor between the history   *)
(* and the subscription is there a gap the ordering manager waits for.     *)
(***************************************************************************)
Connected == mCallStatus \in {"STATUS_CREATE", "STATUS_WRITE", "STATUS_PROCESSING"} /\ outstanding

PublishedDecided ==
  \A m \in Message :
    (Running /\ at = "listening" /\ m \in On(mHieroTopicId)) ~>
      (m \in chain \cup passed \/ ~Running \/ ~Connected)
=============================================================================
