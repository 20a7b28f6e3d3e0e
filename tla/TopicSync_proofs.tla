-------------------------- MODULE TopicSync_proofs --------------------------
(***************************************************************************)
(* Proofs about TopicSync, for any two topics, any page size and any       *)
(* number of restarts.                                                     *)
(***************************************************************************)
EXTENDS TopicSync, NaturalSets

(* Messages are numbers, and there are finitely many.                      *)
LEMMA Messages ==
  /\ Len(Topic) \in Nat /\ Message = 1..Len(Topic) /\ Message \subseteq Nat
  /\ \A m \in Message : Topic[m] \in {OldTopic, NewTopic}
  /\ IsFiniteSet(Message)
<1>1. Len(Topic) \in Nat /\ Message = 1..Len(Topic)
  BY TopicAssumption DEF Message
<1>2. \A m \in Message : Topic[m] \in {OldTopic, NewTopic}
  BY TopicAssumption DEF Message
<1> QED BY <1>1, <1>2, FS_Interval

LEMMA MinIsLeast ==
  ASSUME NEW S \in SUBSET Message, S # {}
  PROVE  Min(S) \in S /\ \A k \in S : Min(S) <= k
<1>1. PICK m \in S : \A k \in S : m <= k
  BY Messages, SmallestMember
<1> QED BY <1>1 DEF Min

LEMMA MaxIsGreatest ==
  ASSUME NEW S \in SUBSET Message, S # {}
  PROVE  Max(S) \in S /\ \A k \in S : k <= Max(S)
<1>1. S \in SUBSET Nat /\ Len(Topic) \in Nat /\ \A k \in S : k <= Len(Topic)
  BY Messages
<1>2. PICK m \in S : \A k \in S : k <= m
  BY <1>1, GreatestMember
<1>3. \E x \in S : \A y \in S : x >= y
  BY <1>1, <1>2
<1> QED BY <1>1, <1>3 DEF Max

(* The sequence number of a message counts the messages of its topic.      *)
LEMMA NumberType ==
  ASSUME NEW m \in Message
  PROVE  SequenceNumber(m) \in Numbers /\ SequenceNumber(m) \in Nat \ {0}
<1> DEFINE S == {k \in 1..m : Topic[k] = Topic[m]}
<1>1. IsFiniteSet(S) /\ m \in S
  <2>1. m \in Nat \ {0} /\ IsFiniteSet(1..m)
    BY Messages, FS_Interval
  <2> QED BY <2>1, FS_Subset
<1>2. Cardinality(S) \in Nat /\ Cardinality(S) # 0
  <2> HIDE DEF S
  <2> QED BY <1>1, FS_CardinalityType, FS_EmptySet
<1> QED BY <1>2 DEF SequenceNumber, Numbers

LEMMA NumbersGrow ==
  ASSUME NEW k \in Message, NEW m \in Message, Topic[k] = Topic[m], k < m
  PROVE  SequenceNumber(k) < SequenceNumber(m)
<1> DEFINE S == {i \in 1..m : Topic[i] = Topic[m]}
           R == {i \in 1..k : Topic[i] = Topic[k]}
<1>1. k \in Nat /\ m \in Nat \ {0} /\ IsFiniteSet(1..m)
  BY Messages, FS_Interval
<1>2. IsFiniteSet(S)
  BY <1>1, FS_Subset
<1>3. R \subseteq S /\ m \in S /\ m \notin R
  BY <1>1
<1>4. Cardinality(R) < Cardinality(S)
  <2> HIDE DEF R, S
  <2>1. IsFiniteSet(R) /\ R # S
    BY <1>2, <1>3, FS_Subset
  <2>2. Cardinality(R) <= Cardinality(S) /\ (Cardinality(R) = Cardinality(S) => R = S)
    BY <1>2, <1>3, FS_Subset
  <2>3. Cardinality(R) \in Nat /\ Cardinality(S) \in Nat
    BY <1>2, <2>1, FS_CardinalityType
  <2> QED BY <2>1, <2>2, <2>3
<1> QED BY <1>4 DEF SequenceNumber

(* A message whose number is not above another's of its topic came before. *)
LEMMA LaterNumber ==
  ASSUME NEW k \in Message, NEW m \in Message, Topic[k] = Topic[m],
         SequenceNumber(k) >= SequenceNumber(m)
  PROVE  m <= k
<1> SUFFICES ASSUME k < m PROVE FALSE
  BY Messages
<1>1. SequenceNumber(k) < SequenceNumber(m)
  BY NumbersGrow
<1> QED BY <1>1, NumberType

-----------------------------------------------------------------------------
(* The types.                                                              *)

(* What the ordering manager and the listener read is a message.           *)
LEMMA FirstIsThere ==
  ASSUME TypeOK, mTransactions # {}
  PROVE  /\ First \in mTransactions /\ First \in Message
         /\ \A m \in mTransactions : First <= m
BY MinIsLeast DEF First, TypeOK

LEMMA NewsAreMessages ==
  ASSUME TypeOK
  PROVE  /\ News \subseteq Message
         /\ News # {} => Min(News) \in News /\ \A k \in News : Min(News) <= k
<1>1. \A m \in 1..published : m \in Message
  BY Messages DEF TypeOK
<1>2. News \subseteq Message
  BY <1>1 DEF News, On
<1> QED BY <1>2, MinIsLeast

LEMMA PagesAreMessages ==
  ASSUME TypeOK, NEW page, page = {} \/ page \in Pages(ReadTopic, mConfirmedAtLastReadedTransaction)
  PROVE  /\ page \subseteq Message
         /\ page # {} => Max(page) \in page /\ \A k \in page : k <= Max(page)
<1>1. \A m \in 1..published : m \in Message
  BY Messages DEF TypeOK
<1>2. page \subseteq Message
  BY <1>1 DEF Pages, FirstOf, After, On
<1> QED BY <1>2, MaxIsGreatest

(* What a round of the loop reads.                                         *)
ReadsPage(page) ==
  /\ page = {} \/ page \in Pages(ReadTopic, mConfirmedAtLastReadedTransaction)
  /\ mTransactions' = mTransactions \cup page
  /\ mConfirmedAtLastReadedTransaction' =
       IF page = {} THEN mConfirmedAtLastReadedTransaction ELSE Max(page)
  /\ at' = IF Cardinality(page) = PageSize THEN at ELSE AfterTopic
  /\ pageFailed' =
       (pageFailed \/ page \notin Pages(ReadTopic, mConfirmedAtLastReadedTransaction))

LEMMA PageIsRead ==
  ASSUME TypeOK, NEW reply \in Reply, LoadPage(reply)
  PROVE  \E page \in SUBSET Message : ReadsPage(page)
<1> DEFINE pages == Pages(ReadTopic, mConfirmedAtLastReadedTransaction)
<1>1. PICK page \in (IF IsNull(reply) THEN {{}} ELSE pages) :
        /\ mTransactions' = mTransactions \cup page
        /\ mConfirmedAtLastReadedTransaction' =
             IF page = {} THEN mConfirmedAtLastReadedTransaction ELSE Max(page)
        /\ at' = IF Cardinality(page) = PageSize THEN at ELSE AfterTopic
        /\ pageFailed' = (pageFailed \/ page \notin pages)
  BY DEF LoadPage
<1>2. page = {} \/ page \in pages
  BY <1>1
<1>3. page \subseteq Message
  BY <1>2, PagesAreMessages
<1> QED BY <1>1, <1>2, <1>3 DEF ReadsPage

LEMMA DownTypes ==
  ASSUME TypeOK, NEW how \in {"down", "nullReader", "aborted"}, Down(how)
  PROVE  TypeOK'
<1>1. chain' \subseteq chain /\ lost' \subseteq Message
  BY DEF Down, TypeOK
<1> QED BY <1>1 DEF Down, TypeOK, CallStatus, world, sync

LEMMA InitTypes == Init => TypeOK
<1> SUFFICES ASSUME Init PROVE TypeOK
  OBVIOUS
<1>1. Len(Topic) \in Nat /\ 0 \in Numbers /\ MaxStarts \in Nat
  BY Messages, TopicAssumption DEF Numbers
<1>2. /\ pageFailed \in BOOLEAN /\ outstanding \in BOOLEAN /\ mResponseReader \in BOOLEAN
      /\ mIsClosed \in BOOLEAN
  BY DEF Init
<1> QED BY <1>1, <1>2 DEF Init, TypeOK, SyncState, CallStatus

LEMMA SyncTypes ==
  ASSUME TypeOK, Sync
  PROVE  TypeOK'
<1>1. ASSUME NEW result \in LastTransactionState, CheckLastTransaction(result)
      PROVE  TypeOK'
  <2>1. chain # {} => Max(chain) \in Message
    BY MaxIsGreatest DEF TypeOK
  <2>2. FirstNumber(result) \in Numbers
    <3>1. CASE result = "IDENTICAL"
      <4>1. chain # {}
        BY <1>1, <3>1 DEF CheckLastTransaction
      <4> QED BY <2>1, <3>1, <4>1, NumberType DEF FirstNumber
    <3>2. CASE result # "IDENTICAL"
      BY <3>2 DEF FirstNumber, TypeOK
    <3> QED BY <3>1, <3>2
  <2>3. ReadFrom(result) \in 0..Len(Topic)
    BY <2>1, Messages DEF ReadFrom, Last
  <2> QED BY <1>1, <2>2, <2>3 DEF CheckLastTransaction, TypeOK, SyncState, world, disk, listener, process
<1>2. ASSUME NEW reply \in Reply, LoadPage(reply) PROVE TypeOK'
  <2>1. PICK page \in SUBSET Message : ReadsPage(page)
    BY <1>2, PageIsRead
  <2>2. mConfirmedAtLastReadedTransaction' \in 0..Len(Topic)
    <3>1. page # {} => Max(page) \in Message
      BY <2>1, PagesAreMessages DEF ReadsPage
    <3> QED BY <2>1, <3>1, Messages DEF ReadsPage, TypeOK
  <2>3. at' \in SyncState /\ pageFailed' \in BOOLEAN
    BY <2>1 DEF ReadsPage, AfterTopic, TypeOK, SyncState
  <2>4. mTransactions' \subseteq Message
    BY <2>1 DEF ReadsPage, TypeOK
  <2> QED BY <1>2, <2>2, <2>3, <2>4 DEF LoadPage, TypeOK, world, disk, listener, process
<1>3. CASE StartListening
  BY <1>3, Messages DEF StartListening, StartThread, TypeOK, SyncState, CallStatus, world, disk, manager, process
<1>4. CASE StartCall
  BY <1>4 DEF StartCall, TypeOK, SyncState, world, disk, manager, process
<1>5. CASE SetResponseReader
  BY <1>5 DEF SetResponseReader, TypeOK, SyncState, world, manager, process
<1> QED BY <1>1, <1>2, <1>3, <1>4, <1>5 DEF Sync

LEMMA ListenerTypes ==
  ASSUME TypeOK, ThreadFunction
  PROVE  TypeOK'
<1>1. ASSUME NEW ok \in BOOLEAN, CallStarted(ok) \/ QuerySent(ok)
      PROVE  TypeOK'
  <2>1. CASE Down("nullReader")
    BY <2>1, DownTypes
  <2>2. CASE ~Down("nullReader")
    BY <1>1, <2>2 DEF CallStarted, QuerySent, TypeOK, CallStatus, world, disk, manager, sync, process
  <2> QED BY <2>1, <2>2
<1>2. CASE MessageArrived
  <2>1. CASE Down("aborted")
    BY <2>1, DownTypes
  <2>2. CASE ~Down("aborted")
    <3>1. News # {} /\ Min(News) \in Message
      BY <1>2, NewsAreMessages DEF MessageArrived
    <3>2. mTransactions' = mTransactions \cup {Min(News)} /\ streamed' = Min(News)
      BY <1>2, <2>2 DEF MessageArrived, OnMessageArrived
    <3>3. streamed' \in 0..Len(Topic)
      BY <3>1, <3>2, Messages
    <3> QED BY <1>2, <2>2, <3>1, <3>2, <3>3 DEF MessageArrived, OnMessageArrived, TypeOK, world, disk,
               sync, process
  <2> QED BY <2>1, <2>2
<1>3. CASE StreamEnded
  BY <1>3 DEF StreamEnded, TypeOK, CallStatus, world, disk, manager, sync, process
<1>4. ASSUME NEW status \in StatusCode, Finished(status) PROVE TypeOK'
  <2>1. outstanding' \in BOOLEAN
    BY <1>4 DEF Finished
  <2> QED BY <1>4, <2>1 DEF Finished, TypeOK, CallStatus, world, disk, manager, sync, process
<1>5. CASE QueueShutdown
  BY <1>5 DEF QueueShutdown, OnConnectionClosed, TypeOK, world, disk, manager, sync, process
<1> QED BY <1>1, <1>2, <1>3, <1>4, <1>5 DEF ThreadFunction

LEMMA OtherTypes ==
  ASSUME TypeOK,
         \/ Publish \/ OnDoneWithError \/ Order \/ Crash \/ MemberMissing
         \/ \E topic \in {mHieroTopicId, NoTopic} : OnDone(topic)
         \/ \E topic \in {OldTopic, NewTopic} : Restart(topic)
  PROVE  TypeOK'
<1>1. CASE Publish
  BY <1>1, Messages DEF Publish, TypeOK, disk, manager, sync, listener, process
<1>2. CASE OnDoneWithError \/ \E topic \in {mHieroTopicId, NoTopic} : OnDone(topic)
  BY <1>2 DEF OnDone, OnDoneWithError, TypeOK, SyncState, world, disk, manager, listener, process
<1>3. CASE Order
  <2>1. mTransactions # {} /\ First \in Message /\ SequenceNumber(First) \in Numbers
    BY <1>3, FirstIsThere, NumberType DEF Order, DropStale, ProcessTransaction
  <2>2. CASE DropStale
    BY <2>1, <2>2 DEF DropStale, TypeOK, world, disk, sync, listener, process
  <2>3. CASE ProcessTransaction
    <3>1. lastSequenceNumber' \in Numbers
      BY <2>3 DEF ProcessTransaction, UpdateLastKnownSequenceNumber, TypeOK
    <3> QED BY <2>1, <2>3, <3>1 DEF ProcessTransaction, TypeOK, world, sync, listener
  <2> QED BY <1>3, <2>2, <2>3 DEF Order
<1>4. CASE Crash \/ MemberMissing
  BY <1>4, DownTypes DEF Crash, MemberMissing
<1>5. ASSUME NEW topic \in {OldTopic, NewTopic}, Restart(topic)
      PROVE  TypeOK'
  <2>1. starts' \in 0..MaxStarts /\ 0 \in Numbers /\ Len(Topic) \in Nat
    BY <1>5, Messages, TopicAssumption DEF Restart, TypeOK, Numbers
  <2>2. mLastKnownTopicId' \in {OldTopic, NewTopic}
    BY <1>5 DEF Restart, Online, ReadState, TypeOK
  <2>3. mIsClosed' \in BOOLEAN
    BY <1>5 DEF Restart, Online
  <2> QED BY <1>5, <2>1, <2>2, <2>3 DEF Restart, Online, GetTopicInfo, TypeOK, SyncState, disk
<1> QED BY <1>1, <1>2, <1>3, <1>4, <1>5

LEMMA NextTypes == TypeOK /\ [Next]_vars => TypeOK'
<1> SUFFICES ASSUME TypeOK, [Next]_vars PROVE TypeOK'
  OBVIOUS
<1>1. CASE UNCHANGED vars
  BY <1>1 DEF vars, world, disk, manager, sync, listener, process, TypeOK
<1> QED BY <1>1, SyncTypes, ListenerTypes, OtherTypes DEF Next

(***************************************************************************)
(* Each variable keeps its type: the number in the state db and the one    *)
(* the ordering manager counts are those of a message or 0, whatever is    *)
(* restarted, lost or read again.                                          *)
(***************************************************************************)
THEOREM TypeCorrect == Spec => []TypeOK
BY InitTypes, NextTypes, PTL DEF Spec

-----------------------------------------------------------------------------
(***************************************************************************)
(* What is read.  HistoryMeetsNews is not inductive: that the history is   *)
(* read up to a time means something only if a transaction in the chain,   *)
(* from which the next start reads on, has every earlier message of its    *)
(* topic decided, also after a crash.  For the end of the old topic the    *)
(* same must hold across the topics, as long as no page has failed.        *)
(***************************************************************************)
ReadTo == mConfirmedAtLastReadedTransaction
Decided == chain \cup passed
Subscribed == at \in {"call", "reader", "listening"}
Old == {m \in Message : Topic[m] = OldTopic}

(* The new topic is only in the config once the old one has ended.         *)
TopicsOK ==
  /\ mHieroTopicId = NewTopic => OldEnded
  /\ mHieroTopicId = OldTopic => Seen \subseteq Old /\ lastTopicId # NewTopic
  /\ mHieroTopicId = OldTopic => mLastKnownTopicId = OldTopic
  /\ topicInfo \in {NoTopic, mHieroTopicId}
  /\ at = "newTopic" => topicInfo = mHieroTopicId
  /\ Running /\ at # "listening" => mLastKnownTopicId = ReadState(lastTopicId, mHieroTopicId)
  /\ at = "listening" => lastTopicId = mHieroTopicId

PlacesOK ==
  /\ ~Running => mTransactions = {} /\ mCallStatus = "none"
  /\ at \in {"waiting", "closed", "check"} => mTransactions = {}
  /\ at = "history" => \A m \in mTransactions : Topic[m] = mLastKnownTopicId
  /\ Running => (Subscribed <=> mCallStatus # "none")
  /\ ~Subscribed => streamed = 0
  /\ Running /\ Subscribed => listenFrom = ReadTo + 1

PublishedOK ==
  /\ Seen \subseteq 1..published
  /\ ReadTo <= published /\ streamed <= published

ReadUpTo(topic) == \A m \in On(topic) : m <= ReadTo => m \in Seen

(* The old topic is not read any more when the last transaction is one of  *)
(* the new topic.                                                          *)
PastOld ==
  /\ pageFailed /\ mLastKnownTopicId = OldTopic
  /\ \E n \in Message \ Old : n <= ReadTo

ReadOK ==
  /\ Running /\ Started => ReadUpTo(mHieroTopicId)
  /\ Running /\ Subscribed => \A m \in On(mHieroTopicId) : m <= streamed => m \in Seen
  /\ Running /\ at = "history" => ReadUpTo(mLastKnownTopicId) \/ PastOld

(* What comes before a message of a topic.                                 *)
Earlier(m) == {k \in Message : k < m /\ Topic[k] = Topic[m]}

ChainOK == \A m \in chain : Earlier(m) \subseteq Decided
UndecidedOK == \A m \in mTransactions : Earlier(m) \subseteq Seen

OldBeforeNew ==
  ~pageFailed /\ lastTopicId = OldTopic /\ ~(chain \subseteq Old) => Old \subseteq Decided

OldRead ==
  /\ Running /\ at \notin {"waiting", "closed", "check", "history"}
  /\ mLastKnownTopicId # mHieroTopicId /\ ~pageFailed
  => On(mLastKnownTopicId) \subseteq Seen

ReadInv ==
  TypeOK /\ TopicsOK /\ PlacesOK /\ PublishedOK /\ ReadOK /\ ChainOK /\ UndecidedOK
  /\ OldBeforeNew /\ OldRead

LEMMA InitRead == Init => ReadInv
<1> SUFFICES ASSUME Init PROVE ReadInv
  OBVIOUS
<1>1. TypeOK
  BY InitTypes
<1>2. TopicsOK
  BY TopicAssumption DEF Init, TopicsOK, Seen, Running, ReadState
<1>3. PlacesOK /\ PublishedOK
  BY <1>1 DEF Init, PlacesOK, PublishedOK, Running, Subscribed, Seen, ReadTo, TypeOK
<1>4. ReadOK /\ ChainOK /\ UndecidedOK /\ OldBeforeNew /\ OldRead
  BY DEF Init, ReadOK, Started, Subscribed, ChainOK, UndecidedOK, OldBeforeNew, OldRead
<1> QED BY <1>1, <1>2, <1>3, <1>4 DEF ReadInv

(* The two topics, and when a new one can be seen.                         *)
LEMMA TopicFacts ==
  ASSUME ReadInv
  PROVE  /\ OldTopic # NewTopic
         /\ mHieroTopicId \in {OldTopic, NewTopic} /\ mLastKnownTopicId \in {OldTopic, NewTopic}
         /\ mLastKnownTopicId # mHieroTopicId =>
              mLastKnownTopicId = OldTopic /\ mHieroTopicId = NewTopic
         /\ ~(Seen \subseteq Old) => mHieroTopicId = NewTopic
         /\ mHieroTopicId = NewTopic => Old \subseteq 1..published
         /\ \A m \in Old, n \in Message \ Old : m < n /\ Topic[n] = NewTopic
         /\ \A topic : On(topic) \subseteq Message
         /\ Seen \subseteq Message /\ published \in Nat /\ published <= Len(Topic)
<1> USE DEF ReadInv
<1>1. /\ OldTopic # NewTopic
      /\ mHieroTopicId \in {OldTopic, NewTopic} /\ mLastKnownTopicId \in {OldTopic, NewTopic}
      /\ mLastKnownTopicId # mHieroTopicId =>
           mLastKnownTopicId = OldTopic /\ mHieroTopicId = NewTopic
      /\ ~(Seen \subseteq Old) => mHieroTopicId = NewTopic
  BY TopicAssumption DEF TypeOK, TopicsOK
<1>2. mHieroTopicId = NewTopic => Old \subseteq 1..published
  BY Messages DEF TypeOK, TopicsOK, OldEnded, Old
<1>3. \A m \in Old, n \in Message \ Old : m < n /\ Topic[n] = NewTopic
  BY Messages, TopicReplaced DEF Old
<1>4. published \in Nat /\ published <= Len(Topic) /\ Seen \subseteq Message
  BY Messages DEF TypeOK, Seen
<1>5. \A topic : On(topic) \subseteq Message
  BY <1>4, Messages DEF On
<1> QED BY <1>1, <1>2, <1>3, <1>4, <1>5

(* Consensus: a message that is new was not read before.                   *)
LEMMA PublishRead == ASSUME ReadInv, Publish PROVE ReadInv'
<1>1. TypeOK'
  BY OtherTypes DEF ReadInv
<1>2. /\ published' = published + 1 /\ published \in Nat /\ published' <= Len(Topic)
      /\ UNCHANGED <<mHieroTopicId, disk, manager, sync, listener, process>>
  BY DEF Publish, ReadInv, TypeOK
<1>3. /\ Seen' = Seen /\ ReadTo' = ReadTo /\ Decided' = Decided /\ (Running' <=> Running)
      /\ (Subscribed' <=> Subscribed) /\ (Started' <=> Started)
  BY <1>2 DEF disk, manager, sync, process, Seen, ReadTo, Decided, Running, Subscribed, Started
<1>4. ASSUME NEW m \in Message, m <= published'
      PROVE  m <= published \/ (~(m <= ReadTo) /\ ~(m <= streamed))
  BY <1>2, Messages DEF ReadInv, PublishedOK, ReadTo, TypeOK
<1>5. ASSUME NEW topic, NEW m \in On(topic)'
      PROVE  m \in On(topic) \/ (~(m <= ReadTo) /\ ~(m <= streamed))
  <2>1. m \in Message /\ m <= published' /\ Topic[m] = topic /\ m \in Nat \ {0}
    BY <1>2, Messages DEF On
  <2> QED BY <1>4, <2>1, <1>2 DEF On
<1>6. TopicsOK'
  BY <1>2, <1>3, Messages DEF ReadInv, TopicsOK, OldEnded, sync, disk
<1>7. PlacesOK'
  BY <1>2, <1>3 DEF ReadInv, PlacesOK, sync, manager, listener
<1>8. PublishedOK'
  BY <1>2, <1>3, Messages DEF ReadInv, PublishedOK, listener, ReadTo, TypeOK
<1>9. ReadOK'
  <2>1. \A topic : ReadUpTo(topic) => ReadUpTo(topic)'
    BY <1>3, <1>5 DEF ReadUpTo
  <2>2. PastOld => PastOld'
    BY <1>2, <1>3 DEF PastOld, sync
  <2>3. mHieroTopicId' = mHieroTopicId /\ mLastKnownTopicId' = mLastKnownTopicId /\ at' = at /\ streamed' = streamed
    BY <1>2 DEF sync, listener
  <2>4. Running' /\ Subscribed' => \A m \in On(mHieroTopicId)' : m <= streamed' => m \in Seen'
    BY <1>3, <1>5, <2>3 DEF ReadInv, ReadOK, On
  <2>5. Running' /\ Started' => ReadUpTo(mHieroTopicId)'
    BY <1>3, <2>1, <2>3 DEF ReadInv, ReadOK, ReadUpTo, On
  <2>6. Running' /\ at' = "history" => ReadUpTo(mLastKnownTopicId)' \/ PastOld'
    BY <1>3, <2>1, <2>2, <2>3 DEF ReadInv, ReadOK, ReadUpTo, On
  <2> QED BY <2>4, <2>5, <2>6 DEF ReadOK
<1>10. ChainOK' /\ UndecidedOK' /\ OldBeforeNew'
  BY <1>2, <1>3 DEF ReadInv, ChainOK, UndecidedOK, OldBeforeNew, disk, manager, sync
<1>11. OldRead'
  <2>1. SUFFICES ASSUME Running, at \notin {"waiting", "closed", "check", "history"},
                        mLastKnownTopicId # mHieroTopicId, ~pageFailed, NEW m \in On(mLastKnownTopicId)'
                 PROVE  m \in Seen
    BY <1>2, <1>3 DEF OldRead, sync
  <2>2. mLastKnownTopicId = OldTopic /\ Old \subseteq 1..published /\ mLastKnownTopicId' = OldTopic
    BY <1>2, <2>1, TopicFacts DEF sync
  <2>3. m \in Old
    BY <1>2, <2>1, <2>2, Messages DEF On, Old
  <2>4. m \in On(mLastKnownTopicId)
    BY <2>2, <2>3 DEF On, Old
  <2> QED BY <2>1, <2>4 DEF ReadInv, OldRead
<1> QED BY <1>1, <1>6, <1>7, <1>8, <1>9, <1>10, <1>11 DEF ReadInv

(* A step that reads nothing and goes nowhere.                             *)
LEMMA SameRead ==
  ASSUME ReadInv, TypeOK', UNCHANGED <<world, disk, mTransactions, passed, sync>>,
         UNCHANGED <<listenFrom, streamed, mode>>,
         mCallStatus' = "none" <=> mCallStatus = "none"
  PROVE  ReadInv'
<1>1. UNCHANGED <<published, mHieroTopicId, chain, lastTopicId, mTransactions, passed, at, topicInfo,
                  mLastKnownTopicId, mConfirmedAtLastReadedTransaction, pageFailed, listenFrom,
                  streamed, mode>>
  BY DEF world, disk, sync
<1>2. /\ Seen' = Seen /\ ReadTo' = ReadTo /\ Decided' = Decided /\ (Running' <=> Running)
      /\ (Subscribed' <=> Subscribed) /\ (Started' <=> Started) /\ PastOld' = PastOld
      /\ \A topic : On(topic)' = On(topic)
  BY <1>1 DEF Seen, ReadTo, Decided, Running, Subscribed, Started, PastOld, On
<1>3. TopicsOK' /\ PlacesOK' /\ PublishedOK'
  BY <1>1, <1>2 DEF ReadInv, TopicsOK, OldEnded, PlacesOK, PublishedOK
<1>4. ReadOK'
  BY <1>1, <1>2 DEF ReadInv, ReadOK, ReadUpTo, On
<1>5. ChainOK' /\ UndecidedOK' /\ OldBeforeNew' /\ OldRead'
  BY <1>1, <1>2 DEF ReadInv, ChainOK, UndecidedOK, OldBeforeNew, OldRead, On
<1> QED BY <1>3, <1>4, <1>5 DEF ReadInv

(* A crash: what is left of the chain is a beginning of it.                *)
LEMMA DownRead ==
  ASSUME ReadInv, NEW how \in {"down", "nullReader", "aborted"}, Down(how)
  PROVE  ReadInv'
<1>1. TypeOK'
  BY DownTypes DEF ReadInv
<1>2. /\ ~Running' /\ mTransactions' = {} /\ mCallStatus' = "none"
      /\ UNCHANGED <<published, mHieroTopicId, lastTopicId, passed, at, topicInfo, mLastKnownTopicId,
                     mConfirmedAtLastReadedTransaction, pageFailed, streamed>>
  BY DEF Down, Running, world, sync
<1>3. PICK top : chain' = {m \in chain : m <= top} /\ top \in chain \cup {0}
  BY DEF Down
<1>4. top \in Nat
  BY <1>3, Messages DEF ReadInv, TypeOK
<1>5. Seen' \subseteq Seen /\ chain' \subseteq chain /\ Decided' = chain' \cup passed
  BY <1>2, <1>3 DEF Seen, Decided
<1>6. ASSUME NEW m \in chain', NEW k \in Decided, k \in Message, k < m
      PROVE  k \in Decided'
  BY <1>3, <1>4, <1>5, <1>6, Messages DEF Decided, ReadInv, TypeOK
<1>7. TopicsOK'
  BY <1>2, <1>5 DEF ReadInv, TopicsOK, OldEnded
<1>8. PlacesOK'
  BY <1>2 DEF ReadInv, PlacesOK, Subscribed
<1>9. PublishedOK'
  BY <1>2, <1>5 DEF ReadInv, PublishedOK, ReadTo
<1>10. ReadOK' /\ UndecidedOK' /\ OldRead'
  BY <1>2 DEF ReadOK, UndecidedOK, OldRead
<1>11. ChainOK'
  BY <1>3, <1>6 DEF ReadInv, ChainOK, Earlier
<1>12. OldBeforeNew'
  <2>1. SUFFICES ASSUME ~pageFailed, lastTopicId = OldTopic, NEW n \in chain', n \notin Old, NEW m \in Old
                 PROVE  m \in Decided'
    BY <1>2 DEF OldBeforeNew
  <2>2. m \in Decided /\ m \in Message /\ n \in Message
    BY <1>5, <2>1 DEF ReadInv, OldBeforeNew, Old, TypeOK
  <2>3. m < n
    BY <2>1, <2>2, TopicFacts
  <2> QED BY <1>6, <2>1, <2>2, <2>3
<1> QED BY <1>1, <1>7, <1>8, <1>9, <1>10, <1>11, <1>12 DEF ReadInv

(* The answer to getTopicInfo, or none.                                    *)
LEMMA AnswerRead ==
  ASSUME ReadInv, OnDoneWithError \/ \E topic \in {mHieroTopicId, NoTopic} : OnDone(topic)
  PROVE  ReadInv'
<1>1. TypeOK'
  BY OtherTypes DEF ReadInv
<1>2. /\ Running /\ at = "waiting" /\ at' \in {"closed", "check"} /\ topicInfo' \in {topicInfo, mHieroTopicId, NoTopic}
      /\ UNCHANGED <<published, mHieroTopicId, chain, lastTopicId, mTransactions, passed,
                     mLastKnownTopicId, mConfirmedAtLastReadedTransaction, pageFailed, mCallStatus,
                     listenFrom, streamed, mode>>
  BY DEF OnDone, OnDoneWithError, Calling, world, disk, manager, listener, process
<1>3. /\ Seen' = Seen /\ ReadTo' = ReadTo /\ Decided' = Decided /\ Running'
      /\ ~Subscribed' /\ ~Subscribed /\ ~Started'
  BY <1>2 DEF Seen, ReadTo, Decided, Running, Subscribed, Started
<1>4. TopicsOK' /\ PlacesOK' /\ PublishedOK'
  BY <1>2, <1>3 DEF ReadInv, TopicsOK, OldEnded, PlacesOK, PublishedOK
<1>5. ReadOK' /\ ChainOK' /\ UndecidedOK' /\ OldBeforeNew' /\ OldRead'
  BY <1>2, <1>3 DEF ReadInv, ReadOK, ChainOK, UndecidedOK, OldBeforeNew, OldRead
<1> QED BY <1>1, <1>4, <1>5 DEF ReadInv

(* The last transaction is checked: what comes before it is decided.       *)
LEMMA CheckRead ==
  ASSUME ReadInv, NEW result \in LastTransactionState, CheckLastTransaction(result)
  PROVE  ReadInv'
<1>1. TypeOK'
  BY SyncTypes DEF ReadInv, Sync
<1>2. /\ Running /\ at = "check" /\ at' = "history" /\ mTransactions = {} /\ ~Subscribed
      /\ UNCHANGED <<published, mHieroTopicId, chain, lastTopicId, mTransactions, passed, topicInfo,
                     mLastKnownTopicId, pageFailed, mCallStatus, listenFrom, streamed, mode>>
  BY DEF CheckLastTransaction, world, disk, listener, process, ReadInv, PlacesOK, Subscribed
<1>3. /\ Seen' = Seen /\ Decided' = Decided /\ Running' /\ ~Subscribed' /\ Started'
      /\ Seen = Decided /\ \A topic : On(topic)' = On(topic)
  BY <1>2 DEF Seen, Decided, Running, Subscribed, Started, On
<1>4. ReadTo' = 0 \/ (chain # {} /\ ReadTo' = Max(chain) /\ Max(chain) \in chain)
  <2>1. chain # {} => Max(chain) \in chain
    BY MaxIsGreatest DEF ReadInv, TypeOK
  <2> QED BY <2>1 DEF CheckLastTransaction, ReadFrom, Last, ReadTo
<1>5. TopicsOK' /\ PlacesOK'
  BY <1>2, <1>3 DEF ReadInv, TopicsOK, OldEnded, PlacesOK
<1>6. PublishedOK'
  <2>1. ReadTo' <= published
    BY <1>4, TopicFacts, Messages DEF ReadInv, PublishedOK, Seen
  <2> QED BY <1>2, <1>3, <2>1 DEF ReadInv, PublishedOK
<1>7. ASSUME NEW topic, NEW m \in On(topic), m <= ReadTo', m \notin Seen
      PROVE  ReadTo' \in chain /\ Topic[ReadTo'] # topic /\ m < ReadTo' /\ m \in Message /\ Topic[m] = topic
  <2>1. m \in Nat \ {0} /\ m \in Message /\ Topic[m] = topic
    BY Messages, TopicFacts DEF On
  <2>2. ReadTo' \in chain /\ ReadTo' \in Message
    <3>1. ReadTo' # 0
      BY <1>7, <2>1
    <3>2. chain \subseteq Message
      BY DEF ReadInv, TypeOK
    <3> QED BY <1>4, <3>1, <3>2
  <2>3. m # ReadTo' /\ m \notin Earlier(ReadTo')
    BY <1>3, <1>7, <2>2 DEF ReadInv, ChainOK, Decided
  <2> QED BY <1>7, <2>1, <2>2, <2>3, Messages DEF Earlier
<1>8. ReadUpTo(mHieroTopicId)'
  <2>1. SUFFICES ASSUME NEW m \in On(mHieroTopicId), m <= ReadTo', m \notin Seen
                 PROVE  FALSE
    BY <1>2, <1>3 DEF ReadUpTo
  <2>2. ReadTo' \in chain /\ Topic[ReadTo'] # mHieroTopicId /\ m < ReadTo' /\ m \in Message /\ Topic[m] = mHieroTopicId
    BY <1>7, <2>1
  <2>3. ReadTo' \in Message /\ ReadTo' \in Seen
    BY <2>2 DEF ReadInv, TypeOK, Seen
  <2>4. CASE mHieroTopicId = OldTopic
    BY <2>2, <2>3, <2>4, TopicFacts DEF Old
  <2>5. CASE mHieroTopicId = NewTopic
    <3>1. ReadTo' \in Old /\ m \notin Old
      BY <2>2, <2>3, <2>5, Messages, TopicFacts DEF Old
    <3> QED BY <2>2, <2>3, <3>1, TopicFacts, Messages
  <2> QED BY <2>4, <2>5, TopicFacts
<1>9. ReadUpTo(mLastKnownTopicId)' \/ PastOld'
  <2>1. CASE mLastKnownTopicId = mHieroTopicId
    BY <1>2, <1>8, <2>1
  <2>2. CASE mLastKnownTopicId # mHieroTopicId
    <3>1. mLastKnownTopicId = OldTopic /\ mHieroTopicId = NewTopic /\ lastTopicId = OldTopic
      <4>1. mLastKnownTopicId = OldTopic /\ mHieroTopicId = NewTopic
        BY <2>2, TopicFacts
      <4> QED BY <1>2, <4>1, TopicFacts DEF ReadInv, TopicsOK, ReadState
    <3>2. SUFFICES ASSUME NEW m \in On(OldTopic), m <= ReadTo', m \notin Seen
                   PROVE  PastOld'
      BY <1>2, <1>3, <3>1 DEF ReadUpTo
    <3>3. ReadTo' \in chain /\ Topic[ReadTo'] # OldTopic /\ m \in Old
      BY <1>7, <3>2 DEF Old
    <3>4. ReadTo' \in Message \ Old /\ ReadTo' \in Nat
      BY <3>3, Messages DEF ReadInv, TypeOK, Old
    <3>5. pageFailed
      BY <1>3, <3>1, <3>2, <3>3, <3>4 DEF ReadInv, OldBeforeNew
    <3> QED BY <1>2, <3>1, <3>4, <3>5 DEF PastOld, Old
  <2> QED BY <2>1, <2>2
<1>10. ReadOK'
  BY <1>3, <1>8, <1>9 DEF ReadOK
<1>11. ChainOK' /\ UndecidedOK' /\ OldBeforeNew' /\ OldRead'
  BY <1>2, <1>3 DEF ReadInv, ChainOK, UndecidedOK, OldBeforeNew, OldRead
<1> QED BY <1>1, <1>5, <1>6, <1>10, <1>11 DEF ReadInv

(* A page of the history: read up to the last of its messages, or up to    *)
(* the end of the topic if it is not full.                                 *)
LEMMA PageRead ==
  ASSUME ReadInv, NEW reply \in Reply, LoadPage(reply), NEW page \in SUBSET Message, ReadsPage(page)
  PROVE  ReadInv'
<1> DEFINE T == ReadTopic
<1>1. TypeOK'
  BY SyncTypes DEF ReadInv, Sync
<1>2. /\ Running /\ at \in {"history", "newTopic"} /\ ~Subscribed /\ Started
      /\ mTransactions' = mTransactions \cup page
      /\ ReadTo' = IF page = {} THEN ReadTo ELSE Max(page)
      /\ at' \in {at, AfterTopic}
      /\ UNCHANGED <<published, mHieroTopicId, chain, lastTopicId, passed, topicInfo,
                     mLastKnownTopicId, mCallStatus, listenFrom, streamed, mode>>
  BY DEF LoadPage, ReadsPage, world, disk, listener, process, Subscribed, Started, ReadTo
<1>3. /\ Seen' = Seen \cup page /\ Decided' = Decided /\ Running' /\ ~Subscribed' /\ Started'
      /\ \A topic : On(topic)' = On(topic)
      /\ at' = "history" => at = "history"
      /\ at' = "newTopic" => topicInfo = mHieroTopicId
      /\ at' \in {"history", "newTopic", "listen"}
  BY <1>2 DEF Seen, Decided, Running, Subscribed, Started, On, AfterTopic, ReadInv, TopicsOK
<1>4. page = {} \/ page \in Pages(T, ReadTo)
  BY DEF ReadsPage, ReadTo
<1>5. page # {} => Max(page) \in page /\ \A k \in page : k <= Max(page)
  BY <1>4, PagesAreMessages DEF ReadInv, ReadTo
<1>6. ReadTo \in Nat /\ ReadTo' \in Nat /\ published \in Nat
  BY <1>1, Messages, TopicFacts DEF ReadInv, TypeOK, ReadTo
<1>7. /\ page \subseteq On(T) /\ \A m \in page : m > ReadTo
      /\ \A m \in page, k \in On(T) : k < m /\ k > ReadTo => k \in page
  BY <1>4 DEF Pages, FirstOf, After
<1>8. T = IF at = "history" THEN mLastKnownTopicId ELSE mHieroTopicId
  BY <1>2 DEF ReadTopic, ReadInv, TopicsOK
<1>9. page # {} => ReadUpTo(T)
  <2>1. SUFFICES ASSUME NEW m \in page, ~ReadUpTo(T) PROVE FALSE
    OBVIOUS
  <2>2. at = "history" /\ PastOld /\ T = mLastKnownTopicId
    BY <1>2, <1>8, <2>1 DEF ReadInv, ReadOK
  <2>3. PICK n \in Message \ Old : n <= ReadTo
    BY <2>2 DEF PastOld
  <2>4. m \in Old /\ m > ReadTo
    BY <1>7, <2>1, <2>2, TopicFacts DEF PastOld, On, Old
  <2> QED BY <1>6, <2>3, <2>4, TopicFacts, Messages DEF Old
<1>10. ASSUME NEW m \in On(T), m <= ReadTo', page # {}
       PROVE  m \in Seen'
  <2>1. CASE m <= ReadTo
    BY <1>3, <1>9, <1>10, <2>1 DEF ReadUpTo
  <2>2. CASE ~(m <= ReadTo)
    <3>1. m \in Nat /\ m > ReadTo /\ m <= Max(page) /\ Max(page) \in page
      BY <1>2, <1>5, <1>6, <1>10, <2>2, TopicFacts, Messages
    <3>2. m \in page
      <4>1. Max(page) \in Nat
        BY <3>1, Messages
      <4>2. m = Max(page) \/ m < Max(page)
        BY <3>1, <4>1
      <4> QED BY <1>7, <1>10, <3>1, <4>2
    <3> QED BY <1>3, <3>2
  <2> QED BY <2>1, <2>2
<1>11. TopicsOK'
  <2>1. mHieroTopicId = OldTopic => T = OldTopic
    BY <1>2, <1>8, TopicFacts
  <2>2. mHieroTopicId = OldTopic => page \subseteq Old
    BY <1>7, <2>1, TopicFacts DEF On, Old
  <2> QED BY <1>2, <1>3, <2>2 DEF ReadInv, TopicsOK, OldEnded
<1>12. PlacesOK'
  <2>1. at' = "history" => \A m \in mTransactions' : Topic[m] = mLastKnownTopicId
    BY <1>2, <1>3, <1>7, <1>8 DEF ReadInv, PlacesOK, On
  <2> QED BY <1>2, <1>3, <2>1 DEF ReadInv, PlacesOK
<1>13. PublishedOK'
  <2>1. page \subseteq 1..published
    BY <1>7 DEF On
  <2>2. ReadTo' <= published
    BY <1>2, <1>5, <1>6, <2>1 DEF ReadInv, PublishedOK
  <2> QED BY <1>2, <1>3, <2>1, <2>2 DEF ReadInv, PublishedOK
<1>14. ReadUpTo(mHieroTopicId)'
  <2>1. SUFFICES ASSUME NEW m \in On(mHieroTopicId), m <= ReadTo', m \notin Seen' PROVE FALSE
    BY <1>2, <1>3 DEF ReadUpTo
  <2>2. page # {} /\ T # mHieroTopicId
    BY <1>2, <1>3, <1>10, <2>1 DEF ReadInv, ReadOK, ReadUpTo
  <2>3. T = OldTopic /\ mHieroTopicId = NewTopic
    BY <1>8, <2>2, TopicFacts
  <2>4. Max(page) \in Old /\ m \in Message \ Old /\ ReadTo' = Max(page)
    <3>1. m \in Message \ Old
      BY <2>1, <2>3, TopicFacts DEF On, Old
    <3>2. Max(page) \in Old
      BY <1>5, <1>7, <2>2, <2>3 DEF On, Old
    <3> QED BY <1>2, <2>2, <3>1, <3>2
  <2> QED BY <2>1, <2>4, TopicFacts, Messages DEF Old
<1>15. at' = "history" => ReadUpTo(mLastKnownTopicId)' \/ PastOld'
  <2>1. SUFFICES ASSUME at = "history", ~ReadUpTo(mLastKnownTopicId)' PROVE PastOld'
    BY <1>3
  <2>2. PICK m \in On(mLastKnownTopicId) : m <= ReadTo' /\ m \notin Seen'
    BY <1>2, <1>3, <2>1 DEF ReadUpTo
  <2>3. page = {} /\ ReadTo' = ReadTo
    BY <1>2, <1>8, <1>10, <2>1, <2>2
  <2>4. PastOld
    BY <1>2, <1>3, <2>1, <2>2, <2>3 DEF ReadInv, ReadOK, ReadUpTo
  <2>5. pageFailed => pageFailed'
    BY DEF ReadsPage
  <2> QED BY <1>2, <2>3, <2>4, <2>5 DEF PastOld, Old
<1>16. ReadOK'
  BY <1>3, <1>14, <1>15 DEF ReadOK
<1>17. ChainOK' /\ OldBeforeNew'
  <2>1. pageFailed => pageFailed'
    BY DEF ReadsPage
  <2> QED BY <1>2, <1>3, <2>1 DEF ReadInv, ChainOK, OldBeforeNew
<1>18. UndecidedOK'
  <2>1. SUFFICES ASSUME NEW m \in page, NEW k \in Earlier(m) PROVE k \in Seen'
    BY <1>2, <1>3 DEF ReadInv, UndecidedOK
  <2>2. m \in On(T) /\ m \in 1..published /\ k \in Message /\ k < m /\ Topic[k] = T
    BY <1>7, <2>1 DEF Earlier, On
  <2>3. k \in On(T)
    BY <2>2, Messages, <1>6 DEF On
  <2>4. m <= ReadTo'
    BY <1>2, <1>5, <2>1
  <2>5. k <= ReadTo' /\ page # {}
    BY <1>6, <2>1, <2>2, <2>4, Messages
  <2> QED BY <1>10, <2>3, <2>5
<1>19. OldRead'
  <2>1. SUFFICES ASSUME at' # "history", mLastKnownTopicId # mHieroTopicId, ~pageFailed',
                        NEW m \in On(mLastKnownTopicId)
                 PROVE  m \in Seen'
    BY <1>2, <1>3 DEF OldRead
  <2>2. ~pageFailed /\ page \in Pages(T, ReadTo)
    BY <2>1 DEF ReadsPage, ReadTo
  <2>3. CASE at = "newTopic"
    BY <1>2, <1>3, <2>1, <2>2, <2>3 DEF ReadInv, OldRead
  <2>4. CASE at = "history"
    <3>1. T = mLastKnownTopicId /\ ReadUpTo(T)
      BY <1>2, <1>8, <2>2, <2>4 DEF ReadInv, ReadOK, PastOld
    <3>2. Cardinality(page) # PageSize
      BY <2>1, <2>4 DEF ReadsPage
    <3>3. Cardinality(page) \in Nat
      BY Messages, FS_Subset, FS_CardinalityType
    <3>4. page = After(T, ReadTo)
      BY <2>2, <3>2, <3>3, TopicAssumption DEF Pages, FirstOf
    <3>5. m \in Nat
      BY <2>1, TopicFacts, Messages
    <3> QED BY <1>3, <1>6, <2>1, <3>1, <3>4, <3>5 DEF After, ReadUpTo
  <2> QED BY <1>2, <2>3, <2>4
<1> QED BY <1>1, <1>11, <1>12, <1>13, <1>16, <1>17, <1>18, <1>19 DEF ReadInv

(* Listening: the subscription begins after what is read.                  *)
LEMMA ListenRead ==
  ASSUME ReadInv, StartListening \/ StartCall \/ SetResponseReader
  PROVE  ReadInv'
<1>1. TypeOK'
  BY SyncTypes DEF ReadInv, Sync
<1>2. /\ Running /\ Running' /\ Started /\ Started' /\ Subscribed'
      /\ at \in {"listen", "call", "reader"} /\ at' \in {"call", "reader", "listening"}
      /\ UNCHANGED <<published, mHieroTopicId, chain, mTransactions, passed, topicInfo,
                     mLastKnownTopicId, mConfirmedAtLastReadedTransaction, pageFailed, streamed, mode>>
  BY DEF StartListening, StartCall, SetResponseReader, Running, Started, Subscribed,
         world, disk, manager, process
<1>3. /\ Seen' = Seen /\ ReadTo' = ReadTo /\ Decided' = Decided
      /\ \A topic : On(topic)' = On(topic)
  BY <1>2 DEF Seen, ReadTo, Decided, On
<1>4. mCallStatus' # "none" /\ listenFrom' = ReadTo + 1
  <2>1. CASE StartListening
    BY <2>1 DEF StartListening, StartThread, ReadTo
  <2>2. CASE StartCall \/ SetResponseReader
    BY <1>2, <2>2 DEF StartCall, SetResponseReader, ReadInv, PlacesOK, Subscribed
  <2> QED BY <2>1, <2>2
<1>5. \/ at' = "listening" /\ lastTopicId' = mHieroTopicId
      \/ at' # "listening" /\ lastTopicId' = lastTopicId
  <2>1. CASE StartListening \/ StartCall
    BY <2>1 DEF StartListening, StartCall, disk
  <2>2. CASE SetResponseReader
    BY <2>2 DEF SetResponseReader
  <2> QED BY <2>1, <2>2
<1>6. TopicsOK'
  BY <1>2, <1>3, <1>5, TopicAssumption DEF ReadInv, TopicsOK, OldEnded
<1>7. PlacesOK'
  BY <1>2, <1>3, <1>4 DEF ReadInv, PlacesOK
<1>8. PublishedOK'
  BY <1>2, <1>3 DEF ReadInv, PublishedOK
<1>9. ReadOK'
  <2>1. \A m \in On(mHieroTopicId) : m <= streamed => m \in Seen
    <3>1. CASE Subscribed
      BY <1>2, <3>1 DEF ReadInv, ReadOK
    <3>2. CASE ~Subscribed
      <4>1. streamed = 0 /\ On(mHieroTopicId) \subseteq Message
        BY <3>2, TopicFacts DEF ReadInv, PlacesOK
      <4> QED BY <4>1, Messages
    <3> QED BY <3>1, <3>2
  <2>2. ReadUpTo(mHieroTopicId)'
    BY <1>2, <1>3 DEF ReadInv, ReadOK, ReadUpTo
  <2> QED BY <1>2, <1>3, <2>1, <2>2 DEF ReadOK
<1>10. ChainOK' /\ UndecidedOK'
  BY <1>2, <1>3 DEF ReadInv, ChainOK, UndecidedOK
<1>11. OldBeforeNew'
  <2>1. CASE lastTopicId' = lastTopicId
    BY <1>2, <1>3, <2>1 DEF ReadInv, OldBeforeNew
  <2>2. CASE lastTopicId' = mHieroTopicId
    <3>1. mHieroTopicId = OldTopic => chain \subseteq Old
      BY DEF ReadInv, TopicsOK, Seen
    <3> QED BY <1>2, <2>2, <3>1 DEF OldBeforeNew
  <2> QED BY <1>5, <2>1, <2>2
<1>12. OldRead'
  BY <1>2, <1>3 DEF ReadInv, OldRead
<1> QED BY <1>1, <1>6, <1>7, <1>8, <1>9, <1>10, <1>11, <1>12 DEF ReadInv

(* A message of the subscription: whatever of the topic is before it has   *)
(* been read or has come.                                                  *)
LEMMA NewsRead ==
  ASSUME ReadInv, MessageArrived
  PROVE  ReadInv'
<1>1. CASE Down("aborted")
  BY <1>1, DownRead
<1>2. CASE ~Down("aborted")
  <2> DEFINE n == Min(News)
  <2>1. TypeOK'
    BY ListenerTypes DEF ReadInv, ThreadFunction
  <2>2. /\ Running /\ mCallStatus = "STATUS_PROCESSING" /\ News # {}
        /\ mTransactions' = mTransactions \cup {n} /\ streamed' = n
        /\ UNCHANGED <<published, mHieroTopicId, chain, lastTopicId, passed, at, topicInfo,
                       mLastKnownTopicId, mConfirmedAtLastReadedTransaction, pageFailed,
                       mCallStatus, listenFrom, mode>>
    BY <1>2 DEF MessageArrived, OnMessageArrived, Event, world, disk, sync, process
  <2>3. n \in News /\ n \in Message /\ \A k \in News : n <= k
    BY <2>2, NewsAreMessages DEF ReadInv
  <2>4. n \in On(mHieroTopicId) /\ n \in 1..published /\ Topic[n] = mHieroTopicId
    BY <2>3 DEF News, On
  <2> HIDE DEF n
  <2>5. /\ Seen' = Seen \cup {n} /\ ReadTo' = ReadTo /\ Decided' = Decided /\ Running'
        /\ Subscribed /\ Subscribed' /\ Started' = Started
        /\ \A topic : On(topic)' = On(topic)
    <3>1. Subscribed
      BY <2>2 DEF ReadInv, PlacesOK
    <3> QED BY <2>2, <3>1 DEF Seen, ReadTo, Decided, Running, Subscribed, Started, On
  <2>6. /\ listenFrom = ReadTo + 1 /\ ReadTo \in Nat /\ streamed \in Nat
        /\ ReadUpTo(mHieroTopicId) /\ Started
        /\ \A m \in On(mHieroTopicId) : m <= streamed => m \in Seen
    BY <2>2, <2>5, Messages DEF ReadInv, PlacesOK, ReadOK, Subscribed, Started, TypeOK, ReadTo
  <2>7. ASSUME NEW m \in On(mHieroTopicId), m <= n
        PROVE  m \in Seen'
    <3>1. m \in Nat /\ n \in Nat
      BY <2>3, <2>7, TopicFacts, Messages
    <3>2. CASE m \in News
      <4>1. m = n
        BY <2>3, <2>7, <3>1, <3>2
      <4> QED BY <2>5, <4>1
    <3>3. CASE m \notin News
      <4>1. m <= ReadTo \/ m <= streamed
        BY <2>6, <2>7, <3>1, <3>3 DEF News
      <4> QED BY <2>5, <2>6, <2>7, <4>1 DEF ReadUpTo
    <3> QED BY <3>2, <3>3
  <2>8. TopicsOK'
    <3>1. mHieroTopicId = OldTopic => n \in Old
      BY <2>3, <2>4 DEF Old
    <3> QED BY <2>2, <2>5, <3>1 DEF ReadInv, TopicsOK, OldEnded
  <2>9. PlacesOK'
    BY <2>2, <2>5 DEF ReadInv, PlacesOK, Subscribed
  <2>10. PublishedOK'
    BY <2>2, <2>4, <2>5 DEF ReadInv, PublishedOK
  <2>11. ReadOK'
    <3>1. ReadUpTo(mHieroTopicId)'
      BY <2>2, <2>5, <2>6 DEF ReadUpTo
    <3>2. at' # "history"
      BY <2>5 DEF Subscribed
    <3> QED BY <2>2, <2>5, <2>7, <3>1, <3>2 DEF ReadOK
  <2>12. ChainOK' /\ OldBeforeNew'
    BY <2>2, <2>5 DEF ReadInv, ChainOK, OldBeforeNew
  <2>13. UndecidedOK'
    <3>1. Earlier(n) \subseteq Seen'
      <4>1. SUFFICES ASSUME NEW k \in Earlier(n) PROVE k \in Seen'
        OBVIOUS
      <4>2. k \in On(mHieroTopicId) /\ k <= n
        <5>1. k \in Message /\ k < n /\ Topic[k] = mHieroTopicId
          BY <2>4, <4>1 DEF Earlier
        <5> QED BY <2>4, <5>1, TopicFacts, Messages DEF On
      <4> QED BY <2>7, <4>2
    <3> QED BY <2>2, <2>5, <3>1 DEF ReadInv, UndecidedOK
  <2>14. OldRead'
    BY <2>2, <2>5 DEF ReadInv, OldRead
  <2> QED BY <2>1, <2>8, <2>9, <2>10, <2>11, <2>12, <2>13, <2>14 DEF ReadInv
<1> QED BY <1>1, <1>2

LEMMA ListenerRead ==
  ASSUME ReadInv, ThreadFunction
  PROVE  ReadInv'
<1>1. TypeOK'
  BY ListenerTypes DEF ReadInv
<1>2. ASSUME NEW ok \in BOOLEAN, CallStarted(ok) PROVE ReadInv'
  <2>1. CASE Down("nullReader")
    BY <2>1, DownRead
  <2>2. CASE ~Down("nullReader")
    BY <1>1, <1>2, <2>2, SameRead DEF CallStarted, Event, manager, process
  <2> QED BY <2>1, <2>2
<1>3. ASSUME NEW ok \in BOOLEAN, QuerySent(ok) PROVE ReadInv'
  BY <1>1, <1>3, SameRead DEF QuerySent, Event, manager, process
<1>4. CASE StreamEnded \/ QueueShutdown
  BY <1>1, <1>4, SameRead DEF StreamEnded, QueueShutdown, Event, manager, process
<1>5. ASSUME NEW status \in StatusCode, Finished(status) PROVE ReadInv'
  BY <1>1, <1>5, SameRead DEF Finished, Event, manager, process
<1> QED BY <1>2, <1>3, <1>4, <1>5, NewsRead DEF ThreadFunction

(* The ordering manager decides the first of its messages.                 *)
LEMMA OrderRead ==
  ASSUME ReadInv, Order
  PROVE  ReadInv'
<1> DEFINE f == First
<1>1. TypeOK'
  BY OtherTypes DEF ReadInv
<1>2. /\ Running /\ Started /\ mTransactions # {} /\ mTransactions' = mTransactions \ {f}
      /\ \/ chain' = chain \cup {f} /\ passed' = passed
         \/ chain' = chain /\ passed' = passed \cup {f}
      /\ UNCHANGED <<published, mHieroTopicId, lastTopicId, at, topicInfo, mLastKnownTopicId,
                     mConfirmedAtLastReadedTransaction, pageFailed, mCallStatus, listenFrom,
                     streamed, mode>>
  BY DEF Order, DropStale, ProcessTransaction, world, disk, sync, listener, process
<1>3. f \in mTransactions /\ f \in Message /\ \A m \in mTransactions : f <= m
  BY <1>2, FirstIsThere DEF ReadInv
<1> HIDE DEF f
<1>4. /\ Seen' = Seen /\ ReadTo' = ReadTo /\ Decided' = Decided \cup {f} /\ Running'
      /\ Started' /\ (Subscribed' <=> Subscribed) /\ PastOld' = PastOld
      /\ \A topic : On(topic)' = On(topic)
  BY <1>2, <1>3 DEF Seen, ReadTo, Decided, Running, Started, Subscribed, PastOld, On
<1>5. TopicsOK' /\ PlacesOK' /\ PublishedOK'
  BY <1>2, <1>4 DEF ReadInv, TopicsOK, OldEnded, PlacesOK, PublishedOK, Started
<1>6. ReadOK'
  BY <1>2, <1>4 DEF ReadInv, ReadOK, ReadUpTo, On
<1>7. ASSUME NEW k \in Seen, k \in Message, k < f
      PROVE  k \in Decided
  BY <1>3, <1>7, Messages DEF Seen, Decided
<1>8. ChainOK'
  <2>1. Earlier(f) \subseteq Decided
    BY <1>3, <1>7 DEF ReadInv, UndecidedOK, Earlier
  <2> QED BY <1>2, <1>4, <2>1 DEF ReadInv, ChainOK
<1>9. UndecidedOK' /\ OldRead'
  BY <1>2, <1>4 DEF ReadInv, UndecidedOK, OldRead, On
<1>10. OldBeforeNew'
  <2>1. CASE chain' \subseteq Old \/ ~(chain \subseteq Old) \/ pageFailed \/ lastTopicId # OldTopic
    BY <1>2, <1>4, <2>1 DEF ReadInv, OldBeforeNew
  <2>2. CASE /\ ~(chain' \subseteq Old) /\ chain \subseteq Old /\ ~pageFailed /\ lastTopicId = OldTopic
    <3>1. f \notin Old /\ Topic[f] = NewTopic /\ mHieroTopicId = NewTopic /\ OldTopic # NewTopic
      <4>1. f \notin Old /\ f \in Seen
        BY <1>2, <1>3, <2>2 DEF Seen
      <4> QED BY <1>3, <4>1, TopicFacts, Messages DEF Old
    <3>2. mLastKnownTopicId = OldTopic /\ at # "listening"
      <4>1. at # "listening"
        BY <2>2, <3>1 DEF ReadInv, TopicsOK
      <4> QED BY <1>2, <2>2, <4>1, TopicAssumption DEF ReadInv, TopicsOK, ReadState
    <3>3. at # "history"
      BY <1>3, <3>1, <3>2 DEF ReadInv, PlacesOK
    <3>4. On(OldTopic) \subseteq Seen
      BY <1>2, <2>2, <3>1, <3>2, <3>3 DEF ReadInv, OldRead, Started
    <3>5. Old \subseteq Seen
      BY <3>1, <3>4, TopicFacts DEF On, Old
    <3>6. \A m \in Old : m \in Message /\ m < f
      BY <1>3, <3>1, TopicFacts DEF Old
    <3>7. Old \subseteq Decided
      BY <1>7, <3>5, <3>6
    <3> QED BY <1>4, <3>7 DEF OldBeforeNew, Old
  <2> QED BY <2>1, <2>2
<1> QED BY <1>1, <1>5, <1>6, <1>8, <1>9, <1>10 DEF ReadInv

(* A start, perhaps with the new topic in the config.                      *)
LEMMA RestartRead ==
  ASSUME ReadInv, NEW topic \in {OldTopic, NewTopic}, Restart(topic)
  PROVE  ReadInv'
<1>1. TypeOK'
  BY OtherTypes DEF ReadInv
<1>2. /\ mTransactions' = {} /\ mCallStatus' = "none" /\ at' = "waiting" /\ topicInfo' = NoTopic
      /\ streamed' = 0 /\ ReadTo' = 0 /\ mHieroTopicId' = topic
      /\ mLastKnownTopicId' = ReadState(lastTopicId, topic)
      /\ topic = mHieroTopicId \/ (topic = NewTopic /\ OldEnded)
      /\ mTransactions = {}
      /\ UNCHANGED <<published, chain, lastTopicId, passed, pageFailed>>
  BY DEF Restart, Online, GetTopicInfo, disk, ReadTo, ReadInv, PlacesOK
<1>3. /\ Seen' = Seen /\ Decided' = Decided /\ ~Started' /\ ~Subscribed'
  BY <1>2 DEF Seen, Decided, Started, Subscribed
<1>4. TopicsOK'
  <2>1. topic = OldTopic => Seen \subseteq Old /\ lastTopicId # NewTopic
    BY <1>2, TopicFacts DEF ReadInv, TopicsOK
  <2>2. topic = OldTopic => ReadState(lastTopicId, topic) = OldTopic
    BY <1>1, <1>2, <2>1, TopicFacts DEF TypeOK, ReadState
  <2>3. topic = NewTopic => OldEnded
    BY <1>2 DEF ReadInv, TopicsOK
  <2> QED BY <1>2, <1>3, <2>1, <2>2, <2>3 DEF TopicsOK, OldEnded
<1>5. PlacesOK' /\ PublishedOK'
  <2>1. published \in Nat /\ Seen \subseteq 1..published
    BY TopicFacts DEF ReadInv, PublishedOK
  <2> QED BY <1>2, <1>3, <2>1 DEF PlacesOK, PublishedOK
<1>6. ReadOK' /\ ChainOK' /\ UndecidedOK' /\ OldBeforeNew' /\ OldRead'
  BY <1>2, <1>3 DEF ReadInv, ReadOK, ChainOK, UndecidedOK, OldBeforeNew, OldRead
<1> QED BY <1>1, <1>4, <1>5, <1>6 DEF ReadInv

LEMMA NextRead == ReadInv /\ [Next]_vars => ReadInv'
<1> SUFFICES ASSUME ReadInv, [Next]_vars PROVE ReadInv'
  OBVIOUS
<1>1. CASE UNCHANGED vars
  <2>1. TypeOK'
    BY <1>1, NextTypes DEF ReadInv
  <2> QED BY <1>1, <2>1, SameRead DEF vars, manager, listener, process
<1>2. CASE Sync
  <2>1. ASSUME NEW reply \in Reply, LoadPage(reply) PROVE ReadInv'
    <3>1. PICK page \in SUBSET Message : ReadsPage(page)
      BY <2>1, PageIsRead DEF ReadInv
    <3> QED BY <2>1, <3>1, PageRead
  <2> QED BY <1>2, <2>1, CheckRead, ListenRead DEF Sync
<1>3. CASE Crash \/ MemberMissing
  BY <1>3, DownRead DEF Crash, MemberMissing
<1>4. CASE Publish \/ ThreadFunction \/ Order
  BY <1>4, PublishRead, ListenerRead, OrderRead
<1>5. CASE OnDoneWithError \/ \E topic \in {mHieroTopicId, NoTopic} : OnDone(topic)
  BY <1>5, AnswerRead
<1>6. CASE \E topic \in {OldTopic, NewTopic} : Restart(topic)
  BY <1>6, RestartRead
<1> QED BY <1>1, <1>2, <1>3, <1>4, <1>5, <1>6 DEF Next

THEOREM Inductive == Spec => []ReadInv
BY InitRead, NextRead, PTL DEF Spec

(***************************************************************************)
(* The subscription of startListening begins where the history of          *)
(* loadTransactionsFromMirrorNode has ended, for every way a start can go: *)
(* no message of the topic falls between the two.                          *)
(***************************************************************************)
THEOREM NoGap == Spec => []HistoryMeetsNews
<1>1. ReadInv => HistoryMeetsNews
  <2>1. SUFFICES ASSUME ReadInv, Running, Subscribed, NEW m \in On(mHieroTopicId),
                        m < listenFrom \/ m <= streamed
                 PROVE  m \in Seen
    BY DEF HistoryMeetsNews, Subscribed
  <2>2. m <= ReadTo \/ m <= streamed
    <3>1. listenFrom = ReadTo + 1 /\ ReadTo \in Nat /\ m \in Nat
      BY <2>1, TopicFacts, Messages DEF ReadInv, PlacesOK, TypeOK, ReadTo
    <3> QED BY <2>1, <3>1
  <2> QED BY <2>1, <2>2 DEF ReadInv, ReadOK, ReadUpTo, Subscribed, Started
<1> QED BY <1>1, Inductive, PTL

(***************************************************************************)
(* A node that was down when its topic was replaced still reads the end of *)
(* the old one before it listens to the new one.                           *)
(***************************************************************************)
THEOREM OldTopicRead == Spec => []OldTopicFinished
<1>1. ReadInv => OldTopicFinished
  BY DEF ReadInv, OldRead, OldTopicFinished
<1> QED BY <1>1, Inductive, PTL

-----------------------------------------------------------------------------
(***************************************************************************)
(* What was decided.  The ordering manager drops by number alone, so its   *)
(* number must be that of a message that was decided with all before it in *)
(* its topic.  A crash takes transactions out of the chain, but what was   *)
(* decided once stays in Gone, and there the order of the numbers holds    *)
(* whether or not the lines are still on disk.                             *)
(***************************************************************************)
Gone == chain \cup lost \cup passed

Has(n) == n = 0 \/ \E k \in Gone : SequenceNumber(k) = n

GoneInOrder == \A m \in Gone : Earlier(m) \subseteq Gone
PassedIsRight == \A m \in passed \cap Valid : m \in chain \cup lost \/ NumberTaken(m)

DecideInv ==
  ReadInv /\ GoneInOrder /\ PassedIsRight /\ Has(lastSequenceNumber) /\ Has(mLastSequenceNumber)

LEMMA GoneFacts ==
  ASSUME ReadInv
  PROVE  Gone \subseteq Message /\ mTransactions \subseteq Message /\ Message \subseteq Nat
BY Messages DEF ReadInv, TypeOK, Gone

(* What the ordering manager drops was confirmed, or its number is taken.  *)
LEMMA DropIsRight == DecideInv => OnlyConfirmedDropped
<1> SUFFICES ASSUME DecideInv, NEW m \in mTransactions \cap Valid, IsStale(m)
             PROVE  m \in chain \cup lost \/ NumberTaken(m)
  BY DEF OnlyConfirmedDropped
<1>1. m \in Message /\ m \in Nat /\ Gone \subseteq Message
  BY GoneFacts DEF DecideInv
<1>2. PICK k \in Gone : SequenceNumber(k) = mLastSequenceNumber
  BY DEF DecideInv, Has, IsStale
<1>3. CASE Topic[k] # Topic[m]
  BY <1>2, <1>3 DEF NumberTaken, Gone, IsStale
<1>4. CASE Topic[k] = Topic[m]
  <2>1. m <= k /\ k \in Nat
    BY <1>1, <1>2, <1>4, LaterNumber, Messages DEF IsStale
  <2>2. m = k \/ m \in Earlier(k)
    BY <1>1, <1>4, <2>1 DEF Earlier
  <2>3. m \in Gone
    BY <1>2, <2>2 DEF DecideInv, GoneInOrder
  <2> QED BY <2>3 DEF DecideInv, PassedIsRight, Gone
<1> QED BY <1>3, <1>4

LEMMA InitDecide == Init => DecideInv
<1> SUFFICES ASSUME Init PROVE DecideInv
  OBVIOUS
<1>1. ReadInv
  BY InitRead
<1>2. GoneInOrder /\ PassedIsRight /\ Has(lastSequenceNumber) /\ Has(mLastSequenceNumber)
  BY DEF Init, GoneInOrder, PassedIsRight, Gone, Has
<1> QED BY <1>1, <1>2 DEF DecideInv

(* A step after which the same has been decided, on disk or lost.          *)
LEMMA SameDecide ==
  ASSUME DecideInv, ReadInv', chain' \cup lost' = chain \cup lost, passed' = passed,
         lastSequenceNumber' = lastSequenceNumber, Has(mLastSequenceNumber')
  PROVE  DecideInv'
<1>1. Gone' = Gone
  BY DEF Gone
<1>2. \A m : NumberTaken(m)' <=> NumberTaken(m)
  BY <1>1 DEF NumberTaken, Gone
<1>3. GoneInOrder' /\ PassedIsRight'
  BY <1>1, <1>2 DEF DecideInv, GoneInOrder, PassedIsRight
<1>4. Has(lastSequenceNumber)' /\ Has(mLastSequenceNumber)'
  BY <1>1 DEF DecideInv, Has
<1> QED BY <1>3, <1>4 DEF DecideInv

(* A crash moves transactions from the chain to those that are lost.       *)
LEMMA DownDecide ==
  ASSUME DecideInv, NEW how \in {"down", "nullReader", "aborted"}, Down(how)
  PROVE  DecideInv'
<1>1. ReadInv'
  BY DownRead DEF DecideInv
<1>2. chain' \subseteq chain /\ lost' = lost \cup (chain \ chain')
  BY DEF Down
<1>3. chain' \cup lost' = chain \cup lost
  BY <1>2
<1> QED BY <1>1, <1>3, SameDecide DEF DecideInv, Down

(* The number to begin with is that of the last transaction, if it was     *)
(* found, or the one in the state db.                                      *)
LEMMA CheckDecide ==
  ASSUME DecideInv, NEW result \in LastTransactionState, CheckLastTransaction(result)
  PROVE  DecideInv'
<1>1. ReadInv'
  BY CheckRead DEF DecideInv
<1>2. UNCHANGED <<chain, lastSequenceNumber, passed, lost>> /\ mLastSequenceNumber' = FirstNumber(result)
  BY DEF CheckLastTransaction, disk, process
<1>3. Has(FirstNumber(result))
  <2>1. CASE result = "IDENTICAL"
    <3>1. chain # {} /\ chain \subseteq Message
      BY <2>1 DEF CheckLastTransaction, DecideInv, ReadInv, TypeOK
    <3>2. Max(chain) \in Gone
      BY <3>1, MaxIsGreatest DEF Gone
    <3> QED BY <2>1, <3>2 DEF Has, FirstNumber
  <2>2. CASE result # "IDENTICAL"
    BY <2>2 DEF DecideInv, FirstNumber
  <2> QED BY <2>1, <2>2
<1> QED BY <1>1, <1>2, <1>3, SameDecide

LEMMA ListenerDecide ==
  ASSUME DecideInv, ThreadFunction
  PROVE  DecideInv'
<1>1. ReadInv'
  BY ListenerRead DEF DecideInv
<1>2. CASE Down("nullReader") \/ Down("aborted")
  BY <1>2, DownDecide
<1>3. CASE ~Down("nullReader") /\ ~Down("aborted")
  <2>1. UNCHANGED <<disk, mLastSequenceNumber, passed, process>>
    BY <1>3 DEF ThreadFunction, CallStarted, QuerySent, MessageArrived, OnMessageArrived, StreamEnded,
         Finished, QueueShutdown, manager
  <2> QED BY <1>1, <2>1, SameDecide DEF disk, process, DecideInv
<1> QED BY <1>2, <1>3

(* A message is dropped for a reason, or it is the next.                   *)
LEMMA OrderDecide ==
  ASSUME DecideInv, Order
  PROVE  DecideInv'
<1> DEFINE f == First
<1>1. ReadInv'
  BY OrderRead DEF DecideInv
<1>2. mTransactions # {} /\ chain \subseteq chain' /\ passed \subseteq passed'
  BY DEF Order, DropStale, ProcessTransaction, disk
<1>3. f \in mTransactions /\ f \in Message /\ f \in Nat /\ \A m \in mTransactions : f <= m
  BY <1>2, FirstIsThere, Messages DEF DecideInv, ReadInv
<1>4. /\ chain \cup lost \subseteq chain' \cup lost'
      /\ chain' \cup lost' \cup passed' = chain \cup lost \cup passed \cup {f}
  BY DEF Order, DropStale, ProcessTransaction, disk, process
<1>5. \/ DropStale /\ IsStale(f) /\ UNCHANGED <<lastSequenceNumber, mLastSequenceNumber>>
      \/ /\ lastSequenceNumber' \in {lastSequenceNumber, mLastSequenceNumber}
         /\ mLastSequenceNumber' = SequenceNumber(f)
  BY DEF Order, DropStale, ProcessTransaction, UpdateLastKnownSequenceNumber, disk
<1>6. passed' \subseteq passed \cup {f} /\ (f \in passed' \cap Valid => DropStale \/ f \in passed)
  BY DEF Order, DropStale, ProcessTransaction
<1> HIDE DEF f
<1>7. Gone' = Gone \cup {f} /\ Gone \subseteq Message
  BY <1>4, GoneFacts DEF Gone, DecideInv
<1>8. GoneInOrder'
  <2>1. Earlier(f) \subseteq Gone
    <3>1. SUFFICES ASSUME NEW k \in Earlier(f), k \notin Gone PROVE FALSE
      OBVIOUS
    <3>2. k \in mTransactions /\ k < f /\ k \in Nat
      BY <1>3, <3>1, Messages DEF DecideInv, ReadInv, UndecidedOK, Seen, Gone, Earlier
    <3> QED BY <1>3, <3>2
  <2> QED BY <1>7, <2>1 DEF DecideInv, GoneInOrder
<1>9. PassedIsRight'
  <2>1. \A m : NumberTaken(m) => NumberTaken(m)'
    BY <1>7 DEF NumberTaken, Gone
  <2>2. SUFFICES ASSUME NEW m \in passed' \cap Valid
                 PROVE  m \in chain' \cup lost' \/ NumberTaken(m)'
    BY DEF PassedIsRight
  <2>3. CASE m \in passed
    BY <1>4, <2>1, <2>2, <2>3 DEF DecideInv, PassedIsRight
  <2>4. CASE m \notin passed
    <3>1. m = f /\ DropStale
      BY <1>6, <2>2, <2>4
    <3>2. Running /\ Started /\ IsStale(First) /\ f = First
      BY <3>1 DEF DropStale, f
    <3>3. f \in chain \cup lost \/ NumberTaken(f)
      BY <1>3, <2>2, <3>1, <3>2, DropIsRight DEF OnlyConfirmedDropped
    <3> QED BY <1>4, <2>1, <3>1, <3>3
  <2> QED BY <2>3, <2>4
<1>10. \A n : Has(n) => n = 0 \/ \E k \in Gone' : SequenceNumber(k) = n
  BY <1>7 DEF Has
<1>11. Has(lastSequenceNumber)' /\ Has(mLastSequenceNumber)'
  <2>1. Has(lastSequenceNumber) /\ Has(mLastSequenceNumber)
    BY DEF DecideInv
  <2> QED BY <1>5, <1>7, <1>10, <2>1 DEF Has
<1> QED BY <1>1, <1>8, <1>9, <1>11 DEF DecideInv

LEMMA NextDecide == DecideInv /\ [Next]_vars => DecideInv'
<1> SUFFICES ASSUME DecideInv, [Next]_vars PROVE DecideInv'
  OBVIOUS
<1>1. ReadInv'
  BY NextRead DEF DecideInv
<1>2. CASE UNCHANGED vars \/ Publish \/ OnDoneWithError \/ \E topic \in {mHieroTopicId, NoTopic} : OnDone(topic)
  <2>1. UNCHANGED <<disk, manager, process>>
    BY <1>2 DEF vars, Publish, OnDone, OnDoneWithError
  <2> QED BY <1>1, <2>1, SameDecide DEF disk, manager, process, DecideInv
<1>3. CASE Sync
  <2>1. CASE \E result \in LastTransactionState : CheckLastTransaction(result)
    BY <2>1, CheckDecide
  <2>2. CASE ~\E result \in LastTransactionState : CheckLastTransaction(result)
    <3>1. UNCHANGED <<chain, lastSequenceNumber, mLastSequenceNumber, passed, lost>>
      BY <1>3, <2>2 DEF Sync, LoadPage, StartListening, StartCall, SetResponseReader, disk, manager, process
    <3> QED BY <1>1, <3>1, SameDecide DEF DecideInv
  <2> QED BY <2>1, <2>2
<1>4. CASE Crash \/ MemberMissing
  BY <1>4, DownDecide DEF Crash, MemberMissing
<1>5. ASSUME NEW topic \in {OldTopic, NewTopic}, Restart(topic) PROVE DecideInv'
  <2>1. UNCHANGED <<chain, lastSequenceNumber, passed, lost>> /\ mLastSequenceNumber' = 0
    BY <1>5 DEF Restart, disk
  <2>2. Has(mLastSequenceNumber')
    BY <2>1 DEF Has
  <2> QED BY <1>1, <2>1, <2>2, SameDecide
<1> QED BY <1>2, <1>3, <1>4, <1>5, ListenerDecide, OrderDecide DEF Next

(***************************************************************************)
(* SimpleOrderingManager::ThreadFunction drops a valid message by its      *)
(* number only if the message was confirmed once, though a crash may have  *)
(* taken its transaction since, or a message of the other topic has taken  *)
(* the number; whatever was read twice, streamed, lost or restarted.       *)
(***************************************************************************)
THEOREM DropsAreRight == Spec => []OnlyConfirmedDropped
BY InitDecide, NextDecide, DropIsRight, PTL DEF Spec
=============================================================================
