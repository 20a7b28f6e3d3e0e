------------------------------- MODULE Caches -------------------------------
(***************************************************************************)
(* What FileBased keeps beside the block: the dictionary of public keys,   *)
(* the state db, the transaction ids of Hiero, the signatures of the last  *)
(* transactions and the trigger events of deferred transfers.  A           *)
(* transaction is entered into them one after the other while it is        *)
(* confirmed; the databases are durable at once, the lines of the block    *)
(* wait for a write task (see BlockStore).  A crash and the next start     *)
(* must bring them together again, also if a database cannot be opened.    *)
(*                                                                         *)
(* A message is in time or not by its place in the topic; how long the     *)
(* memory keeps a signature is another matter, that goes by the clock.  A  *)
(* database is opened without error once it was removed.                   *)
(***************************************************************************)
EXTENDS Integers, Sequences, FiniteSets

CONSTANTS
  MaxMessage,    \* bound: number of the last message of the topic
  Deferred,      \* the messages that are deferred transfers
  Redeems,       \* deferred transfer a message redeems, or 0
  Keys,          \* public keys a message involves
  Signature,     \* its first signature
  Targets,       \* timeout dates of the deferred transfers, to choose from
  Window,        \* messages between creating and receiving a transaction
  StartupCache,  \* transactions looked through at the start
  MaxStarts      \* bound: number of starts

Message == 1..MaxMessage
Key == UNION {Keys[m] : m \in Message}

ASSUME CachesAssumption ==
  /\ MaxMessage \in Nat /\ MaxStarts \in Nat
  /\ Deferred \subseteq Message
  /\ Redeems \in [Message -> Deferred \cup {0}]
  /\ \A d \in Deferred : Redeems[d] = 0
  /\ DOMAIN Keys = Message /\ DOMAIN Signature = Message
  /\ \A m \in Message : IsFiniteSet(Keys[m])
  /\ Targets \subseteq [Deferred -> Nat \X Nat]
  /\ \A k, m \in Message : Signature[k] = Signature[m] =>
       Redeems[k] = Redeems[m] /\ Keys[k] = Keys[m] /\ (k \in Deferred <=> m \in Deferred)
  /\ Window \in Nat \ {0}
  /\ StartupCache \in Nat /\ StartupCache >= Window

VARIABLES
  \* on disk
  blockFiles,    \* the numbers of the block files
  written,       \* lines in the block file
  indexFile,     \* the indices of the public keys in the index file
  dictionary,    \* the dictionary db: index -> public key
  persisted,     \* LAST_HIERO_TOPIC_SEQUENCE_NUMBER in the state db
  lastBlockNr,   \* LAST_BLOCK_NR
  idFile,        \* transaction id -> transaction nr
  eventFile,     \* second -> events that time out then, and how often
  \* in memory
  chain,         \* transaction nr -> message
  index,         \* transaction nr -> indices of its public keys
  mLastIndex,
  ids,           \* mHieroTransactionIdTransactionNrs
  hashes,        \* mSignaturePartTransactionNrs
  events,        \* mTransactionTriggerEvents, and how often each
  eventsInit,    \* mInitalized of that cache
  next,          \* message the ordering manager confirms next
  step,          \* where createAndAddConfirmedTransaction is
  entry,         \* the transaction's indices
  mode,          \* whether the node is up, down, or did not come up
  starts,        \* number of starts
  seen,          \* the last message that ever became a transaction
  mishaps,       \* history: databases that could not be opened, and Mishap
  forgotten,     \* history: signatures that expired while a duplicate is in time
  target         \* timeout dates: <<second, nanosecond>>

folder == <<blockFiles, lastBlockNr>>
files == <<folder, written, indexFile, dictionary, persisted, idFile, eventFile>>
block == <<chain, index>>
eventCache == <<events, eventsInit>>
process == <<mode, starts, seen, mishaps, forgotten, target>>
vars == <<files, block, mLastIndex, ids, hashes, eventCache, next, step, entry, process>>

Db == {"dictionary", "state", "ids", "events"}
Mishap == {"halfway", "beginning"}
Step == {"begin", "push", "past", "hash", "id", "persist"}

NoFun == [x \in {} |-> 0]
NoEvents == [d \in Deferred |-> 0]
Put(f, x, y) == [z \in DOMAIN f \cup {x} |-> IF z = x THEN y ELSE f[z]]
Without(f, x) == [z \in DOMAIN f \ {x} |-> f[z]]
NrOf(m) == CHOOSE nr \in DOMAIN chain : chain[nr] = m

-----------------------------------------------------------------------------
(* LevelDBWrapper.  What is put or deleted is on disk.                     *)

Unset == -1
SetKeyValue(db, key, value) == Put(db, key, value)
RemoveKey(db, key) == Without(db, key)

-----------------------------------------------------------------------------
(* Dictionary.                                                             *)

FindIndexForString(db, key) == {i \in DOMAIN db : db[i] = key}

(* getOrAddIndexForString for the keys of one transaction: an index for    *)
(* each new key, counted on from the last one.  Mutant: nothing is found.  *)
Order(S) == CHOOSE f \in [1..Cardinality(S) -> S] : {f[i] : i \in DOMAIN f} = S
AllKeys(db, keys) == Order(keys)
NewKeys(db, keys) == Order({k \in keys : FindIndexForString(db, k) = {}})

GetOrAdd(db, last, keys) ==
  LET new == NewKeys(db, keys) IN
  [i \in DOMAIN db \cup {last + j : j \in DOMAIN new} |->
     IF i \in DOMAIN db THEN db[i] ELSE new[i - last]]

IndicesOf(db, keys) == {i \in DOMAIN db : db[i] \in keys}

(* rebuildBlockIndex: the lines are read again, in their order.            *)
Rebuilt(db) ==
  LET after[n \in 0..written] ==
        IF n = 0 THEN db
        ELSE GetOrAdd(after[n - 1], Cardinality(DOMAIN after[n - 1]), Keys[chain[n]])
  IN  after[written]

-----------------------------------------------------------------------------
(* TransactionTriggerEvent.                                                *)

Second(d) == target[d][1]

(* removeState does nothing if the db was not opened.                      *)
RemoveState(second) == IF eventsInit THEN RemoveKey(eventFile, second) ELSE eventFile

(* updateState: the record of that second becomes the events of exactly    *)
(* that timestamp.  It throws if there are any and the db was not opened.  *)
(* Mutant: the record stays.                                               *)
SameDate(evs, d) == [e \in Deferred |-> IF target[e] = target[d] THEN evs[e] ELSE 0]
UpdateThrows(evs, d) == ~eventsInit /\ SameDate(evs, d) # NoEvents

RecordStays(evs, d) == eventFile

UpdateState(evs, d) ==
  IF SameDate(evs, d) = NoEvents THEN RemoveState(Second(d))
  ELSE IF UpdateThrows(evs, d) THEN eventFile
  ELSE SetKeyValue(eventFile, Second(d), SameDate(evs, d))

AddTransactionTriggerEvent(d) ==
  /\ events' = [events EXCEPT ![d] = @ + 1]
  /\ eventFile' = UpdateState(events', d)
  /\ step' = IF UpdateThrows(events', d) THEN "persist" ELSE "hash"

(* One of several equal events is removed; if there is none, nothing.      *)
RemoveTransactionTriggerEvent(d) ==
  IF events[d] = 0 THEN step' = "hash" /\ UNCHANGED <<events, eventFile>>
  ELSE /\ events' = [events EXCEPT ![d] = @ - 1]
       /\ eventFile' = UpdateState(events', d)
       /\ step' = IF UpdateThrows(events', d) THEN "persist" ELSE "hash"

(* The deferred transfers of a chain that are not redeemed.                *)
Open(c) == {d \in Deferred : /\ \E nr \in DOMAIN c : c[nr] = d
                             /\ \A nr \in DOMAIN c : Redeems[c[nr]] # d}

-----------------------------------------------------------------------------
(* createAndAddConfirmedTransaction, on the ordering manager's thread.     *)

(* What gradido_blockchain checks: a transaction is received in time, a    *)
(* redeemed transfer is open, and isTransactionExist.                      *)
InTime(m) == \A k \in 1..m : Signature[k] = Signature[m] => m - k < Window
IsTransactionExist(m) == \E nr \in hashes : Signature[chain[nr]] = Signature[m]
Valid(m) ==
  /\ InTime(m) /\ ~IsTransactionExist(m)
  /\ Redeems[m] = 0 \/ Redeems[m] \in Open(chain)

(* The constructor of NodeTransactionEntry gives every public key its      *)
(* index.                                                                  *)
Confirm ==
  LET db == GetOrAdd(dictionary, mLastIndex, Keys[next]) IN
  /\ mode = "up" /\ step = "begin" /\ next <= MaxMessage
  /\ Valid(next)
  /\ dictionary' = db
  /\ mLastIndex' = mLastIndex + Cardinality(DOMAIN db \ DOMAIN dictionary)
  /\ entry' = IndicesOf(db, Keys[next])
  /\ step' = "push"
  /\ UNCHANGED <<folder, written, indexFile, persisted, idFile, eventFile, block, ids,
                 hashes, eventCache, next, process>>

Refuse ==
  /\ mode = "up" /\ step = "begin" /\ next <= MaxMessage
  /\ ~Valid(next)
  /\ step' = "persist"
  /\ UNCHANGED <<files, block, mLastIndex, ids, hashes, eventCache, next, entry, process>>

PushTransaction ==
  /\ step = "push"
  /\ chain' = Append(chain, next)
  /\ index' = Append(index, entry)
  /\ entry' = {}
  /\ step' = "past"
  /\ seen' = IF seen < next THEN next ELSE seen
  /\ UNCHANGED <<files, mLastIndex, ids, hashes, eventCache, next, mode, starts,
                 mishaps, forgotten, target>>

(* runPastAddToBlockchain of the transaction's role.                       *)
Defer == next \in Deferred /\ AddTransactionTriggerEvent(next)
Redeem == Redeems[next] # 0 /\ RemoveTransactionTriggerEvent(Redeems[next])

RunPastAddToBlockchain ==
  /\ step = "past"
  /\ \/ Defer
     \/ Redeem
     \/ /\ next \notin Deferred /\ Redeems[next] = 0
        /\ step' = "hash"
        /\ UNCHANGED <<events, eventFile>>
  /\ UNCHANGED <<folder, written, indexFile, dictionary, persisted, idFile, block,
                 mLastIndex, ids, hashes, eventsInit, next, entry, process>>

(* TransactionHash::push throws if the signature is there.                 *)
PushHash ==
  /\ step = "hash"
  /\ IF IsTransactionExist(next)
     THEN step' = "persist" /\ UNCHANGED hashes
     ELSE step' = "id" /\ hashes' = hashes \cup {NrOf(next)}
  /\ UNCHANGED <<files, block, mLastIndex, ids, eventCache, next, entry, process>>

(* HieroTransactionId::add throws if the id is in memory.  The public keys *)
(* that are added to the dictionary after that are there already.          *)
AddId ==
  /\ step = "id"
  /\ IF next \in DOMAIN ids THEN UNCHANGED <<ids, idFile>>
     ELSE /\ ids' = Put(ids, next, NrOf(next))
          /\ idFile' = SetKeyValue(idFile, next, NrOf(next))
  /\ step' = "persist"
  /\ UNCHANGED <<folder, written, indexFile, dictionary, persisted, eventFile, block,
                 mLastIndex, hashes, eventCache, next, entry, process>>

(* updateLastKnownSequenceNumber, whether it was confirmed or not, with    *)
(* the number of the message before.                                       *)
UpdateLastKnownSequenceNumber == persisted' = next - 1

Persist ==
  /\ step = "persist"
  /\ UpdateLastKnownSequenceNumber
  /\ next' = next + 1
  /\ step' = "begin"
  /\ UNCHANGED <<folder, written, indexFile, dictionary, idFile, eventFile, block,
                 mLastIndex, ids, hashes, eventCache, entry, process>>

-----------------------------------------------------------------------------
(* What goes on beside it.                                                 *)

(* A write task: the lines, and the index.                                 *)
Write ==
  /\ mode = "up" /\ written < Len(chain)
  /\ written' = Len(chain)
  /\ indexFile' = index
  /\ UNCHANGED <<folder, dictionary, persisted, idFile, eventFile, block, mLastIndex, ids,
                 hashes, eventCache, next, step, entry, process>>

(* findByMessageId on a thread of the JSON-RPC server: what is found in    *)
(* the db is kept in memory.                                               *)
FindByMessageId(m) ==
  /\ mode = "up"
  /\ m \in DOMAIN idFile \ DOMAIN ids
  /\ ids' = Put(ids, m, idFile[m])
  /\ UNCHANGED <<files, block, mLastIndex, hashes, eventCache, next, step, entry, process>>

ExpireId(m) ==
  /\ m \in DOMAIN ids
  /\ ids' = Without(ids, m)
  /\ UNCHANGED <<files, block, mLastIndex, hashes, eventCache, next, step, entry, process>>

(* The ExpireCache counts from the last access, however far the ordering   *)
(* manager has got: if that waits, a signature is gone while a duplicate   *)
(* of its transaction would still be in time.                              *)
TooEarly(nr) == next - chain[nr] < Window

ExpireHash(nr) ==
  /\ nr \in hashes
  /\ hashes' = hashes \ {nr}
  /\ forgotten' = forgotten \cup {s \in {Signature[chain[nr]]} : TooEarly(nr)}
  /\ UNCHANGED <<files, block, mLastIndex, ids, eventCache, next, step, entry, mode, starts,
                 seen, mishaps, target>>

(* The process ends; after a shutdown everything is written.  Halfway is   *)
(* a crash between writing a transaction and entering its event.           *)
Halfway == step = "past" /\ written = Len(chain)

Crash ==
  /\ mode = "up"
  /\ mode' = "down"
  /\ chain' = SubSeq(chain, 1, written)
  /\ index' = <<>> /\ mLastIndex' = 0
  /\ ids' = NoFun /\ hashes' = {}
  /\ events' = NoEvents /\ eventsInit' = FALSE
  /\ next' = 0 /\ step' = "begin" /\ entry' = {}
  /\ mishaps' = mishaps \cup {d \in {"halfway"} : Halfway}
  /\ UNCHANGED <<files, starts, seen, forgotten, target>>

-----------------------------------------------------------------------------
(* FileBased::init, and the number SyncTopicOnStartup goes on from.        *)
(* `bad' is the database that cannot be opened, or "none".                 *)

(* Only if the dictionary was reset are the index files removed.           *)
(* Mutant: they are kept.                                                  *)
KeepIndexFiles(bad) == FALSE
ResetBlockIndices(bad) == bad = "dictionary"

InitDictionary(bad) ==
  LET db == IF bad = "dictionary" THEN NoFun ELSE dictionary
      rebuild == ResetBlockIndices(bad) \/ Len(indexFile) # written IN
  /\ dictionary' = IF rebuild THEN Rebuilt(db) ELSE db
  /\ indexFile' = IF rebuild THEN <<>> ELSE indexFile
  /\ index' = IF rebuild
              THEN [nr \in 1..written |-> IndicesOf(dictionary', Keys[chain[nr]])]
              ELSE indexFile
  /\ mLastIndex' = Cardinality(DOMAIN dictionary')

(* A cache::State that was not opened stays so after its reset, and the    *)
(* first value stored throws.                                              *)
IsInitialized(db, bad) == bad # db

FindLastBlockFileInFolder ==
  IF blockFiles = {} THEN 0
  ELSE CHOOSE nr \in blockFiles : \A other \in blockFiles : other <= nr

(* loadStateFromBlockCache, after a reset: the sequence number is not      *)
(* among the values that are recovered, the number of the last block is.   *)
ResetState == persisted' = 0 /\ lastBlockNr' = Unset

LoadStateFromBlockCache ==
  /\ persisted' = 0
  /\ lastBlockNr' = FindLastBlockFileInFolder

InitState(bad) ==
  CASE bad = "state" -> ResetState
    [] bad = "dictionary" -> LoadStateFromBlockCache
    [] OTHER -> UNCHANGED <<persisted, lastBlockNr>>

(* The state that was never written is block 1.                            *)
ReadInt32State(value) == IF value = Unset THEN 1 ELSE value

(* getBlock asserts that it is not asked for block 0.  The file of a block *)
(* that is new is created.                                                 *)
GetsBlock == ReadInt32State(lastBlockNr') # 0
GetOpenFile == blockFiles' = blockFiles \cup {ReadInt32State(lastBlockNr')}

InitIds(bad) == idFile' = IF bad = "ids" THEN NoFun ELSE idFile

(* checkLastTransaction.  Mutant: the number in the state.                 *)
AfterStateNumber == persisted' + 1
FirstMessage == 1 + (IF chain = <<>> THEN persisted' ELSE chain[Len(chain)])

(* Several events of a record follow one another without the comma: that   *)
(* is refused as Base64, or is read as one of them.                        *)
OneEvent(record) == \E d \in Deferred : record = [NoEvents EXCEPT ![d] = 1]

LoadEvents(bad) ==
  /\ eventFile' = IF bad = "events" THEN NoFun ELSE eventFile
  /\ \E read \in [DOMAIN eventFile' -> Deferred] :
       /\ \A s \in DOMAIN read : eventFile[s][read[s]] > 0
       /\ events' = [d \in Deferred |-> Cardinality({s \in DOMAIN read : read[s] = d})]
  /\ eventsInit' = IsInitialized("events", bad)

(* rescanForTransactionTriggerEvents throws at the first deferred transfer *)
(* for the same reason as InitState.                                       *)
RescanThrows(bad) == bad = "events" /\ \E nr \in DOMAIN chain : chain[nr] \in Deferred

(* The signatures of the last transactions.  Mutant: of the first ones.    *)
FirstTransactions == {nr \in 1..written : nr <= StartupCache}
LastTransactions == {nr \in 1..written : nr > written - StartupCache}

Starting(bad) ==
  /\ mode \in {"down", "refused"} /\ starts < MaxStarts
  /\ starts' = starts + 1
  /\ InitState(bad)
  /\ mishaps' = mishaps \cup ({bad} \cap Db)
       \cup {b \in {"beginning"} : chain = <<>> /\ persisted' > 0}
  /\ UNCHANGED <<written, chain, ids, step, entry, seen, forgotten, target>>

Start(bad) ==
  /\ Starting(bad)
  /\ IsInitialized("state", bad) /\ bad # "ids" /\ ~RescanThrows(bad) /\ GetsBlock
  /\ GetOpenFile
  /\ InitDictionary(bad) /\ InitIds(bad) /\ LoadEvents(bad)
  /\ hashes' = LastTransactions
  /\ next' = FirstMessage
  /\ mode' = "up"

(* An exception in init: the node does not come up.  The database is       *)
(* empty by then, and is opened at the next start.                         *)
StartFails(bad) ==
  /\ Starting(bad)
  /\ \/ ~IsInitialized("state", bad) \/ bad = "ids" \/ RescanThrows(bad) \/ ~GetsBlock
     \/ bad # "events" /\ \E s \in DOMAIN eventFile : ~OneEvent(eventFile[s])
  /\ InitIds(bad)
  /\ eventFile' = IF bad = "events" THEN NoFun ELSE eventFile
  /\ dictionary' = IF bad = "dictionary" THEN Rebuilt(NoFun) ELSE dictionary
  /\ indexFile' = IF bad = "dictionary" THEN <<>> ELSE indexFile
  /\ mode' = "refused"
  /\ UNCHANGED <<blockFiles, index, mLastIndex, hashes, eventCache, next>>

-----------------------------------------------------------------------------
(* Before the first start: the folder is empty.                            *)
Init ==
  /\ blockFiles = {} /\ lastBlockNr = Unset
  /\ written = 0 /\ indexFile = <<>> /\ dictionary = NoFun
  /\ persisted = 0 /\ idFile = NoFun /\ eventFile = NoFun
  /\ chain = <<>> /\ index = <<>> /\ mLastIndex = 0
  /\ ids = NoFun /\ hashes = {}
  /\ events = NoEvents /\ eventsInit = FALSE
  /\ next = 0 /\ step = "begin" /\ entry = {}
  /\ mode = "down" /\ starts = 0 /\ seen = 0 /\ mishaps = {} /\ forgotten = {}
  /\ target \in Targets

Next ==
  \/ Confirm \/ Refuse \/ PushTransaction \/ RunPastAddToBlockchain
  \/ PushHash \/ AddId \/ Persist
  \/ Write \/ Crash
  \/ \E m \in Message : FindByMessageId(m) \/ ExpireId(m)
  \/ \E nr \in hashes : ExpireHash(nr)
  \/ \E bad \in Db \cup {"none"} : Start(bad) \/ StartFails(bad)

Spec == Init /\ [][Next]_vars

-----------------------------------------------------------------------------
TypeOK ==
  /\ blockFiles \subseteq {1} /\ lastBlockNr \in {Unset, 0, 1}
  /\ written \in 0..Len(chain)
  /\ \A i \in DOMAIN dictionary : i \in 1..Cardinality(Key) /\ dictionary[i] \in Key
  /\ persisted \in 0..MaxMessage
  /\ DOMAIN idFile \subseteq Message
  /\ \A s \in DOMAIN eventFile : eventFile[s] \in [Deferred -> Nat]
  /\ chain \in Seq(Message)
  /\ Len(index) = IF mode = "up" THEN Len(chain) ELSE 0
  /\ mLastIndex \in 0..Cardinality(Key)
  /\ DOMAIN ids \subseteq Message
  /\ hashes \subseteq DOMAIN chain
  /\ events \in [Deferred -> Nat]
  /\ next \in 0..MaxMessage + 1
  /\ step \in Step
  /\ mode \in {"up", "down", "refused"}
  /\ starts \in 0..MaxStarts
  /\ seen \in 0..MaxMessage
  /\ mishaps \subseteq Db \cup Mishap
  /\ forgotten \subseteq {Signature[m] : m \in Message}

(***************************************************************************)
(* The indices in the index of the block stand for the public keys of the  *)
(* transaction, one each, whatever was lost or rebuilt: a search for an    *)
(* address finds its transactions and no others, and a thread that reads   *)
(* a transaction finds all its keys, so it never adds one beside the       *)
(* ordering manager's thread.                                              *)
(***************************************************************************)
IndicesNameKeys ==
  mode = "up" => \A nr \in DOMAIN chain :
    /\ index[nr] \subseteq DOMAIN dictionary
    /\ {dictionary[i] : i \in index[nr]} = Keys[chain[nr]]
    /\ Cardinality(index[nr]) = Cardinality(Keys[chain[nr]])

(***************************************************************************)
(* A deferred transfer that is not redeemed has its timeout event, also    *)
(* after crashes that lost transactions and brought them a second time,    *)
(* or has it removed for a redemption that was lost and is about to come   *)
(* again.  It takes that no two transfers time out in the same second,     *)
(* since the record of a second holds one timestamp; that the db of the    *)
(* events could always be opened; and that no crash came halfway.          *)
(***************************************************************************)
OwnSeconds == \A d, e \in Deferred : Second(d) = Second(e) => d = e
Settled == mode = "up" /\ step \notin {"push", "past"}
Scheduled(d) == events[d] > 0 \/ \E m \in next..seen : Redeems[m] = d

OpenIsScheduled ==
  Settled /\ OwnSeconds /\ mishaps \cap {"events", "halfway"} = {} =>
    \A d \in Open(chain) : Scheduled(d)

(***************************************************************************)
(* A transaction that is sent to the topic a second time is confirmed a    *)
(* second time only if its signature was forgotten, by the clock, before   *)
(* the ordering manager had come past the messages that would still be in  *)
(* time: neither crashes nor restarts nor what becomes of other            *)
(* transactions lead to it.  It takes that no more transactions come in    *)
(* that time than the start looks through, and, since the signature comes  *)
(* after the event, that the db of the events could be opened.             *)
(***************************************************************************)
ConfirmedTwiceIfForgotten ==
  "events" \notin mishaps =>
    \A i, j \in DOMAIN chain :
      Signature[chain[i]] = Signature[chain[j]] => i = j \/ Signature[chain[i]] \in forgotten

(***************************************************************************)
(* The transaction nr kept for a transaction id is that of its             *)
(* transaction, in memory and in the db, although ids are durable before   *)
(* the transactions are.  (Unless the beginning of the chain was lost, see *)
(* BlockStore, or a duplicate may be confirmed: other transactions get     *)
(* these numbers then.)                                                    *)
(***************************************************************************)
IdsLeadToTransaction ==
  mishaps \cap {"events", "beginning"} = {} /\ forgotten = {} => \A m \in Message :
    /\ m \in DOMAIN idFile /\ idFile[m] \in DOMAIN chain => chain[idFile[m]] = m
    /\ m \in DOMAIN ids => ids[m] = idFile[m]

=============================================================================
