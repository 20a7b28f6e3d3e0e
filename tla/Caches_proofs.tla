---------------------------- MODULE Caches_proofs ----------------------------
(***************************************************************************)
(* Proofs about Caches, for any messages, signatures, redemptions, public  *)
(* keys and timeout dates, and any number of crashes and starts.           *)
(***************************************************************************)
EXTENDS Caches, NaturalSets

Up == mode = "up"

LEMMA Messages ==
  /\ MaxMessage \in Nat /\ Message = 1..MaxMessage /\ Message \subseteq Nat
  /\ Deferred \subseteq Message /\ IsFiniteSet(Message) /\ IsFiniteSet(Deferred)
  /\ \A m \in Message : Redeems[m] \in Deferred \cup {0}
  /\ \A d \in Deferred : Redeems[d] = 0
  /\ 0 \notin Message
<1>1. MaxMessage \in Nat /\ Message = 1..MaxMessage /\ Deferred \subseteq Message
  BY CachesAssumption DEF Message
<1>2. IsFiniteSet(Message) /\ IsFiniteSet(Deferred)
  <2>1. IsFiniteSet(1..MaxMessage)
    BY <1>1, FS_Interval
  <2> QED BY <1>1, <2>1, FS_Subset
<1>3. \A m \in Message : Redeems[m] \in Deferred \cup {0}
  BY CachesAssumption
<1> QED BY <1>1, <1>2, <1>3, CachesAssumption

LEMMA FiniteImage ==
  ASSUME NEW S, IsFiniteSet(S), NEW f, DOMAIN f = S, f = [x \in S |-> f[x]]
  PROVE  IsFiniteSet({f[x] : x \in S}) /\ Cardinality({f[x] : x \in S}) <= Cardinality(S)
<1> DEFINE T == {f[x] : x \in S}
<1>1. f \in Surjection(S, T)
  BY DEF Surjection
<1> HIDE DEF T
<1>2. IsFiniteSet(T) /\ Cardinality(T) <= Cardinality(S)
  BY <1>1, FS_Surjection
<1> QED BY <1>2 DEF T

-----------------------------------------------------------------------------
(* The types of all but the dictionary and the indices, and where the      *)
(* ordering manager's thread can be.                                       *)
EventsOK ==
  /\ DOMAIN eventFile \subseteq {Second(d) : d \in Deferred}
  /\ \A s \in DOMAIN eventFile : eventFile[s] \in [Deferred -> Nat]
  /\ events \in [Deferred -> Nat]

BlockOK ==
  /\ chain \in Seq(Message) /\ written \in 0..Len(chain)
  /\ blockFiles \subseteq {1} /\ lastBlockNr \in {Unset, 0, 1}
  /\ hashes \subseteq DOMAIN chain

IdsOK ==
  /\ DOMAIN idFile \subseteq Message
  /\ DOMAIN ids \subseteq DOMAIN idFile
  /\ \A m \in DOMAIN ids : ids[m] = idFile[m]

PlaceOK ==
  /\ next \in 0..MaxMessage + 1 /\ persisted \in 0..MaxMessage /\ seen \in 0..MaxMessage
  /\ step \in Step /\ (step # "begin" => next \in Message /\ Up)
  /\ Up => next # 0
  /\ step \in {"past", "hash", "id"} => chain # <<>> /\ chain[Len(chain)] = next
  /\ ~Up => written = Len(chain) /\ ids = NoFun

ProcessOK ==
  /\ mode \in {"up", "down", "refused"} /\ starts \in 0..MaxStarts
  /\ mishaps \subseteq Db \cup Mishap /\ target \in Targets
  /\ forgotten \subseteq {Signature[m] : m \in Message}

BaseOK == EventsOK /\ BlockOK /\ IdsOK /\ PlaceOK /\ ProcessOK

LEMMA InitBase == Init => BaseOK
<1> SUFFICES ASSUME Init PROVE BaseOK
  OBVIOUS
<1>1. DOMAIN NoFun = {} /\ NoEvents \in [Deferred -> Nat]
  BY DEF NoFun, NoEvents
<1>2. EventsOK /\ IdsOK
  BY <1>1 DEF Init, EventsOK, IdsOK
<1>3. BlockOK
  BY DEF Init, BlockOK
<1>4. PlaceOK /\ ProcessOK
  BY CachesAssumption DEF Init, PlaceOK, ProcessOK, Step, Up
<1> QED BY <1>2, <1>3, <1>4 DEF BaseOK

(* The dates of the deferred transfers.                                    *)
LEMMA Seconds ==
  ASSUME BaseOK
  PROVE  target \in [Deferred -> Nat \X Nat] /\ IsFiniteSet({Second(d) : d \in Deferred})
<1>1. target \in [Deferred -> Nat \X Nat]
  BY CachesAssumption DEF BaseOK, ProcessOK
<1>2. IsFiniteSet({Second(d) : d \in Deferred})
  <2> DEFINE f == [d \in Deferred |-> Second(d)]
  <2>1. {Second(d) : d \in Deferred} = {f[d] : d \in Deferred}
    OBVIOUS
  <2>2. DOMAIN f = Deferred /\ f = [d \in Deferred |-> f[d]]
    OBVIOUS
  <2> HIDE DEF f
  <2>3. IsFiniteSet({f[d] : d \in Deferred})
    BY <2>2, Messages, FiniteImage
  <2> QED BY <2>1, <2>3
<1> QED BY <1>1, <1>2

LEMMA UpdateBase ==
  ASSUME BaseOK, NEW evs \in [Deferred -> Nat], NEW d \in Deferred
  PROVE  /\ DOMAIN UpdateState(evs, d) \subseteq {Second(e) : e \in Deferred}
         /\ \A s \in DOMAIN UpdateState(evs, d) : UpdateState(evs, d)[s] \in [Deferred -> Nat]
<1>1. SameDate(evs, d) \in [Deferred -> Nat]
  BY DEF SameDate
<1>2. /\ DOMAIN eventFile \subseteq {Second(e) : e \in Deferred}
      /\ \A s \in DOMAIN eventFile : eventFile[s] \in [Deferred -> Nat]
  BY DEF BaseOK, EventsOK
<1>3. CASE UpdateState(evs, d) = eventFile
  BY <1>2, <1>3
<1>4. CASE UpdateState(evs, d) = RemoveKey(eventFile, Second(d))
  <2>1. /\ DOMAIN RemoveKey(eventFile, Second(d)) = DOMAIN eventFile \ {Second(d)}
        /\ \A s \in DOMAIN eventFile \ {Second(d)} : RemoveKey(eventFile, Second(d))[s] = eventFile[s]
    BY DEF RemoveKey, Without
  <2> QED BY <1>2, <1>4, <2>1
<1>5. CASE UpdateState(evs, d) = SetKeyValue(eventFile, Second(d), SameDate(evs, d))
  <2> DEFINE r == SameDate(evs, d)
  <2>1. /\ DOMAIN SetKeyValue(eventFile, Second(d), r) = DOMAIN eventFile \cup {Second(d)}
        /\ \A s \in DOMAIN eventFile \cup {Second(d)} :
             SetKeyValue(eventFile, Second(d), r)[s] = IF s = Second(d) THEN r ELSE eventFile[s]
    BY DEF SetKeyValue, Put
  <2> HIDE DEF r
  <2>2. UpdateState(evs, d) = SetKeyValue(eventFile, Second(d), r) /\ r \in [Deferred -> Nat]
    BY <1>1, <1>5 DEF r
  <2> QED BY <1>2, <2>1, <2>2
<1> QED BY <1>3, <1>4, <1>5 DEF UpdateState, RemoveState

(* What createAndAddConfirmedTransaction does, from one step to the next.  *)
LEMMA ConfirmBase ==
  ASSUME BaseOK, Confirm \/ Refuse \/ PushTransaction
  PROVE  BaseOK'
<1> USE DEF BaseOK
<1>1. CASE Confirm \/ Refuse
  <2>1. /\ Up /\ next \in Message /\ step' \in {"push", "persist"} /\ Up' /\ step = "begin"
        /\ UNCHANGED <<eventFile, events, chain, written, blockFiles, lastBlockNr, hashes,
                       idFile, ids, next, persisted, seen, mode, starts, mishaps, forgotten, target>>
    <3>1. next \in 1..MaxMessage
      BY <1>1, Messages DEF Confirm, Refuse, PlaceOK, Up
    <3> QED BY <1>1, <3>1, Messages DEF Confirm, Refuse, folder, files, block, eventCache, process, Step, Up
  <2> QED BY <2>1 DEF EventsOK, BlockOK, IdsOK, PlaceOK, ProcessOK, Second, Step
<1>2. CASE PushTransaction
  <2>1. /\ Up /\ next \in Message /\ step' \in Step /\ Up' /\ chain' = Append(chain, next)
        /\ seen' \in 0..MaxMessage
        /\ UNCHANGED <<eventFile, events, written, blockFiles, lastBlockNr, hashes,
                       idFile, ids, next, persisted, mode, starts, mishaps, forgotten, target>>
    BY <1>2, Messages DEF PushTransaction, PlaceOK, folder, files, eventCache, process, Step, Up
  <2>2. /\ chain' \in Seq(Message) /\ Len(chain') = Len(chain) + 1
        /\ chain' # <<>> /\ chain'[Len(chain')] = next
    BY <2>1 DEF BlockOK
  <2>3. BlockOK'
    BY <2>1, <2>2 DEF BlockOK
  <2> QED BY <2>1, <2>2, <2>3 DEF EventsOK, IdsOK, PlaceOK, ProcessOK, Second
<1> QED BY <1>1, <1>2

LEMMA PastBase ==
  ASSUME BaseOK, RunPastAddToBlockchain
  PROVE  BaseOK'
<1> USE DEF BaseOK
<1>1. /\ Up /\ next \in Message /\ Up' /\ step = "past"
      /\ UNCHANGED <<chain, written, blockFiles, lastBlockNr, hashes,
                     idFile, ids, next, persisted, seen, mode, starts, mishaps, forgotten, target>>
  BY DEF RunPastAddToBlockchain, PlaceOK, folder, block, process, Up
<1>2. step' \in Step /\ step' # "begin"
  BY DEF RunPastAddToBlockchain, Defer, Redeem, AddTransactionTriggerEvent,
         RemoveTransactionTriggerEvent, Step
<1>3. EventsOK'
  <2>1. CASE UNCHANGED <<events, eventFile>>
    BY <1>1, <2>1 DEF EventsOK, Second
  <2>2. CASE \E d \in Deferred : events' \in [Deferred -> Nat] /\ eventFile' = UpdateState(events', d)
    <3>1. PICK d \in Deferred : events' \in [Deferred -> Nat] /\ eventFile' = UpdateState(events', d)
      BY <2>2
    <3>2. PICK evs \in [Deferred -> Nat] : evs = events'
      BY <3>1
    <3> QED BY <1>1, <3>1, <3>2, UpdateBase DEF EventsOK, Second
  <2>3. CASE Defer
    <3>1. next \in Deferred /\ events' = [events EXCEPT ![next] = @ + 1] /\ eventFile' = UpdateState(events', next)
      BY <2>3 DEF Defer, AddTransactionTriggerEvent
    <3>2. events' \in [Deferred -> Nat]
      BY <3>1 DEF EventsOK
    <3> QED BY <2>2, <3>1, <3>2
  <2>4. CASE Redeem
    <3> DEFINE d == Redeems[next]
    <3>1. d \in Deferred
      BY <1>1, <2>4, Messages DEF Redeem
    <3>2. CASE events[d] = 0
      BY <2>1, <2>4, <3>2 DEF Redeem, RemoveTransactionTriggerEvent
    <3>3. CASE events[d] # 0
      <4>1. events' = [events EXCEPT ![d] = @ - 1] /\ eventFile' = UpdateState(events', d)
        BY <2>4, <3>3 DEF Redeem, RemoveTransactionTriggerEvent
      <4>2. events' \in [Deferred -> Nat]
        <5>1. events[d] - 1 \in Nat
          BY <3>1, <3>3 DEF EventsOK
        <5> HIDE DEF d
        <5> QED BY <3>1, <4>1, <5>1 DEF EventsOK
      <4> QED BY <2>2, <3>1, <4>1, <4>2
    <3> QED BY <3>2, <3>3
  <2> QED BY <2>1, <2>3, <2>4 DEF RunPastAddToBlockchain
<1> QED BY <1>1, <1>2, <1>3 DEF BlockOK, IdsOK, PlaceOK, ProcessOK

(* A transaction has one place in the chain where it is looked for.        *)
LEMMA NrOfType ==
  ASSUME BaseOK, NEW m, \E nr \in DOMAIN chain : chain[nr] = m
  PROVE  NrOf(m) \in DOMAIN chain /\ chain[NrOf(m)] = m
BY DEF NrOf

LEMMA AddIdBase ==
  ASSUME BaseOK, AddId
  PROVE  BaseOK'
<1> USE DEF BaseOK
<1>1. /\ Up /\ next \in Message /\ Up' /\ step' = "persist"
      /\ UNCHANGED <<eventFile, events, chain, written, blockFiles, lastBlockNr, hashes,
                     next, persisted, seen, mode, starts, mishaps, forgotten, target>>
  BY DEF AddId, PlaceOK, folder, block, eventCache, process, Step, Up
<1>2. IdsOK'
  <2>1. CASE UNCHANGED <<ids, idFile>>
    BY <2>1 DEF IdsOK
  <2>2. CASE ids' = Put(ids, next, NrOf(next)) /\ idFile' = SetKeyValue(idFile, next, NrOf(next))
    <3>1. idFile' = Put(idFile, next, NrOf(next))
      BY <2>2 DEF SetKeyValue
    <3>2. /\ DOMAIN ids' = DOMAIN ids \cup {next} /\ DOMAIN idFile' = DOMAIN idFile \cup {next}
          /\ \A m \in DOMAIN ids \cup {next} : ids'[m] = IF m = next THEN NrOf(next) ELSE ids[m]
          /\ \A m \in DOMAIN idFile \cup {next} : idFile'[m] = IF m = next THEN NrOf(next) ELSE idFile[m]
      BY <2>2, <3>1 DEF Put
    <3> QED BY <1>1, <3>2 DEF IdsOK
  <2> QED BY <2>1, <2>2 DEF AddId
<1> QED BY <1>1, <1>2 DEF EventsOK, BlockOK, PlaceOK, ProcessOK, Second, Step

LEMMA StepBase ==
  ASSUME BaseOK, PushHash \/ Persist \/ Write
  PROVE  BaseOK'
<1> USE DEF BaseOK
<1>1. CASE PushHash
  <2>0. NrOf(next) \in DOMAIN chain
    BY <1>1, NrOfType DEF PushHash, PlaceOK, BlockOK
  <2>1. /\ Up /\ next \in Message /\ Up' /\ step' \in {"id", "persist"} /\ step = "hash"
        /\ hashes' \in {hashes, hashes \cup {NrOf(next)}}
        /\ UNCHANGED <<eventFile, events, chain, written, blockFiles, lastBlockNr,
                       idFile, ids, next, persisted, seen, mode, starts, mishaps, forgotten, target>>
    BY <1>1 DEF PushHash, PlaceOK, folder, files, block, eventCache, process, Step, Up
  <2> QED BY <2>0, <2>1 DEF EventsOK, BlockOK, PlaceOK, ProcessOK, IdsOK, Second, Step
<1>2. CASE Persist
  <2>1. /\ Up /\ next \in Message /\ Up' /\ step' = "begin" /\ persisted' = next - 1 /\ next' = next + 1
        /\ UNCHANGED <<eventFile, events, chain, written, blockFiles, lastBlockNr, hashes,
                       idFile, ids, seen, mode, starts, mishaps, forgotten, target>>
    BY <1>2 DEF Persist, UpdateLastKnownSequenceNumber, PlaceOK, folder, block, eventCache, process, Step, Up
  <2>2. next' \in 1..MaxMessage + 1 /\ persisted' \in 0..MaxMessage /\ next' # 0
    BY <2>1, Messages
  <2> QED BY <2>1, <2>2 DEF EventsOK, BlockOK, PlaceOK, ProcessOK, IdsOK, Second, Step
<1>3. CASE Write
  <2>1. /\ Up /\ Up' /\ written' = Len(chain)
        /\ UNCHANGED <<eventFile, events, chain, blockFiles, lastBlockNr, hashes,
                       idFile, ids, next, persisted, step, seen, mode, starts, mishaps, forgotten, target>>
    BY <1>3 DEF Write, folder, block, eventCache, process, Up
  <2> QED BY <2>1 DEF EventsOK, BlockOK, PlaceOK, ProcessOK, IdsOK, Second
<1> QED BY <1>1, <1>2, <1>3

LEMMA IdleBase ==
  ASSUME BaseOK,
         \/ \E m \in Message : FindByMessageId(m) \/ ExpireId(m)
         \/ \E nr \in hashes : ExpireHash(nr)
  PROVE  BaseOK'
<1> USE DEF BaseOK
<1>1. ASSUME NEW m \in Message, FindByMessageId(m) PROVE BaseOK'
  <2>1. /\ Up /\ Up' /\ m \in DOMAIN idFile \ DOMAIN ids /\ ids' = Put(ids, m, idFile[m])
        /\ UNCHANGED <<eventFile, events, chain, written, blockFiles, lastBlockNr, hashes,
                       idFile, next, persisted, step, seen, mode, starts, mishaps, forgotten, target>>
    BY <1>1 DEF FindByMessageId, folder, files, block, eventCache, process, Up
  <2>2. /\ DOMAIN ids' = DOMAIN ids \cup {m}
        /\ \A k \in DOMAIN ids \cup {m} : ids'[k] = IF k = m THEN idFile[m] ELSE ids[k]
    BY <2>1 DEF Put
  <2>3. IdsOK'
    BY <2>1, <2>2 DEF IdsOK
  <2> QED BY <2>1, <2>3 DEF EventsOK, BlockOK, PlaceOK, ProcessOK, Second
<1>2. ASSUME NEW m \in Message, ExpireId(m) PROVE BaseOK'
  <2>1. /\ m \in DOMAIN ids /\ ids' = Without(ids, m)
        /\ UNCHANGED <<eventFile, events, chain, written, blockFiles, lastBlockNr, hashes,
                       idFile, next, persisted, step, seen, mode, starts, mishaps, forgotten, target>>
    BY <1>2 DEF ExpireId, folder, files, block, eventCache, process
  <2>2. /\ DOMAIN ids' = DOMAIN ids \ {m}
        /\ \A k \in DOMAIN ids \ {m} : ids'[k] = ids[k]
    BY <2>1 DEF Without
  <2>3. IdsOK'
    BY <2>1, <2>2 DEF IdsOK
  <2>4. Up
    BY <2>1 DEF PlaceOK, NoFun
  <2> QED BY <2>1, <2>3, <2>4 DEF EventsOK, BlockOK, PlaceOK, ProcessOK, Second, Up
<1>3. ASSUME NEW nr \in hashes, ExpireHash(nr) PROVE BaseOK'
  <2>1. /\ hashes' = hashes \ {nr}
        /\ UNCHANGED <<eventFile, events, chain, written, blockFiles, lastBlockNr, ids,
                       idFile, next, persisted, step, seen, mode, starts, mishaps, target>>
    BY <1>3 DEF ExpireHash, folder, files, block, eventCache, process
  <2>2. forgotten' \subseteq {Signature[m] : m \in Message}
    <3>1. chain[nr] \in Message
      BY DEF BlockOK
    <3> QED BY <1>3, <3>1 DEF ExpireHash, ProcessOK
  <2> QED BY <2>1, <2>2 DEF EventsOK, BlockOK, IdsOK, PlaceOK, ProcessOK, Second, Up
<1> QED BY <1>1, <1>2, <1>3

LEMMA Beginning ==
  ASSUME NEW c \in Seq(Message), NEW n \in 0..Len(c)
  PROVE  /\ SubSeq(c, 1, n) \in Seq(Message) /\ Len(SubSeq(c, 1, n)) = n
         /\ \A i \in 1..n : SubSeq(c, 1, n)[i] = c[i]
         /\ SubSeq(c, 1, Len(c)) = c
OBVIOUS

LEMMA CrashBase ==
  ASSUME BaseOK, Crash
  PROVE  BaseOK'
<1> USE DEF BaseOK
<1>1. /\ ~Up' /\ chain' = SubSeq(chain, 1, written) /\ ids' = NoFun /\ hashes' = {}
      /\ events' = NoEvents /\ next' = 0 /\ step' = "begin" /\ mode' = "down"
      /\ mishaps' \subseteq mishaps \cup {"halfway"}
      /\ UNCHANGED <<eventFile, written, blockFiles, lastBlockNr, idFile, persisted, seen, starts, forgotten, target>>
  BY DEF Crash, files, folder, Up
<1>2. chain' \in Seq(Message) /\ Len(chain') = written
  BY <1>1, Beginning DEF BlockOK
<1>3. EventsOK' /\ IdsOK'
  BY <1>1 DEF EventsOK, IdsOK, NoEvents, NoFun, Second
<1>4. BlockOK' /\ ProcessOK'
  BY <1>1, <1>2 DEF BlockOK, ProcessOK, Mishap
<1>5. PlaceOK'
  BY <1>1, <1>2, Messages DEF PlaceOK, Step
<1> QED BY <1>3, <1>4, <1>5

(* The events as they are read, whichever of a record is read.             *)
LEMMA LoadBase ==
  ASSUME BaseOK, NEW bad \in Db \cup {"none"}, LoadEvents(bad), target' = target
  PROVE  EventsOK'
<1>1. eventFile' = NoFun \/ eventFile' = eventFile
  BY DEF LoadEvents
<1>2. /\ DOMAIN eventFile' \subseteq {Second(d) : d \in Deferred}
      /\ \A s \in DOMAIN eventFile' : eventFile'[s] \in [Deferred -> Nat]
  BY <1>1 DEF NoFun, BaseOK, EventsOK
<1>3. PICK read \in [DOMAIN eventFile' -> Deferred] :
        events' = [d \in Deferred |-> Cardinality({s \in DOMAIN read : read[s] = d})]
  BY DEF LoadEvents
<1>4. IsFiniteSet(DOMAIN eventFile')
  BY <1>2, Seconds, FS_Subset
<1>5. ASSUME NEW d \in Deferred PROVE Cardinality({s \in DOMAIN read : read[s] = d}) \in Nat
  <2> DEFINE T == {s \in DOMAIN read : read[s] = d}
  <2>1. T \in SUBSET DOMAIN eventFile'
    BY <1>3
  <2> HIDE DEF T
  <2>2. Cardinality(T) \in Nat
    BY <1>4, <2>1, FS_Subset, FS_CardinalityType
  <2> QED BY <2>2 DEF T
<1>6. events' \in [Deferred -> Nat]
  BY <1>3, <1>5
<1> QED BY <1>2, <1>6 DEF EventsOK, Second

LEMMA StartingBase ==
  ASSUME BaseOK, NEW bad \in Db \cup {"none"}, Starting(bad)
  PROVE  /\ ~Up /\ step = "begin" /\ ids = NoFun /\ written = Len(chain)
         /\ UNCHANGED <<written, chain, ids, step, seen, forgotten, target>>
         /\ persisted' \in {0, persisted} /\ lastBlockNr' \in {Unset, 0, 1}
         /\ starts' \in 0..MaxStarts
         /\ mishaps' \subseteq Db \cup Mishap /\ mishaps \subseteq mishaps'
<1> USE DEF BaseOK
<1>1. /\ ~Up /\ step = "begin" /\ ids = NoFun /\ written = Len(chain)
      /\ UNCHANGED <<written, chain, ids, step, seen, forgotten, target>>
  BY DEF Starting, PlaceOK, Up
<1>2. starts' \in 0..MaxStarts
  BY CachesAssumption DEF Starting, ProcessOK
<1>3. mishaps' \subseteq Db \cup Mishap /\ mishaps \subseteq mishaps'
  BY DEF Starting, ProcessOK, Mishap
<1>4. FindLastBlockFileInFolder \in {0, 1}
  <2>1. CASE blockFiles = {}
    BY <2>1 DEF FindLastBlockFileInFolder
  <2>2. CASE blockFiles = {1}
    BY <2>2 DEF FindLastBlockFileInFolder
  <2> QED BY <2>1, <2>2 DEF BlockOK
<1>5. persisted' \in {0, persisted} /\ lastBlockNr' \in {Unset, 0, 1}
  <2>1. InitState(bad)
    BY DEF Starting
  <2>2. CASE bad = "state"
    BY <2>1, <2>2 DEF InitState, ResetState
  <2>3. CASE bad = "dictionary"
    BY <1>4, <2>1, <2>3 DEF InitState, LoadStateFromBlockCache
  <2>4. CASE bad \notin {"state", "dictionary"}
    BY <2>1, <2>4 DEF InitState, BlockOK
  <2> QED BY <2>2, <2>3, <2>4
<1> QED BY <1>1, <1>2, <1>3, <1>5

LEMMA StartBase ==
  ASSUME BaseOK, NEW bad \in Db \cup {"none"}, Start(bad) \/ StartFails(bad)
  PROVE  BaseOK'
<1> USE DEF BaseOK
<1>1. Starting(bad)
  BY DEF Start, StartFails
<1>2. /\ ~Up /\ step = "begin" /\ ids = NoFun /\ written = Len(chain)
      /\ UNCHANGED <<written, chain, ids, step, seen, forgotten, target>>
      /\ persisted' \in {0, persisted} /\ lastBlockNr' \in {Unset, 0, 1}
      /\ starts' \in 0..MaxStarts
      /\ mishaps' \subseteq Db \cup Mishap /\ mishaps \subseteq mishaps'
  BY <1>1, StartingBase
<1>3. IdsOK'
  BY <1>2 DEF Start, StartFails, InitIds, IdsOK, NoFun
<1>4. persisted' \in 0..MaxMessage
  BY <1>2, Messages DEF PlaceOK
<1>5. ProcessOK'
  BY <1>2 DEF ProcessOK, Start, StartFails
<1>6. CASE Start(bad)
  <2>1. blockFiles' \subseteq {1}
    BY <1>2, <1>6 DEF Start, GetOpenFile, GetsBlock, ReadInt32State, Unset, BlockOK
  <2>2. hashes' \subseteq DOMAIN chain
    BY <1>2, <1>6 DEF Start, LastTransactions, BlockOK
  <2>3. next' \in 1..MaxMessage + 1
    <3>1. chain # <<>> => chain[Len(chain)] \in Message
      BY DEF BlockOK
    <3>2. next' = 1 + (IF chain = <<>> THEN persisted' ELSE chain[Len(chain)])
      BY <1>6 DEF Start, FirstMessage
    <3>3. PICK p \in 0..MaxMessage : p = persisted'
      BY <1>4
    <3>4. 1 + p \in 1..MaxMessage + 1
      BY Messages
    <3>5. CASE chain = <<>>
      <4>1. next' = 1 + persisted'
        BY <3>2, <3>5, Zenon
      <4> QED BY <3>3, <3>4, <4>1
    <3>6. CASE chain # <<>>
      BY <3>1, <3>2, <3>6, Messages
    <3> QED BY <3>5, <3>6
  <2>4. BlockOK'
    BY <1>2, <2>1, <2>2 DEF BlockOK
  <2>5. Up' /\ next' \in 0..MaxMessage + 1 /\ next' # 0
    BY <1>6, <2>3, Messages DEF Start, Up
  <2>6. PlaceOK'
    BY <1>2, <1>4, <2>5 DEF PlaceOK
  <2> QED BY <1>2, <1>3, <1>5, <1>6, <2>4, <2>6, LoadBase DEF Start
<1>7. CASE StartFails(bad)
  <2>1. EventsOK'
    BY <1>2, <1>7 DEF StartFails, EventsOK, eventCache, NoFun, Second
  <2>2. BlockOK'
    BY <1>2, <1>7 DEF StartFails, BlockOK
  <2>3. PlaceOK'
    BY <1>2, <1>4, <1>7 DEF StartFails, PlaceOK, Up
  <2> QED BY <1>3, <1>5, <2>1, <2>2, <2>3
<1> QED BY <1>6, <1>7

LEMMA NextBase == BaseOK /\ [Next]_vars => BaseOK'
<1> SUFFICES ASSUME BaseOK, [Next]_vars PROVE BaseOK'
  OBVIOUS
<1>1. CASE UNCHANGED vars
  BY <1>1 DEF vars, files, folder, block, eventCache, process, BaseOK, EventsOK, BlockOK, IdsOK,
              PlaceOK, ProcessOK, Second, Up
<1>2. CASE Confirm \/ Refuse \/ PushTransaction
  BY <1>2, ConfirmBase
<1>3. CASE RunPastAddToBlockchain
  BY <1>3, PastBase
<1>4. CASE PushHash \/ Persist \/ Write \/ AddId
  BY <1>4, StepBase, AddIdBase
<1>5. CASE Crash
  BY <1>5, CrashBase
<1>6. CASE \/ \E m \in Message : FindByMessageId(m) \/ ExpireId(m)
           \/ \E nr \in hashes : ExpireHash(nr)
  BY <1>6, IdleBase
<1>7. CASE \E bad \in Db \cup {"none"} : Start(bad) \/ StartFails(bad)
  BY <1>7, StartBase
<1> QED BY <1>1, <1>2, <1>3, <1>4, <1>5, <1>6, <1>7 DEF Next

-----------------------------------------------------------------------------
(***************************************************************************)
(* The dictionary.  Its indices are counted on from 1, each for a public   *)
(* key of its own; it only grows, or is built again from the lines of the  *)
(* block with the index files removed.                                     *)
(***************************************************************************)
Dict(db, n) ==
  /\ n \in Nat /\ DOMAIN db = 1..n
  /\ \A i \in 1..n : db[i] \in Key
  /\ \A i, j \in 1..n : db[i] = db[j] => i = j

Names(db, indices, keys) == indices \subseteq DOMAIN db /\ {db[i] : i \in indices} = keys

Extends(db, old) == \A i \in DOMAIN old : i \in DOMAIN db /\ db[i] = old[i]

LEMMA KeyFacts ==
  /\ \A m \in Message : Keys[m] \subseteq Key /\ IsFiniteSet(Keys[m])
  /\ IsFiniteSet(Key) /\ Cardinality(Key) \in Nat
<1>1. \A m \in Message : Keys[m] \subseteq Key /\ IsFiniteSet(Keys[m])
  BY CachesAssumption DEF Key
<1>2. IsFiniteSet({Keys[m] : m \in Message})
  <2> DEFINE f == [m \in Message |-> Keys[m]]
  <2>1. DOMAIN f = Message /\ f = [m \in Message |-> f[m]] /\ {Keys[m] : m \in Message} = {f[m] : m \in Message}
    OBVIOUS
  <2> HIDE DEF f
  <2>2. IsFiniteSet({f[m] : m \in Message})
    BY <2>1, Messages, FiniteImage
  <2> QED BY <2>1, <2>2
<1>3. IsFiniteSet(Key)
  <2> DEFINE S == {Keys[m] : m \in Message}
  <2>1. IsFiniteSet(S) /\ \A T \in S : IsFiniteSet(T)
    BY <1>1, <1>2
  <2> HIDE DEF S
  <2>2. IsFiniteSet(UNION S)
    BY <2>1, FS_UNION
  <2> QED BY <2>2 DEF S, Key
<1> QED BY <1>1, <1>3, FS_CardinalityType

LEMMA DictIsSmall ==
  ASSUME NEW db, NEW n, Dict(db, n)
  PROVE  Cardinality(DOMAIN db) = n /\ n <= Cardinality(Key)
<1>1. n \in Nat /\ DOMAIN db = 1..n
  BY DEF Dict
<1>2. Cardinality(1..n) = n
  BY <1>1, FS_Interval
<1> DEFINE f == [i \in 1..n |-> db[i]]
<1>3. f \in Injection(1..n, Key)
  BY DEF Dict, Injection, IsInjective
<1> HIDE DEF f
<1>4. Cardinality(1..n) <= Cardinality(Key)
  BY <1>3, KeyFacts, FS_Injection
<1> QED BY <1>1, <1>2, <1>4

(* The new keys of a transaction, one after the other.                     *)
LEMMA OrderFacts ==
  ASSUME NEW S, IsFiniteSet(S)
  PROVE  /\ Cardinality(S) \in Nat /\ Order(S) \in [1..Cardinality(S) -> S]
         /\ {Order(S)[i] : i \in 1..Cardinality(S)} = S
         /\ \A i, j \in 1..Cardinality(S) : Order(S)[i] = Order(S)[j] => i = j
<1> DEFINE c == Cardinality(S)
           IsOrder(f) == f \in [1..c -> S] /\ {f[i] : i \in DOMAIN f} = S
<1>1. c \in Nat
  BY FS_CardinalityType
<1>2. PICK n \in Nat : ExistsBijection(1..n, S)
  BY FS_NatBijection
<1>3. c = n
  BY <1>2, FS_CountingElements
<1>4. PICK g : g \in Bijection(1..c, S)
  BY <1>2, <1>3 DEF ExistsBijection
<1>5. IsOrder(g)
  BY <1>4 DEF Bijection, Injection, Surjection
<1>6. Order(S) = CHOOSE f \in [1..c -> S] : {f[i] : i \in DOMAIN f} = S
  BY DEF Order
<1> HIDE DEF c
<1>7. IsOrder(Order(S))
  <2>1. \E f \in [1..c -> S] : {f[i] : i \in DOMAIN f} = S
    BY <1>5
  <2> QED BY <1>6, <2>1, Zenon
<1>8. Order(S) \in Surjection(1..c, S)
  BY <1>7 DEF Surjection
<1>9. Order(S) \in Injection(1..c, S)
  <2>1. IsFiniteSet(1..c) /\ Cardinality(1..c) = Cardinality(S)
    BY <1>1, FS_Interval DEF c
  <2> QED BY <1>8, <2>1, FS_SurjSameCardinalityImpliesInj
<1>10. \A i, j \in 1..c : Order(S)[i] = Order(S)[j] => i = j
  BY <1>7, <1>9 DEF Injection, IsInjective
<1> QED BY <1>1, <1>7, <1>10 DEF c

LEMMA GetOrAddFacts ==
  ASSUME NEW db, NEW n, Dict(db, n), NEW m \in Message
  PROVE  /\ \E k \in Nat : Dict(GetOrAdd(db, n, Keys[m]), n + k)
         /\ Extends(GetOrAdd(db, n, Keys[m]), db)
         /\ \A key \in Keys[m] : \E i \in DOMAIN GetOrAdd(db, n, Keys[m]) :
              GetOrAdd(db, n, Keys[m])[i] = key
<1> DEFINE S == {key \in Keys[m] : FindIndexForString(db, key) = {}}
           c == Cardinality(S)
           new == Order(S)
           r == GetOrAdd(db, n, Keys[m])
<1>1. n \in Nat /\ DOMAIN db = 1..n
  BY DEF Dict
<1>2. IsFiniteSet(S) /\ S \subseteq Key
  <2>1. IsFiniteSet(Keys[m]) /\ Keys[m] \subseteq Key /\ S \in SUBSET Keys[m]
    BY KeyFacts
  <2> HIDE DEF S
  <2> QED BY <2>1, FS_Subset
<1>3. \A key \in S, i \in 1..n : db[i] # key
  BY <1>1 DEF FindIndexForString
<1>4. \A key \in Keys[m] \ S : \E i \in 1..n : db[i] = key
  BY <1>1 DEF FindIndexForString
<1>5. r = [i \in DOMAIN db \cup {n + j : j \in DOMAIN new} |-> IF i \in DOMAIN db THEN db[i] ELSE new[i - n]]
  BY DEF GetOrAdd, NewKeys
<1>6. S \subseteq Keys[m]
  OBVIOUS
<1> HIDE DEF S
<1>7. /\ c \in Nat /\ new \in [1..c -> S] /\ {new[i] : i \in 1..c} = S
      /\ \A i, j \in 1..c : new[i] = new[j] => i = j
  BY <1>2, OrderFacts
<1> HIDE DEF c, new, r
<1>8. 1..n \cup {n + j : j \in 1..c} = 1..n + c
  <2>1. ASSUME NEW i \in 1..n + c, i \notin 1..n PROVE i \in {n + j : j \in 1..c}
    <3>1. i - n \in 1..c /\ i = n + (i - n)
      BY <1>1, <1>7, <2>1
    <3> QED BY <3>1
  <2>2. \A j \in 1..c : n + j \in 1..n + c
    BY <1>1, <1>7
  <2>3. \A i \in 1..n : i \in 1..n + c
    BY <1>1, <1>7
  <2> QED BY <2>1, <2>2, <2>3
<1>9. DOMAIN r = 1..n + c /\ \A i \in 1..n + c : r[i] = IF i \in 1..n THEN db[i] ELSE new[i - n]
  <2>1. DOMAIN new = 1..c
    BY <1>7
  <2> QED BY <1>1, <1>5, <1>8, <2>1
<1>10. \A i \in 1..n + c : i \notin 1..n => i - n \in 1..c /\ r[i] = new[i - n] /\ r[i] \in S
  <2>1. ASSUME NEW i \in 1..n + c, i \notin 1..n PROVE i - n \in 1..c
    BY <1>1, <1>7, <2>1
  <2> QED BY <1>7, <1>9, <2>1
<1>11. \A i \in 1..n : i \in 1..n + c /\ r[i] = db[i]
  BY <1>1, <1>7, <1>9
<1>12. Dict(r, n + c)
  <2>1. n + c \in Nat
    BY <1>1, <1>7
  <2>2. \A i \in 1..n + c : r[i] \in Key
    BY <1>2, <1>10, <1>11 DEF Dict
  <2>3. ASSUME NEW i \in 1..n + c, NEW j \in 1..n + c, r[i] = r[j] PROVE i = j
    <3>1. CASE i \in 1..n /\ j \in 1..n
      BY <1>11, <2>3, <3>1 DEF Dict
    <3>2. CASE i \notin 1..n /\ j \notin 1..n
      <4>1. i - n = j - n
        BY <1>7, <1>10, <2>3, <3>2
      <4> QED BY <1>1, <1>7, <4>1
    <3>3. CASE (i \in 1..n /\ j \notin 1..n) \/ (i \notin 1..n /\ j \in 1..n)
      BY <1>3, <1>10, <1>11, <2>3, <3>3
    <3> QED BY <3>1, <3>2, <3>3
  <2> QED BY <1>9, <2>1, <2>2, <2>3 DEF Dict
<1>13. Extends(r, db)
  BY <1>1, <1>9, <1>11 DEF Extends
<1>14. ASSUME NEW key \in Keys[m] PROVE \E i \in DOMAIN r : r[i] = key
  <2>1. CASE key \in S
    <3>1. PICK j \in 1..c : new[j] = key
      BY <1>7, <2>1
    <3>2. n + j \in 1..n + c /\ n + j \notin 1..n /\ (n + j) - n = j
      BY <1>1, <1>7
    <3> QED BY <1>9, <3>1, <3>2
  <2>2. CASE key \notin S
    BY <1>4, <1>9, <1>11, <1>14, <2>2
  <2> QED BY <2>1, <2>2
<1> QED BY <1>7, <1>12, <1>13, <1>14 DEF r

LEMMA IndicesName ==
  ASSUME NEW db, NEW keys, \A key \in keys : \E i \in DOMAIN db : db[i] = key
  PROVE  Names(db, IndicesOf(db, keys), keys)
BY DEF Names, IndicesOf

LEMMA NamesKept ==
  ASSUME NEW db, NEW old, Extends(db, old), NEW indices, NEW keys, Names(old, indices, keys)
  PROVE  Names(db, indices, keys)
<1>1. \A i \in indices : i \in DOMAIN db /\ db[i] = old[i]
  BY DEF Extends, Names
<1> QED BY <1>1 DEF Names

LEMMA NamesOneEach ==
  ASSUME NEW db, NEW n, Dict(db, n), NEW indices, NEW keys, Names(db, indices, keys), IsFiniteSet(keys)
  PROVE  Cardinality(indices) = Cardinality(keys)
<1> DEFINE f == [i \in indices |-> db[i]]
<1>1. f \in Bijection(indices, keys)
  BY DEF Names, Dict, Bijection, Injection, Surjection, IsInjective
<1> HIDE DEF f
<1>2. indices \subseteq 1..n /\ IsFiniteSet(1..n)
  BY FS_Interval DEF Names, Dict
<1>3. IsFiniteSet(indices)
  BY <1>2, FS_Subset
<1> QED BY <1>1, <1>3, FS_Bijection DEF ExistsBijection

(* rebuildBlockIndex, line by line.                                        *)
RebuildSteps(f, db, k) ==
  /\ DOMAIN f = 0..k /\ f[0] = db
  /\ \A n \in 1..k : f[n] = GetOrAdd(f[n - 1], Cardinality(DOMAIN f[n - 1]), Keys[chain[n]])

LEMMA RebuildStepsExist ==
  ASSUME NEW db, NEW k \in Nat
  PROVE  \E f : RebuildSteps(f, db, k)
<1> DEFINE S == {n \in Nat : \E f : RebuildSteps(f, db, n)}
<1>1. 0 \in S
  <2>1. RebuildSteps([n \in 0..0 |-> db], db, 0)
    BY DEF RebuildSteps
  <2> QED BY <2>1
<1>2. ASSUME NEW n \in 1..k, n - 1 \in S PROVE n \in S
  <2>1. PICK f : RebuildSteps(f, db, n - 1)
    BY <1>2
  <2> DEFINE another == GetOrAdd(f[n - 1], Cardinality(DOMAIN f[n - 1]), Keys[chain[n]])
             g == [i \in 0..n |-> IF i = n THEN another ELSE f[i]]
  <2>2. n \in Nat /\ n - 1 \in Nat /\ n # 0
    OBVIOUS
  <2>3. /\ DOMAIN g = 0..n /\ g[0] = db /\ g[n] = another
        /\ \A i \in 0..n - 1 : g[i] = f[i]
    <3>1. DOMAIN g = 0..n /\ \A i \in 0..n : g[i] = IF i = n THEN another ELSE f[i]
      OBVIOUS
    <3> HIDE DEF g, another
    <3>2. 0 \in 0..n /\ n \in 0..n /\ \A i \in 0..n - 1 : i \in 0..n /\ i # n
      BY <2>2
    <3>3. f[0] = db
      BY <2>1 DEF RebuildSteps
    <3> QED BY <2>2, <3>1, <3>2, <3>3
  <2> HIDE DEF g
  <2>4. ASSUME NEW i \in 1..n
        PROVE  g[i] = GetOrAdd(g[i - 1], Cardinality(DOMAIN g[i - 1]), Keys[chain[i]])
    <3>1. CASE i = n
      <4>1. g[n - 1] = f[n - 1]
        BY <2>2, <2>3
      <4> QED BY <2>3, <3>1, <4>1
    <3>2. CASE i # n
      <4>1. i \in 1..n - 1 /\ i \in 0..n - 1 /\ i - 1 \in 0..n - 1
        BY <2>2, <2>4, <3>2
      <4>2. g[i] = f[i] /\ g[i - 1] = f[i - 1]
        BY <2>3, <4>1
      <4>3. f[i] = GetOrAdd(f[i - 1], Cardinality(DOMAIN f[i - 1]), Keys[chain[i]])
        BY <2>1, <4>1 DEF RebuildSteps
      <4> QED BY <4>2, <4>3
    <3> QED BY <3>1, <3>2
  <2>5. RebuildSteps(g, db, n)
    BY <2>3, <2>4 DEF RebuildSteps
  <2> QED BY <2>2, <2>5
<1> HIDE DEF S
<1>3. k \in S
  <2>1. 0..k \subseteq S
    BY <1>1, <1>2, UpTo
  <2> QED BY <2>1
<1> QED BY <1>3 DEF S

LEMMA RebuiltSteps ==
  ASSUME NEW db, written \in Nat
  PROVE  \E f : RebuildSteps(f, db, written) /\ Rebuilt(db) = f[written]
<1> DEFINE After(f) ==
      f = [n \in 0..written |->
             IF n = 0 THEN db
             ELSE GetOrAdd(f[n - 1], Cardinality(DOMAIN f[n - 1]), Keys[chain[n]])]
<1>1. \E f : After(f)
  <2>1. PICK g : RebuildSteps(g, db, written)
    BY RebuildStepsExist
  <2> DEFINE f == [n \in 0..written |-> g[n]]
             e(n) == IF n = 0 THEN db
                     ELSE GetOrAdd(f[n - 1], Cardinality(DOMAIN f[n - 1]), Keys[chain[n]])
  <2>2. ASSUME NEW n \in 0..written PROVE f[n] = e(n)
    <3>1. CASE n = 0
      BY <2>1, <3>1 DEF RebuildSteps
    <3>2. CASE n # 0
      <4>1. n \in 1..written /\ n - 1 \in 0..written
        BY <3>2
      <4>2. f[n] = g[n] /\ f[n - 1] = g[n - 1]
        BY <4>1
      <4> HIDE DEF f
      <4> QED BY <2>1, <3>2, <4>1, <4>2 DEF RebuildSteps
    <3> QED BY <3>1, <3>2
  <2>3. f = [n \in 0..written |-> f[n]]
    OBVIOUS
  <2> HIDE DEF f
  <2>4. f = [n \in 0..written |-> e(n)]
    BY <2>2, <2>3
  <2> QED BY <2>4
<1> DEFINE A == CHOOSE f : After(f)
<1>2. After(A)
  <2> HIDE DEF After
  <2> QED BY <1>1
<1>3. Rebuilt(db) = A[written]
  BY DEF Rebuilt
<1>4. RebuildSteps(A, db, written)
  <2> HIDE DEF A
  <2>1. DOMAIN A = 0..written
    BY <1>2
  <2>2. \A n \in 0..written :
          A[n] = IF n = 0 THEN db
                 ELSE GetOrAdd(A[n - 1], Cardinality(DOMAIN A[n - 1]), Keys[chain[n]])
    BY <1>2
  <2>3. 0 \in 0..written /\ \A n \in 1..written : n \in 0..written /\ n # 0
    OBVIOUS
  <2> HIDE DEF After
  <2> QED BY <2>1, <2>2, <2>3 DEF RebuildSteps
<1> QED BY <1>3, <1>4

(* A dictionary that was built again has what it had, and every key of     *)
(* the lines.                                                              *)
LEMMA RebuiltFacts ==
  ASSUME NEW db, NEW n, Dict(db, n), BaseOK, written = Len(chain)
  PROVE  /\ \E k \in Nat : Dict(Rebuilt(db), k)
         /\ Extends(Rebuilt(db), db)
         /\ \A nr \in DOMAIN chain : \A key \in Keys[chain[nr]] :
              \E i \in DOMAIN Rebuilt(db) : Rebuilt(db)[i] = key
<1> DEFINE Has(d, nr) == \A key \in Keys[chain[nr]] : \E i \in DOMAIN d : d[i] = key
           Good(d, l) == /\ \E k \in Nat : Dict(d, k)
                         /\ Extends(d, db)
                         /\ \A nr \in 1..l : Has(d, nr)
<1>1. written \in Nat /\ DOMAIN chain = 1..written /\ \A nr \in 1..written : chain[nr] \in Message
  BY DEF BaseOK, BlockOK
<1>2. PICK f : RebuildSteps(f, db, written) /\ Rebuilt(db) = f[written]
  BY <1>1, RebuiltSteps
<1> DEFINE S == {l \in 0..written : Good(f[l], l)}
<1>3. 0 \in S
  <2>1. n \in Nat /\ Extends(db, db)
    BY DEF Dict, Extends
  <2>2. Good(db, 0)
    BY <2>1
  <2>3. f[0] = db /\ 0 \in 0..written
    BY <1>1, <1>2 DEF RebuildSteps
  <2> QED BY <2>2, <2>3
<1>4. ASSUME NEW l \in 1..written, l - 1 \in S PROVE l \in S
  <2> DEFINE d == f[l - 1]
             r == f[l]
  <2>1. Good(d, l - 1)
    BY <1>4
  <2> HIDE DEF Good
  <2>2. PICK k \in Nat : Dict(d, k)
    BY <2>1 DEF Good
  <2>3. r = GetOrAdd(d, k, Keys[chain[l]]) /\ chain[l] \in Message
    <3>1. Cardinality(DOMAIN d) = k
      BY <2>2, DictIsSmall
    <3> QED BY <1>1, <1>2, <3>1 DEF RebuildSteps
  <2> HIDE DEF d, r
  <2>4. PICK j \in Nat : Dict(r, k + j)
    BY <2>2, <2>3, GetOrAddFacts
  <2>5. Extends(r, d) /\ Has(r, l)
    BY <2>2, <2>3, GetOrAddFacts
  <2>6. k + j \in Nat
    OBVIOUS
  <2>7. Extends(r, db)
    BY <2>1, <2>5 DEF Good, Extends
  <2>8. \A nr \in 1..l : Has(r, nr)
    <3>1. ASSUME NEW nr \in 1..l, nr # l PROVE Has(r, nr)
      <4>1. nr \in 1..l - 1
        BY <1>1, <1>4, <3>1
      <4>2. Has(d, nr)
        BY <2>1, <4>1 DEF Good
      <4> QED BY <2>5, <4>2 DEF Extends
    <3> QED BY <2>5, <3>1
  <2>9. Good(r, l)
    BY <2>4, <2>6, <2>7, <2>8 DEF Good
  <2>10. l \in 0..written
    BY <1>1
  <2> QED BY <2>9, <2>10 DEF r
<1> HIDE DEF S
<1>5. 0..written \subseteq S
  BY <1>1, <1>3, <1>4, UpTo
<1>6. Good(Rebuilt(db), written)
  <2>1. written \in S
    BY <1>1, <1>5
  <2> QED BY <1>2, <2>1 DEF S
<1> QED BY <1>1, <1>6

DictInv ==
  /\ Dict(dictionary, Cardinality(DOMAIN dictionary))
  /\ mLastIndex = IF Up THEN Cardinality(DOMAIN dictionary) ELSE 0
  /\ index \in Seq(SUBSET Nat) /\ Len(index) = IF Up THEN Len(chain) ELSE 0
  /\ \A nr \in DOMAIN index : Names(dictionary, index[nr], Keys[chain[nr]])
  /\ indexFile \in Seq(SUBSET Nat) /\ Len(indexFile) <= written
  /\ \A nr \in DOMAIN indexFile : Names(dictionary, indexFile[nr], Keys[chain[nr]])
  /\ step = "push" => Names(dictionary, entry, Keys[next])

LEMMA InitDict == Init => DictInv
<1> SUFFICES ASSUME Init PROVE DictInv
  OBVIOUS
<1>1. Cardinality(DOMAIN dictionary) = 0 /\ DOMAIN dictionary = {}
  BY FS_EmptySet DEF Init, NoFun
<1> QED BY <1>1 DEF Init, DictInv, Dict, Up

LEMMA ConfirmDict ==
  ASSUME BaseOK, DictInv, Confirm
  PROVE  DictInv'
<1> DEFINE n == Cardinality(DOMAIN dictionary)
           db == GetOrAdd(dictionary, n, Keys[next])
<1>1. /\ Up /\ Up' /\ next \in Message /\ step' = "push" /\ mLastIndex = n
      /\ dictionary' = db /\ entry' = IndicesOf(db, Keys[next])
      /\ mLastIndex' = n + Cardinality(DOMAIN db \ DOMAIN dictionary)
      /\ UNCHANGED <<index, chain, indexFile, written, next>>
  <2>1. mode = "up" /\ next \in 1..MaxMessage /\ mLastIndex = n
    BY Messages DEF Confirm, BaseOK, PlaceOK, DictInv, Up
  <2>2. /\ mode' = "up" /\ step' = "push" /\ dictionary' = GetOrAdd(dictionary, mLastIndex, Keys[next])
        /\ entry' = IndicesOf(dictionary', Keys[next])
        /\ mLastIndex' = mLastIndex + Cardinality(DOMAIN dictionary' \ DOMAIN dictionary)
        /\ UNCHANGED <<index, chain, indexFile, written, next>>
    BY DEF Confirm, block, process
  <2> QED BY <2>1, <2>2, Messages DEF Up
<1>2. Dict(dictionary, n)
  BY DEF DictInv
<1> HIDE DEF n, db
<1>3. PICK k \in Nat : Dict(db, n + k)
  BY <1>1, <1>2, GetOrAddFacts DEF db
<1>4. Extends(db, dictionary) /\ \A key \in Keys[next] : \E i \in DOMAIN db : db[i] = key
  BY <1>1, <1>2, GetOrAddFacts DEF db
<1>5. Cardinality(DOMAIN db) = n + k /\ n \in Nat
  BY <1>2, <1>3, DictIsSmall DEF Dict
<1>6. Cardinality(DOMAIN db \ DOMAIN dictionary) = k
  <2>1. DOMAIN db = 1..n + k /\ DOMAIN dictionary = 1..n
    BY <1>2, <1>3 DEF Dict
  <2>2. (1..n + k) \ (1..n) = (n + 1)..(n + k)
    BY <1>5
  <2>3. Cardinality((n + 1)..(n + k)) = k
    <3>1. PICK a \in Int, b \in Int : a = n + 1 /\ b = n + k
      BY <1>5
    <3>2. Cardinality(a..b) = IF a > b THEN 0 ELSE b - a + 1
      BY FS_Interval
    <3> QED BY <1>5, <3>1, <3>2
  <2> QED BY <2>1, <2>2, <2>3
<1>7. Names(db, entry', Keys[next])
  BY <1>1, <1>4, IndicesName
<1>8. Dict(dictionary', Cardinality(DOMAIN dictionary')) /\ mLastIndex' = Cardinality(DOMAIN dictionary')
  BY <1>1, <1>3, <1>5, <1>6
<1>9. /\ \A nr \in DOMAIN index : Names(db, index[nr], Keys[chain[nr]])
      /\ \A nr \in DOMAIN indexFile : Names(db, indexFile[nr], Keys[chain[nr]])
  BY <1>4, NamesKept DEF DictInv
<1> QED BY <1>1, <1>7, <1>8, <1>9 DEF DictInv

LEMMA PushDict ==
  ASSUME BaseOK, DictInv, PushTransaction
  PROVE  DictInv'
<1>1. /\ Up /\ Up' /\ next \in Message /\ step' = "past" /\ step = "push"
      /\ chain' = Append(chain, next) /\ index' = Append(index, entry)
      /\ UNCHANGED <<dictionary, mLastIndex, indexFile, written>>
  BY DEF PushTransaction, BaseOK, PlaceOK, Up, files
<1>2. chain \in Seq(Message) /\ index \in Seq(SUBSET Nat) /\ Len(index) = Len(chain) /\ written <= Len(chain)
  BY <1>1 DEF BaseOK, BlockOK, DictInv
<1>3. Names(dictionary, entry, Keys[next]) /\ entry \in SUBSET Nat
  <2>1. DOMAIN dictionary \subseteq Nat
    BY DEF DictInv, Dict
  <2> QED BY <1>1, <2>1 DEF DictInv, Names
<1>4. /\ index' \in Seq(SUBSET Nat) /\ Len(index') = Len(chain')
      /\ \A nr \in DOMAIN index : index'[nr] = index[nr] /\ chain'[nr] = chain[nr]
      /\ \A nr \in DOMAIN index' : nr \in DOMAIN index \/ (index'[nr] = entry /\ chain'[nr] = next)
  BY <1>1, <1>2, <1>3
<1>5. \A nr \in DOMAIN index' : Names(dictionary, index'[nr], Keys[chain'[nr]])
  BY <1>3, <1>4 DEF DictInv
<1>6. \A nr \in DOMAIN indexFile : nr \in DOMAIN index
  BY <1>2 DEF DictInv, BaseOK, BlockOK
<1>7. \A nr \in DOMAIN indexFile : Names(dictionary, indexFile[nr], Keys[chain'[nr]])
  BY <1>4, <1>6 DEF DictInv
<1> QED BY <1>1, <1>4, <1>5, <1>7 DEF DictInv

LEMMA CrashDict ==
  ASSUME BaseOK, DictInv, Crash
  PROVE  DictInv'
<1>1. /\ ~Up' /\ chain' = SubSeq(chain, 1, written) /\ index' = <<>> /\ mLastIndex' = 0
      /\ step' = "begin" /\ UNCHANGED <<dictionary, indexFile, written>>
  BY DEF Crash, files, Up
<1>2. \A i \in 1..written : chain'[i] = chain[i]
  BY <1>1, Beginning DEF BaseOK, BlockOK
<1>3. DOMAIN indexFile \subseteq 1..written
  BY DEF DictInv, BaseOK, BlockOK
<1>4. \A nr \in DOMAIN indexFile : Names(dictionary, indexFile[nr], Keys[chain'[nr]])
  BY <1>2, <1>3 DEF DictInv
<1>5. index' \in Seq(SUBSET Nat) /\ Len(index') = 0 /\ DOMAIN index' = {}
  BY <1>1
<1>6. /\ Dict(dictionary', Cardinality(DOMAIN dictionary')) /\ indexFile' \in Seq(SUBSET Nat)
      /\ Len(indexFile') <= written'
  BY <1>1 DEF DictInv
<1>7. \A nr \in DOMAIN indexFile' : Names(dictionary', indexFile'[nr], Keys[chain'[nr]])
  BY <1>1, <1>4
<1>8. \A nr \in DOMAIN index' : Names(dictionary', index'[nr], Keys[chain'[nr]])
  BY <1>5
<1>9. /\ mLastIndex' = IF Up' THEN Cardinality(DOMAIN dictionary') ELSE 0
      /\ Len(index') = IF Up' THEN Len(chain') ELSE 0
      /\ step' # "push"
  BY <1>1, <1>5
<1> QED BY <1>5, <1>6, <1>7, <1>8, <1>9 DEF DictInv

LEMMA StartDict ==
  ASSUME BaseOK, DictInv, NEW bad \in Db \cup {"none"}, Start(bad) \/ StartFails(bad)
  PROVE  DictInv'
<1>1. /\ ~Up /\ step = "begin" /\ written = Len(chain)
      /\ UNCHANGED <<written, chain, step>>
  BY StartingBase DEF Start, StartFails
<1> DEFINE db == IF bad = "dictionary" THEN NoFun ELSE dictionary
<1>2. \E n \in Nat : Dict(db, n)
  <2>1. Dict(NoFun, 0)
    BY DEF Dict, NoFun
  <2> QED BY <2>1 DEF DictInv, Dict
<1> HIDE DEF db
<1>3. PICK k \in Nat : Dict(Rebuilt(db), k)
  BY <1>1, <1>2, RebuiltFacts
<1>4. \A nr \in DOMAIN chain : \A key \in Keys[chain[nr]] :
        \E i \in DOMAIN Rebuilt(db) : Rebuilt(db)[i] = key
  BY <1>1, <1>2, RebuiltFacts
<1>5. Cardinality(DOMAIN Rebuilt(db)) = k
  BY <1>3, DictIsSmall
<1>6. \A nr \in DOMAIN chain : Names(Rebuilt(db), IndicesOf(Rebuilt(db), Keys[chain[nr]]), Keys[chain[nr]])
  BY <1>4, IndicesName
<1>7. CASE Start(bad)
  <2>1. Up' /\ InitDictionary(bad)
    BY <1>7 DEF Start, Up
  <2>2. mLastIndex' = Cardinality(DOMAIN dictionary')
    BY <2>1 DEF InitDictionary
  <2>3. CASE ResetBlockIndices(bad) \/ Len(indexFile) # written
    <3>1. /\ dictionary' = Rebuilt(db) /\ indexFile' = <<>>
          /\ index' = [nr \in 1..written |-> IndicesOf(dictionary', Keys[chain[nr]])]
      BY <2>1, <2>3 DEF InitDictionary, db
    <3>2. DOMAIN chain = 1..written /\ written \in Nat
      BY <1>1 DEF BaseOK, BlockOK
    <3>3. \A nr \in 1..written : index'[nr] = IndicesOf(Rebuilt(db), Keys[chain[nr]]) /\ index'[nr] \in SUBSET Nat
      <4>1. DOMAIN Rebuilt(db) \subseteq Nat
        BY <1>3 DEF Dict
      <4> QED BY <3>1, <4>1 DEF IndicesOf
    <3>4. index' \in Seq(SUBSET Nat) /\ Len(index') = written /\ DOMAIN index' = 1..written
      <4>1. index' \in [1..written -> SUBSET Nat]
        BY <3>1, <3>3
      <4> QED BY <3>2, <4>1
    <3>5. \A nr \in DOMAIN index' : Names(dictionary', index'[nr], Keys[chain[nr]])
      BY <1>6, <3>1, <3>2, <3>3, <3>4
    <3>6. indexFile' \in Seq(SUBSET Nat) /\ Len(indexFile') = 0 /\ DOMAIN indexFile' = {}
      BY <3>1
    <3> QED BY <1>1, <1>3, <1>5, <2>1, <2>2, <3>1, <3>2, <3>4, <3>5, <3>6 DEF DictInv
  <2>4. CASE ~ResetBlockIndices(bad) /\ Len(indexFile) = written
    <3>1. dictionary' = dictionary /\ indexFile' = indexFile /\ index' = indexFile
      BY <2>1, <2>4 DEF InitDictionary, ResetBlockIndices
    <3> QED BY <1>1, <2>1, <2>2, <2>4, <3>1 DEF DictInv
  <2> QED BY <2>3, <2>4
<1>8. CASE StartFails(bad)
  <2>1. ~Up' /\ UNCHANGED <<index, mLastIndex>>
    BY <1>8 DEF StartFails, Up
  <2>2. CASE bad = "dictionary"
    <3>1. dictionary' = Rebuilt(db) /\ indexFile' = <<>>
      BY <1>8, <2>2 DEF StartFails, db
    <3>2. indexFile' \in Seq(SUBSET Nat) /\ Len(indexFile') = 0 /\ DOMAIN indexFile' = {}
      BY <3>1
    <3>3. index = <<>> /\ DOMAIN index = {} /\ 0 <= written
      BY <1>1 DEF DictInv, BaseOK, BlockOK
    <3> QED BY <1>1, <1>3, <1>5, <2>1, <3>1, <3>2, <3>3 DEF DictInv
  <2>3. CASE bad # "dictionary"
    BY <1>1, <1>8, <2>1, <2>3 DEF StartFails, DictInv
  <2> QED BY <2>2, <2>3
<1> QED BY <1>7, <1>8

LEMMA NextDict == BaseOK /\ DictInv /\ [Next]_vars => DictInv'
<1> SUFFICES ASSUME BaseOK, DictInv, [Next]_vars PROVE DictInv'
  OBVIOUS
<1>1. ASSUME UNCHANGED <<dictionary, mLastIndex, mode, chain, index, indexFile, written, next, entry>>,
             step' # "push" \/ step' = step
      PROVE  DictInv'
  BY <1>1 DEF DictInv, Up
<1>2. CASE UNCHANGED vars
  BY <1>1, <1>2 DEF vars, files, block, process
<1>3. CASE Confirm
  BY <1>3, ConfirmDict
<1>4. CASE PushTransaction
  BY <1>4, PushDict
<1>5. CASE Refuse
  BY <1>1, <1>5 DEF Refuse, files, block, process
<1>6. CASE RunPastAddToBlockchain
  <2>1. step' # "push"
    BY <1>6 DEF RunPastAddToBlockchain, Defer, Redeem, AddTransactionTriggerEvent,
                RemoveTransactionTriggerEvent
  <2> QED BY <1>1, <1>6, <2>1 DEF RunPastAddToBlockchain, block, process
<1>7. CASE PushHash
  BY <1>1, <1>7 DEF PushHash, files, block, process
<1>8. CASE AddId
  BY <1>1, <1>8 DEF AddId, block, process
<1>9. CASE Persist
  BY <1>9 DEF Persist, block, process, DictInv, Up
<1>10. CASE Write
  <2>1. /\ Up /\ Up' /\ written' = Len(chain) /\ indexFile' = index
        /\ UNCHANGED <<dictionary, mLastIndex, chain, index, step, next, entry>>
    BY <1>10 DEF Write, block, process, Up
  <2> QED BY <2>1 DEF DictInv, BaseOK, BlockOK
<1>11. CASE Crash
  BY <1>11, CrashDict
<1>12. CASE \/ \E m \in Message : FindByMessageId(m) \/ ExpireId(m)
            \/ \E nr \in hashes : ExpireHash(nr)
  BY <1>1, <1>12 DEF FindByMessageId, ExpireId, ExpireHash, files, block, process
<1>13. CASE \E bad \in Db \cup {"none"} : Start(bad) \/ StartFails(bad)
  BY <1>13, StartDict
<1> QED BY <1>2, <1>3, <1>4, <1>5, <1>6, <1>7, <1>8, <1>9, <1>10, <1>11, <1>12, <1>13 DEF Next

LEMMA DictAlways == Spec => [](BaseOK /\ DictInv)
<1>1. Init => BaseOK /\ DictInv
  BY InitBase, InitDict
<1>2. BaseOK /\ DictInv /\ [Next]_vars => (BaseOK /\ DictInv)'
  BY NextBase, NextDict
<1> QED BY <1>1, <1>2, PTL DEF Spec

(***************************************************************************)
(* Every variable keeps its type: the dictionary and the last index never  *)
(* exceed the number of public keys there are, whatever was lost and built *)
(* again, so no key ever has two indices.                                  *)
(***************************************************************************)
THEOREM TypeCorrect == Spec => []TypeOK
<1>1. BaseOK /\ DictInv => TypeOK
  <2> SUFFICES ASSUME BaseOK, DictInv PROVE TypeOK
    OBVIOUS
  <2> DEFINE n == Cardinality(DOMAIN dictionary)
  <2>1. Dict(dictionary, n) /\ mLastIndex = IF Up THEN n ELSE 0
    BY DEF DictInv
  <2>2. n \in Nat /\ n <= Cardinality(Key) /\ Cardinality(Key) \in Nat
    BY <2>1, DictIsSmall, KeyFacts DEF Dict
  <2> HIDE DEF n
  <2>3. \A i \in DOMAIN dictionary : i \in 1..Cardinality(Key) /\ dictionary[i] \in Key
    BY <2>1, <2>2 DEF Dict
  <2>4. mLastIndex \in 0..Cardinality(Key)
    BY <2>1, <2>2
  <2>5. Len(index) = IF mode = "up" THEN Len(chain) ELSE 0
    BY DEF DictInv, Up
  <2>6. DOMAIN ids \subseteq Message
    BY DEF BaseOK, IdsOK
  <2> QED BY <2>3, <2>4, <2>5, <2>6 DEF TypeOK, BaseOK, EventsOK, BlockOK, IdsOK, PlaceOK, ProcessOK
<1> QED BY <1>1, DictAlways, PTL

(***************************************************************************)
(* The indices in the index of the block stand for the public keys of the  *)
(* transaction, one each (IndicesNameKeys): also when the dictionary was   *)
(* lost and built again from lines of which it knows a part, and when the  *)
(* write task did not come to the index file.                              *)
(***************************************************************************)
THEOREM AddressesFound == Spec => []IndicesNameKeys
<1>1. BaseOK /\ DictInv => IndicesNameKeys
  <2> SUFFICES ASSUME BaseOK, DictInv, Up, NEW nr \in DOMAIN chain
               PROVE  /\ index[nr] \subseteq DOMAIN dictionary
                      /\ {dictionary[i] : i \in index[nr]} = Keys[chain[nr]]
                      /\ Cardinality(index[nr]) = Cardinality(Keys[chain[nr]])
    BY DEF IndicesNameKeys, Up
  <2>1. nr \in DOMAIN index /\ chain[nr] \in Message
    BY DEF BaseOK, BlockOK, DictInv
  <2>2. Names(dictionary, index[nr], Keys[chain[nr]])
    BY <2>1 DEF DictInv
  <2>3. Dict(dictionary, Cardinality(DOMAIN dictionary))
    BY DEF DictInv
  <2>4. IsFiniteSet(Keys[chain[nr]])
    BY <2>1, KeyFacts
  <2>5. Cardinality(index[nr]) = Cardinality(Keys[chain[nr]])
    BY <2>2, <2>3, <2>4, NamesOneEach
  <2> QED BY <2>2, <2>5 DEF Names
<1> QED BY <1>1, DictAlways, PTL

-----------------------------------------------------------------------------
(***************************************************************************)
(* The chain.  What may follow in a chain of transactions depends on the   *)
(* transactions before it only, not on the caches: that is why a chain     *)
(* that was cut by a crash grows again as it was.                          *)
(***************************************************************************)
Last(c) == IF c = <<>> THEN 0 ELSE c[Len(c)]

OpenAt(c, n) ==
  {d \in Deferred : (\E i \in 1..n : c[i] = d) /\ (\A i \in 1..n : Redeems[c[i]] # d)}

Acceptable(c, n, m) ==
  /\ InTime(m)
  /\ \A i \in 1..n : Signature[c[i]] # Signature[m]
  /\ Redeems[m] = 0 \/ Redeems[m] \in OpenAt(c, n)

Passed(c, n, k, l) == \A m \in Message : k < m /\ m < l => ~Acceptable(c, n, m)

Increasing(c) == \A i, j \in 1..Len(c) : i < j => c[i] < c[j]

IsChain(c) ==
  /\ c \in Seq(Message) /\ Increasing(c)
  /\ \A i \in 1..Len(c) : Acceptable(c, i - 1, c[i])
  /\ \A i \in 2..Len(c) : Passed(c, i - 1, c[i - 1], c[i])

FromFirst(c) == c # <<>> => Passed(c, 0, 0, c[1])

Agree(c, d, n) == \A i \in 1..n : c[i] = d[i]

LEMMA AgreeFacts ==
  ASSUME NEW c, NEW d, NEW n, Agree(c, d, n)
  PROVE  /\ OpenAt(c, n) = OpenAt(d, n)
         /\ \A m : Acceptable(c, n, m) <=> Acceptable(d, n, m)
         /\ \A k, l : Passed(c, n, k, l) <=> Passed(d, n, k, l)
<1>1. OpenAt(c, n) = OpenAt(d, n)
  BY DEF Agree, OpenAt
<1>2. \A m : Acceptable(c, n, m) <=> Acceptable(d, n, m)
  BY <1>1 DEF Agree, Acceptable
<1> QED BY <1>1, <1>2 DEF Passed

LEMMA LastFacts ==
  ASSUME NEW c \in Seq(Message)
  PROVE  /\ Last(c) \in 0..MaxMessage
         /\ Last(c) = 0 => c = <<>>
         /\ c # <<>> => Len(c) \in 1..Len(c) /\ c[Len(c)] = Last(c) /\ Last(c) \in Message
<1>1. CASE c = <<>>
  BY <1>1, Messages DEF Last
<1>2. CASE c # <<>>
  <2>1. Len(c) \in 1..Len(c) /\ c[Len(c)] \in Message
    BY <1>2
  <2> QED BY <1>2, <2>1, Messages DEF Last
<1> QED BY <1>1, <1>2

LEMMA LastIsGreatest ==
  ASSUME NEW c \in Seq(Message), Increasing(c), NEW i \in 1..Len(c)
  PROVE  c[i] <= Last(c) /\ c[i] \in Message /\ (i # Len(c) => c[i] < Last(c))
<1>1. c # <<>> /\ Last(c) = c[Len(c)] /\ Len(c) \in 1..Len(c)
  BY LastFacts
<1>2. c[i] \in Message /\ c[Len(c)] \in Message
  BY <1>1
<1>3. i # Len(c) => c[i] < c[Len(c)]
  BY <1>1 DEF Increasing
<1> QED BY <1>1, <1>2, <1>3, Messages

(* The beginning of a chain is a chain.                                    *)
LEMMA CutChain ==
  ASSUME NEW c \in Seq(Message), NEW n \in 0..Len(c)
  PROVE  /\ SubSeq(c, 1, n) \in Seq(Message) /\ Len(SubSeq(c, 1, n)) = n
         /\ \A k \in 0..n : Agree(SubSeq(c, 1, n), c, k)
         /\ Increasing(c) => Increasing(SubSeq(c, 1, n)) /\ Last(SubSeq(c, 1, n)) <= Last(c)
         /\ IsChain(c) => IsChain(SubSeq(c, 1, n))
         /\ FromFirst(c) => FromFirst(SubSeq(c, 1, n))
<1> DEFINE d == SubSeq(c, 1, n)
<1>1. d \in Seq(Message) /\ Len(d) = n /\ \A i \in 1..n : d[i] = c[i]
  BY Beginning
<1> HIDE DEF d
<1>2. \A k \in 0..n : Agree(d, c, k)
  BY <1>1 DEF Agree
<1>3. \A i \in 1..n : i \in 1..Len(c)
  OBVIOUS
<1>4. ASSUME Increasing(c) PROVE Increasing(d) /\ Last(d) <= Last(c)
  <2>1. Increasing(d)
    BY <1>1, <1>3, <1>4 DEF Increasing
  <2>2. CASE d = <<>>
    BY <2>1, <2>2, LastFacts, Messages DEF Last
  <2>3. CASE d # <<>>
    <3>1. n \in 1..n /\ Last(d) = c[n]
      BY <1>1, <2>3 DEF Last
    <3> QED BY <1>3, <1>4, <2>1, <3>1, LastIsGreatest
  <2> QED BY <2>2, <2>3
<1>5. ASSUME IsChain(c) PROVE IsChain(d)
  <2>1. ASSUME NEW i \in 1..n PROVE Acceptable(d, i - 1, d[i])
    <3>1. i - 1 \in 0..n /\ Acceptable(c, i - 1, c[i])
      BY <1>3, <1>5 DEF IsChain
    <3>2. Agree(d, c, i - 1)
      BY <1>2, <3>1
    <3> QED BY <1>1, <3>1, <3>2, AgreeFacts
  <2>2. ASSUME NEW i \in 2..n PROVE Passed(d, i - 1, d[i - 1], d[i])
    <3>1. i - 1 \in 0..n /\ i - 1 \in 1..n /\ i \in 1..n /\ i \in 2..Len(c)
      OBVIOUS
    <3>2. Agree(d, c, i - 1) /\ Passed(c, i - 1, c[i - 1], c[i])
      BY <1>2, <1>5, <3>1 DEF IsChain
    <3> QED BY <1>1, <3>1, <3>2, AgreeFacts
  <2> QED BY <1>1, <1>4, <1>5, <2>1, <2>2 DEF IsChain
<1>6. ASSUME FromFirst(c) PROVE FromFirst(d)
  <2>1. SUFFICES ASSUME d # <<>> PROVE Passed(d, 0, 0, d[1])
    BY DEF FromFirst
  <2>2. 1 \in 1..n /\ 0 \in 0..n /\ c # <<>>
    BY <1>1, <2>1
  <2>3. Agree(d, c, 0) /\ Passed(c, 0, 0, c[1])
    BY <1>2, <1>6, <2>2 DEF FromFirst
  <2> QED BY <1>1, <2>2, <2>3, AgreeFacts
<1> QED BY <1>1, <1>2, <1>4, <1>5, <1>6 DEF d

(* A chain grows by an acceptable message that comes after none that was   *)
(* passed over wrongly.                                                    *)
LEMMA GrowChain ==
  ASSUME NEW c \in Seq(Message), NEW m \in Message, Last(c) < m, Increasing(c)
  PROVE  /\ Append(c, m) \in Seq(Message) /\ Len(Append(c, m)) = Len(c) + 1
         /\ Last(Append(c, m)) = m /\ Append(c, m)[Len(c) + 1] = m
         /\ \A k \in 0..Len(c) : Agree(Append(c, m), c, k)
         /\ Increasing(Append(c, m))
         /\ IsChain(c) /\ Acceptable(c, Len(c), m) /\ (c # <<>> => Passed(c, Len(c), Last(c), m))
              => IsChain(Append(c, m))
         /\ FromFirst(c) /\ (c = <<>> => Passed(c, 0, 0, m)) => FromFirst(Append(c, m))
<1> DEFINE d == Append(c, m)
           n == Len(c)
<1>1. /\ d \in Seq(Message) /\ Len(d) = n + 1 /\ d # <<>> /\ d[n + 1] = m
      /\ \A i \in 1..n : d[i] = c[i]
  OBVIOUS
<1>2. n \in Nat
  OBVIOUS
<1> HIDE DEF d
<1>3. \A k \in 0..n : Agree(d, c, k)
  BY <1>1, <1>2 DEF Agree
<1>4. Last(d) = m
  BY <1>1 DEF Last
<1>5. Increasing(d)
  <2>1. ASSUME NEW i \in 1..n + 1, NEW j \in 1..n + 1, i < j PROVE d[i] < d[j]
    <3>1. i \in 1..n
      BY <1>2, <2>1
    <3>2. CASE j = n + 1
      <4>1. c[i] <= Last(c) /\ c[i] \in Message
        BY <3>1, LastIsGreatest
      <4> QED BY <1>1, <3>1, <3>2, <4>1, LastFacts, Messages
    <3>3. CASE j # n + 1
      <4>1. j \in 1..n
        BY <1>2, <3>3
      <4> QED BY <1>1, <2>1, <3>1, <4>1 DEF Increasing
    <3> QED BY <3>2, <3>3
  <2> QED BY <1>1, <2>1 DEF Increasing
<1>6. ASSUME IsChain(c), Acceptable(c, n, m), c # <<>> => Passed(c, n, Last(c), m)
      PROVE  IsChain(d)
  <2>1. ASSUME NEW i \in 1..n + 1 PROVE Acceptable(d, i - 1, d[i])
    <3>1. i - 1 \in 0..n /\ Agree(d, c, i - 1)
      BY <1>2, <1>3
    <3>2. Acceptable(c, i - 1, d[i])
      <4>1. CASE i = n + 1
        BY <1>1, <1>2, <1>6, <4>1
      <4>2. CASE i # n + 1
        <5>1. i \in 1..n
          BY <1>2, <4>2
        <5> QED BY <1>1, <1>6, <5>1 DEF IsChain
      <4> QED BY <4>1, <4>2
    <3> QED BY <3>1, <3>2, AgreeFacts
  <2>2. ASSUME NEW i \in 2..n + 1 PROVE Passed(d, i - 1, d[i - 1], d[i])
    <3>1. i - 1 \in 0..n /\ i - 1 \in 1..n /\ Agree(d, c, i - 1) /\ d[i - 1] = c[i - 1]
      BY <1>1, <1>2, <1>3
    <3>2. Passed(c, i - 1, c[i - 1], d[i])
      <4>1. CASE i = n + 1
        <5>1. c # <<>> /\ i - 1 = n
          BY <1>2, <3>1, <4>1
        <5>2. c[i - 1] = Last(c)
          BY <5>1 DEF Last
        <5> QED BY <1>1, <1>6, <4>1, <5>1, <5>2
      <4>2. CASE i # n + 1
        <5>1. i \in 1..n /\ i \in 2..n
          BY <1>2, <4>2
        <5> QED BY <1>1, <1>6, <5>1 DEF IsChain
      <4> QED BY <4>1, <4>2
    <3> QED BY <3>1, <3>2, AgreeFacts
  <2> QED BY <1>1, <1>5, <2>1, <2>2 DEF IsChain
<1>7. ASSUME FromFirst(c), c = <<>> => Passed(c, 0, 0, m) PROVE FromFirst(d)
  <2>1. Agree(d, c, 0)
    BY <1>2, <1>3
  <2>2. Passed(c, 0, 0, d[1])
    <3>1. CASE c = <<>>
      BY <1>1, <1>7, <3>1
    <3>2. CASE c # <<>>
      <4>1. 1 \in 1..n
        BY <1>2, <3>2
      <4> QED BY <1>1, <1>7, <3>2, <4>1 DEF FromFirst
    <3> QED BY <3>1, <3>2
  <2> QED BY <2>1, <2>2, AgreeFacts DEF FromFirst
<1> QED BY <1>1, <1>3, <1>4, <1>5, <1>6, <1>7 DEF d

(* Two chains that agree on n transactions agree on the next, unless it is *)
(* the first of one that lost its beginning.                               *)
LEMMA SameNext ==
  ASSUME NEW c, NEW d, IsChain(c), IsChain(d), NEW n \in Nat, n < Len(c), n < Len(d),
         Agree(c, d, n), n > 0 \/ (FromFirst(c) /\ FromFirst(d))
  PROVE  c[n + 1] = d[n + 1] /\ Agree(c, d, n + 1)
<1>1. ASSUME NEW a, NEW b, IsChain(a), IsChain(b), n < Len(a), n < Len(b),
             Agree(a, b, n), n > 0 \/ FromFirst(b)
      PROVE  ~(a[n + 1] < b[n + 1])
  <2>1. n + 1 \in 1..Len(a) /\ n + 1 \in 1..Len(b) /\ (n + 1) - 1 = n /\ a[n + 1] \in Message
    BY <1>1 DEF IsChain
  <2>2. Acceptable(b, n, a[n + 1])
    <3>1. Acceptable(a, n, a[n + 1])
      BY <1>1, <2>1 DEF IsChain
    <3> QED BY <1>1, <3>1, AgreeFacts
  <2>3. CASE n > 0
    <3>1. n \in 1..n /\ n \in 1..Len(a) /\ n + 1 \in 2..Len(b)
      BY <1>1, <2>1, <2>3
    <3>2. a[n] < a[n + 1] /\ a[n] = b[n]
      BY <1>1, <2>1, <3>1 DEF IsChain, Increasing, Agree
    <3>3. Passed(b, n, b[n], b[n + 1])
      BY <1>1, <2>1, <3>1 DEF IsChain
    <3> QED BY <2>1, <2>2, <3>2, <3>3 DEF Passed
  <2>4. CASE n = 0
    <3>1. b # <<>>
      BY <1>1, <2>4
    <3>2. Passed(b, 0, 0, b[1]) /\ a[1] \in Message /\ Acceptable(b, 0, a[1])
      BY <1>1, <2>1, <2>2, <2>4, <3>1 DEF FromFirst
    <3>3. 0 < a[1]
      BY <3>2, Messages
    <3>4. ~(a[1] < b[1])
      BY <3>2, <3>3 DEF Passed
    <3> QED BY <2>4, <3>4
  <2> QED BY <2>3, <2>4
<1>2. Agree(d, c, n)
  BY DEF Agree
<1>3. ~(c[n + 1] < d[n + 1]) /\ ~(d[n + 1] < c[n + 1])
  BY <1>1, <1>2
<1>4. c[n + 1] \in Message /\ d[n + 1] \in Message
  BY DEF IsChain
<1>5. c[n + 1] = d[n + 1]
  BY <1>3, <1>4, Messages
<1>6. \A i \in 1..n + 1 : i \in 1..n \/ i = n + 1
  OBVIOUS
<1> QED BY <1>5, <1>6 DEF Agree

(* Two chains from the first message: one is the beginning of the other.   *)
LEMMA OneChain ==
  ASSUME NEW c, NEW d, IsChain(c), IsChain(d), FromFirst(c), FromFirst(d),
         NEW n \in Nat, n <= Len(c), n <= Len(d)
  PROVE  Agree(c, d, n)
<1> DEFINE S == {k \in 0..n : Agree(c, d, k)}
<1>1. 0 \in S
  BY DEF Agree
<1>2. ASSUME NEW k \in 1..n, k - 1 \in S PROVE k \in S
  <2>1. k - 1 \in Nat /\ k - 1 < Len(c) /\ k - 1 < Len(d) /\ Agree(c, d, k - 1) /\ (k - 1) + 1 = k
    BY <1>2 DEF IsChain
  <2>2. Agree(c, d, (k - 1) + 1)
    BY <2>1, SameNext
  <2> QED BY <2>1, <2>2
<1> HIDE DEF S
<1>3. 0..n \subseteq S
  BY <1>1, <1>2, UpTo
<1> QED BY <1>3 DEF S

(* Messages are numbered, so a chain that comes n transactions later comes *)
(* n messages later at least.                                              *)
LEMMA Spread ==
  ASSUME NEW c \in Seq(Message), Increasing(c), NEW i \in 1..Len(c)
  PROVE  Len(c) - i <= Last(c) - c[i]
<1> DEFINE n == Len(c) - i
           S == {k \in 0..n : k <= c[i + k] - c[i]}
<1>1. n \in Nat /\ \A k \in 0..n : i + k \in 1..Len(c) /\ c[i + k] \in Message
  OBVIOUS
<1>2. \A k \in 0..n : c[i + k] \in Nat
  BY <1>1, Messages
<1>3. 0 \in S
  <2>1. i + 0 = i /\ 0 \in 0..n
    BY <1>1
  <2>2. c[i] \in Nat
    BY <1>2, <2>1
  <2>3. 0 <= c[i] - c[i]
    BY <2>2
  <2> QED BY <2>1, <2>3
<1>4. ASSUME NEW k \in 1..n, k - 1 \in S PROVE k \in S
  <2>1. k - 1 \in 0..n /\ k \in 0..n /\ i + (k - 1) < i + k
    BY <1>1
  <2>2. i + (k - 1) \in 1..Len(c) /\ i + k \in 1..Len(c)
    BY <1>1, <2>1
  <2>3. c[i + (k - 1)] < c[i + k]
    BY <2>1, <2>2 DEF Increasing
  <2>4. k - 1 <= c[i + (k - 1)] - c[i]
    BY <1>4
  <2>5. PICK a \in Nat, b \in Nat, e \in Nat : a = c[i + (k - 1)] /\ b = c[i + k] /\ e = c[i]
    <3>1. i + 0 = i /\ 0 \in 0..n
      BY <1>1
    <3> QED BY <1>2, <2>1, <3>1
  <2>6. k <= b - e
    BY <2>3, <2>4, <2>5
  <2> QED BY <2>1, <2>5, <2>6
<1>5. 0..n \subseteq S
  <2> HIDE DEF S, n
  <2> QED BY <1>1, <1>3, <1>4, UpTo
<1>6. n \in S
  <2> HIDE DEF S
  <2>1. n \in 0..n
    BY <1>1
  <2> QED BY <1>5, <2>1
<1>7. n <= c[i + n] - c[i]
  BY <1>6
<1>8. i + n = Len(c) /\ c # <<>>
  OBVIOUS
<1> QED BY <1>7, <1>8 DEF Last

-----------------------------------------------------------------------------
(***************************************************************************)
(* While the db of the events can be opened, the signatures in memory tell *)
(* what all signatures would tell, but for those that were forgotten.  If  *)
(* none was, the chain holds every message that was acceptable when it was *)
(* that message's turn and no other, and while the beginning was not lost, *)
(* that goes for the messages before the first transaction, too.           *)
(***************************************************************************)
EventsKept == "events" \notin mishaps
BeginningKept == "beginning" \notin mishaps
Orderly == EventsKept /\ forgotten = {}

SignedOnce ==
  \A i, j \in 1..Len(chain) :
    i < j /\ Signature[chain[i]] = Signature[chain[j]] => Signature[chain[j]] \in forgotten

ChainOK ==
  /\ Increasing(chain) /\ Last(chain) <= seen
  /\ EventsKept => SignedOnce
  /\ Orderly => IsChain(chain) /\ (BeginningKept => FromFirst(chain))

Cached ==
  EventsKept /\ Up =>
    /\ eventsInit
    /\ \A nr \in 1..Len(chain) :
         next - chain[nr] < Window =>
           \/ nr \in hashes \/ Signature[chain[nr]] \in forgotten
           \/ step \in {"past", "hash"} /\ nr = Len(chain)
    /\ step \in {"past", "hash"} => Len(chain) \notin hashes
    /\ step \in {"push", "past", "hash"} =>
         \A nr \in hashes : Signature[chain[nr]] # Signature[next]

Position ==
  Up =>
    /\ step \in {"begin", "push"} => Last(chain) < next
    /\ step = "push" /\ EventsKept =>
         \A i \in 1..Len(chain) :
           Signature[chain[i]] = Signature[next] => Signature[next] \in forgotten
    /\ step = "push" /\ Orderly => Acceptable(chain, Len(chain), next)
    /\ step = "persist" =>
         \/ Last(chain) = next
         \/ Last(chain) < next /\ (Orderly => ~Acceptable(chain, Len(chain), next))
    /\ Orderly /\ (chain # <<>> \/ BeginningKept) =>
         Passed(chain, Len(chain), Last(chain), next)

ChainInv == ChainOK /\ Cached /\ Position

LEMMA InitChain == Init => ChainInv
<1> SUFFICES ASSUME Init PROVE ChainInv
  OBVIOUS
<1>1. chain = <<>> /\ seen = 0 /\ ~Up
  BY DEF Init, Up
<1> QED BY <1>1 DEF ChainInv, ChainOK, Cached, Position, Increasing, Last, IsChain, FromFirst,
                    SignedOnce

(* The signatures in memory tell what all signatures would tell.           *)
LEMMA ValidIsNew ==
  ASSUME BaseOK, ChainInv, EventsKept, Up, step = "begin", next \in Message, Valid(next),
         NEW i \in 1..Len(chain), Signature[chain[i]] = Signature[next]
  PROVE  Signature[next] \in forgotten
<1>1. chain[i] \in Message /\ chain[i] < next
  <2>1. chain \in Seq(Message)
    BY DEF BaseOK, BlockOK
  <2> QED BY <2>1, LastIsGreatest, LastFacts, Messages DEF ChainInv, ChainOK, Position
<1>2. chain[i] \in 1..next
  BY <1>1, Messages
<1>3. next - chain[i] < Window
  BY <1>2 DEF Valid, InTime
<1>4. i \notin hashes
  BY DEF Valid, IsTransactionExist
<1> QED BY <1>3, <1>4 DEF ChainInv, Cached

LEMMA ValidIsAcceptable ==
  ASSUME BaseOK, ChainInv, Orderly, Up, step = "begin", next \in Message
  PROVE  Valid(next) <=> Acceptable(chain, Len(chain), next)
<1>1. DOMAIN chain = 1..Len(chain) /\ chain \in Seq(Message) /\ hashes \subseteq 1..Len(chain)
  BY DEF BaseOK, BlockOK
<1>2. Open(chain) = OpenAt(chain, Len(chain))
  BY <1>1 DEF Open, OpenAt
<1>3. ASSUME Valid(next), NEW i \in 1..Len(chain), Signature[chain[i]] = Signature[next] PROVE FALSE
  BY <1>3, ValidIsNew DEF Orderly
<1> QED BY <1>1, <1>2, <1>3 DEF Valid, Acceptable, IsTransactionExist

LEMMA ConfirmChain ==
  ASSUME BaseOK, ChainInv, Confirm \/ Refuse
  PROVE  ChainInv'
<1>1. /\ Up /\ Up' /\ step = "begin" /\ next \in Message
      /\ UNCHANGED <<chain, seen, mishaps, forgotten, next, hashes, eventsInit>>
  <2>1. mode = "up" /\ step = "begin" /\ next \in 1..MaxMessage
    BY Messages DEF Confirm, Refuse, BaseOK, PlaceOK, Up
  <2> QED BY <2>1, Messages DEF Confirm, Refuse, files, block, eventCache, process, Up
<1>2. (Confirm /\ Valid(next) /\ step' = "push") \/ (Refuse /\ ~Valid(next) /\ step' = "persist")
  BY DEF Confirm, Refuse
<1>3. ChainOK'
  BY <1>1 DEF ChainInv, ChainOK, EventsKept, BeginningKept, Orderly, SignedOnce
<1>4. Cached'
  <2>1. Valid(next) => \A nr \in hashes : Signature[chain[nr]] # Signature[next]
    BY DEF Valid, IsTransactionExist
  <2> QED BY <1>1, <1>2, <2>1 DEF ChainInv, Cached, EventsKept
<1>5. Orderly => (Valid(next) <=> Acceptable(chain, Len(chain), next))
  BY <1>1, ValidIsAcceptable
<1>6. Last(chain) < next
  BY <1>1 DEF ChainInv, Position
<1>7. Orderly /\ (chain # <<>> \/ BeginningKept) => Passed(chain, Len(chain), Last(chain), next)
  BY <1>1 DEF ChainInv, Position
<1>8. /\ Last(chain)' = Last(chain) /\ Len(chain)' = Len(chain) /\ next' = next /\ chain' = chain
      /\ forgotten' = forgotten
      /\ Acceptable(chain, Len(chain), next)' <=> Acceptable(chain, Len(chain), next)
      /\ Passed(chain, Len(chain), Last(chain), next)' <=> Passed(chain, Len(chain), Last(chain), next)
      /\ EventsKept' = EventsKept /\ BeginningKept' = BeginningKept /\ Orderly' = Orderly
  BY <1>1 DEF EventsKept, BeginningKept, Orderly
<1>9. step' = "push" /\ EventsKept =>
        \A i \in 1..Len(chain) : Signature[chain[i]] = Signature[next] => Signature[next] \in forgotten
  BY <1>1, <1>2, ValidIsNew
<1>10. Position'
  BY <1>1, <1>2, <1>5, <1>6, <1>7, <1>8, <1>9 DEF Position
<1> QED BY <1>3, <1>4, <1>10 DEF ChainInv

LEMMA PushChain ==
  ASSUME BaseOK, ChainInv, PushTransaction
  PROVE  ChainInv'
<1>1. /\ Up /\ Up' /\ step = "push" /\ step' = "past" /\ next \in Message
      /\ chain' = Append(chain, next) /\ seen' = IF seen < next THEN next ELSE seen
      /\ UNCHANGED <<mishaps, forgotten, next, hashes, eventsInit>>
  BY DEF PushTransaction, BaseOK, PlaceOK, eventCache, Up
<1>2. chain \in Seq(Message) /\ hashes \subseteq 1..Len(chain) /\ seen \in Nat /\ next \in Nat
  BY <1>1, Messages DEF BaseOK, BlockOK, PlaceOK
<1>3. Increasing(chain) /\ Last(chain) < next
  BY <1>1 DEF ChainInv, ChainOK, Position
<1>4. /\ chain' \in Seq(Message) /\ Len(chain') = Len(chain) + 1 /\ Last(chain') = next
      /\ Increasing(chain') /\ \A k \in 0..Len(chain) : Agree(chain', chain, k)
      /\ IsChain(chain) /\ Acceptable(chain, Len(chain), next)
           /\ (chain # <<>> => Passed(chain, Len(chain), Last(chain), next)) => IsChain(chain')
      /\ FromFirst(chain) /\ (chain = <<>> => Passed(chain, 0, 0, next)) => FromFirst(chain')
  BY <1>1, <1>2, <1>3, GrowChain
<1>5. Orderly => IsChain(chain')
  BY <1>1, <1>4 DEF ChainInv, ChainOK, Position
<1>6. Orderly /\ BeginningKept => FromFirst(chain')
  <2>1. SUFFICES ASSUME Orderly, BeginningKept, chain = <<>> PROVE Passed(chain, 0, 0, next)
    BY <1>4 DEF ChainInv, ChainOK
  <2>2. Passed(chain, Len(chain), Last(chain), next) /\ Len(chain) = 0 /\ Last(chain) = 0
    BY <1>1, <2>1 DEF ChainInv, Position, Last
  <2> QED BY <2>2
<1>7. ChainOK'
  <2>1. Last(chain') <= seen'
    BY <1>1, <1>2, <1>4
  <2>2. ASSUME EventsKept, NEW i \in 1..Len(chain'), NEW j \in 1..Len(chain'), i < j,
               Signature[chain'[i]] = Signature[chain'[j]]
        PROVE  Signature[chain'[j]] \in forgotten
    <3>1. Len(chain) \in 0..Len(chain) /\ i \in 1..Len(chain) /\ chain'[i] = chain[i]
      <4>1. Len(chain) \in 0..Len(chain) /\ i \in 1..Len(chain)
        BY <1>2, <1>4, <2>2
      <4> QED BY <1>4, <4>1 DEF Agree
    <3>2. CASE j = Len(chain')
      <4>1. chain'[j] = next
        BY <1>1, <1>2, <1>4, <3>2
      <4> QED BY <1>1, <2>2, <3>1, <4>1 DEF ChainInv, Position
    <3>3. CASE j # Len(chain')
      <4>1. j \in 1..Len(chain) /\ chain'[j] = chain[j]
        <5>1. j \in 1..Len(chain)
          BY <1>2, <1>4, <2>2, <3>3
        <5> QED BY <1>4, <3>1, <5>1 DEF Agree
      <4> QED BY <2>2, <3>1, <4>1 DEF ChainInv, ChainOK, SignedOnce
    <3> QED BY <3>2, <3>3
  <2> QED BY <1>1, <1>4, <1>5, <1>6, <2>1, <2>2 DEF ChainOK, EventsKept, BeginningKept, Orderly, SignedOnce
<1>8. Cached'
  <2>1. SUFFICES ASSUME EventsKept
                 PROVE  /\ eventsInit
                        /\ \A nr \in 1..Len(chain') : next - chain'[nr] < Window =>
                             \/ nr \in hashes \/ Signature[chain'[nr]] \in forgotten \/ nr = Len(chain')
                        /\ Len(chain') \notin hashes
                        /\ \A nr \in hashes : Signature[chain'[nr]] # Signature[next]
    BY <1>1 DEF Cached, EventsKept
  <2>2. ASSUME NEW nr \in 1..Len(chain'), nr # Len(chain'), next - chain'[nr] < Window
        PROVE  nr \in hashes \/ Signature[chain'[nr]] \in forgotten
    <3>1. Len(chain) \in 0..Len(chain) /\ nr \in 1..Len(chain)
      BY <1>2, <1>4, <2>2
    <3>2. chain'[nr] = chain[nr]
      BY <1>4, <3>1 DEF Agree
    <3> QED BY <1>1, <2>1, <2>2, <3>1, <3>2 DEF ChainInv, Cached
  <2>3. Len(chain') \notin hashes
    BY <1>2, <1>4
  <2>4. ASSUME NEW nr \in hashes PROVE Signature[chain'[nr]] # Signature[next]
    <3>1. nr \in 1..Len(chain) /\ Len(chain) \in 0..Len(chain)
      BY <1>2
    <3>2. chain'[nr] = chain[nr]
      BY <1>4, <3>1 DEF Agree
    <3> QED BY <1>1, <2>1, <3>2 DEF ChainInv, Cached
  <2> QED BY <1>1, <2>1, <2>2, <2>3, <2>4 DEF ChainInv, Cached
<1>9. Position'
  <2>1. ASSUME NEW m \in Message PROVE ~(next < m /\ m < next)
    BY <1>2, Messages
  <2>2. Passed(chain', Len(chain'), Last(chain'), next)
    BY <1>4, <2>1 DEF Passed
  <2>3. Passed(chain, Len(chain), Last(chain), next)' <=> Passed(chain', Len(chain'), Last(chain'), next)
    BY <1>1 DEF Passed, Acceptable, InTime, OpenAt
  <2> QED BY <1>1, <2>2, <2>3 DEF Position
<1> QED BY <1>7, <1>8, <1>9 DEF ChainInv

(* The other steps of createAndAddConfirmedTransaction.                    *)
LEMMA PositionSame ==
  ASSUME ChainInv, UNCHANGED <<chain, next, mishaps, forgotten, mode>>,
         step' \notin {"begin", "push", "persist"} \/ step' = step
           \/ (step' = "persist" /\ Last(chain) = next)
  PROVE  Position'
<1>1. /\ Last(chain)' = Last(chain) /\ Len(chain)' = Len(chain)
      /\ Acceptable(chain, Len(chain), next)' <=> Acceptable(chain, Len(chain), next)
      /\ Passed(chain, Len(chain), Last(chain), next)' <=> Passed(chain, Len(chain), Last(chain), next)
      /\ (EventsKept' <=> EventsKept) /\ (BeginningKept' <=> BeginningKept) /\ (Up' <=> Up)
      /\ (Orderly' <=> Orderly)
  BY DEF EventsKept, BeginningKept, Orderly, Up
<1> QED BY <1>1 DEF ChainInv, Position

LEMMA ChainSame ==
  ASSUME ChainOK, UNCHANGED <<chain, seen, mishaps, forgotten>>
  PROVE  ChainOK'
BY DEF ChainOK, EventsKept, BeginningKept, Orderly, SignedOnce

LEMMA Entered ==
  ASSUME BaseOK, step \in {"past", "hash", "id"}
  PROVE  /\ Up /\ next \in Message /\ Last(chain) = next /\ chain # <<>>
         /\ chain \in Seq(Message) /\ Len(chain) \in 1..Len(chain) /\ chain[Len(chain)] = next
<1>1. /\ Up /\ next \in Message /\ chain # <<>> /\ chain[Len(chain)] = next /\ chain \in Seq(Message)
  BY DEF BaseOK, PlaceOK, BlockOK
<1> QED BY <1>1 DEF Last

LEMMA PastChain ==
  ASSUME BaseOK, ChainInv, RunPastAddToBlockchain
  PROVE  ChainInv'
<1>1. /\ step = "past" /\ step' \in {"hash", "persist"}
      /\ UNCHANGED <<chain, seen, mishaps, forgotten, next, hashes, eventsInit, mode>>
  BY DEF RunPastAddToBlockchain, block, process, Defer, Redeem, AddTransactionTriggerEvent,
         RemoveTransactionTriggerEvent
<1>2. Up /\ Last(chain) = next
  BY <1>1, Entered
<1>3. EventsKept => step' = "hash"
  <2>1. EventsKept => eventsInit
    BY <1>2 DEF ChainInv, Cached
  <2>2. step' = "persist" => ~eventsInit
    BY DEF RunPastAddToBlockchain, Defer, Redeem, AddTransactionTriggerEvent,
           RemoveTransactionTriggerEvent, UpdateThrows
  <2> QED BY <1>1, <2>1, <2>2
<1>4. Cached'
  BY <1>1, <1>3 DEF ChainInv, Cached, EventsKept, Up
<1>5. Position'
  BY <1>1, <1>2, PositionSame
<1> QED BY <1>1, <1>4, <1>5, ChainSame DEF ChainInv

LEMMA HashChain ==
  ASSUME BaseOK, ChainInv, PushHash
  PROVE  ChainInv'
<1>1. /\ step = "hash" /\ step' \in {"id", "persist"}
      /\ UNCHANGED <<chain, seen, mishaps, forgotten, next, eventsInit, mode>>
  BY DEF PushHash, block, eventCache, process
<1>2. /\ Up /\ Last(chain) = next /\ next \in Message /\ chain \in Seq(Message)
      /\ Len(chain) \in 1..Len(chain) /\ chain[Len(chain)] = next
  BY <1>1, Entered
<1>3. EventsKept => step' = "id" /\ hashes' = hashes \cup {Len(chain)}
  <2>1. SUFFICES ASSUME EventsKept PROVE ~IsTransactionExist(next) /\ NrOf(next) = Len(chain)
    BY DEF PushHash
  <2>2. hashes \subseteq 1..Len(chain) /\ Len(chain) \notin hashes
    BY <1>1, <1>2, <2>1 DEF BaseOK, BlockOK, ChainInv, Cached
  <2>4. \A nr \in hashes : Signature[chain[nr]] # Signature[next]
    BY <1>1, <1>2, <2>1 DEF ChainInv, Cached
  <2>5. NrOf(next) = Len(chain)
    <3>1. NrOf(next) \in 1..Len(chain) /\ chain[NrOf(next)] = next
      BY <1>2, NrOfType
    <3>2. NrOf(next) # Len(chain) => chain[NrOf(next)] < Last(chain)
      BY <1>2, <3>1, LastIsGreatest DEF ChainInv, ChainOK
    <3> QED BY <1>2, <3>1, <3>2, Messages
  <2> QED BY <2>4, <2>5 DEF IsTransactionExist
<1>4. Cached'
  BY <1>1, <1>2, <1>3 DEF ChainInv, Cached, EventsKept, Up
<1>5. Position'
  BY <1>1, <1>2, PositionSame
<1> QED BY <1>1, <1>4, <1>5, ChainSame DEF ChainInv

LEMMA AddIdChain ==
  ASSUME BaseOK, ChainInv, AddId
  PROVE  ChainInv'
<1>1. /\ step = "id" /\ step' = "persist"
      /\ UNCHANGED <<chain, seen, mishaps, forgotten, next, hashes, eventsInit, mode>>
  BY DEF AddId, block, eventCache, process
<1>2. Last(chain) = next
  BY <1>1, Entered
<1>3. Cached'
  BY <1>1 DEF ChainInv, Cached, EventsKept, Up
<1>4. Position'
  BY <1>1, <1>2, PositionSame
<1> QED BY <1>1, <1>3, <1>4, ChainSame DEF ChainInv

LEMMA PersistChain ==
  ASSUME BaseOK, ChainInv, Persist
  PROVE  ChainInv'
<1>1. /\ step = "persist" /\ step' = "begin" /\ next' = next + 1 /\ Up /\ Up' /\ next \in Message
      /\ UNCHANGED <<chain, seen, mishaps, forgotten, hashes, eventsInit, mode>>
  BY DEF Persist, block, eventCache, process, BaseOK, PlaceOK, Up
<1>2. chain \in Seq(Message) /\ next \in Nat /\ Window \in Nat
  BY <1>1, Messages, CachesAssumption DEF BaseOK, BlockOK
<1>3. Cached'
  <2>1. ASSUME NEW nr \in 1..Len(chain), (next + 1) - chain[nr] < Window PROVE next - chain[nr] < Window
    <3>1. chain[nr] \in Nat
      BY <1>2, Messages
    <3> QED BY <1>2, <2>1, <3>1
  <2> QED BY <1>1, <2>1 DEF ChainInv, Cached, EventsKept
<1>4. \/ Last(chain) = next
      \/ Last(chain) < next /\ (Orderly => ~Acceptable(chain, Len(chain), next))
  BY <1>1 DEF ChainInv, Position
<1>5. Last(chain) \in Nat /\ Last(chain) < next + 1
  BY <1>2, <1>4, LastFacts, Messages
<1>6. ASSUME Orderly, chain # <<>> \/ BeginningKept
      PROVE  Passed(chain, Len(chain), Last(chain), next + 1)
  <2>1. SUFFICES ASSUME NEW m \in Message, Last(chain) < m, m < next + 1
                 PROVE  ~Acceptable(chain, Len(chain), m)
    BY DEF Passed
  <2>2. m \in Nat /\ (m = next \/ m < next)
    BY <1>2, <2>1, Messages
  <2>3. CASE m = next
    BY <1>2, <1>4, <1>5, <1>6, <2>1, <2>3
  <2>4. CASE m < next
    BY <1>1, <1>6, <2>1, <2>4 DEF ChainInv, Position, Passed
  <2> QED BY <2>2, <2>3, <2>4
<1>7. /\ Last(chain)' = Last(chain) /\ Len(chain)' = Len(chain)
      /\ Passed(chain, Len(chain), Last(chain), next)' <=> Passed(chain, Len(chain), Last(chain), next + 1)
      /\ (Orderly' <=> Orderly) /\ (BeginningKept' <=> BeginningKept)
  BY <1>1 DEF EventsKept, Orderly, BeginningKept, Passed, Acceptable, InTime, OpenAt
<1>8. Position'
  BY <1>1, <1>5, <1>6, <1>7 DEF Position
<1> QED BY <1>1, <1>3, <1>8, ChainSame DEF ChainInv

LEMMA IdleChain ==
  ASSUME BaseOK, ChainInv,
         \/ Write
         \/ \E m \in Message : FindByMessageId(m) \/ ExpireId(m)
         \/ \E nr \in hashes : ExpireHash(nr)
         \/ UNCHANGED vars
  PROVE  ChainInv'
<1>1. CASE \/ Write \/ UNCHANGED vars
           \/ \E m \in Message : FindByMessageId(m) \/ ExpireId(m)
  <2>1. UNCHANGED <<chain, seen, mishaps, forgotten, next, hashes, eventsInit, mode, step>>
    BY <1>1 DEF Write, FindByMessageId, ExpireId, vars, block, eventCache, process
  <2>2. Cached'
    BY <2>1 DEF ChainInv, Cached, EventsKept, Up
  <2>3. Position'
    BY <2>1, PositionSame
  <2> QED BY <2>1, <2>2, <2>3, ChainSame DEF ChainInv
<1>2. ASSUME NEW nr \in hashes, ExpireHash(nr) PROVE ChainInv'
  <2>1. /\ hashes' = hashes \ {nr} /\ forgotten \subseteq forgotten'
        /\ TooEarly(nr) => Signature[chain[nr]] \in forgotten'
        /\ UNCHANGED <<chain, seen, mishaps, next, eventsInit, mode, step>>
    BY <1>2 DEF ExpireHash, block, eventCache, process
  <2>2. (Orderly' => Orderly) /\ (EventsKept' <=> EventsKept) /\ (BeginningKept' <=> BeginningKept) /\ (Up' <=> Up)
    BY <2>1 DEF Orderly, EventsKept, BeginningKept, Up
  <2>3. ChainOK'
    BY <2>1, <2>2 DEF ChainInv, ChainOK, SignedOnce
  <2>4. Cached'
    BY <2>1, <2>2 DEF ChainInv, Cached, TooEarly
  <2>5. /\ Last(chain)' = Last(chain) /\ Len(chain)' = Len(chain)
        /\ Acceptable(chain, Len(chain), next)' <=> Acceptable(chain, Len(chain), next)
        /\ Passed(chain, Len(chain), Last(chain), next)' <=> Passed(chain, Len(chain), Last(chain), next)
    BY <2>1 DEF Passed, Acceptable, InTime, OpenAt
  <2>6. Position'
    BY <2>1, <2>2, <2>5 DEF ChainInv, Position
  <2> QED BY <2>3, <2>4, <2>6 DEF ChainInv
<1> QED BY <1>1, <1>2

LEMMA CrashChain ==
  ASSUME BaseOK, ChainInv, Crash
  PROVE  ChainInv'
<1>1. /\ ~Up' /\ chain' = SubSeq(chain, 1, written) /\ seen' = seen
      /\ mishaps \subseteq mishaps' /\ forgotten' = forgotten
  BY DEF Crash, Up
<1>2. (EventsKept' => EventsKept) /\ (BeginningKept' => BeginningKept) /\ (Orderly' => Orderly)
  BY <1>1 DEF EventsKept, BeginningKept, Orderly
<1>3. chain \in Seq(Message) /\ written \in 0..Len(chain) /\ seen \in Nat
  BY Messages DEF BaseOK, BlockOK, PlaceOK
<1>4. /\ Increasing(chain') /\ Last(chain') <= Last(chain) /\ chain' \in Seq(Message)
      /\ IsChain(chain) => IsChain(chain')
      /\ FromFirst(chain) => FromFirst(chain')
  BY <1>1, <1>3, CutChain DEF ChainInv, ChainOK
<1>5. Last(chain') <= seen
  BY <1>3, <1>4, LastFacts, Messages DEF ChainInv, ChainOK
<1>6. EventsKept => SignedOnce'
  <2>1. Len(chain') = written /\ \A i \in 1..written : i \in 1..Len(chain) /\ chain'[i] = chain[i]
    BY <1>1, <1>3, Beginning
  <2>2. SUFFICES ASSUME EventsKept, NEW i \in 1..written, NEW j \in 1..written, i < j,
                        Signature[chain'[i]] = Signature[chain'[j]]
                 PROVE  Signature[chain'[j]] \in forgotten
    BY <1>1, <2>1 DEF SignedOnce
  <2> QED BY <2>1, <2>2 DEF ChainInv, ChainOK, SignedOnce
<1>7. ChainOK'
  BY <1>1, <1>2, <1>4, <1>5, <1>6 DEF ChainInv, ChainOK
<1> QED BY <1>1, <1>7 DEF ChainInv, Cached, Position

LEMMA StartChain ==
  ASSUME BaseOK, ChainInv, NEW bad \in Db \cup {"none"}, Start(bad) \/ StartFails(bad)
  PROVE  ChainInv'
<1>1. /\ ~Up /\ step = "begin" /\ written = Len(chain)
      /\ UNCHANGED <<chain, step, seen, forgotten>> /\ mishaps \subseteq mishaps'
      /\ bad \in mishaps' \/ bad \notin Db
      /\ chain = <<>> /\ persisted' > 0 => "beginning" \in mishaps'
  BY StartingBase DEF Start, StartFails, Starting
<1>2. /\ (EventsKept' => EventsKept /\ bad # "events") /\ (BeginningKept' => BeginningKept)
      /\ (Orderly' => Orderly)
  BY <1>1 DEF EventsKept, BeginningKept, Orderly, Db
<1>3. ChainOK'
  BY <1>1, <1>2 DEF ChainInv, ChainOK, SignedOnce
<1>4. CASE StartFails(bad)
  <2>1. ~Up'
    BY <1>4 DEF StartFails, Up
  <2> QED BY <1>3, <2>1 DEF ChainInv, Cached, Position
<1>5. CASE Start(bad)
  <2>1. /\ Up' /\ next' = 1 + (IF chain = <<>> THEN persisted' ELSE chain[Len(chain)])
        /\ hashes' = {nr \in 1..written : nr > written - StartupCache}
        /\ eventsInit' = (bad # "events")
    BY <1>5 DEF Start, FirstMessage, LastTransactions, LoadEvents, IsInitialized, Up
  <2>2. chain \in Seq(Message) /\ Increasing(chain)
    BY DEF BaseOK, BlockOK, ChainInv, ChainOK
  <2>3. persisted' \in 0..MaxMessage
    BY <1>5, StartBase DEF BaseOK, PlaceOK
  <2>4. chain # <<>> => next' = Last(chain) + 1
    <3>1. chain # <<>> => chain[Len(chain)] = Last(chain) /\ Last(chain) \in Nat
      BY <2>2, LastFacts, Messages
    <3> QED BY <2>1, <3>1
  <2>5. chain = <<>> => next' = 1 + persisted' /\ Last(chain) = 0
    BY <2>1, Zenon DEF Last
  <2>6. Cached'
    <3>1. SUFFICES ASSUME bad # "events", NEW nr \in 1..Len(chain), next' - chain[nr] < Window
                   PROVE  nr \in hashes'
      BY <1>1, <1>2, <2>1 DEF Cached
    <3>2. chain # <<>> /\ chain[nr] \in Nat /\ Last(chain) \in Nat
      BY <2>2, LastFacts, Messages
    <3>3. Len(chain) - nr <= Last(chain) - chain[nr]
      BY <2>2, Spread
    <3>4. Last(chain) + 1 - chain[nr] < Window
      BY <2>4, <3>1, <3>2
    <3>5. nr > Len(chain) - StartupCache
      BY <3>2, <3>3, <3>4, CachesAssumption
    <3> QED BY <1>1, <2>1, <3>5
  <2>7. Last(chain) < next' /\ \A m \in Message : (chain # <<>> \/ BeginningKept') => ~(Last(chain) < m /\ m < next')
    <3>1. CASE chain # <<>>
      BY <2>2, <2>4, <3>1, LastFacts, Messages
    <3>2. CASE chain = <<>>
      <4>1. PICK p \in 0..MaxMessage : p = persisted'
        BY <2>3
      <4>2. next' = 1 + p /\ Last(chain) = 0 /\ p \in Nat
        BY <2>5, <3>2, <4>1, Messages
      <4>3. BeginningKept' => p = 0
        BY <1>1, <3>2, <4>1, <4>2 DEF BeginningKept
      <4> QED BY <3>2, <4>2, <4>3, Messages
    <3> QED BY <3>1, <3>2
  <2>8. /\ Last(chain)' = Last(chain) /\ chain' = chain /\ step' = "begin"
        /\ Passed(chain, Len(chain), Last(chain), next)' <=> Passed(chain, Len(chain), Last(chain), next')
    BY <1>1 DEF Passed, Acceptable, InTime, OpenAt
  <2>9. Position'
    BY <2>7, <2>8 DEF Position, Passed
  <2> QED BY <1>3, <2>6, <2>9 DEF ChainInv
<1> QED BY <1>4, <1>5

LEMMA NextChain == BaseOK /\ ChainInv /\ [Next]_vars => ChainInv'
<1> SUFFICES ASSUME BaseOK, ChainInv, [Next]_vars PROVE ChainInv'
  OBVIOUS
<1>1. CASE UNCHANGED vars
  BY <1>1, IdleChain
<1>2. CASE Confirm \/ Refuse
  BY <1>2, ConfirmChain
<1>3. CASE PushTransaction
  BY <1>3, PushChain
<1>4. CASE RunPastAddToBlockchain
  BY <1>4, PastChain
<1>5. CASE PushHash
  BY <1>5, HashChain
<1>6. CASE AddId \/ Persist
  BY <1>6, AddIdChain, PersistChain
<1>7. CASE \/ Write
           \/ \E m \in Message : FindByMessageId(m) \/ ExpireId(m)
           \/ \E nr \in hashes : ExpireHash(nr)
  BY <1>7, IdleChain
<1>8. CASE Crash
  BY <1>8, CrashChain
<1>9. CASE \E bad \in Db \cup {"none"} : Start(bad) \/ StartFails(bad)
  BY <1>9, StartChain
<1> QED BY <1>1, <1>2, <1>3, <1>4, <1>5, <1>6, <1>7, <1>8, <1>9 DEF Next

LEMMA ChainAlways == Spec => [](BaseOK /\ ChainInv)
<1>1. Init => BaseOK /\ ChainInv
  BY InitBase, InitChain
<1>2. BaseOK /\ ChainInv /\ [Next]_vars => (BaseOK /\ ChainInv)'
  BY NextBase, NextChain
<1> QED BY <1>1, <1>2, PTL DEF Spec

(***************************************************************************)
(* If two confirmed transactions have one signature, the memory of         *)
(* TransactionHash had dropped it too early (ConfirmedTwiceIfForgotten):   *)
(* otherwise isTransactionExist, which asks only the signatures in memory, *)
(* refuses every duplicate that comes in time, also after a restart.       *)
(***************************************************************************)
THEOREM Once == Spec => []ConfirmedTwiceIfForgotten
<1>1. BaseOK /\ ChainInv => ConfirmedTwiceIfForgotten
  <2> SUFFICES ASSUME BaseOK, ChainInv, EventsKept, NEW i \in DOMAIN chain, NEW j \in DOMAIN chain,
                      Signature[chain[i]] = Signature[chain[j]]
               PROVE  i = j \/ Signature[chain[i]] \in forgotten
    BY DEF ConfirmedTwiceIfForgotten, EventsKept
  <2>1. i \in 1..Len(chain) /\ j \in 1..Len(chain) /\ (i = j \/ i < j \/ j < i)
    BY DEF BaseOK, BlockOK
  <2> QED BY <2>1 DEF ChainInv, ChainOK, SignedOnce
<1> QED BY <1>1, ChainAlways, PTL

-----------------------------------------------------------------------------
(***************************************************************************)
(* The transaction ids.  A number that is kept for an id is the id's place *)
(* in a chain from the first message: not always in the chain there is,    *)
(* which may have lost that transaction, but in one that it grows to.      *)
(***************************************************************************)
HasPlace(m, nr) == \E c : IsChain(c) /\ FromFirst(c) /\ nr \in 1..Len(c) /\ c[nr] = m

IdsInv == Orderly /\ BeginningKept => \A m \in DOMAIN idFile : HasPlace(m, idFile[m])

LEMMA NextIds == BaseOK /\ ChainInv /\ IdsInv /\ [Next]_vars => IdsInv'
<1> SUFFICES ASSUME BaseOK, ChainInv, IdsInv, [Next]_vars PROVE IdsInv'
  OBVIOUS
<1>1. ASSUME idFile' = idFile \/ idFile' = NoFun, mishaps \subseteq mishaps',
             forgotten \subseteq forgotten'
      PROVE  IdsInv'
  BY <1>1 DEF IdsInv, EventsKept, Orderly, BeginningKept, NoFun
<1>2. CASE AddId
  <2>1. step = "id" /\ UNCHANGED <<mishaps, forgotten, chain>>
    BY <1>2 DEF AddId, block, process
  <2>2. SUFFICES ASSUME Orderly, BeginningKept, idFile' = Put(idFile, next, NrOf(next))
                 PROVE  \A m \in DOMAIN idFile' : HasPlace(m, idFile'[m])
    BY <1>1, <1>2, <2>1 DEF AddId, SetKeyValue, IdsInv, EventsKept, Orderly, BeginningKept
  <2>3. \A m \in DOMAIN idFile' : IF m = next THEN idFile'[m] = NrOf(next)
                                  ELSE m \in DOMAIN idFile /\ idFile'[m] = idFile[m]
    BY <2>2 DEF Put
  <2>4. HasPlace(next, NrOf(next))
    <3>1. NrOf(next) \in DOMAIN chain /\ chain[NrOf(next)] = next
      BY <2>1, Entered, NrOfType
    <3>2. IsChain(chain) /\ FromFirst(chain) /\ DOMAIN chain = 1..Len(chain)
      BY <2>2 DEF ChainInv, ChainOK, IsChain
    <3> QED BY <3>1, <3>2 DEF HasPlace
  <2> QED BY <2>2, <2>3, <2>4 DEF IdsInv
<1>3. CASE \/ Confirm \/ Refuse \/ PushTransaction \/ RunPastAddToBlockchain \/ PushHash \/ Persist
           \/ Write \/ UNCHANGED vars
           \/ \E m \in Message : FindByMessageId(m) \/ ExpireId(m)
           \/ \E nr \in hashes : ExpireHash(nr)
  BY <1>1, <1>3 DEF Confirm, Refuse, PushTransaction, RunPastAddToBlockchain, PushHash, Persist,
                    Write, FindByMessageId, ExpireId, ExpireHash, vars, files, process
<1>4. CASE Crash
  BY <1>1, <1>4 DEF Crash, files
<1>5. ASSUME NEW bad \in Db \cup {"none"}, Start(bad) \/ StartFails(bad) PROVE IdsInv'
  BY <1>1, <1>5 DEF Start, StartFails, Starting, InitIds
<1> QED BY <1>2, <1>3, <1>4, <1>5 DEF Next

(***************************************************************************)
(* The number kept for a transaction id leads to its transaction           *)
(* (IdsLeadToTransaction): also a number that is older than a crash in     *)
(* which its transaction was lost, since the chain grows again as it was.  *)
(***************************************************************************)
THEOREM IdsFound == Spec => []IdsLeadToTransaction
<1>1. Init => IdsInv
  BY DEF Init, IdsInv, NoFun
<1>2. Spec => [](BaseOK /\ ChainInv /\ IdsInv)
  <2>1. Init => BaseOK /\ ChainInv /\ IdsInv
    BY <1>1, InitBase, InitChain
  <2>2. BaseOK /\ ChainInv /\ IdsInv /\ [Next]_vars => (BaseOK /\ ChainInv /\ IdsInv)'
    BY NextBase, NextChain, NextIds
  <2> QED BY <2>1, <2>2, PTL DEF Spec
<1>3. BaseOK /\ ChainInv /\ IdsInv => IdsLeadToTransaction
  <2> SUFFICES ASSUME BaseOK, ChainInv, IdsInv, Orderly, BeginningKept, NEW m \in Message
               PROVE  /\ m \in DOMAIN idFile /\ idFile[m] \in DOMAIN chain => chain[idFile[m]] = m
                      /\ m \in DOMAIN ids => ids[m] = idFile[m]
    BY DEF IdsLeadToTransaction, EventsKept, Orderly, BeginningKept
  <2>1. ASSUME m \in DOMAIN idFile, idFile[m] \in DOMAIN chain PROVE chain[idFile[m]] = m
    <3>1. PICK c : IsChain(c) /\ FromFirst(c) /\ idFile[m] \in 1..Len(c) /\ c[idFile[m]] = m
      BY <2>1 DEF IdsInv, HasPlace
    <3>2. IsChain(chain) /\ FromFirst(chain) /\ DOMAIN chain = 1..Len(chain)
      BY DEF ChainInv, ChainOK, IsChain
    <3>3. PICK n : n = idFile[m]
      OBVIOUS
    <3>4. n \in Nat /\ n \in 1..n /\ n <= Len(c) /\ n <= Len(chain)
      BY <2>1, <3>1, <3>2, <3>3 DEF IsChain
    <3>5. Agree(chain, c, n)
      BY <3>1, <3>2, <3>4, OneChain
    <3> QED BY <3>1, <3>3, <3>4, <3>5 DEF Agree
  <2>2. m \in DOMAIN ids => ids[m] = idFile[m]
    BY DEF BaseOK, IdsOK
  <2> QED BY <2>1, <2>2
<1> QED BY <1>2, <1>3, PTL

-----------------------------------------------------------------------------
(***************************************************************************)
(* The events.  If no two transfers time out in the same second, a record  *)
(* is about one transfer, and is there as long as the event is in memory.  *)
(***************************************************************************)
Single(record, d) == \A e \in Deferred : record[e] > 0 <=> e = d
Recorded(d) == Second(d) \in DOMAIN eventFile

EventInv ==
  EventsKept /\ OwnSeconds => \A d \in Deferred :
    /\ Recorded(d) => Single(eventFile[Second(d)], d)
    /\ Up => (events[d] > 0 <=> Recorded(d))

LEMMA UpdateFacts ==
  ASSUME BaseOK, OwnSeconds, eventsInit, NEW evs \in [Deferred -> Nat], NEW d \in Deferred
  PROVE  /\ Second(d) \in DOMAIN UpdateState(evs, d) <=> evs[d] > 0
         /\ evs[d] > 0 => Single(UpdateState(evs, d)[Second(d)], d)
         /\ \A e \in Deferred \ {d} :
              /\ Second(e) \in DOMAIN UpdateState(evs, d) <=> Recorded(e)
              /\ Recorded(e) => UpdateState(evs, d)[Second(e)] = eventFile[Second(e)]
<1> DEFINE r == SameDate(evs, d)
           U == UpdateState(evs, d)
<1>1. \A e \in Deferred \ {d} : Second(e) # Second(d)
  BY DEF OwnSeconds
<1>2. \A e \in Deferred : r[e] = IF e = d THEN evs[d] ELSE 0
  <2>1. \A e \in Deferred : target[e] = target[d] <=> e = d
    BY <1>1 DEF Second
  <2> QED BY <2>1 DEF SameDate
<1>3. r \in [Deferred -> Nat] /\ NoEvents \in [Deferred -> Nat] /\ \A e \in Deferred : NoEvents[e] = 0
  BY DEF SameDate, NoEvents
<1>4. evs[d] \in Nat
  OBVIOUS
<1>5. U = IF r = NoEvents THEN RemoveKey(eventFile, Second(d)) ELSE SetKeyValue(eventFile, Second(d), r)
  BY DEF UpdateState, RemoveState, UpdateThrows
<1> HIDE DEF r, U
<1>6. CASE evs[d] = 0
  <2>1. r = NoEvents
    BY <1>2, <1>3, <1>6
  <2>2. /\ DOMAIN U = DOMAIN eventFile \ {Second(d)}
        /\ \A s \in DOMAIN eventFile \ {Second(d)} : U[s] = eventFile[s]
    BY <1>5, <2>1 DEF RemoveKey, Without
  <2>3. ~(evs[d] > 0)
    BY <1>6
  <2> QED BY <1>1, <2>2, <2>3 DEF U, Recorded
<1>7. CASE evs[d] # 0
  <2>1. r # NoEvents /\ evs[d] > 0
    BY <1>2, <1>3, <1>4, <1>7
  <2>2. /\ DOMAIN U = DOMAIN eventFile \cup {Second(d)}
        /\ \A s \in DOMAIN eventFile \cup {Second(d)} : U[s] = IF s = Second(d) THEN r ELSE eventFile[s]
    BY <1>5, <2>1 DEF SetKeyValue, Put
  <2>3. Single(r, d)
    BY <1>2, <2>1 DEF Single
  <2> QED BY <1>1, <2>1, <2>2, <2>3 DEF U, Recorded
<1> QED BY <1>6, <1>7

(* What RunPastAddToBlockchain does to the events, if none of it throws.   *)
LEMMA PastEvents ==
  ASSUME BaseOK, ChainInv, EventInv, EventsKept, OwnSeconds, RunPastAddToBlockchain
  PROVE  /\ EventInv'
         /\ \A e \in Deferred : Recorded(e) /\ Redeems[next] # e => Recorded(e)'
         /\ \A e \in Deferred : e = next => Recorded(e)'
<1>1. /\ Up /\ next \in Message /\ step = "past"
      /\ UNCHANGED <<mode, mishaps, target>>
  BY Entered DEF RunPastAddToBlockchain, process
<1>2. /\ eventsInit /\ events \in [Deferred -> Nat]
      /\ \A d \in Deferred : /\ Recorded(d) => Single(eventFile[Second(d)], d)
                             /\ events[d] > 0 <=> Recorded(d)
  BY <1>1 DEF ChainInv, Cached, EventInv, BaseOK, EventsOK
<1>3. \A d : Second(d)' = Second(d)
  BY <1>1 DEF Second
<1>4. ASSUME NEW d \in Deferred, NEW v \in Nat, events' = [events EXCEPT ![d] = v],
             eventFile' = UpdateState(events', d)
      PROVE  /\ EventInv' /\ (v > 0 <=> Recorded(d)')
             /\ \A e \in Deferred \ {d} : Recorded(e) <=> Recorded(e)'
  <2>1. PICK evs \in [Deferred -> Nat] : evs = events'
    BY <1>2, <1>4
  <2>2. evs[d] = v /\ \A e \in Deferred \ {d} : evs[e] = events[e]
    BY <1>2, <1>4, <2>1
  <2>3. eventFile' = UpdateState(evs, d)
    BY <1>4, <2>1
  <2>4. /\ Recorded(d)' <=> v > 0
        /\ v > 0 => Single(eventFile'[Second(d)], d)
        /\ \A e \in Deferred \ {d} :
             /\ Recorded(e)' <=> Recorded(e)
             /\ Recorded(e) => eventFile'[Second(e)] = eventFile[Second(e)]
    BY <1>2, <1>3, <2>2, <2>3, UpdateFacts DEF Recorded
  <2>5. ASSUME NEW e \in Deferred
        PROVE  /\ Recorded(e)' => Single(eventFile'[Second(e)], e)
               /\ events'[e] > 0 <=> Recorded(e)'
    <3>1. CASE e = d
      BY <2>1, <2>2, <2>4, <3>1
    <3>2. CASE e # d
      BY <1>2, <2>1, <2>2, <2>4, <3>2
    <3> QED BY <3>1, <3>2
  <2>6. EventInv'
    BY <1>1, <1>3, <2>5 DEF EventInv, Single
  <2> QED BY <2>4, <2>6
<1>5. ASSUME UNCHANGED <<events, eventFile>>
      PROVE  EventInv' /\ \A e \in Deferred : Recorded(e) <=> Recorded(e)'
  BY <1>1, <1>2, <1>3, <1>5 DEF EventInv, Recorded, Single
<1>6. CASE Defer
  <2>1. PICK d \in Deferred : d = next
    BY <1>6 DEF Defer
  <2>2. events' = [events EXCEPT ![d] = @ + 1] /\ eventFile' = UpdateState(events', d)
    BY <1>6, <2>1 DEF Defer, AddTransactionTriggerEvent
  <2>3. PICK v \in Nat : v = events[d] + 1 /\ v > 0
    BY <1>2
  <2>4. events' = [events EXCEPT ![d] = v]
    BY <2>2, <2>3
  <2>5. /\ EventInv' /\ (v > 0 <=> Recorded(d)')
        /\ \A e \in Deferred \ {d} : Recorded(e) <=> Recorded(e)'
    BY <1>4, <2>2, <2>4
  <2> QED BY <2>1, <2>3, <2>5
<1>7. CASE Redeem
  <2>1. PICK d \in Deferred : d = Redeems[next] /\ next \notin Deferred
    BY <1>1, <1>7, Messages DEF Redeem
  <2>2. CASE events[d] = 0
    BY <1>5, <1>7, <2>1, <2>2 DEF Redeem, RemoveTransactionTriggerEvent
  <2>3. CASE events[d] # 0
    <3>1. events' = [events EXCEPT ![d] = @ - 1] /\ eventFile' = UpdateState(events', d)
      BY <1>7, <2>1, <2>3 DEF Redeem, RemoveTransactionTriggerEvent
    <3>2. PICK v \in Nat : v = events[d] - 1
      <4>1. events[d] \in Nat
        BY <1>2, <2>1
      <4> QED BY <2>3, <4>1
    <3>3. events' = [events EXCEPT ![d] = v]
      BY <3>1, <3>2
    <3> QED BY <1>4, <2>1, <3>1, <3>2, <3>3
  <2> QED BY <2>2, <2>3
<1>8. CASE next \notin Deferred /\ UNCHANGED <<events, eventFile>>
  BY <1>5, <1>8
<1> QED BY <1>6, <1>7, <1>8 DEF RunPastAddToBlockchain

(* The events as they are read: each record is one.                        *)
LEMMA StartEvents ==
  ASSUME BaseOK, EventInv, NEW bad \in Db \cup {"none"}, Start(bad) \/ StartFails(bad)
  PROVE  /\ EventInv'
         /\ target' = target /\ (EventsKept' => EventsKept /\ eventFile' = eventFile)
<1>1. /\ target' = target /\ mishaps \subseteq mishaps' /\ (bad \in mishaps' \/ bad \notin Db)
      /\ bad = "events" \/ eventFile' = eventFile
  BY DEF Start, StartFails, Starting, LoadEvents
<1>2. EventsKept' => EventsKept /\ bad # "events"
  BY <1>1 DEF EventsKept, Db
<1>3. \A d : Second(d)' = Second(d)
  BY <1>1 DEF Second
<1>4. ASSUME EventsKept', OwnSeconds'
      PROVE  \A d \in Deferred : /\ Recorded(d)' => Single(eventFile'[Second(d)], d)
                                 /\ Up' => (events'[d] > 0 <=> Recorded(d)')
  <2>1. OwnSeconds /\ EventsKept /\ eventFile' = eventFile /\ bad # "events"
    BY <1>1, <1>2, <1>3, <1>4 DEF OwnSeconds
  <2>2. \A d \in Deferred : (Recorded(d)' <=> Recorded(d)) /\ (Recorded(d) => Single(eventFile[Second(d)], d))
    BY <1>3, <2>1 DEF EventInv, Recorded
  <2>3. ASSUME Up', NEW d \in Deferred PROVE events'[d] > 0 <=> Recorded(d)
    <3>1. LoadEvents(bad)
      BY <2>3 DEF Start, StartFails, Up
    <3>2. PICK read \in [DOMAIN eventFile -> Deferred] :
            /\ \A s \in DOMAIN read : eventFile[s][read[s]] > 0
            /\ events' = [e \in Deferred |-> Cardinality({s \in DOMAIN read : read[s] = e})]
      BY <2>1, <3>1 DEF LoadEvents
    <3> DEFINE T == {s \in DOMAIN eventFile : read[s] = d}
    <3>3. events'[d] = Cardinality(T)
      BY <3>2
    <3>4. ASSUME NEW s \in DOMAIN eventFile PROVE Second(read[s]) = s
      <4>1. PICK e \in Deferred : s = Second(e)
        BY DEF BaseOK, EventsOK
      <4>2. Single(eventFile[s], e)
        BY <2>2, <4>1 DEF Recorded
      <4>3. read[s] = e
        BY <3>2, <4>2 DEF Single
      <4> QED BY <4>1, <4>3
    <3>5. T = IF Recorded(d) THEN {Second(d)} ELSE {}
      <4>1. \A s \in T : s = Second(d)
        BY <3>4
      <4>2. Recorded(d) => Second(d) \in T
        <5>1. ASSUME Recorded(d) PROVE read[Second(d)] = d
          BY <2>1, <3>2, <3>4, <5>1 DEF Recorded, OwnSeconds
        <5> QED BY <5>1 DEF Recorded
      <4>3. T \subseteq DOMAIN eventFile
        OBVIOUS
      <4> HIDE DEF T
      <4> QED BY <4>1, <4>2, <4>3 DEF Recorded
    <3> HIDE DEF T
    <3>6. Cardinality({}) = 0 /\ Cardinality({Second(d)}) = 1
      BY FS_EmptySet, FS_Singleton
    <3> QED BY <3>3, <3>5, <3>6
  <2> QED BY <1>3, <2>1, <2>2, <2>3
<1>5. EventInv'
  BY <1>3, <1>4 DEF EventInv, Single
<1> QED BY <1>1, <1>2, <1>5

LEMMA NextEvents == BaseOK /\ ChainInv /\ EventInv /\ [Next]_vars => EventInv'
<1> SUFFICES ASSUME BaseOK, ChainInv, EventInv, [Next]_vars PROVE EventInv'
  OBVIOUS
<1>1. ASSUME UNCHANGED <<eventFile, target>>, mishaps \subseteq mishaps', ~Up' \/ (Up /\ events' = events)
      PROVE  EventInv'
  <2>1. \A d : Second(d)' = Second(d) /\ (Recorded(d)' <=> Recorded(d))
    BY <1>1 DEF Second, Recorded
  <2>2. OwnSeconds' = OwnSeconds /\ (EventsKept' => EventsKept)
    BY <1>1, <2>1 DEF OwnSeconds, EventsKept, Second
  <2> QED BY <1>1, <2>1, <2>2 DEF EventInv, Single
<1>2. CASE RunPastAddToBlockchain
  <2>1. UNCHANGED <<mishaps, target>>
    BY <1>2 DEF RunPastAddToBlockchain, process
  <2>2. (EventsKept' => EventsKept) /\ (OwnSeconds' => OwnSeconds)
    BY <2>1 DEF EventsKept, OwnSeconds, Second
  <2>3. EventsKept /\ OwnSeconds => EventInv'
    BY <1>2, PastEvents
  <2>4. EventInv' \/ (EventsKept' /\ OwnSeconds')
    BY DEF EventInv
  <2> QED BY <2>2, <2>3, <2>4
<1>3. CASE \/ Confirm \/ Refuse \/ PushTransaction \/ PushHash \/ AddId \/ Persist
           \/ Write \/ UNCHANGED vars
           \/ \E m \in Message : FindByMessageId(m) \/ ExpireId(m)
           \/ \E nr \in hashes : ExpireHash(nr)
  <2>1. UNCHANGED <<eventFile, target, mishaps, mode, events>>
    BY <1>3 DEF Confirm, Refuse, PushTransaction, PushHash, AddId, Persist,
                Write, FindByMessageId, ExpireId, ExpireHash, vars, files, eventCache, process
  <2> QED BY <1>1, <2>1 DEF Up
<1>4. CASE Crash
  BY <1>1, <1>4 DEF Crash, files, Up
<1>5. CASE \E bad \in Db \cup {"none"} : Start(bad) \/ StartFails(bad)
  BY <1>5, StartEvents
<1> QED BY <1>2, <1>3, <1>4, <1>5 DEF Next

(***************************************************************************)
(* A redemption of an open transfer is never passed over.  If it was       *)
(* refused although it was in time, its transfer was redeemed already, if  *)
(* only by a transaction with the same signature.                          *)
(***************************************************************************)
Refused(m) == InTime(m) => Redeems[m] \notin OpenAt(chain, Len(chain))

RedeemInv ==
  /\ \A i \in 1..Len(chain) : InTime(chain[i])
  /\ step = "push" => InTime(next)
  /\ Up => \A m \in Message : Last(chain) < m /\ m < next => Refused(m)
  /\ step = "persist" /\ Last(chain) < next => Refused(next)

LEMMA InvalidIsRefused ==
  ASSUME BaseOK, next \in Message, ~Valid(next)
  PROVE  Refused(next)
<1>1. SUFFICES ASSUME InTime(next), Redeems[next] \in OpenAt(chain, Len(chain)) PROVE FALSE
  BY DEF Refused
<1>2. /\ chain \in Seq(Message) /\ hashes \subseteq 1..Len(chain) /\ DOMAIN chain = 1..Len(chain)
  BY DEF BaseOK, BlockOK
<1>3. Redeems[next] \in Open(chain)
  BY <1>1, <1>2 DEF Open, OpenAt
<1>4. PICK nr \in 1..Len(chain) : Signature[chain[nr]] = Signature[next]
  BY <1>1, <1>2, <1>3 DEF Valid, IsTransactionExist
<1>5. Redeems[chain[nr]] = Redeems[next]
  BY <1>2, <1>4, CachesAssumption
<1> QED BY <1>1, <1>5 DEF OpenAt

LEMMA NextRedeem == BaseOK /\ ChainInv /\ RedeemInv /\ [Next]_vars => RedeemInv'
<1> SUFFICES ASSUME BaseOK, ChainInv, RedeemInv, [Next]_vars PROVE RedeemInv'
  OBVIOUS
<1>0. /\ chain \in Seq(Message) /\ written \in 0..Len(chain)
      /\ Last(chain) \in Nat /\ next \in Nat
      /\ \A m \in Message : m \in Nat
      /\ step = "persist" => Up /\ next \in Message
  BY LastFacts, Messages DEF BaseOK, BlockOK, PlaceOK, Up
<1>1. ASSUME chain' = chain
      PROVE  /\ Last(chain)' = Last(chain)
             /\ \A m : Refused(m)' <=> Refused(m)
             /\ \A m : InTime(m)' <=> InTime(m)
  BY <1>1 DEF Refused, OpenAt, InTime
<1>2. ASSUME UNCHANGED <<chain, next>>, Up' <=> Up,
             step' = "push" => step = "push" \/ InTime(next),
             step' = "persist" => step = "persist" \/ Last(chain) = next \/ Refused(next)
      PROVE  RedeemInv'
  BY <1>0, <1>1, <1>2 DEF RedeemInv
<1>3. CASE Confirm \/ Refuse
  <2>1. /\ UNCHANGED <<chain, next, mode>> /\ mode = "up" /\ next <= MaxMessage
        /\ (step' = "push" /\ Valid(next)) \/ (step' = "persist" /\ ~Valid(next))
    BY <1>3 DEF Confirm, Refuse, block, process
  <2>2. next \in Message
    BY <2>1, Messages DEF BaseOK, PlaceOK, Up
  <2>3. Valid(next) => InTime(next)
    BY DEF Valid
  <2> QED BY <1>2, <2>1, <2>2, <2>3, InvalidIsRefused DEF Up
<1>4. CASE PushTransaction
  <2>1. /\ chain' = Append(chain, next) /\ next' = next /\ step = "push" /\ step' = "past"
        /\ next \in Message
    BY <1>4 DEF PushTransaction, BaseOK, PlaceOK
  <2>2. /\ Len(chain') = Len(chain) + 1 /\ chain'[Len(chain) + 1] = next
        /\ \A i \in 1..Len(chain) : chain'[i] = chain[i]
    BY <1>0, <2>1
  <2>3. Last(chain)' = next
    <3>1. chain' # <<>>
      BY <1>0, <2>1
    <3> QED BY <2>2, <3>1 DEF Last
  <2>4. ASSUME NEW i \in 1..Len(chain') PROVE InTime(chain'[i])
    <3>1. i \in 1..Len(chain) \/ i = Len(chain) + 1
      BY <1>0, <2>2
    <3> QED BY <2>1, <2>2, <3>1 DEF RedeemInv
  <2>5. \A m \in Message : ~(next < m /\ m < next)
    BY <1>0
  <2>6. \A i \in 1..Len(chain') : InTime(chain[i])'
    BY <2>4 DEF InTime
  <2> QED BY <2>1, <2>3, <2>5, <2>6 DEF RedeemInv
<1>5. CASE RunPastAddToBlockchain \/ PushHash \/ AddId
  <2>1. UNCHANGED <<chain, next, mode>> /\ step \in {"past", "hash", "id"} /\ step' # "push"
    BY <1>5 DEF RunPastAddToBlockchain, PushHash, AddId, Defer, Redeem, block, process,
                AddTransactionTriggerEvent, RemoveTransactionTriggerEvent
  <2>2. Last(chain) = next
    BY <2>1, Entered
  <2> QED BY <1>2, <2>1, <2>2 DEF Up
<1>6. CASE Persist
  <2>1. chain' = chain /\ next' = next + 1 /\ step = "persist" /\ step' = "begin" /\ (Up' <=> Up)
    BY <1>6 DEF Persist, block, process, Up
  <2>2. Last(chain) <= next
    BY <1>0, <2>1 DEF ChainInv, Position
  <2>3. ASSUME NEW m \in Message, Last(chain) < m, m < next + 1 PROVE Refused(m)
    <3>1. m = next \/ m < next
      BY <1>0, <2>3
    <3> QED BY <1>0, <2>1, <2>3, <3>1 DEF RedeemInv
  <2> QED BY <1>1, <2>1, <2>3 DEF RedeemInv
<1>7. CASE \/ Write \/ UNCHANGED vars
           \/ \E m \in Message : FindByMessageId(m) \/ ExpireId(m)
           \/ \E nr \in hashes : ExpireHash(nr)
  <2>1. UNCHANGED <<chain, next, mode, step>>
    BY <1>7 DEF Write, FindByMessageId, ExpireId, ExpireHash, vars, block, process
  <2> QED BY <1>2, <2>1 DEF Up
<1>8. CASE Crash
  <2>1. ~Up' /\ step' = "begin" /\ chain' = SubSeq(chain, 1, written)
    BY <1>8 DEF Crash, Up
  <2>2. Len(chain') = written /\ \A i \in 1..written : i \in 1..Len(chain) /\ chain'[i] = chain[i]
    BY <1>0, <2>1, Beginning
  <2>3. \A i \in 1..Len(chain') : InTime(chain[i])'
    BY <2>2 DEF RedeemInv, InTime
  <2> QED BY <2>1, <2>3 DEF RedeemInv
<1>9. ASSUME NEW bad \in Db \cup {"none"}, Start(bad) \/ StartFails(bad) PROVE RedeemInv'
  <2>1. step' = "begin" /\ chain' = chain
    BY <1>9, StartingBase DEF Start, StartFails
  <2>2. ASSUME Up', NEW m \in Message, Last(chain) < m, m < next' PROVE Refused(m)
    <3>1. next' = 1 + (IF chain = <<>> THEN persisted' ELSE chain[Len(chain)])
      BY <1>9, <2>2 DEF Start, StartFails, FirstMessage, Up
    <3>2. CASE chain = <<>>
      <4>1. \A i \in 1..Len(chain) : FALSE
        BY <3>2
      <4> QED BY <4>1 DEF Refused, OpenAt
    <3>3. CASE chain # <<>>
      <4>1. next' = 1 + Last(chain)
        BY <3>1, <3>3 DEF Last
      <4> QED BY <1>0, <2>2, <4>1
    <3> QED BY <3>2, <3>3
  <2> QED BY <1>1, <2>1, <2>2 DEF RedeemInv
<1> QED BY <1>3, <1>4, <1>5, <1>6, <1>7, <1>8, <1>9 DEF Next

(***************************************************************************)
(* Why an open transfer has its event, for every length the chain may be   *)
(* cut to: its record is there; or the record was removed for a redemption *)
(* after that length, which comes again; or the transfer is being entered. *)
(***************************************************************************)
RedeemedLater(n, d) ==
  \E m \in Message : chain[n] < m /\ m <= seen /\ InTime(m) /\ Redeems[m] = d

Entering(n, d) == step = "past" /\ n = Len(chain) /\ d = next

ScheduleInv ==
  EventsKept /\ OwnSeconds /\ "halfway" \notin mishaps =>
    \A n \in written..Len(chain) : \A d \in OpenAt(chain, n) :
      Recorded(d) \/ RedeemedLater(n, d) \/ Entering(n, d)

LEMMA QuietSchedule ==
  ASSUME BaseOK, BaseOK', ScheduleInv, UNCHANGED <<chain, target, seen>>, mishaps \subseteq mishaps',
         EventsKept' => eventFile' = eventFile,
         written' \in written..Len(chain),
         step = "past" => step' = "past" /\ next' = next
  PROVE  ScheduleInv'
<1>1. SUFFICES ASSUME EventsKept', OwnSeconds', ("halfway" \notin mishaps)',
                      NEW n \in written'..Len(chain), NEW d \in OpenAt(chain, n)
               PROVE  Recorded(d)' \/ RedeemedLater(n, d)' \/ Entering(n, d)'
  BY DEF ScheduleInv, OpenAt
<1>2. EventsKept /\ OwnSeconds /\ "halfway" \notin mishaps
  BY <1>1 DEF EventsKept, OwnSeconds, Second
<1>3. n \in written..Len(chain)
  BY DEF BaseOK, BlockOK
<1>4. Recorded(d) \/ RedeemedLater(n, d) \/ Entering(n, d)
  BY <1>2, <1>3 DEF ScheduleInv
<1>5. Recorded(d) => Recorded(d)'
  BY <1>1 DEF Recorded, Second
<1>6. RedeemedLater(n, d) => RedeemedLater(n, d)'
  BY DEF RedeemedLater, InTime
<1>7. Entering(n, d) => Entering(n, d)'
  BY DEF Entering
<1> QED BY <1>4, <1>5, <1>6, <1>7

LEMMA PushSchedule ==
  ASSUME BaseOK, ChainInv, RedeemInv, ScheduleInv, PushTransaction
  PROVE  ScheduleInv'
<1>1. /\ Up /\ step = "push" /\ step' = "past" /\ next \in Message /\ chain' = Append(chain, next)
      /\ seen' = (IF seen < next THEN next ELSE seen)
      /\ UNCHANGED <<mishaps, target, eventFile, written, next>>
  BY DEF PushTransaction, BaseOK, PlaceOK, files, Up
<1>2. chain \in Seq(Message) /\ written \in 0..Len(chain) /\ seen \in Nat /\ next \in Nat
  BY <1>1, Messages DEF BaseOK, BlockOK, PlaceOK
<1>0. PICK l \in Nat : l = Len(chain)
  BY <1>2
<1>3. /\ chain' \in Seq(Message) /\ Len(chain') = l + 1 /\ chain'[l + 1] = next
      /\ \A k \in 0..l : Agree(chain', chain, k)
  BY <1>0, <1>1, <1>2, GrowChain DEF ChainInv, ChainOK, Position
<1>4. \A d : Recorded(d) <=> Recorded(d)'
  BY <1>1 DEF Recorded, Second
<1>5. (EventsKept' <=> EventsKept) /\ (OwnSeconds' <=> OwnSeconds)
  BY <1>1 DEF EventsKept, OwnSeconds, Second
<1>6. SUFFICES ASSUME EventsKept, OwnSeconds, "halfway" \notin mishaps,
                      NEW n \in written..(l + 1), NEW d \in OpenAt(chain', n)
               PROVE  Recorded(d) \/ RedeemedLater(n, d)' \/ (n = l + 1 /\ d = next)
  BY <1>1, <1>3, <1>4, <1>5 DEF ScheduleInv, Entering, OpenAt
<1>7. ASSUME NEW m \in Message, chain'[n] < m, m <= seen, InTime(m), Redeems[m] = d
      PROVE  RedeemedLater(n, d)'
  <2>1. m \in Nat
    BY Messages
  <2>2. m <= seen'
    BY <1>1, <1>2, <1>7, <2>1
  <2> QED BY <1>7, <2>2 DEF RedeemedLater, InTime
<1>8. CASE n # l + 1
  <2>1. n \in written..l /\ n \in 0..l
    BY <1>2, <1>3, <1>8
  <2>2. Agree(chain', chain, n) /\ Agree(chain, chain', n)
    BY <1>3, <2>1 DEF Agree
  <2>3. d \in OpenAt(chain, n)
    BY <2>2, AgreeFacts
  <2>4. Recorded(d) \/ RedeemedLater(n, d)
    BY <1>0, <1>1, <1>6, <2>1, <2>3 DEF ScheduleInv, Entering
  <2>5. n \in 1..n
    <3>1. n \in Nat /\ n # 0
      BY <1>0, <2>1 DEF OpenAt
    <3> QED BY <3>1
  <2>6. chain'[n] = chain[n]
    BY <2>2, <2>5 DEF Agree
  <2> QED BY <1>7, <2>4, <2>6 DEF RedeemedLater
<1>9. CASE n = l + 1 /\ d # next
  <2>1. l \in written..l /\ l \in 0..l /\ Agree(chain', chain, l) /\ Agree(chain, chain', l)
    <3>1. l \in written..l /\ l \in 0..l
      BY <1>0, <1>2
    <3> QED BY <1>3, <3>1 DEF Agree
  <2>2. d \in OpenAt(chain', l) /\ Redeems[next] # d /\ l > 0
    <3>1. \A i \in 1..l + 1 : i \in 1..l \/ i = l + 1
      BY <1>3
    <3>2. PICK i \in 1..l : chain'[i] = d
      BY <1>3, <1>9, <3>1 DEF OpenAt
    <3>3. \A i1 \in 1..l : i1 \in 1..l + 1
      BY <1>3
    <3>4. l + 1 \in 1..l + 1
      BY <1>3
    <3> QED BY <1>3, <1>9, <3>2, <3>3, <3>4 DEF OpenAt
  <2>3. d \in OpenAt(chain, l)
    BY <2>1, <2>2, AgreeFacts
  <2>4. Recorded(d) \/ RedeemedLater(l, d)
    BY <1>0, <1>1, <1>6, <2>1, <2>3 DEF ScheduleInv, Entering
  <2>5. ASSUME RedeemedLater(l, d) PROVE RedeemedLater(n, d)'
    <3>1. PICK m \in Message : chain[l] < m /\ m <= seen /\ InTime(m) /\ Redeems[m] = d
      BY <2>5 DEF RedeemedLater
    <3>2. Last(chain) = chain[l] /\ m \in Nat
      <4>1. chain # <<>>
        BY <1>0, <2>2
      <4> QED BY <1>0, <4>1, Messages DEF Last
    <3>3. ~(m < next)
      BY <1>0, <1>1, <2>3, <3>1, <3>2 DEF RedeemInv, Refused
    <3>4. next < m
      BY <1>2, <2>2, <3>1, <3>2, <3>3
    <3> QED BY <1>3, <1>7, <1>9, <3>1, <3>4
  <2> QED BY <2>4, <2>5
<1> QED BY <1>8, <1>9

LEMMA PastSchedule ==
  ASSUME BaseOK, ChainInv, EventInv, RedeemInv, ScheduleInv, RunPastAddToBlockchain
  PROVE  ScheduleInv'
<1>1. /\ step = "past" /\ step' # "past" /\ UNCHANGED <<mishaps, target, written, next, chain, seen>>
  BY DEF RunPastAddToBlockchain, block, process, Defer, Redeem, AddTransactionTriggerEvent,
         RemoveTransactionTriggerEvent
<1>2. /\ next \in Message /\ Last(chain) = next /\ chain \in Seq(Message)
      /\ Len(chain) \in 1..Len(chain) /\ chain[Len(chain)] = next
  BY <1>1, Entered
<1>3. (EventsKept' => EventsKept) /\ (OwnSeconds' => OwnSeconds)
  BY <1>1 DEF EventsKept, OwnSeconds, Second
<1>4. SUFFICES ASSUME EventsKept, OwnSeconds, "halfway" \notin mishaps,
                      NEW n \in written..Len(chain), NEW d \in OpenAt(chain, n)
               PROVE  Recorded(d)' \/ RedeemedLater(n, d)'
  BY <1>1, <1>3 DEF ScheduleInv, OpenAt
<1>5. d \in Deferred
  BY DEF OpenAt
<1>6. /\ \A e \in Deferred : Recorded(e) /\ Redeems[next] # e => Recorded(e)'
      /\ \A e \in Deferred : e = next => Recorded(e)'
  BY <1>4, PastEvents
<1>7. RedeemedLater(n, d) => RedeemedLater(n, d)'
  BY <1>1 DEF RedeemedLater, InTime
<1>8. Recorded(d) \/ RedeemedLater(n, d) \/ d = next
  BY <1>4 DEF ScheduleInv, Entering
<1>9. CASE Redeems[next] = d
  <2>1. n \in 1..Len(chain) /\ n # Len(chain)
    <3>1. n \in 0..Len(chain)
      BY <1>2 DEF BaseOK, BlockOK
    <3> QED BY <1>2, <1>9, <3>1 DEF OpenAt
  <2>2. chain[n] < next
    BY <1>2, <2>1, LastIsGreatest DEF ChainInv, ChainOK
  <2>3. InTime(next) /\ next <= seen
    BY <1>2 DEF ChainInv, ChainOK, RedeemInv
  <2>4. RedeemedLater(n, d)
    BY <1>2, <1>9, <2>2, <2>3 DEF RedeemedLater
  <2> QED BY <1>7, <2>4
<1> QED BY <1>5, <1>6, <1>7, <1>8, <1>9

LEMMA CrashSchedule ==
  ASSUME BaseOK, ScheduleInv, Crash
  PROVE  ScheduleInv'
<1>1. /\ chain' = SubSeq(chain, 1, written) /\ UNCHANGED <<eventFile, target, written, seen>>
      /\ mishaps \subseteq mishaps' /\ (Halfway => "halfway" \in mishaps')
  BY DEF Crash, files
<1>2. chain \in Seq(Message) /\ written \in 0..Len(chain)
  BY DEF BaseOK, BlockOK
<1>3. Len(chain') = written /\ Agree(chain', chain, written) /\ Agree(chain, chain', written)
  <2>1. Len(chain') = written /\ \A i \in 1..written : chain'[i] = chain[i]
    BY <1>1, <1>2, Beginning
  <2> QED BY <2>1 DEF Agree
<1>4. SUFFICES ASSUME EventsKept', OwnSeconds', ("halfway" \notin mishaps)',
                      NEW n \in written..written, NEW d \in OpenAt(chain', n)
               PROVE  Recorded(d)' \/ RedeemedLater(n, d)'
  BY <1>1, <1>3 DEF ScheduleInv, OpenAt
<1>5. EventsKept /\ OwnSeconds /\ "halfway" \notin mishaps /\ ~Halfway
  BY <1>1, <1>4 DEF EventsKept, OwnSeconds, Second
<1>6. n = written /\ n \in written..Len(chain)
  BY <1>2
<1>7. d \in OpenAt(chain, n)
  BY <1>3, <1>6, AgreeFacts
<1>8. Recorded(d) \/ RedeemedLater(n, d)
  BY <1>5, <1>6, <1>7 DEF ScheduleInv, Entering, Halfway
<1>9. Recorded(d) => Recorded(d)'
  BY <1>1 DEF Recorded, Second
<1>10. RedeemedLater(n, d) => RedeemedLater(n, d)'
  <2>1. n \in 1..n
    <3>1. n \in Nat /\ n # 0
      BY <1>2, <1>6, <1>7 DEF OpenAt
    <3> QED BY <3>1
  <2>2. chain'[n] = chain[n]
    BY <1>3, <1>6, <2>1 DEF Agree
  <2> QED BY <1>1, <2>2 DEF RedeemedLater, InTime
<1> QED BY <1>8, <1>9, <1>10

LEMMA NextSchedule ==
  BaseOK /\ ChainInv /\ EventInv /\ RedeemInv /\ ScheduleInv /\ [Next]_vars => ScheduleInv'
<1> SUFFICES ASSUME BaseOK, ChainInv, EventInv, RedeemInv, ScheduleInv, [Next]_vars PROVE ScheduleInv'
  OBVIOUS
<1>0. BaseOK' /\ written \in written..Len(chain)
  BY NextBase DEF BaseOK, BlockOK
<1>1. CASE Confirm \/ Refuse \/ PushHash \/ AddId \/ Persist
  <2>1. step # "past" /\ UNCHANGED <<eventFile, target, mishaps, chain, seen, written>>
    BY <1>1 DEF Confirm, Refuse, PushHash, AddId, Persist, files, block, process
  <2> QED BY <1>0, <2>1, QuietSchedule
<1>2. CASE \/ UNCHANGED vars
           \/ \E m \in Message : FindByMessageId(m) \/ ExpireId(m)
           \/ \E nr \in hashes : ExpireHash(nr)
  <2>1. UNCHANGED <<eventFile, target, mishaps, chain, seen, written, step, next>>
    BY <1>2 DEF FindByMessageId, ExpireId, ExpireHash, vars, files, block, process
  <2> QED BY <1>0, <2>1, QuietSchedule
<1>3. CASE Write
  <2>1. UNCHANGED <<eventFile, target, mishaps, chain, seen, step, next>> /\ written' = Len(chain)
    BY <1>3 DEF Write, block, process
  <2>2. written' \in written..Len(chain)
    BY <2>1 DEF BaseOK, BlockOK
  <2> QED BY <1>0, <2>1, <2>2, QuietSchedule
<1>4. CASE PushTransaction
  BY <1>4, PushSchedule
<1>5. CASE RunPastAddToBlockchain
  BY <1>5, PastSchedule
<1>6. CASE Crash
  BY <1>6, CrashSchedule
<1>7. ASSUME NEW bad \in Db \cup {"none"}, Start(bad) \/ StartFails(bad) PROVE ScheduleInv'
  <2>1. step = "begin" /\ UNCHANGED <<written, chain, seen, target>> /\ mishaps \subseteq mishaps'
    BY <1>7, StartingBase DEF Start, StartFails
  <2>2. EventsKept' => eventFile' = eventFile
    BY <1>7, StartEvents
  <2> QED BY <1>0, <2>1, <2>2, QuietSchedule
<1> QED BY <1>1, <1>2, <1>3, <1>4, <1>5, <1>6, <1>7 DEF Next

(***************************************************************************)
(* An open deferred transfer has its timeout event, or waits for the       *)
(* redemption for which it was removed and that comes again                *)
(* (OpenIsScheduled).                                                      *)
(***************************************************************************)
THEOREM TimeoutsKept == Spec => []OpenIsScheduled
<1> DEFINE Inv == BaseOK /\ ChainInv /\ EventInv /\ RedeemInv /\ ScheduleInv
<1>1. Init => Inv
  <2> SUFFICES ASSUME Init PROVE EventInv /\ RedeemInv /\ ScheduleInv
    BY InitBase, InitChain
  <2>1. DOMAIN eventFile = {} /\ ~Up /\ chain = <<>> /\ written = 0 /\ step = "begin"
    BY DEF Init, NoFun, Up
  <2>2. \A n \in written..Len(chain) : OpenAt(chain, n) = {}
    BY <2>1 DEF OpenAt
  <2> QED BY <2>1, <2>2 DEF EventInv, RedeemInv, ScheduleInv, Recorded
<1>2. Inv /\ [Next]_vars => Inv'
  BY NextBase, NextChain, NextEvents, NextRedeem, NextSchedule
<1>3. Spec => []Inv
  <2> HIDE DEF Inv
  <2> QED BY <1>1, <1>2, PTL DEF Spec
<1>4. Inv => OpenIsScheduled
  <2> SUFFICES ASSUME BaseOK, ChainInv, EventInv, RedeemInv, ScheduleInv, Settled, OwnSeconds,
                      EventsKept, "halfway" \notin mishaps, NEW d \in Open(chain)
               PROVE  Scheduled(d)
    BY DEF OpenIsScheduled, EventsKept
  <2>1. /\ chain \in Seq(Message) /\ DOMAIN chain = 1..Len(chain) /\ Up /\ step \notin {"push", "past"}
        /\ next \in Nat /\ seen \in Nat /\ step \in Step /\ written \in 0..Len(chain)
    BY Messages DEF BaseOK, BlockOK, PlaceOK, Settled, Up
  <2>2. PICK n \in Nat : n = Len(chain) /\ n \in written..Len(chain)
    <3>1. Len(chain) \in Nat /\ Len(chain) \in written..Len(chain)
      BY <2>1
    <3> QED BY <3>1
  <2>3. d \in OpenAt(chain, n) /\ d \in Deferred /\ n > 0
    BY <2>1, <2>2 DEF Open, OpenAt
  <2>4. CASE Recorded(d)
    BY <2>1, <2>3, <2>4 DEF EventInv, Scheduled
  <2>5. CASE RedeemedLater(n, d)
    <3>1. PICK m \in Message : chain[n] < m /\ m <= seen /\ InTime(m) /\ Redeems[m] = d
      BY <2>5 DEF RedeemedLater
    <3>2. Last(chain) = chain[n] /\ m \in Nat
      <4>1. chain # <<>>
        BY <2>2, <2>3
      <4> QED BY <2>2, <4>1, Messages DEF Last
    <3>3. ~(m < next)
      BY <2>1, <2>2, <2>3, <3>1, <3>2 DEF RedeemInv, Refused
    <3>4. m \in next..seen
      BY <2>1, <3>1, <3>2, <3>3
    <3> QED BY <3>1, <3>4 DEF Scheduled
  <2> QED BY <2>1, <2>2, <2>3, <2>4, <2>5 DEF ScheduleInv, Entering
<1> QED BY <1>3, <1>4, PTL
=============================================================================
