------------------------------- MODULE Queries ------------------------------
(***************************************************************************)
(* What others see of the blockchain of a community: the answers of        *)
(* server::json_rpc::RequestHandler and ApiHandler, given while the        *)
(* ordering manager's thread confirms transactions, and the notifications  *)
(* of the community server by task::NotifyClient.                          *)
(*                                                                         *)
(* A call is a record: its method, the community it names, its pubkey, the *)
(* names of the parameters it gives besides these, and their values.       *)
(* Parameters are an object; the community's key dictionary knows the key  *)
(* of every entry, which the entry's constructor has added before.         *)
(***************************************************************************)
EXTENDS BlockSearch

CONSTANTS
  Requests,      \* sequences of calls: one, or a batch
  FromNumber,    \* calls of getTransactions by a client that follows the chain
  Direction,     \* the default search directions a filter may have
  NotificationWorkers, \* number of workers that run NotifyClient tasks
  MaxNotifyTasks, \* bound: NotifyClient tasks that wait for a worker
  BlockUriType   \* the community's newBlockUri may have: its type, or "" for none

Asked == UNION {Range(r) : r \in Requests}

ASSUME QueriesAssumption ==
  /\ \A r \in Requests : r \in Seq(Asked) /\ r # <<>>
  /\ \A c \in Asked : c.size \in Nat /\ c.page \in Nat /\ c.from \in Nat /\ c.dir \in {"ASC", "DESC"}
  /\ \A c \in FromNumber : c.method = "getTransactions"
  /\ Direction \subseteq {"ASC", "DESC"}
  /\ NotificationWorkers \in Nat

VARIABLES
  pushed,        \* transactions in the block and its index
  confirming,    \* where createAndAddConfirmedTransaction is, or "terminated"
  mMessageIds,   \* transactions whose id is in mMessageIdsCache
  mCommunityServer, \* the kind of client, or "none"
  notifyTasks,   \* NotifyClient tasks in the queue of the scheduler
  running,       \* and with a worker
  told,          \* history: the one the community server was told of since the
                 \* last request, or 0
  toldBefore,    \* history: it asks for that one
  calls,         \* calls of the request that are not answered yet
  step,          \* where handle() is with the first of them
  counted,       \* countTransactions or totalCount
  countedAt,     \* history: transactions at that time
  answers,       \* responses to the request so far
  read           \* transactions the following client has got

chainVars == <<pushed, confirming, mMessageIds>>
notifications == <<mCommunityServer, notifyTasks, running, told>>
request == <<calls, step, counted, countedAt, toldBefore>>
vars == <<chainVars, notifications, request, answers, read>>

(* What has been answered completely is sent, and forgotten by what comes  *)
(* next.                                                                   *)
Elsewhere ==
  /\ answers' = IF calls = <<>> THEN <<>> ELSE answers
  /\ UNCHANGED <<request, read>>

Running == confirming # "terminated"

Nrs == 1..Len(Ledger)

(* The transactions a server that was told of them may ask for.            *)
AskedFor == UNION {{r[i].nr : i \in DOMAIN r} : r \in Requests}

-----------------------------------------------------------------------------
(* FileBased::createAndAddConfirmedTransaction, with mWorkMutex held: the  *)
(* transaction can be found by a search before its message id is known.    *)

Push ==
  /\ confirming = "idle" /\ pushed < Len(Ledger)
  /\ Cardinality(notifyTasks) < MaxNotifyTasks
  /\ pushed' = pushed + 1
  /\ confirming' = "pushed"
  /\ UNCHANGED <<mMessageIds, notifications>> /\ Elsewhere

Notify ==
  /\ confirming = "pushed"
  /\ mMessageIds' = mMessageIds \cup {pushed}
  /\ notifyTasks' = notifyTasks \cup {nr \in {pushed} : mCommunityServer # "none"}
  /\ confirming' = "idle"
  /\ UNCHANGED <<pushed, mCommunityServer, running, told>> /\ Elsewhere

(* Mutant: the number of workers does not count.                           *)
TakeAny ==
  /\ Running /\ notifyTasks # {}
  /\ running' = running \cup {Min(notifyTasks)}
  /\ notifyTasks' = notifyTasks \ {Min(notifyTasks)}
  /\ UNCHANGED <<chainVars, mCommunityServer, told>> /\ Elsewhere

(* CPU workers take the tasks in order, and run several at a time.         *)
TakeNotification ==
  /\ Running /\ notifyTasks # {} /\ Cardinality(running) < NotificationWorkers
  /\ running' = running \cup {Min(notifyTasks)}
  /\ notifyTasks' = notifyTasks \ {Min(notifyTasks)}
  /\ UNCHANGED <<chainVars, mCommunityServer, told>> /\ Elsewhere

(* How postRequest of the two clients ends: with true, false, an exception *)
(* of gradido_blockchain, or another.  GraphQL looks for `succeed' in the  *)
(* answer, and a body that is no JSON is an exception; JsonRPC looks at    *)
(* nothing, catches all and returns true.                                  *)
GraphQLOutcome ==
  {[answered |-> TRUE, ends |-> "true"], [answered |-> TRUE, ends |-> "false"]}
    \cup {[answered |-> a, ends |-> e] : a \in BOOLEAN, e \in {"exception", "std::exception"}}

JsonRPCOutcome == {[answered |-> a, ends |-> "true"] : a \in BOOLEAN}

PostRequest(client) == IF client = "graphql" THEN GraphQLOutcome ELSE JsonRPCOutcome

(* notificate logs the exceptions of gradido_blockchain, and run() forgets *)
(* the result: such a task ends the same way whatever the server said, and *)
(* is not repeated.  Any other exception ends the process, in the worker.  *)
Notificate(nr, outcome) ==
  /\ outcome.ends # "std::exception"
  /\ running' = running \ {nr}
  /\ told' = IF outcome.answered /\ nr \in AskedFor THEN nr ELSE 0

NotificateNewTransaction(nr) ==
  /\ Running /\ nr \in running
  /\ \E outcome \in PostRequest(mCommunityServer) : Notificate(nr, outcome)
  /\ UNCHANGED <<chainVars, mCommunityServer, notifyTasks>> /\ Elsewhere

NotificationThrows(nr) ==
  /\ Running /\ nr \in running
  /\ \E outcome \in PostRequest(mCommunityServer) : outcome.ends = "std::exception"
  /\ confirming' = "terminated" /\ answers' = <<>>
  /\ UNCHANGED <<pushed, mMessageIds, notifications, request, read>>

Terminated == ~Running /\ UNCHANGED vars

-----------------------------------------------------------------------------
(* RequestHandler: one response per call, in their order.                  *)

Call == Head(calls)
NoDecay == {}
NoResult == [nrs |-> <<>>, count |-> 0, decay |-> NoDecay]

(* handleRequest, with POST.                                               *)
HandleRequest(r) ==
  /\ Running /\ calls = <<>>
  /\ calls' = r
  /\ answers' = <<>>
  /\ step' = "handle" /\ counted' = 0 /\ countedAt' = 0
  /\ toldBefore' = (told # 0 /\ r[1].nr = told)
  /\ told' = 0
  /\ UNCHANGED <<chainVars, mCommunityServer, notifyTasks, running, read>>

Respond(errors, results, result) ==
  /\ answers' = Append(answers,
       [call |-> Call, errors |-> errors, results |-> results,
        result |-> result, at |-> pushed, countedAt |-> countedAt, told |-> toldBefore])
  /\ calls' = Tail(calls)
  /\ step' = "handle" /\ counted' = 0 /\ countedAt' = 0
  /\ toldBefore' = FALSE
  /\ read' = IF Call \in FromNumber /\ errors = 0 THEN read \o result.nrs ELSE read
  /\ UNCHANGED <<chainVars, notifications>>

Result(nrs) == [NoResult EXCEPT !.nrs = nrs]

-----------------------------------------------------------------------------
(* ApiHandler.                                                             *)

NoNeedForPubkey ==
  {"getLastTransaction", "getTransactions", "getTransaction", "findUserByNameHash"}

(* What getStringParameter and its like insist on.  A value of a wrong     *)
(* type counts as not given.                                               *)
Required(method) ==
  CASE method = "getTransactions" -> {"fromTransactionId", "format"}
    [] method = "getAddressBalance" -> {"date"}
    [] method = "getTransaction" -> {"format"}
    [] method = "getCreationSumForMonth" -> {"month", "year", "startSearchDate"}
    [] method = "findUserByNameHash" -> {"nameHash"}
    [] OTHER -> {}

Methods ==
  {"getLastTransaction", "getTransactions", "getAddressBalance", "getAddressType",
   "getAddressTxids", "getTransaction", "getCreationSumForMonth", "listTransactions",
   "getTransactionsForAddress", "findUserByNameHash"}

KeyGiven(c) == c.pubkey # NoKey \/ c.method \in NoNeedForPubkey

(* handleOneRpcCall: without a method, or params, it comes no further.     *)
Invalid(c) == c.method = ""

(* The community, the pubkey, the method, and its parameters.  A pubkey    *)
(* that is no hex string ends in an exception, handleOneRpcCall's error.   *)
Refused(c) ==
  \/ Invalid(c)
  \/ c.community # "known"
  \/ ~KeyGiven(c)
  \/ c.method \notin Methods
  \/ ~(Required(c.method) \subseteq c.given)
  \/ c.method = "getTransaction" /\ c.given \cap {"transactionId", "hieroTransactionId"} = {}

Handling(method) ==
  /\ Running /\ calls # <<>>
  /\ Call.method = method /\ ~Refused(Call)

HandleRefused ==
  /\ Running /\ calls # <<>> /\ step = "handle"
  /\ Call.method # "listCommunities" /\ Refused(Call)
  /\ Respond(1, 0, NoResult)

ListCommunities ==
  /\ Running /\ calls # <<>> /\ Call.method = "listCommunities"
  /\ Respond(0, 1, NoResult)

Filter(c, function) ==
  [from |-> 0, key |-> c.pubkey, type |-> "NONE", size |-> 0, page |-> 0,
   dir |-> "ASC", function |-> function, user |-> NoKey]

(* A missing format is an error, and then the default is taken.            *)
GetLastTransaction ==
  LET last == FindAll([Filter(Call, "none") EXCEPT !.key = NoKey, !.size = 1,
                                                   !.page = 1, !.dir = "DESC"], pushed)
      noFormat == IF "format" \in Call.given THEN 0 ELSE 1
      errors == noFormat + (IF last = <<>> THEN 1 ELSE 0) IN
  /\ Handling("getLastTransaction")
  /\ Respond(errors, IF errors = 0 THEN 1 ELSE 0, Result(last))

(* findAllTransactions: the total first, of all transactions, and then the *)
(* page.  The following client asks from the one after the last it got.    *)
FromTransactionId == IF Call \in FromNumber THEN Len(read) + 1 ELSE Call.from

CountTransactions ==
  /\ Handling("getTransactions") /\ step = "handle"
  /\ counted' = Len(FindAll([Filter(Call, "none") EXCEPT !.key = NoKey], pushed))
  /\ countedAt' = pushed
  /\ step' = "page"
  /\ UNCHANGED <<chainVars, notifications, calls, answers, toldBefore, read>>

FindAllTransactions ==
  LET page == FindAll([Filter(Call, "none") EXCEPT !.key = NoKey, !.from = FromTransactionId,
                                                   !.size = Call.size, !.page = 1], pushed) IN
  /\ Handling("getTransactions") /\ step = "page"
  /\ Respond(0, 1, [Result(page) EXCEPT !.count = counted])

(* The balance, the address type and the sum of the creations are          *)
(* computed by gradido_blockchain.                                         *)
GetOfAddress ==
  /\ \/ Handling("getAddressBalance") \/ Handling("getAddressType")
     \/ Handling("getCreationSumForMonth")
  /\ Respond(0, 1, NoResult)

GetAddressTxids ==
  /\ Handling("getAddressTxids")
  /\ \E dir \in Direction :
       Respond(0, 1, Result(FindAllFast([Filter(Call, "none") EXCEPT !.dir = dir], pushed)))

(* Mutant: the result is added also after the error.                       *)
FoundOrNot(nr) == Respond(IF nr = 0 THEN 1 ELSE 0, 1, Result(<<>>))

Found(nr) == IF nr = 0 THEN Respond(1, 0, NoResult) ELSE Respond(0, 1, Result(<<nr>>))

(* getTransactionForId takes mWorkMutex.  Mutant: hasTransactionNr leaves   *)
(* out the newest.                                                         *)
BelowNewest(nr) == IF nr \in 1..pushed - 1 THEN nr ELSE 0

TransactionForId(nr) == IF HasTransactionNr(nr, pushed) THEN nr ELSE 0

(* has() says whether there is a number, which is taken for the number.    *)
FindByMessageId(nr) ==
  IF nr \in mMessageIds THEN TransactionForId(1) ELSE TransactionForId(nr)

GetTransaction ==
  /\ Handling("getTransaction")
  /\ IF "transactionId" \in Call.given
     THEN confirming = "idle" /\ Found(TransactionForId(Call.nr))
     ELSE (confirming = "idle" \/ Call.nr \notin mMessageIds) /\ Found(FindByMessageId(Call.nr))

GetTransactionsForAddress ==
  /\ Handling("getTransactionsForAddress")
  /\ \E dir \in Direction :
       LET found == FindAll([Filter(Call, "none") EXCEPT !.from = Call.from, !.size = Call.size,
                                                         !.page = 1, !.dir = dir], pushed) IN
       Respond(0, 1, Result(found))

FindUserByNameHash ==
  /\ Handling("findUserByNameHash")
  /\ \E dir \in Direction :
       LET found == FindAll([Filter(Call, "nameHash") EXCEPT !.key = NoKey, !.dir = dir,
                              !.type = "REGISTER_ADDRESS", !.user = Call.user], pushed) IN
       IF found = <<>> THEN Respond(1, 0, NoResult) ELSE Respond(0, 1, Result(found))

(* listTransactions with TransactionList::generateList: count, then page.  *)
OnlyCreations(c) == IF "onlyCreations" \in c.given THEN "CREATION" ELSE "NONE"

WalletFilter ==
  [Filter(Call, "wallet") EXCEPT !.size = Call.size, !.page = Call.page, !.dir = Call.dir,
                                 !.type = OnlyCreations(Call)]

CountForWallet ==
  /\ Handling("listTransactions") /\ step = "handle"
  /\ counted' = Len(FindAll([WalletFilter EXCEPT !.size = 0, !.page = 0], pushed))
  /\ countedAt' = pushed
  /\ step' = "page"
  /\ UNCHANGED <<chainVars, notifications, calls, answers, toldBefore, read>>

ListTransactions ==
  LET lines == Lines(WalletFilter, pushed) IN
  /\ Handling("listTransactions") /\ step = "page"
  /\ Respond(0, 1, [nrs |-> lines, count |-> counted,
                    decay |-> IF lines # <<>> /\ HasLastDecay(WalletFilter, counted)
                              THEN {DecayLine(Last(lines), Call.pubkey)} ELSE NoDecay])

Handle ==
  \/ HandleRefused \/ ListCommunities
  \/ GetLastTransaction \/ CountTransactions \/ FindAllTransactions
  \/ GetOfAddress \/ GetAddressTxids \/ GetTransaction
  \/ CountForWallet \/ ListTransactions
  \/ GetTransactionsForAddress \/ FindUserByNameHash

-----------------------------------------------------------------------------
(* updateListenerCommunity: another type is logged, and gets no client.    *)
Client(type) == IF type \in {"json", "graphql"} THEN type ELSE "none"

Init ==
  /\ mCommunityServer \in {Client(type) : type \in BlockUriType}
  /\ pushed = 0 /\ confirming = "idle" /\ mMessageIds = {}
  /\ notifyTasks = {} /\ running = {} /\ told = 0 /\ toldBefore = FALSE
  /\ calls = <<>> /\ step = "handle" /\ counted = 0 /\ countedAt = 0
  /\ answers = <<>> /\ read = <<>>

Next ==
  \/ Push \/ Notify
  \/ TakeNotification
  \/ \E nr \in Nrs : NotificateNewTransaction(nr) \/ NotificationThrows(nr)
  \/ \E r \in Requests : HandleRequest(r)
  \/ Handle
  \/ Terminated

Spec == Init /\ [][Next]_vars

-----------------------------------------------------------------------------
TypeOK ==
  /\ pushed \in 0..Len(Ledger)
  /\ confirming \in {"idle", "pushed", "terminated"}
  /\ mMessageIds \subseteq Nrs
  /\ mCommunityServer \in {"none", "json", "graphql"}
  /\ mCommunityServer = "none" => notifyTasks \cup running = {}
  /\ notifyTasks \subseteq Nrs /\ running \subseteq Nrs
  /\ Cardinality(running) <= NotificationWorkers
  /\ told \in 0..Len(Ledger) /\ toldBefore \in BOOLEAN
  /\ step \in {"handle", "page"}
  /\ counted \in 0..Len(Ledger) /\ countedAt \in 0..Len(Ledger)
  /\ \A i \in DOMAIN answers : Range(answers[i].result.nrs) \subseteq Nrs
  /\ Range(read) \subseteq Nrs

Answers(method) == {a \in Range(answers) : a.call.method = method /\ a.errors = 0}

(***************************************************************************)
(* A client that asks getTransactions again and again, from the number     *)
(* after the last it got, gets the chain: nothing is missing and nothing   *)
(* comes twice, wherever a page ends in a month and whatever is confirmed  *)
(* between the calls, or between the count and the page.                   *)
(***************************************************************************)
ClientReadsAll == \A i \in DOMAIN read : read[i] = i

(***************************************************************************)
(* Every answer from a search without a filter function is what a scan of  *)
(* the chain finds at some time while the call was handled: the first      *)
(* entries in the search direction that match.  The total of               *)
(* getTransactions is never above the length of the chain then.            *)
(***************************************************************************)
Scan(filter, nrs, n) ==
  \E dir \in Direction : nrs = PageOf(filter, MatchingNrs([filter EXCEPT !.dir = dir], n))

AnswersMatchScan ==
  /\ \A a \in Answers("getTransactionsForAddress") :
       Scan([Filter(a.call, "none") EXCEPT !.from = a.call.from, !.size = a.call.size, !.page = 1],
            a.result.nrs, a.at)
  /\ \A a \in Answers("getAddressTxids") : Scan(Filter(a.call, "none"), a.result.nrs, a.at)
  /\ \A a \in Answers("getLastTransaction") : a.result.nrs = <<a.at>>
  /\ \A a \in Answers("getTransactions") : a.result.count = a.countedAt

(***************************************************************************)
(* The wallet view shows the transactions of the account page by page: in  *)
(* the order of the chain, a page has the entries that a list of all of    *)
(* them has there.  Hidden entries are taken out after the page was        *)
(* filled, and then entries of other months may come after its own.        *)
(***************************************************************************)
WalletPage(a) == [Filter(a.call, "wallet") EXCEPT
                    !.size = a.call.size, !.page = a.call.page, !.dir = a.call.dir,
                    !.type = OnlyCreations(a.call)]
Hidden(key, nr) == NotForWallet(key, nr) \/ Ledger[nr].type = "COMMUNITY_ROOT"
Shown(a, s) == Directed(WalletPage(a), {nr \in Range(s) : ~Hidden(a.call.pubkey, nr)})
OfAccount(a) == MatchingNrs(WalletPage(a), a.at)

WalletSlices ==
  \A a \in Answers("listTransactions") :
    LET page == PageOf(WalletPage(a), OfAccount(a))
        nrs == IF a.call.dir = "DESC" THEN Reverse(a.result.nrs) ELSE a.result.nrs IN
    IsPrefix(Shown(a, page), nrs) /\ (Shown(a, page) = page => nrs = page)

(***************************************************************************)
(* A line for the decay since then follows the newest transaction of the   *)
(* account, and no other, is there whenever that one is on the page, and   *)
(* begins with the balance the account has; unless the chain grew between  *)
(* count and page.  If one memo of the newest transaction is plain, the    *)
(* line begins with no date and no balance instead.  It holds for all      *)
(* types, with a size of the page (one of 0 is no limit for the search,    *)
(* but a page of that size for the check of the last decay); in the        *)
(* default order, when nothing is hidden but the registration, which is    *)
(* the first entry of an account, and in the other order when nothing is:  *)
(* the hidden entries fill up pages but are not counted.                   *)
(***************************************************************************)
DecaySince(nr, n, key) ==
  [from |-> IF Ledger[nr].plain THEN 0 ELSE nr,
   startBalance |-> IF Ledger[nr].plain THEN UnsetBalance ELSE Balance(n, key)]

NothingHidden(a, all, shown) ==
  shown = all \/ (a.call.dir = "DESC" /\ shown = Front(all))

DecayFollowsNewest ==
  \A a \in Answers("listTransactions") :
    LET all == OfAccount(a)
        shown == Shown(a, all)
        newest == Max(Range(shown)) IN
    a.countedAt = a.at /\ OnlyCreations(a.call) = "NONE" /\ a.call.size # 0
      /\ NothingHidden(a, all, shown) =>
        a.result.decay = IF shown # <<>> /\ newest \in Range(a.result.nrs)
                         THEN {DecaySince(newest, a.at, a.call.pubkey)} ELSE NoDecay

(***************************************************************************)
(* The lines of a page add up: the amount of each is what it changes the   *)
(* balance of the account by, transfers by link, their change and their    *)
(* timeout included; but for who transfers to himself or redeems his own   *)
(* link, who is shown one side of it, for the address of a link that times *)
(* out, which is shown what the sender gets back, and for the address of a *)
(* link that another link is redeemed to, or comes from: it is shown the   *)
(* other's change as its own.  On a page of all types that hides nothing a *)
(* line begins with the balance the account had before it.                 *)
(***************************************************************************)
OneSided(nr, key, isLink) ==
  \/ Ledger[nr].from = key /\ key = Ledger[nr].to
  \/ Ledger[nr].type = "REDEEM_DEFERRED_TRANSFER" /\ LinkOf(nr).from = key
       /\ key \in {Ledger[nr].from, Ledger[nr].to}
  \/ Ledger[nr].type = "TIMEOUT_DEFERRED_TRANSFER" /\ Ledger[nr].from = key
  \/ Ledger[nr].type = "REDEEM_DEFERRED_TRANSFER" /\ Ledger[nr].from # key /\ isLink

AmountsAddUp ==
  \A a \in Answers("listTransactions") :
    LET page == PageOf(WalletPage(a), OfAccount(a))
        whole == OnlyCreations(a.call) = "NONE" /\ Shown(a, page) = page IN
    \A i \in DOMAIN a.result.nrs :
      LET nr == a.result.nrs[i]
          key == a.call.pubkey
          isLink == IsLink(key, a.at)
          line == CreateTransaction(nr, key, isLink)[1] IN
      /\ ~OneSided(nr, key, isLink) => line.amount + line.change = Balance(nr, key) - Balance(nr - 1, key)
      /\ whole /\ i > 1 => PreviousBalance(a.result.nrs, i, key) = Balance(nr - 1, key)

(***************************************************************************)
(* A community server that is told of a transaction and then asks for it   *)
(* by number finds it.                                                     *)
(***************************************************************************)
ToldIsFound ==
  \A i \in DOMAIN answers :
    LET a == answers[i] IN
    a.call.method = "getTransaction" /\ "transactionId" \in a.call.given
      /\ ~Refused(a.call) /\ a.told => a.result.nrs = <<a.call.nr>>

(***************************************************************************)
(* Every call of a request gets a response with either a result or one     *)
(* error, also if the chain is empty; but getLastTransaction, which adds   *)
(* an error for the missing format and goes on.                            *)
(***************************************************************************)
OneOutcome ==
  \A i \in DOMAIN answers :
    LET a == answers[i] IN
    (a.call.method = "getLastTransaction" => "format" \in a.call.given) =>
      a.errors + a.results = 1

=============================================================================
