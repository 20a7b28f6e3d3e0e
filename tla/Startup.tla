------------------------------ MODULE Startup -------------------------------
(***************************************************************************)
(* The start of the process: main prepares libsodium and has the server    *)
(* run; MainServer::init reads the configuration, connects to nodes of the *)
(* hiero network, and has FileBasedProvider add                            *)
(* the communities of communities.json one after the other, which holds    *)
(* its mutex until it has asked the network for all their topics.          *)
(*                                                                         *)
(* A community's ordering manager has no thread until the answer of the    *)
(* network is there and a worker has begun SyncTopicOnStartup: that may be *)
(* while other communities are still added, or while the process ends.     *)
(***************************************************************************)
EXTENDS Integers, Sequences, FiniteSets

CONSTANTS
  Community,
  Files,        \* what communities.json may hold, as sequences of entries
  Addressbooks, \* what the address book of the network may be
  MaxClients    \* bound: hiero nodes the configuration asks for

Entry == [communityId : Community, complete : BOOLEAN]

(* A node of the network has several endpoints.  An IP address that is not *)
(* four bytes long is "broken"; `tls' says whether the port is             *)
(* PORT_NODE_TLS.                                                          *)
ServiceEndpoint == [address : {"ipv4", "domain", "broken"}, tls : BOOLEAN]
NodeAddress == SUBSET ServiceEndpoint
Addressbook == [file : {"missing", "invalid", "valid"}, nodes : SUBSET NodeAddress]

ASSUME StartupAssumption ==
  /\ Addressbooks \subseteq Addressbook
  /\ IsFiniteSet(Community)
  /\ Files \subseteq Seq(Entry)
  /\ MaxClients \in Nat

VARIABLES
  main,         \* where the main thread is
  provider,     \* whether it holds mWorkMutex of FileBasedProvider
  mCommunities, \* communities of the GroupIndex
  blockchains,  \* mBlockchainsPerGroup
  hiero,        \* nodeCount, mHieroClientsPerCommunity, and mHieroClients
  sync          \* where SyncTopicOnStartup of each community is

startVars == <<mCommunities, hiero>>

StartAt == {"main", "init", "clients", "provider", "add", "online", "run", "terminated"}
SyncAt == {"none", "scheduled", "running", "done"}

-----------------------------------------------------------------------------
(* GroupIndex::update stops at the first entry without one of the members  *)
(* it needs, and the node starts with those before it.  A file that is     *)
(* missing or no array is the empty sequence.                              *)
Readable(file) ==
  {i \in DOMAIN file : \A j \in 1..i : file[j].complete}

Update(file) == {file[i].communityId : i \in Readable(file)}

(* More clients than a community needs are dropped at random; FileBased    *)
(* asserts that it gets one.                                               *)
ClientsOfCommunity ==
  IF Len(hiero.clients) > hiero.perCommunity THEN hiero.perCommunity
  ELSE Len(hiero.clients)

NotAdded == mCommunities \ blockchains

-----------------------------------------------------------------------------
Goto(from, to) == main = from /\ main' = to

(* Asked for its version, the program does nothing else.                   *)
ParseParameter == {0, 1}

(* libsodium may not be there.                                             *)
Main ==
  /\ \E parseResult \in ParseParameter, sodium \in {-1, 0} :
       Goto("main", IF parseResult = 1 \/ sodium < 0 THEN "terminated" ELSE "init")
  /\ UNCHANGED <<startVars, blockchains, provider, sync>>

(* The timer and both schedulers run from here on.                         *)
LoadConfig ==
  /\ Goto("init", "clients")
  /\ \E n, k \in 0..MaxClients :
       hiero' = [nodeCount |-> n, perCommunity |-> k, clients |-> <<>>]
  /\ UNCHANGED <<mCommunities, blockchains, provider, sync>>

(* Addressbook::load throws, unless there is a file of the right format;   *)
(* that it names no node is only logged.                                   *)
Loads(book) == book.file = "valid"

(* pickRandomNode and pickRandomEndpoint: the one picked for a client may  *)
(* be any, and the same several times.  None to pick from is a modulo by   *)
(* zero.                                                                   *)
CanPick(book) == book.nodes # {} /\ {} \notin book.nodes
Picked(book) == UNION book.nodes

(* getConnectionString throws for an IP address of another length.         *)
GetsConnectionString(endpoint) == endpoint.address # "broken"

(* With TLS the client will check the hash of the node's certificate.      *)
(* gRPC may be without root certificates.                                  *)
GetTlsChannelCredentials == {"certificateHash", "SSLException"}

(* createForTarget does not connect yet, but there may be no channel.      *)
CreateForTarget(endpoint) ==
  {"ChannelException"} \cup
  IF endpoint.tls THEN GetTlsChannelCredentials ELSE {"insecure"}

Exceptions == {"SSLException", "ChannelException"}

ConnectedTo(book) ==
  UNION {CreateForTarget(e) : e \in {f \in Picked(book) : GetsConnectionString(f)}}

Connected(book) == [1..hiero.nodeCount -> ConnectedTo(book) \ Exceptions]

ConnectFails(book) ==
  \/ ~Loads(book)
  \/ /\ hiero.nodeCount > 0
     /\ \/ ~CanPick(book)
        \/ \E e \in Picked(book) : ~GetsConnectionString(e)
        \/ ConnectedTo(book) \cap Exceptions # {}

(* In offline mode there are no clients.                                   *)
ConnectClients ==
  /\ \/ Goto("clients", "provider") /\ UNCHANGED hiero
     \/ \E book \in Addressbooks :
          /\ Loads(book)
          /\ hiero.nodeCount > 0 => CanPick(book)
          /\ Goto("clients", "provider")
          /\ \E clients \in Connected(book) : hiero' = [hiero EXCEPT !.clients = clients]
     \/ \E book \in Addressbooks :
          ConnectFails(book) /\ Goto("clients", "terminated") /\ UNCHANGED hiero
  /\ UNCHANGED <<mCommunities, blockchains, provider, sync>>

InitProvider ==
  /\ Goto("provider",
          IF hiero.perCommunity > Len(hiero.clients) THEN "terminated" ELSE "add")
  /\ provider' = TRUE
  /\ \E file \in Files : mCommunities' = Update(file)
  /\ UNCHANGED <<hiero, blockchains, sync>>

(* The blockchain is in the map before its init.  When that returns false  *)
(* it is taken out; when it throws it stays there.  Either way the start   *)
(* fails.  Whether the index of the communities had to be reset makes no   *)
(* difference: init is always given false.                                 *)
AddCommunity ==
  \E c \in NotAdded :
    /\ \/ /\ ClientsOfCommunity > 0
          /\ \E to \in {"add", "terminated"} : Goto("add", to)
          /\ blockchains' = blockchains \cup {c}
       \/ Goto("add", "terminated") /\ UNCHANGED blockchains
    /\ UNCHANGED <<startVars, provider, sync>>

AllAdded ==
  /\ NotAdded = {}
  /\ Goto("add", "online")
  /\ UNCHANGED <<startVars, blockchains, provider, sync>>

(* The network is asked for the topic; the task is ready with its answer.  *)
InitOnline(c) ==
  /\ Goto("online", "online")
  /\ c \in blockchains /\ sync[c] = "none"
  /\ sync' = [sync EXCEPT ![c] = "scheduled"]
  /\ UNCHANGED <<startVars, blockchains, provider>>

(* The mutex is free, and the JSON-RPC interface answers.                  *)
StartHttpServer ==
  /\ Goto("online", "run")
  /\ \A c \in blockchains : sync[c] # "none"
  /\ provider' = FALSE
  /\ UNCHANGED <<startVars, blockchains, sync>>

StartStep ==
  \/ Main \/ LoadConfig \/ ConnectClients \/ InitProvider \/ AddCommunity \/ AllAdded
  \/ \E c \in Community : InitOnline(c)
  \/ StartHttpServer

SyncStep(c, from, to) ==
  /\ sync[c] = from
  /\ sync' = [sync EXCEPT ![c] = to]
  /\ UNCHANGED <<main, startVars, blockchains, provider>>

StartInit ==
  /\ main = "main"
  /\ provider = FALSE
  /\ mCommunities = {} /\ blockchains = {}
  /\ hiero = [nodeCount |-> 0, perCommunity |-> 0, clients |-> <<>>]
  /\ sync = [c \in Community |-> "none"]
=============================================================================
