----------------------------- MODULE MCQueries ------------------------------
(* A community with two users, one of whom signs creations, over four      *)
(* months, with a link that is redeemed and one that times out.            *)
EXTENDS Queries
CONSTANTS alice, bob, gmw, link1, link2

T(month, type, from, to, amount, link) ==
  [month |-> month, type |-> type, from |-> from, to |-> to, amount |-> amount, link |-> link,
   plain |-> FALSE]
Plain(entry) == [entry EXCEPT !.plain = TRUE]

TheLedger == <<
  T(1, "COMMUNITY_ROOT", gmw, gmw, 0, 0),
  T(1, "REGISTER_ADDRESS", alice, alice, 0, 0),
  T(1, "CREATION", bob, alice, 9, 0),
  T(2, "DEFERRED_TRANSFER", alice, link1, 4, 0),
  T(2, "REDEEM_DEFERRED_TRANSFER", link1, bob, 3, 4),
  Plain(T(3, "TRANSFER", bob, alice, 2, 0)),
  T(3, "DEFERRED_TRANSFER", alice, link2, 2, 0),
  T(4, "TIMEOUT_DEFERRED_TRANSFER", link2, alice, 0, 7)>>

C(method) == [method |-> method, community |-> "known", pubkey |-> NoKey, given |-> {"format"},
              from |-> 1, size |-> 0, page |-> 1, dir |-> "DESC", nr |-> 0, user |-> NoKey]
Following == {[C("getTransactions") EXCEPT !.given = {"fromTransactionId", "format"},
                                           !.size = s, !.from = 0] : s \in {2}}
Page(key, s, p, d) ==
  [C("listTransactions") EXCEPT !.pubkey = key, !.size = s, !.page = p, !.dir = d]
Wallet == {Page(alice, 2, p, d) : p \in {1, 2}, d \in {"ASC", "DESC"}} \cup {Page(bob, 2, 1, "ASC")}
            \cup {Page(link1, 1, p, d) : p \in {1, 2}, d \in {"ASC", "DESC"}}
            \cup {Page(link2, 0, 0, "DESC"),
                  [Page(alice, 1, 1, "ASC") EXCEPT !.given = {"onlyCreations"}]}
ForAddress == {[C("getTransactionsForAddress") EXCEPT !.pubkey = bob, !.from = f, !.size = s] :
                 f \in {3}, s \in {2}}
ByNumber == {[C("getTransaction") EXCEPT !.given = {"format", "transactionId"}, !.nr = nr] :
               nr \in {5}}
Others ==
  {C("getLastTransaction"), [C("getLastTransaction") EXCEPT !.given = {}],
   C("getTransaction"), C("unknown"), C(""), C("listCommunities"),
   [C("getAddressTxids") EXCEPT !.pubkey = bob],
   [C("getAddressType") EXCEPT !.pubkey = bob],
   [C("getLastTransaction") EXCEPT !.community = "unknown"],
   [C("findUserByNameHash") EXCEPT !.given = {"nameHash"}, !.user = alice]}
ByMessageId ==
  {[C("getTransaction") EXCEPT !.given = {"format", "hieroTransactionId"}, !.nr = nr] : nr \in {3}}

AllRequests ==
  {<<c>> : c \in Following \cup Wallet \cup ForAddress \cup ByNumber \cup Others \cup ByMessageId}
    \cup {<<C("unknown"), C("getLastTransaction")>>}
Directions == {"ASC", "DESC"}
=============================================================================
