----------------------------- MODULE MCShutdown -----------------------------
(* Two communities, so that the second is still at work while the first    *)
(* is closing; a file that names both and one whose second entry is not    *)
(* complete.                                                               *)
EXTENDS Shutdown

CONSTANTS c1, c2

MCCommunity == {c1, c2}
MCFiles ==
  {<<[communityId |-> c1, complete |-> TRUE], [communityId |-> c2, complete |-> TRUE]>>,
   <<[communityId |-> c1, complete |-> TRUE], [communityId |-> c2, complete |-> FALSE]>>}
At(address) == [address |-> address, tls |-> address = "domain"]
Book(file, nodes) == [file |-> file, nodes |-> nodes]
MCAddressbooks ==
  {Book("missing", {}), Book("invalid", {}), Book("valid", {}),
   Book("valid", {{At("ipv4")}}), Book("valid", {{At("domain")}, {}}),
   Book("valid", {{At("ipv4"), At("broken")}})}
(* Two transactions of one community: a write task has the first while the *)
(* block collects the second.                                              *)
MCMaxConfirmed == [c \in MCCommunity |-> IF c = c1 THEN 2 ELSE 0]
=============================================================================
