------------------------------ MODULE MCCaches ------------------------------
(* Two deferred transfers: the first is redeemed, and the second is sent   *)
(* twice, when the chain is longer than what a start looks through.        *)
EXTENDS Caches

DeferredTransfers == {1, 3, 4}
Redemptions == <<0, 1, 0, 0>>
PublicKeys == <<{"a", "b"}, {"b", "c"}, {"a", "c"}, {"a", "c"}>>
Signatures == <<"s1", "s2", "s3", "s3">>

(* In the same second, and not.                                            *)
TimeoutDates ==
  {[d \in DeferredTransfers |-> <<IF same THEN 9 ELSE 9 + d, d>>] : same \in BOOLEAN}
=============================================================================
