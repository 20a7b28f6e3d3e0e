---------------------------- MODULE MCBlockStore ----------------------------
(* At most two IO workers, and a topic of which a message is refused.      *)
EXTENDS BlockStore, TLC

AcceptedMessages == {1, 3}

(* Neither in the same year nor in the same month.                         *)
Months == [m \in AcceptedMessages |-> IF m = 1 THEN Month(1, 12) ELSE Month(2, 11)]

Workers == Permutations(Worker)
=============================================================================
