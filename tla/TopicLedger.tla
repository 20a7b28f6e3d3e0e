---------------------------- MODULE TopicLedger ----------------------------
(***************************************************************************)
(* What the ordering of one node promises, whatever its threads do: every  *)
(* community has a ledger of the sequence numbers of its Hiero topic, each *)
(* sequence number is decided once and in order, and deciding it either    *)
(* appends it to the ledger or leaves it out for good.                     *)
(***************************************************************************)
EXTENDS Naturals, Sequences

CONSTANTS Community,   \* the communities (groups) of the node
          LastKnown    \* LastKnown[c]: sequence number the node starts after

VARIABLES position,    \* position[c]: the last sequence number decided
          ledger       \* ledger[c]: the sequence numbers confirmed, in order

vars == <<position, ledger>>

Init ==
  /\ position = LastKnown
  /\ ledger = [c \in Community |-> <<>>]

Decide(c) == position' = [position EXCEPT ![c] = @ + 1]

Confirm(c) ==
  /\ Decide(c)
  /\ ledger' = [ledger EXCEPT ![c] = Append(@, position[c] + 1)]

Skip(c) ==
  /\ Decide(c)
  /\ UNCHANGED ledger

Next == \E c \in Community : Confirm(c) \/ Skip(c)

Spec == Init /\ [][Next]_vars
=============================================================================
