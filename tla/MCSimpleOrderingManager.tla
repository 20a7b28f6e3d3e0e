---------------------- MODULE MCSimpleOrderingManager ----------------------
EXTENDS SimpleOrderingManager, TLC
CONSTANTS alice, bob
Local(s) == [seq |-> s, kind |-> "local", other |-> Unknown, pair |-> 0]
Of(kind, s) == [Local(s) EXCEPT !.kind = kind]
Inbound(s, o, p) == [seq |-> s, kind |-> "inbound", other |-> o, pair |-> p]

One == {alice}
OneTopic == alice :> <<Local(1), Local(2), Of("anonymous", 3)>>
OneStart == alice :> 0

Two == {alice, bob}
TwoTopics == alice :> <<Inbound(1, bob, 1)>> @@ bob :> <<Local(1)>>
TwoStarts == alice :> 0 @@ bob :> 0

\* Each community waits for an outbound transaction of the other.
MutualTopics == alice :> <<Inbound(1, bob, 2)>> @@ bob :> <<Inbound(1, alice, 2)>>
=============================================================================
