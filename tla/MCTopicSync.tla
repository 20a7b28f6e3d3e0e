---------------------------- MODULE MCTopicSync -----------------------------
(* A topic of three messages, the second of which is invalid and has       *)
(* several chunks, and its replacement with one; pages of two messages.    *)
EXTENDS TopicSync
CONSTANTS old, new

Topics == <<old, old, old, new>>
ValidMessages == {1, 3, 4}
ChunkedMessages == {2}
=============================================================================
