--------------------------- MODULE MCCPUSheduler ---------------------------
(* The two workers of the node's schedulers and three tasks, one of which  *)
(* waits for a message.                                                    *)
EXTENDS CPUSheduler

CONSTANTS w1, w2, t1, t2, t3
=============================================================================
