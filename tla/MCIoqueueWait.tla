--------------------------- MODULE MCIoqueueWait ----------------------------
(* IoqueueWait for TLC. *)
EXTENDS IoqueueWait

MCPriority == [t \in Threads |-> 0]
=============================================================================
