------------------------------- MODULE MCSync -------------------------------
(* Sync for TLC.  With priority 0 every tick preempts, wherever it falls. *)
EXTENDS Sync

MCPriority == [t \in Threads |-> 0]
=============================================================================
