------------------------------ MODULE MCMemory ------------------------------
(* Memory for TLC.  With priority 0 every tick preempts, wherever it falls. *)
EXTENDS Memory

MCPriority == [t \in Threads |-> 0]
=============================================================================
