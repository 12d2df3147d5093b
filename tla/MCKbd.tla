-------------------------------- MODULE MCKbd -------------------------------
(* Kbd for TLC.  With priority 0 every tick preempts, wherever it falls. *)
EXTENDS Kbd

MCPriority == [t \in Threads |-> 0]
=============================================================================
