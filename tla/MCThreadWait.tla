---------------------------- MODULE MCThreadWait ----------------------------
(* ThreadWait for TLC: three threads with three different slices. *)
EXTENDS ThreadWait, TLC

CONSTANTS main, t1, t2

MCThreads == {main, t1, t2}
MCPriority == main :> 2 @@ t1 :> 1 @@ t2 :> 3
=============================================================================
