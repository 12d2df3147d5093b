------------------------------- MODULE Mutex --------------------------------
(***************************************************************************)
(* What the locks of thread/sync.c promise: recursive mutual exclusion,    *)
(* and a lock that is free and wanted is granted to somebody.  Who gets it *)
(* is open: a thread that waits can be overtaken for ever.                 *)
(***************************************************************************)
EXTENDS Naturals

CONSTANTS Threads, Locks, NULL

VARIABLES
  want,   \* the lock each thread is asking for, or NULL
  depth   \* how often each thread holds each lock

mutexVars == <<want, depth>>

Init ==
  /\ want = [t \in Threads |-> NULL]
  /\ depth = [t \in Threads |-> [l \in Locks |-> 0]]

Request(t, l) ==
  /\ want[t] = NULL
  /\ want' = [want EXCEPT ![t] = l]
  /\ UNCHANGED depth

Grant(t, l) ==
  /\ want[t] = l
  /\ \A u \in Threads \ {t} : depth[u][l] = 0
  /\ depth' = [depth EXCEPT ![t][l] = @ + 1]
  /\ want' = [want EXCEPT ![t] = NULL]

Release(t, l) ==
  /\ want[t] = NULL
  /\ depth[t][l] > 0
  /\ depth' = [depth EXCEPT ![t][l] = @ - 1]
  /\ UNCHANGED want

Next == \E t \in Threads, l \in Locks : Request(t, l) \/ Grant(t, l) \/ Release(t, l)

Spec == Init /\ [][Next]_mutexVars

GrantSome(l) == \E t \in Threads : Grant(t, l)

FairSpec == Spec /\ \A l \in Locks : WF_mutexVars(GrantSome(l))
=============================================================================
