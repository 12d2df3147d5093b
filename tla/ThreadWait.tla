----------------------------- MODULE ThreadWait -----------------------------
(***************************************************************************)
(* How long a ready thread waits.  Thread with a history variable that     *)
(* counts, for every thread, the timer interrupts taken since it became    *)
(* TASK_READY.                                                             *)
(***************************************************************************)
EXTENDS Thread

VARIABLE waited

waitVars == <<vars, waited>>

WaitInit == Init /\ waited = [t \in Threads |-> 0]

(* The slices all other threads can be given, in ticks. *)
OtherSlices(t) ==
  SumFunctionOnSet([u \in Threads |-> priority[u] + 1], Threads \ {t})

(* A tick counts for the threads that are ready before and after it, up to *)
(* the bound OtherSlices, where the counter stops.                         *)
Count(tick) ==
  waited' = [t \in Threads |->
               IF status[t] = TASK_READY /\ status'[t] = TASK_READY
                 THEN waited[t] + (IF tick /\ waited[t] < OtherSlices(t) THEN 1 ELSE 0)
                 ELSE 0]

WaitNext ==
  \/ TimerTick /\ Count(TRUE)
  \/ \E t \in Threads : ThreadStart(t) /\ Count(FALSE)
  \/ \E stat \in BlockedStatus :
       cur # main_thread /\ ThreadBlock(stat) /\ Count(FALSE)
  \/ \E t \in Threads :
       status[t] \in BlockedStatus /\ ThreadUnblock(t) /\ Count(FALSE)
  \/ \E s \in IntrStatus : IntrSet(s) /\ Count(FALSE)

WaitSpec == WaitInit /\ [][WaitNext]_waitVars

FairWaitSpec == WaitSpec /\ ThreadFairness

-----------------------------------------------------------------------------

(* A ready thread waits for less than one full slice of every other        *)
(* thread.  thread_unblock puts woken threads in front of it, again and    *)
(* again, but a thread that blocks keeps what is left of its slice, and    *)
(* one whose slice is over goes behind the waiting thread.                 *)
BoundedWait ==
  \A t \in Threads : status[t] = TASK_READY => waited[t] < OtherSlices(t)
=============================================================================
