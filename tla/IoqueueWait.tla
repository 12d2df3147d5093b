---------------------------- MODULE IoqueueWait -----------------------------
(***************************************************************************)
(* A consumer that uses ioq_getchar as device/ioqueue.c offers it: it      *)
(* calls it without looking first and lets it wait for a byte.             *)
(***************************************************************************)
EXTENDS Ioqueue

VARIABLE loc   \* the statement of ioq_getchar each client is at

waitAllVars == <<allVars, ioqVars, loc>>

WaitInit ==
  /\ SyncInit
  /\ IoqInit
  /\ loc = [t \in Clients |-> "out"]

From(label) == cur \in Clients /\ At("run") /\ loc[cur] = label
To(label) == loc' = [loc EXCEPT ![cur] = label]

(* intr_disable and the call, as in k_thread_a. *)
CallGetchar ==
  /\ From("out") /\ To("get")
  /\ OwnIntr(INTR_OFF)
  /\ UNCHANGED ioqVars

GetByte ==
  /\ From("get") /\ To("return")
  /\ ~ioq_empty
  /\ TakeByte

EnterWait ==
  /\ From("get") /\ To("wait")
  /\ ioq_empty
  /\ GetWaitLock

Wait ==
  /\ From("wait") /\ To("unlock")
  /\ ConsumerWait

LeaveWait ==
  /\ From("unlock") /\ To("get")
  /\ GetWaitUnlock

(* intr_set_status of the caller, which had interrupts on. *)
ReturnGetchar ==
  /\ From("return") /\ To("out")
  /\ OwnIntr(INTR_ON)
  /\ UNCHANGED ioqVars

(* The interrupt handler puts a byte if there is room. *)
Arrive ==
  /\ ~panicked
  /\ intr = INTR_ON
  /\ ~ioq_full
  /\ PutByte(1)
  /\ UNCHANGED loc

WaitNext ==
  \/ CallGetchar \/ GetByte \/ EnterWait \/ Wait \/ LeaveWait \/ ReturnGetchar
  \/ Arrive
  \/ /\ \/ CallStep
        \/ Preempt
        \/ \E t \in Clients : MainStart(t)
        \/ cur = main_thread /\ OwnIntr(INTR_ON)
     /\ UNCHANGED <<ioqVars, loc>>

WaitSpec == WaitInit /\ [][WaitNext]_waitAllVars

(* ioq_wait lets the consumer wait, as its comment says: it never panics. *)
ConsumerCanWait == \A t \in Clients : loc[t] = "unlock" => ~panicked
=============================================================================
