------------------------------ MODULE Ioqueue -------------------------------
(***************************************************************************)
(* The ring buffer of device/ioqueue.c with its two slots for a blocked    *)
(* producer and a blocked consumer.  Its functions ASSERT that interrupts  *)
(* are off; each action here is the part of one of them between two points *)
(* where another thread can run.                                           *)
(***************************************************************************)
EXTENDS Sync

CONSTANTS
  bufsize,   \* 64 in ioqueue.h
  ioq_lock   \* ioq->lock

ASSUME BufsizeAssumption == bufsize \in Nat \ {0, 1}
ASSUME IoqLockAssumption == ioq_lock \in Locks

VARIABLES buffer, head, tail, producer, consumer

ioqVars == <<buffer, head, tail, producer, consumer>>

next_pos(pos) == (pos + 1) % bufsize
ioq_full  == next_pos(tail) = head

(* Mutant of ioq_empty: the test of ioq_full. *)
IoqEmptyOffByOne == next_pos(tail) = head

ioq_empty == head = tail

IoqInit ==
  /\ buffer = [i \in 0..(bufsize - 1) |-> 0]
  /\ head = 0
  /\ tail = 0
  /\ producer = NULL
  /\ consumer = NULL

(* The bytes written and not yet read, oldest first. *)
Content ==
  [i \in 1..((head - tail) % bufsize) |-> buffer[(tail + i - 1) % bufsize]]

(* An ASSERT of ioqueue.c. *)
IoqASSERT(cond, steps) ==
  IF cond THEN steps ELSE Panic /\ UNCHANGED <<syncVars, ioqVars>>

(* ioq_putchar when the queue is not full. *)
PutByte(byte) ==
  /\ buffer' = [buffer EXCEPT ![head] = byte]
  /\ head' = next_pos(head)
  /\ IF consumer # NULL THEN ThreadUnblock(consumer) ELSE UNCHANGED vars
  /\ consumer' = NULL
  /\ UNCHANGED <<tail, producer, syncVars>>

(* ioq_getchar when the queue is not empty: it returns buffer[tail]. *)
TakeByte ==
  /\ tail' = next_pos(tail)
  /\ IF producer # NULL THEN ThreadUnblock(producer) ELSE UNCHANGED vars
  /\ producer' = NULL
  /\ UNCHANGED <<buffer, head, consumer, syncVars>>

(* ioq_getchar, inside its loop: lock_acquire(&ioq->lock). *)
GetWaitLock == LockAcquire(ioq_lock) /\ UNCHANGED ioqVars

(* ioq_wait(&ioq->consumer).  Its ASSERT wants the slot to be taken. *)
ConsumerWait ==
  IoqASSERT(consumer # NULL,
            /\ consumer' = cur
            /\ ThreadBlock(TASK_BLOCKED)
            /\ UNCHANGED <<buffer, head, tail, producer, syncVars>>)

(* ioq_getchar, inside its loop: lock_release(&ioq->lock). *)
GetWaitUnlock == LockRelease(ioq_lock) /\ UNCHANGED ioqVars
=============================================================================
