------------------------------- MODULE Thread -------------------------------
(***************************************************************************)
(* The thread layer of the kernel: thread/thread.c with the context switch *)
(* of thread/switch.S, the timer interrupt that preempts (device/timer.c)  *)
(* and the CPU's interrupt flag as kernel/interrupt.c uses it.             *)
(*                                                                         *)
(* There is one CPU.  Code that runs with interrupts off is atomic until   *)
(* it switches thread or turns them on again; code that runs with          *)
(* interrupts on can be preempted by TimerTick between any two steps.      *)
(*                                                                         *)
(* The intrusive lists of lib/kernel/list.c are sequences of threads here: *)
(* an element of thread_ready_list is the general_tag of a task_struct.    *)
(***************************************************************************)
EXTENDS Naturals, Sequences, Functions

CONSTANTS
  Threads,      \* the pages that hold, or will hold, a task_struct
  main_thread,  \* the PCB of main(), at 0xc009e000
  priority      \* the prio argument each thread is started with

ASSUME MainAssumption == main_thread \in Threads
ASSUME PriorityAssumption == priority \in [Threads -> 0..255]   \* uint8_t

TASK_RUNNING == "TASK_RUNNING"
TASK_READY   == "TASK_READY"
TASK_BLOCKED == "TASK_BLOCKED"
TASK_WAITING == "TASK_WAITING"
TASK_HANGING == "TASK_HANGING"
NO_TASK      == "NO_TASK"       \* the page is not a task_struct yet

BlockedStatus == {TASK_BLOCKED, TASK_WAITING, TASK_HANGING}
TaskStatus    == BlockedStatus \cup {TASK_RUNNING, TASK_READY, NO_TASK}

INTR_ON    == "INTR_ON"
INTR_OFF   == "INTR_OFF"
IntrStatus == {INTR_ON, INTR_OFF}

VARIABLES
  cur,                \* running_thread(): the thread whose stack esp is in
  intr,               \* the interrupt flag of the CPU
  status,             \* task_struct.status
  ticks,              \* task_struct.ticks: what is left of the time slice
  thread_ready_list,
  thread_all_list,
  saved,              \* the interrupt flag a thread gets back when it is
                      \* switched in: from the eflags the timer interrupt
                      \* pushed, the old_status of thread_block, or the
                      \* intr_enable() of kernel_thread
  panicked            \* some ASSERT failed: panic_spin loops for ever

vars == <<cur, intr, status, ticks, thread_ready_list, thread_all_list,
          saved, panicked>>

(* The PCB fields have their types; ticks stays inside its uint8_t, so no  *)
(* decrement of intr_timer_handler wraps.                                  *)
TypeOK ==
  /\ cur \in Threads
  /\ intr \in IntrStatus
  /\ status \in [Threads -> TaskStatus]
  /\ ticks \in [Threads -> 0..255]
  /\ thread_ready_list \in Seq(Threads)
  /\ thread_all_list \in Seq(Threads)
  /\ saved \in [Threads -> IntrStatus]
  /\ panicked \in BOOLEAN

(* The state thread_init() leaves: only main has a PCB, and main() has not *)
(* executed its sti yet.                                                   *)
Init ==
  /\ cur = main_thread
  /\ intr = INTR_OFF
  /\ status = [t \in Threads |->
                 IF t = main_thread THEN TASK_RUNNING ELSE NO_TASK]
  /\ ticks = [t \in Threads |-> 0]
  /\ thread_ready_list = << >>
  /\ thread_all_list = <<main_thread>>
  /\ saved = [t \in Threads |-> INTR_OFF]
  /\ panicked = FALSE

-----------------------------------------------------------------------------

elem_find(list, t) == t \in Range(list)
list_append(list, t) == Append(list, t)
list_push(list, t) == <<t>> \o list

(* panic_spin: interrupts off, then an endless loop. *)
Panic ==
  /\ panicked' = TRUE
  /\ intr' = INTR_OFF
  /\ UNCHANGED <<cur, status, ticks, thread_ready_list, thread_all_list, saved>>

(* The steps of a function whose ASSERTs are the conjunction cond. *)
Asserting(cond, steps) ==
  IF cond THEN steps /\ panicked' = FALSE ELSE Panic

(* switch_to: the thread that leaves will get back the interrupt flag old. *)
switch_to(next, old) ==
  /\ cur' = next
  /\ saved' = [saved EXCEPT ![cur] = old]
  /\ intr' = saved'[next]

(* The second half of schedule(): take the first thread of the ready list  *)
(* and switch_to it.  st is the status of every thread after the first     *)
(* half.                                                                   *)
ScheduleNext(ready, st, old) ==
  LET next == Head(ready)
  IN  /\ thread_ready_list' = Tail(ready)
      /\ status' = [st EXCEPT ![next] = TASK_RUNNING]
      /\ switch_to(next, old)

(* Mutant of ScheduleExpired: list_push for list_append. *)
ScheduleExpiredPush ==
  Asserting(/\ status[cur] = TASK_RUNNING
            /\ ~elem_find(thread_ready_list, cur),
            /\ ScheduleNext(list_push(thread_ready_list, cur),
                            [status EXCEPT ![cur] = TASK_READY], INTR_ON)
            /\ ticks' = [ticks EXCEPT ![cur] = priority[cur]]
            /\ UNCHANGED thread_all_list)

(* schedule() called by a thread that is still TASK_RUNNING: its slice is  *)
(* over and it goes to the tail of the ready list with a new slice.        *)
ScheduleExpired ==
  Asserting(/\ status[cur] = TASK_RUNNING
            /\ ~elem_find(thread_ready_list, cur),
            /\ ScheduleNext(list_append(thread_ready_list, cur),
                            [status EXCEPT ![cur] = TASK_READY], INTR_ON)
            /\ ticks' = [ticks EXCEPT ![cur] = priority[cur]]
            /\ UNCHANGED thread_all_list)

(* Mutant of ScheduleBlocked: the new status is never stored. *)
ScheduleBlockedKeepsStatus(stat, old) ==
  Asserting(thread_ready_list # << >>,
            /\ ScheduleNext(thread_ready_list, status, old)
            /\ UNCHANGED <<ticks, thread_all_list>>)

(* Mutant of ScheduleBlocked: a thread that blocks gets a new slice. *)
ScheduleBlockedRefills(stat, old) ==
  Asserting(thread_ready_list # << >>,
            /\ ScheduleNext(thread_ready_list, [status EXCEPT ![cur] = stat], old)
            /\ ticks' = [ticks EXCEPT ![cur] = priority[cur]]
            /\ UNCHANGED thread_all_list)

(* schedule() called by thread_block, which has set the thread's status.   *)
ScheduleBlocked(stat, old) ==
  Asserting(thread_ready_list # << >>,
            /\ ScheduleNext(thread_ready_list, [status EXCEPT ![cur] = stat], old)
            /\ UNCHANGED <<ticks, thread_all_list>>)

-----------------------------------------------------------------------------

(* Mutant of TimerTick: the slice is decremented before the test. *)
TimerTickDecrementFirst ==
  /\ ~panicked
  /\ intr = INTR_ON
  /\ \/ /\ ticks[cur] = 1
        /\ ScheduleExpired
     \/ /\ ticks[cur] # 1
        /\ ticks' = [ticks EXCEPT ![cur] = @ - 1]
        /\ UNCHANGED <<cur, intr, status, thread_ready_list, thread_all_list,
                       saved, panicked>>

(* intr_timer_handler: taken only with interrupts on, through an interrupt *)
(* gate that turns them off; iretd turns them on again.  Stacks do not     *)
(* overflow in this model: the ASSERT of stack_magic is left out.          *)
TimerTick ==
  /\ ~panicked
  /\ intr = INTR_ON
  /\ \/ /\ ticks[cur] = 0
        /\ ScheduleExpired
     \/ /\ ticks[cur] > 0
        /\ ticks' = [ticks EXCEPT ![cur] = @ - 1]
        /\ UNCHANGED <<cur, intr, status, thread_ready_list, thread_all_list,
                       saved, panicked>>

(* A new thread's PCB and its stack: switch_to will return into            *)
(* kernel_thread, which calls intr_enable().                               *)
init_thread(t) ==
  /\ status' = [status EXCEPT ![t] = TASK_READY]
  /\ ticks' = [ticks EXCEPT ![t] = 0]
thread_create(t) == saved' = [saved EXCEPT ![t] = INTR_ON]

(* thread_start on a fresh page.  Both lists are searched and extended     *)
(* without protection of its own: its callers have interrupts off.  The    *)
(* second ASSERT looks for general_tag in thread_all_list, which links     *)
(* all_list_tag: it cannot fail.                                           *)
ThreadStart(t) ==
  /\ ~panicked
  /\ intr = INTR_OFF
  /\ status[t] = NO_TASK
  /\ Asserting(~elem_find(thread_ready_list, t),
               /\ init_thread(t)
               /\ thread_create(t)
               /\ thread_ready_list' = list_append(thread_ready_list, t)
               /\ thread_all_list' = list_append(thread_all_list, t)
               /\ UNCHANGED <<cur, intr>>)

(* Mutant of ThreadBlock: intr_enable for intr_set_status(old_status). *)
ThreadBlockEnables(stat) ==
  /\ ~panicked
  /\ ScheduleBlocked(stat, INTR_ON)

(* thread_block, called with a status its first ASSERT accepts. *)
ThreadBlock(stat) ==
  /\ ~panicked
  /\ ScheduleBlocked(stat, intr)

(* Mutant of ThreadUnblock: the status stays blocked. *)
ThreadUnblockKeepsStatus(t) ==
  /\ ~panicked
  /\ Asserting(/\ status[t] \in BlockedStatus
               /\ ~elem_find(thread_ready_list, t),
               /\ thread_ready_list' = list_push(thread_ready_list, t)
               /\ UNCHANGED <<cur, intr, status, ticks, thread_all_list, saved>>)

(* thread_unblock. *)
ThreadUnblock(t) ==
  /\ ~panicked
  /\ Asserting(/\ status[t] \in BlockedStatus
               /\ ~elem_find(thread_ready_list, t),
               /\ thread_ready_list' = list_push(thread_ready_list, t)
               /\ status' = [status EXCEPT ![t] = TASK_READY]
               /\ UNCHANGED <<cur, intr, ticks, thread_all_list, saved>>)

(* intr_enable, intr_disable and intr_set_status, by the running thread. *)
IntrSet(s) ==
  /\ ~panicked
  /\ intr' = s
  /\ UNCHANGED <<cur, status, ticks, thread_ready_list, thread_all_list,
                 saved, panicked>>

(* The environment keeps the contracts of the two calls that can fail:     *)
(* main(), the only thread that is certain to be runnable, never blocks,   *)
(* and only blocked threads are unblocked.                                 *)
Next ==
  \/ TimerTick
  \/ \E t \in Threads : ThreadStart(t)
  \/ \E stat \in BlockedStatus : cur # main_thread /\ ThreadBlock(stat)
  \/ \E t \in Threads : status[t] \in BlockedStatus /\ ThreadUnblock(t)
  \/ \E s \in IntrStatus : IntrSet(s)

Spec == Init /\ [][Next]_vars

(* The 8253 raises IRQ0 for ever and the PIC keeps a request pending until *)
(* it is taken, so a tick is taken if interrupts are on again and again;   *)
(* every intr_disable() of the kernel is matched by an intr_set_status().  *)
ThreadFairness == WF_vars(IntrSet(INTR_ON)) /\ SF_vars(TimerTick)

-----------------------------------------------------------------------------

RunningIsCurrent == \A t \in Threads : status[t] = TASK_RUNNING <=> t = cur
ReadyListExact ==
  /\ IsInjective(thread_ready_list)
  /\ Range(thread_ready_list) = {t \in Threads : status[t] = TASK_READY}
AllListExact ==
  /\ IsInjective(thread_all_list)
  /\ Range(thread_all_list) = {t \in Threads : status[t] # NO_TASK}

(* The scheduler's bookkeeping is exact: the running thread is the only    *)
(* TASK_RUNNING one, thread_ready_list holds every TASK_READY thread once  *)
(* and nothing else, thread_all_list every thread once.                    *)
SchedulerConsistent == RunningIsCurrent /\ ReadyListExact /\ AllListExact

(* No ASSERT of thread.c fails: schedule() always finds a next thread and  *)
(* no list ever receives a thread it already holds.                        *)
NoPanic == ~panicked

(* main() can always run, so schedule() always finds a next thread. *)
MainRunnable == status[main_thread] \in {TASK_RUNNING, TASK_READY}

(* Every ready thread runs, although thread_unblock lets woken threads     *)
(* overtake it at the head of the ready list.                              *)
NoStarvation ==
  \A t \in Threads : status[t] = TASK_READY ~> status[t] = TASK_RUNNING
=============================================================================
