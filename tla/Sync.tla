-------------------------------- MODULE Sync --------------------------------
(***************************************************************************)
(* The locks of thread/sync.c: a recursive lock around a binary semaphore  *)
(* with a list of blocked waiters, on top of the thread layer.             *)
(*                                                                         *)
(* pc[t] is the statement of lock_acquire, sema_down, lock_release or      *)
(* sema_up thread t executes next ("run": t is in its own code).  Code     *)
(* that may run with interrupts on has one step per access to shared       *)
(* state, so that a timer interrupt can fall between any two of them; code *)
(* between intr_disable and the next switch or intr_set_status is one step.*)
(* Every step calls at most one operation of the thread layer.             *)
(***************************************************************************)
EXTENDS Thread

CONSTANTS
  Locks,     \* the struct locks
  MaxDepth   \* bound: nested acquisitions of one lock by one thread

ASSUME MaxDepthAssumption == MaxDepth \in Nat \ {0}

NULL == "NULL"
ASSUME NullAssumption == NULL \notin Threads

VARIABLES
  value,             \* semaphore.value
  waiters,           \* semaphore.waiters: general_tags, so threads
  holder,            \* lock.holder
  holder_repeat_nr,  \* lock.holder_repeat_nr
  pc,                \* the next statement of each thread
  plock,             \* the argument of the call a thread is in
  old_status,        \* the local variable of sema_down and sema_up
  depth              \* history: acquisitions of each lock a thread has been
                     \* granted and has not begun to give back

lockVars == <<value, waiters, holder, holder_repeat_nr>>
callVars == <<pc, plock, old_status, depth>>
syncVars == <<lockVars, callVars>>
allVars  == <<vars, syncVars>>

Clients == Threads \ {main_thread}   \* main() takes no lock after its sti

AcquirePC == {"again", "down", "wait", "got", "first"}
ReleasePC == {"less", "clear", "zero", "up", "wake", "upret"}
PC == AcquirePC \cup ReleasePC \cup {"run"}

(* The semaphore of a lock is binary, as the ASSERTs of lock_acquire and   *)
(* sema_up want it, and holder_repeat_nr stays within the nested calls made. *)
SyncTypeOK ==
  /\ value \in [Locks -> 0..1]
  /\ waiters \in [Locks -> Seq(Threads)]
  /\ holder \in [Locks -> Threads \cup {NULL}]
  /\ holder_repeat_nr \in [Locks -> 0..MaxDepth]
  /\ pc \in [Threads -> PC]
  /\ plock \in [Threads -> Locks]
  /\ old_status \in [Threads -> IntrStatus]
  /\ depth \in [Threads -> [Locks -> 0..MaxDepth]]

(* lock_init and sema_init(.., 1) of every lock. *)
LockInit ==
  /\ value = [l \in Locks |-> 1]
  /\ waiters = [l \in Locks |-> << >>]
  /\ holder = [l \in Locks |-> NULL]
  /\ holder_repeat_nr = [l \in Locks |-> 0]

SyncInit ==
  /\ Init
  /\ LockInit
  /\ pc = [t \in Threads |-> "run"]
  /\ plock \in [Threads -> Locks]
  /\ old_status = [t \in Threads |-> INTR_OFF]
  /\ depth = [t \in Threads |-> [l \in Locks |-> 0]]

-----------------------------------------------------------------------------

At(label) == ~panicked /\ pc[cur] = label
Goto(label) == pc' = [pc EXCEPT ![cur] = label]
lock == plock[cur]

(* ASSERT(cond) before the rest of a step. *)
ASSERT(cond, steps) == IF cond THEN steps ELSE Panic /\ UNCHANGED syncVars

(* lock_acquire, to its test of the holder. *)
LockAcquire(l) ==
  /\ At("run")
  /\ cur \in Clients
  /\ depth[cur][l] < MaxDepth
  /\ plock' = [plock EXCEPT ![cur] = l]
  /\ Goto(IF holder[l] = cur THEN "again" ELSE "down")
  /\ UNCHANGED <<vars, lockVars, old_status, depth>>

(* Mutant of AcquireAgain: the nested acquisition is not counted. *)
AcquireAgainUncounted ==
  /\ At("again")
  /\ depth' = [depth EXCEPT ![cur][lock] = @ + 1]
  /\ Goto("run")
  /\ UNCHANGED <<vars, lockVars, plock, old_status>>

(* lock_acquire, holder_repeat_nr++ and return. *)
AcquireAgain ==
  /\ At("again")
  /\ holder_repeat_nr' = [holder_repeat_nr EXCEPT ![lock] = @ + 1]
  /\ depth' = [depth EXCEPT ![cur][lock] = @ + 1]
  /\ Goto("run")
  /\ UNCHANGED <<vars, value, waiters, holder, plock, old_status>>

(* sema_down and sema_up, intr_disable. *)
IntrDisable(from, to) ==
  /\ At(from)
  /\ old_status' = [old_status EXCEPT ![cur] = intr]
  /\ Goto(to)
  /\ IntrSet(INTR_OFF)
  /\ UNCHANGED <<lockVars, plock, depth>>

SemaDown == IntrDisable("down", "wait")
SemaUp   == IntrDisable("up", "wake")

(* sema_down, the body of its while loop.  The thread comes back, woken by *)
(* sema_up, to the test of the loop, with interrupts still off.            *)
SemaDownBlock ==
  /\ At("wait")
  /\ value[lock] = 0
  /\ ASSERT(~elem_find(waiters[lock], cur),
            /\ waiters' = [waiters EXCEPT ![lock] = list_append(@, cur)]
            /\ ThreadBlock(TASK_BLOCKED)
            /\ UNCHANGED <<value, holder, holder_repeat_nr, callVars>>)

(* Mutant of SemaDownTake: no test of the value. *)
SemaDownTakeUntested ==
  /\ At("wait")
  /\ value' = [value EXCEPT ![lock] = @ - 1]
  /\ IntrSet(old_status[cur])
  /\ Goto("got")
  /\ UNCHANGED <<waiters, holder, holder_repeat_nr, plock, old_status, depth>>

(* sema_down, after its while loop. *)
SemaDownTake ==
  /\ At("wait")
  /\ value[lock] # 0
  /\ ASSERT(value[lock] - 1 = 0,
            /\ value' = [value EXCEPT ![lock] = @ - 1]
            /\ IntrSet(old_status[cur])
            /\ Goto("got")
            /\ UNCHANGED <<waiters, holder, holder_repeat_nr, plock, old_status,
                           depth>>)

(* lock_acquire, holder = running_thread(). *)
SetHolder ==
  /\ At("got")
  /\ holder' = [holder EXCEPT ![lock] = cur]
  /\ Goto("first")
  /\ UNCHANGED <<vars, value, waiters, holder_repeat_nr, plock, old_status, depth>>

(* lock_acquire, holder_repeat_nr = 1 and return. *)
SetRepeat ==
  /\ At("first")
  /\ ASSERT(holder_repeat_nr[lock] = 0,
            /\ holder_repeat_nr' = [holder_repeat_nr EXCEPT ![lock] = 1]
            /\ depth' = [depth EXCEPT ![cur][lock] = 1]
            /\ Goto("run")
            /\ UNCHANGED <<vars, value, waiters, holder, plock, old_status>>)

(* Mutant of LockRelease: every release is taken for the last one. *)
LockReleaseNotNested(l) ==
  /\ At("run")
  /\ depth[cur][l] > 0
  /\ plock' = [plock EXCEPT ![cur] = l]
  /\ depth' = [depth EXCEPT ![cur][l] = @ - 1]
  /\ Goto("clear")
  /\ UNCHANGED <<vars, lockVars, old_status>>

(* Mutant of LockRelease: off by one, the last release only counts down. *)
LockReleaseOffByOne(l) ==
  /\ At("run")
  /\ depth[cur][l] > 0
  /\ plock' = [plock EXCEPT ![cur] = l]
  /\ depth' = [depth EXCEPT ![cur][l] = @ - 1]
  /\ Goto(IF holder_repeat_nr[l] >= 1 THEN "less" ELSE "clear")
  /\ UNCHANGED <<vars, lockVars, old_status>>

(* lock_release, to its second ASSERT.  Clients release what they hold. *)
LockRelease(l) ==
  /\ At("run")
  /\ depth[cur][l] > 0
  /\ ASSERT(/\ holder[l] = cur
            /\ holder_repeat_nr[l] >= 1,
            /\ plock' = [plock EXCEPT ![cur] = l]
            /\ depth' = [depth EXCEPT ![cur][l] = @ - 1]
            /\ Goto(IF holder_repeat_nr[l] > 1 THEN "less" ELSE "clear")
            /\ UNCHANGED <<vars, lockVars, old_status>>)

(* lock_release, holder_repeat_nr-- and return. *)
ReleaseOnce ==
  /\ At("less")
  /\ holder_repeat_nr' = [holder_repeat_nr EXCEPT ![lock] = @ - 1]
  /\ Goto("run")
  /\ UNCHANGED <<vars, value, waiters, holder, plock, old_status, depth>>

(* lock_release, holder = NULL. *)
ClearHolder ==
  /\ At("clear")
  /\ holder' = [holder EXCEPT ![lock] = NULL]
  /\ Goto("zero")
  /\ UNCHANGED <<vars, value, waiters, holder_repeat_nr, plock, old_status, depth>>

(* lock_release, holder_repeat_nr = 0. *)
ClearRepeat ==
  /\ At("zero")
  /\ holder_repeat_nr' = [holder_repeat_nr EXCEPT ![lock] = 0]
  /\ Goto("up")
  /\ UNCHANGED <<vars, value, waiters, holder, plock, old_status, depth>>

(* Mutant of SemaUpWake: the first waiter is woken but stays in the list. *)
SemaUpWakeNoPop ==
  /\ At("wake")
  /\ ASSERT(value[lock] = 0,
            /\ value' = [value EXCEPT ![lock] = @ + 1]
            /\ IF waiters[lock] # << >>
                 THEN ThreadUnblock(Head(waiters[lock]))
                 ELSE UNCHANGED vars
            /\ Goto("upret")
            /\ UNCHANGED <<waiters, holder, holder_repeat_nr, plock, old_status,
                           depth>>)

(* Mutant of SemaUpWake: no waiter is woken. *)
SemaUpWakeNobody ==
  /\ At("wake")
  /\ value' = [value EXCEPT ![lock] = @ + 1]
  /\ Goto("upret")
  /\ UNCHANGED <<vars, waiters, holder, holder_repeat_nr, plock, old_status, depth>>

(* sema_up, from its first ASSERT to its second: with interrupts off. *)
SemaUpWake ==
  /\ At("wake")
  /\ ASSERT(value[lock] = 0,
            /\ value' = [value EXCEPT ![lock] = @ + 1]
            /\ IF waiters[lock] # << >>
                 THEN /\ waiters' = [waiters EXCEPT ![lock] = Tail(@)]
                      /\ ThreadUnblock(Head(waiters[lock]))
                 ELSE UNCHANGED <<waiters, vars>>
            /\ Goto("upret")
            /\ UNCHANGED <<holder, holder_repeat_nr, plock, old_status, depth>>)

(* Mutant of SemaUpReturn: intr_enable for intr_set_status(old_status). *)
SemaUpReturnEnables ==
  /\ At("upret")
  /\ IntrSet(INTR_ON)
  /\ Goto("run")
  /\ UNCHANGED <<lockVars, plock, old_status, depth>>

(* sema_up, intr_set_status(old_status), and lock_release returns. *)
SemaUpReturn ==
  /\ At("upret")
  /\ IntrSet(old_status[cur])
  /\ Goto("run")
  /\ UNCHANGED <<lockVars, plock, old_status, depth>>

(* The steps of a thread that is inside a call of sync.c. *)
CallStep ==
  \/ AcquireAgain
  \/ SemaDown \/ SemaDownBlock \/ SemaDownTake
  \/ SetHolder \/ SetRepeat
  \/ ReleaseOnce \/ ClearHolder \/ ClearRepeat
  \/ SemaUp \/ SemaUpWake \/ SemaUpReturn

(* What a thread does in its own code: main() starts the other threads and *)
(* executes sti, a client calls sync.c or changes its interrupt flag.      *)
MainStart(t) == cur = main_thread /\ ThreadStart(t) /\ UNCHANGED syncVars
OwnIntr(s) ==
  /\ At("run")
  /\ cur = main_thread => s = INTR_ON
  /\ IntrSet(s)
  /\ UNCHANGED syncVars
Preempt == TimerTick /\ UNCHANGED syncVars

SyncNext ==
  \/ CallStep
  \/ \E l \in Locks : LockAcquire(l) \/ LockRelease(l)
  \/ \E t \in Clients : MainStart(t)
  \/ \E s \in IntrStatus : OwnIntr(s)
  \/ Preempt

SyncSpec == SyncInit /\ [][SyncNext]_allVars

-----------------------------------------------------------------------------

(* Every list a general_tag can be linked in agrees with the thread's own  *)
(* state: the waiters of a semaphore are the threads blocked in its        *)
(* sema_down, once each.  The tag is one list node: a thread that were in  *)
(* two lists, or twice in one, would corrupt both.                         *)
WaitersExact ==
  \A l \in Locks :
    /\ IsInjective(waiters[l])
    /\ Range(waiters[l]) =
         {t \in Threads : /\ status[t] \in BlockedStatus
                          /\ pc[t] = "wait"
                          /\ plock[t] = l}

(* The sections sync.c protects with intr_disable run with interrupts off, *)
(* also after thread_block has switched away and back; so nothing falls    *)
(* between the test of value and the change that depends on it.            *)
AtomicSections ==
  /\ pc[cur] \in {"wait", "wake", "upret"} => intr = INTR_OFF
  /\ \A t \in Threads \ {cur} : pc[t] \notin {"wake", "upret"}

(* Between lock_acquire and lock_release no other thread holds the lock,   *)
(* although holder, holder_repeat_nr and value are written in separate     *)
(* steps with interrupts on.                                               *)
MutualExclusion ==
  \A l \in Locks : \A t, u \in Threads :
    depth[t][l] > 0 /\ depth[u][l] > 0 => t = u

(* The thread in the critical section is the holder, with the number of    *)
(* acquisitions it really made: a nested release never frees the lock, and *)
(* the last one always does.                                               *)
HolderExact ==
  \A l \in Locks : \A t \in Threads :
    /\ depth[t][l] > 0 => holder[l] = t
    /\ holder[l] = t /\ pc[t] = "run" => holder_repeat_nr[l] = depth[t][l]

(* No wake-up is lost: a free lock with waiters has a thread on its way to *)
(* take it, even if the woken thread is overtaken and blocks again.        *)
NoLostWakeup ==
  \A l \in Locks :
    value[l] = 1 /\ waiters[l] # << >> =>
      \E t \in Threads : /\ status[t] \in {TASK_READY, TASK_RUNNING}
                         /\ pc[t] = "wait"
                         /\ plock[t] = l

(* sync.c as a client of the thread layer: every call keeps the contracts  *)
(* of thread_block and thread_unblock, and no ASSERT fails.                *)
ThreadLayer == Spec

want == [t \in Threads |-> IF pc[t] \in AcquirePC THEN plock[t] ELSE NULL]
M == INSTANCE Mutex WITH want <- want, depth <- depth

(* Every step of sync.c is a request, a grant or a release of a recursive  *)
(* mutex, or invisible: a lock is granted only while no other thread has   *)
(* it, and only to a thread that asked.                                    *)
MutexSafety == M!Spec

(* sync.c implements the mutex with its liveness: a lock that is free and  *)
(* wanted is granted.                                                      *)
ImplementsMutex == M!FairSpec
=============================================================================
