----------------------------- MODULE SyncProofs -----------------------------
(***************************************************************************)
(* The scheduler's bookkeeping is exact and none of the ASSERTs of         *)
(* thread.c fails, for any number of threads and any priorities; and the   *)
(* locks of sync.c exclude each other's holders and keep the contracts of  *)
(* the thread layer, for any number of threads and locks.                  *)
(***************************************************************************)
EXTENDS Sync, SequenceTheorems, WellFoundedInduction, TLAPS

(* A non-empty set of numbers has a smallest one. *)
LEMMA Least == ASSUME NEW S \in SUBSET Nat, S # {} PROVE \E m \in S : \A k \in S : m <= k
<1> DEFINE Less == {ss \in Nat \X Nat : ss[1] < ss[2]}
<1>1. IsWellFoundedOn(Less, Nat)
  BY NatLessThanWellFounded DEF OpToRel
<1>2. PICK m \in S : \A k \in S : ~(<<k, m>> \in Less)
  <2> HIDE DEF Less
  <2> QED BY <1>1, WFMin
<1>3. \A k \in S : ~(k < m)
  BY <1>2
<1> QED BY <1>3

-----------------------------------------------------------------------------
(* What the list operations of lib/kernel/list.c do to the set of elements *)
(* of a list without duplicates: the facts every proof about the ready     *)
(* list and the waiting lists rests on.                                    *)

(* list_append of an element that is not in the list adds exactly it. *)
LEMMA AppendFacts ==
  ASSUME NEW S, NEW s \in Seq(S), NEW e \in S,
         IsInjective(s), e \notin Range(s)
  PROVE  /\ Append(s, e) \in Seq(S)
         /\ Append(s, e) # << >>
         /\ IsInjective(Append(s, e))
         /\ Range(Append(s, e)) = Range(s) \cup {e}
<1> DEFINE a == Append(s, e)
<1>1. /\ Len(s) \in Nat
      /\ DOMAIN s = 1..Len(s)
      /\ a \in Seq(S)
      /\ a # << >>
      /\ Len(a) = Len(s) + 1
      /\ \A i \in 1..Len(s) : a[i] = s[i]
      /\ a[Len(s) + 1] = e
  BY AppendProperties, LenProperties
<1>2. DOMAIN a = 1..(Len(s) + 1)
  BY <1>1, LenProperties
<1>3. IsInjective(a)
  <2> SUFFICES ASSUME NEW i \in 1..(Len(s) + 1), NEW j \in 1..(Len(s) + 1), a[i] = a[j]
               PROVE  i = j
    BY <1>2 DEF IsInjective
  <2>1. \A k \in 1..Len(s) : a[k] = s[k] /\ s[k] # e
    BY <1>1 DEF Range
  <2>2. CASE i \in 1..Len(s) /\ j \in 1..Len(s)
    BY <2>1, <2>2, <1>1 DEF IsInjective
  <2>3. CASE i = Len(s) + 1 \/ j = Len(s) + 1
    BY <2>1, <2>3, <1>1
  <2> QED BY <2>2, <2>3, <1>1
<1>4. Range(a) = Range(s) \cup {e}
  <2>1. ASSUME NEW x \in Range(a) PROVE x \in Range(s) \cup {e}
    <3>1. PICK i \in 1..(Len(s) + 1) : x = a[i]
      BY <1>2 DEF Range
    <3> QED BY <3>1, <1>1 DEF Range
  <2>2. ASSUME NEW x \in Range(s) PROVE x \in Range(a)
    <3>1. PICK i \in 1..Len(s) : x = s[i]
      BY <1>1 DEF Range
    <3> QED BY <3>1, <1>1, <1>2 DEF Range
  <2>3. e \in Range(a)
    BY <1>1, <1>2 DEF Range
  <2> QED BY <2>1, <2>2, <2>3
<1> QED BY <1>1, <1>3, <1>4

(* list_push of an element that is not in the list adds exactly it. *)
LEMMA PushFacts ==
  ASSUME NEW S, NEW s \in Seq(S), NEW e \in S,
         IsInjective(s), e \notin Range(s)
  PROVE  /\ <<e>> \o s \in Seq(S)
         /\ IsInjective(<<e>> \o s)
         /\ Range(<<e>> \o s) = Range(s) \cup {e}
<1> DEFINE a == <<e>> \o s
<1>1. <<e>> \in Seq(S) /\ Len(<<e>>) = 1 /\ <<e>>[1] = e
  OBVIOUS
<1>2. /\ Len(s) \in Nat
      /\ DOMAIN s = 1..Len(s)
      /\ a \in Seq(S)
      /\ Len(a) = 1 + Len(s)
      /\ \A i \in 1..(1 + Len(s)) : a[i] = IF i <= 1 THEN <<e>>[i] ELSE s[i - 1]
  BY <1>1, ConcatProperties, LenProperties
<1>3. DOMAIN a = 1..(1 + Len(s))
  BY <1>2, LenProperties
<1>4. a[1] = e /\ \A i \in 2..(1 + Len(s)) : a[i] = s[i - 1] /\ i - 1 \in 1..Len(s)
  BY <1>1, <1>2
<1> HIDE DEF a
<1>5. IsInjective(a)
  <2> SUFFICES ASSUME NEW i \in 1..(1 + Len(s)), NEW j \in 1..(1 + Len(s)), a[i] = a[j]
               PROVE  i = j
    BY <1>3 DEF IsInjective
  <2>1. \A k \in 1..Len(s) : s[k] # e
    BY <1>2 DEF Range
  <2>2. CASE i = 1 \/ j = 1
    BY <2>1, <2>2, <1>2, <1>4
  <2>3. CASE i # 1 /\ j # 1
    <3>1. i - 1 \in 1..Len(s) /\ j - 1 \in 1..Len(s) /\ s[i - 1] = s[j - 1]
      BY <2>3, <1>2, <1>4
    <3>2. i - 1 = j - 1
      BY <3>1, <1>2 DEF IsInjective
    <3> QED BY <3>2, <1>2
  <2> QED BY <2>2, <2>3
<1>6. Range(a) = Range(s) \cup {e}
  <2>1. ASSUME NEW x \in Range(a) PROVE x \in Range(s) \cup {e}
    <3>1. PICK i \in 1..(1 + Len(s)) : x = a[i]
      BY <1>3 DEF Range
    <3>2. CASE i = 1
      BY <3>1, <3>2, <1>4
    <3>3. CASE i # 1
      <4>1. i \in 2..(1 + Len(s))
        BY <3>3, <1>2
      <4>2. x = s[i - 1] /\ i - 1 \in DOMAIN s
        BY <3>1, <4>1, <1>2, <1>4
      <4> QED BY <4>2 DEF Range
    <3> QED BY <3>2, <3>3
  <2>2. ASSUME NEW x \in Range(s) PROVE x \in Range(a)
    <3>1. PICK i \in 1..Len(s) : x = s[i]
      BY <1>2 DEF Range
    <3>2. i + 1 \in 2..(1 + Len(s)) /\ (i + 1) - 1 = i
      BY <3>1, <1>2
    <3>3. a[i + 1] = x /\ i + 1 \in DOMAIN a
      BY <3>1, <3>2, <1>2, <1>3, <1>4
    <3> QED BY <3>3 DEF Range
  <2>3. e \in Range(a)
    BY <1>2, <1>3, <1>4 DEF Range
  <2> QED BY <2>1, <2>2, <2>3
<1> QED BY <1>2, <1>5, <1>6 DEF a

(* list_pop removes exactly the element it returns. *)
LEMMA PopFacts ==
  ASSUME NEW S, NEW s \in Seq(S), s # << >>, IsInjective(s)
  PROVE  /\ Head(s) \in S
         /\ Head(s) \in Range(s)
         /\ Tail(s) \in Seq(S)
         /\ IsInjective(Tail(s))
         /\ Range(Tail(s)) = Range(s) \ {Head(s)}
<1> DEFINE a == Tail(s)
<1>1. /\ Len(s) \in Nat \ {0}
      /\ DOMAIN s = 1..Len(s)
      /\ Head(s) \in S
      /\ Head(s) = s[1]
      /\ a \in Seq(S)
      /\ Len(a) = Len(s) - 1
      /\ \A i \in 1..Len(a) : a[i] = s[i + 1]
  BY HeadTailProperties, LenProperties, EmptySeq
<1>2. DOMAIN a = 1..(Len(s) - 1)
  BY <1>1, LenProperties
<1> HIDE DEF a
<1>3. IsInjective(a)
  <2> SUFFICES ASSUME NEW i \in 1..(Len(s) - 1), NEW j \in 1..(Len(s) - 1), a[i] = a[j]
               PROVE  i = j
    BY <1>2 DEF IsInjective
  <2>1. i + 1 \in 1..Len(s) /\ j + 1 \in 1..Len(s) /\ s[i + 1] = s[j + 1]
    BY <1>1
  <2>2. i + 1 = j + 1
    BY <2>1, <1>1 DEF IsInjective
  <2> QED BY <2>2, <1>1
<1>4. Range(a) = Range(s) \ {Head(s)}
  <2>1. ASSUME NEW x \in Range(a) PROVE x \in Range(s) \ {Head(s)}
    <3>1. PICK i \in 1..(Len(s) - 1) : x = a[i]
      BY <1>2 DEF Range
    <3>2. i + 1 \in 1..Len(s) /\ x = s[i + 1] /\ 1 \in 1..Len(s) /\ i + 1 # 1
      BY <3>1, <1>1
    <3>3. x # s[1]
      BY <3>2, <1>1 DEF IsInjective
    <3> QED BY <3>2, <3>3, <1>1 DEF Range
  <2>2. ASSUME NEW x \in Range(s) \ {Head(s)} PROVE x \in Range(a)
    <3>1. PICK i \in 1..Len(s) : x = s[i]
      BY <1>1 DEF Range
    <3>2. i # 1
      BY <3>1, <1>1
    <3>3. i - 1 \in 1..(Len(s) - 1) /\ a[i - 1] = s[i]
      BY <3>1, <3>2, <1>1
    <3> QED BY <3>1, <3>3, <1>2 DEF Range
  <2> QED BY <2>1, <2>2
<1>5. Head(s) \in Range(s)
  BY <1>1 DEF Range
<1> QED BY <1>1, <1>3, <1>4, <1>5 DEF a

(* An empty list has no element. *)
LEMMA EmptyFacts == IsInjective(<< >>) /\ Range(<< >>) = {}
BY DEF IsInjective, Range

-----------------------------------------------------------------------------
(* The scheduler. *)

(* The inductive invariant: NoPanic needs the exact lists (elem_find finds *)
(* nothing) and a main() that can always run (the ready list is not empty  *)
(* when another thread blocks).                                            *)
ThreadInv == TypeOK /\ SchedulerConsistent /\ MainRunnable /\ NoPanic

(* The second half of schedule() turns a status function without a running *)
(* thread, and the list of its ready threads, into an exact bookkeeping.   *)
LEMMA ScheduleNextFacts ==
  ASSUME TypeOK,
         NEW ready \in Seq(Threads), ready # << >>, IsInjective(ready),
         NEW st \in [Threads -> TaskStatus], NEW old \in IntrStatus,
         Range(ready) = {t \in Threads : st[t] = TASK_READY},
         \A t \in Threads : st[t] # TASK_RUNNING,
         ScheduleNext(ready, st, old)
  PROVE  /\ cur' \in Threads
         /\ intr' \in IntrStatus
         /\ status' \in [Threads -> TaskStatus]
         /\ thread_ready_list' \in Seq(Threads)
         /\ saved' \in [Threads -> IntrStatus]
         /\ RunningIsCurrent'
         /\ ReadyListExact'
         /\ \A t \in Threads : st[t] = NO_TASK <=> status'[t] = NO_TASK
         /\ \A t \in Threads : st[t] = TASK_READY =>
                               status'[t] \in {TASK_RUNNING, TASK_READY}
<1> DEFINE next == Head(ready)
<1>1. /\ next \in Threads /\ next \in Range(ready)
      /\ Tail(ready) \in Seq(Threads)
      /\ IsInjective(Tail(ready))
      /\ Range(Tail(ready)) = Range(ready) \ {next}
  BY PopFacts
<1>2. /\ thread_ready_list' = Tail(ready)
      /\ status' = [st EXCEPT ![next] = TASK_RUNNING]
      /\ cur' = next
      /\ saved' = [saved EXCEPT ![cur] = old]
      /\ intr' = saved'[next]
  BY DEF ScheduleNext, switch_to
<1>3. st[next] = TASK_READY
  BY <1>1
<1> HIDE DEF next
<1> USE DEF TASK_RUNNING, TASK_READY, NO_TASK, TaskStatus
<1>4. status' \in [Threads -> TaskStatus] /\ saved' \in [Threads -> IntrStatus]
  BY <1>1, <1>2 DEF TypeOK
<1>5. RunningIsCurrent'
  BY <1>1, <1>2 DEF RunningIsCurrent
<1>6. ReadyListExact'
  BY <1>1, <1>2 DEF ReadyListExact
<1> QED BY <1>1, <1>2, <1>3, <1>4, <1>5, <1>6

LEMMA ThreadInit == Init => ThreadInv
<1> SUFFICES ASSUME Init PROVE ThreadInv
  OBVIOUS
<1> USE MainAssumption DEF Init, TASK_RUNNING, TASK_READY, NO_TASK
<1>1. TypeOK
  <2>1. 0 \in 0..255
    OBVIOUS
  <2>2. ticks \in [Threads -> 0..255]
    BY <2>1
  <2>3. status \in [Threads -> TaskStatus] /\ saved \in [Threads -> IntrStatus]
    BY DEF TaskStatus, IntrStatus
  <2>4. << >> \in Seq(Threads) /\ <<main_thread>> \in Seq(Threads)
    OBVIOUS
  <2> QED BY <2>2, <2>3, <2>4 DEF TypeOK, IntrStatus
<1>2. RunningIsCurrent /\ MainRunnable /\ NoPanic
  BY DEF RunningIsCurrent, MainRunnable, NoPanic
<1>3. ReadyListExact
  BY EmptyFacts DEF ReadyListExact
<1>4. AllListExact
  BY DEF AllListExact, IsInjective, Range
<1> QED BY <1>1, <1>2, <1>3, <1>4 DEF ThreadInv, SchedulerConsistent

(* intr_timer_handler. *)
LEMMA TimerTickInv == ThreadInv /\ TimerTick => ThreadInv'
<1> SUFFICES ASSUME ThreadInv, TimerTick PROVE ThreadInv'
  OBVIOUS
<1> USE DEF ThreadInv, SchedulerConsistent
<1>1. CASE ticks[cur] > 0
  <2>1. /\ ticks' = [ticks EXCEPT ![cur] = @ - 1]
        /\ UNCHANGED <<cur, intr, status, thread_ready_list, thread_all_list,
                       saved, panicked>>
    BY <1>1 DEF TimerTick, TypeOK
  <2>2. ticks' \in [Threads -> 0..255]
    <3>1. cur \in Threads /\ ticks \in [Threads -> 0..255] /\ ticks[cur] \in 0..255
      BY DEF TypeOK
    <3>2. ticks[cur] - 1 \in 0..255
      BY <1>1, <3>1
    <3> QED BY <2>1, <3>1, <3>2
  <2>3. TypeOK'
    BY <2>1, <2>2 DEF TypeOK
  <2> QED BY <2>1, <2>3 DEF RunningIsCurrent, ReadyListExact, AllListExact,
                           MainRunnable, NoPanic
<1>2. CASE ticks[cur] = 0
  <2> DEFINE ready == Append(thread_ready_list, cur)
             st == [status EXCEPT ![cur] = TASK_READY]
  <2>1. /\ status[cur] = TASK_RUNNING
        /\ cur \notin Range(thread_ready_list)
    BY DEF TypeOK, RunningIsCurrent, ReadyListExact, TASK_RUNNING, TASK_READY
  <2>2. /\ ScheduleNext(ready, st, INTR_ON)
        /\ ticks' = [ticks EXCEPT ![cur] = priority[cur]]
        /\ UNCHANGED thread_all_list
        /\ panicked' = FALSE
    BY <1>2, <2>1 DEF TimerTick, TypeOK, ScheduleExpired, Asserting, elem_find, list_append
  <2>3. /\ ready \in Seq(Threads) /\ ready # << >> /\ IsInjective(ready)
        /\ Range(ready) = Range(thread_ready_list) \cup {cur}
    BY <2>1, AppendFacts DEF TypeOK, ReadyListExact
  <2>4. /\ st \in [Threads -> TaskStatus]
        /\ Range(ready) = {t \in Threads : st[t] = TASK_READY}
        /\ \A t \in Threads : st[t] # TASK_RUNNING
        /\ \A t \in Threads : st[t] = NO_TASK <=> status[t] = NO_TASK
        /\ st[main_thread] = TASK_READY
    BY <2>1, <2>3, MainAssumption
       DEF TypeOK, RunningIsCurrent, ReadyListExact, MainRunnable,
           TASK_RUNNING, TASK_READY, NO_TASK, TaskStatus
  <2> HIDE DEF ready, st
  <2>5. /\ cur' \in Threads
        /\ intr' \in IntrStatus
        /\ status' \in [Threads -> TaskStatus]
        /\ thread_ready_list' \in Seq(Threads)
        /\ saved' \in [Threads -> IntrStatus]
        /\ RunningIsCurrent'
        /\ ReadyListExact'
        /\ \A t \in Threads : st[t] = NO_TASK <=> status'[t] = NO_TASK
        /\ MainRunnable'
    BY <2>2, <2>3, <2>4, MainAssumption, ScheduleNextFacts DEF IntrStatus, MainRunnable
  <2>6. TypeOK'
    BY <2>2, <2>5, PriorityAssumption DEF TypeOK
  <2>7. AllListExact'
    BY <2>2, <2>4, <2>5 DEF AllListExact
  <2> QED BY <2>2, <2>5, <2>6, <2>7 DEF NoPanic
<1> QED BY <1>1, <1>2 DEF TimerTick

(* thread_start. *)
LEMMA ThreadStartInv ==
  ASSUME ThreadInv, NEW t \in Threads, ThreadStart(t) PROVE ThreadInv'
<1> USE DEF ThreadInv, SchedulerConsistent
<1>1. /\ status[t] = NO_TASK
      /\ t \notin Range(thread_ready_list)
      /\ t \notin Range(thread_all_list)
  BY DEF ThreadStart, ReadyListExact, AllListExact, TASK_READY, NO_TASK
<1>2. /\ status' = [status EXCEPT ![t] = TASK_READY]
      /\ ticks' = [ticks EXCEPT ![t] = 0]
      /\ saved' = [saved EXCEPT ![t] = INTR_ON]
      /\ thread_ready_list' = Append(thread_ready_list, t)
      /\ thread_all_list' = Append(thread_all_list, t)
      /\ UNCHANGED <<cur, intr>>
      /\ panicked' = FALSE
  BY <1>1 DEF ThreadStart, init_thread, thread_create, Asserting, elem_find, list_append
<1>3. /\ thread_ready_list' \in Seq(Threads)
      /\ IsInjective(thread_ready_list')
      /\ Range(thread_ready_list') = Range(thread_ready_list) \cup {t}
  BY <1>1, <1>2, AppendFacts DEF TypeOK, ReadyListExact
<1>4. /\ thread_all_list' \in Seq(Threads)
      /\ IsInjective(thread_all_list')
      /\ Range(thread_all_list') = Range(thread_all_list) \cup {t}
  BY <1>1, <1>2, AppendFacts DEF TypeOK, AllListExact
<1> USE DEF TASK_RUNNING, TASK_READY, NO_TASK
<1>5. TypeOK'
  <2>1. 0 \in 0..255
    OBVIOUS
  <2>2. ticks' \in [Threads -> 0..255]
    BY <1>2, <2>1 DEF TypeOK
  <2>3. status' \in [Threads -> TaskStatus] /\ saved' \in [Threads -> IntrStatus]
    BY <1>2 DEF TypeOK, TaskStatus, IntrStatus
  <2> QED BY <1>2, <1>3, <1>4, <2>2, <2>3 DEF TypeOK
<1>6. RunningIsCurrent' /\ MainRunnable' /\ NoPanic'
  BY <1>1, <1>2, MainAssumption DEF TypeOK, RunningIsCurrent, MainRunnable, NoPanic
<1>7. ReadyListExact'
  BY <1>1, <1>2, <1>3 DEF TypeOK, ReadyListExact
<1>8. AllListExact'
  BY <1>1, <1>2, <1>4 DEF TypeOK, AllListExact
<1> QED BY <1>5, <1>6, <1>7, <1>8

(* thread_block. *)
LEMMA ThreadBlockInv ==
  ASSUME ThreadInv, NEW stat \in BlockedStatus, cur # main_thread, ThreadBlock(stat)
  PROVE  ThreadInv'
<1> USE DEF ThreadInv, SchedulerConsistent
<1> DEFINE st == [status EXCEPT ![cur] = stat]
<1>1. stat \in TaskStatus /\ stat \notin {TASK_RUNNING, TASK_READY, NO_TASK}
  BY DEF BlockedStatus, TaskStatus, TASK_RUNNING, TASK_READY, NO_TASK,
         TASK_BLOCKED, TASK_WAITING, TASK_HANGING
<1>2. status[cur] = TASK_RUNNING /\ status[main_thread] = TASK_READY
  BY MainAssumption DEF ThreadBlock, TypeOK, RunningIsCurrent, MainRunnable
<1>3. thread_ready_list # << >>
  BY <1>2, EmptyFacts, MainAssumption DEF ReadyListExact
<1>4. /\ ScheduleNext(thread_ready_list, st, intr)
      /\ UNCHANGED <<ticks, thread_all_list>>
      /\ panicked' = FALSE
  BY <1>3 DEF ThreadBlock, ScheduleBlocked, Asserting
<1>5. /\ st \in [Threads -> TaskStatus]
      /\ Range(thread_ready_list) = {t \in Threads : st[t] = TASK_READY}
      /\ \A t \in Threads : st[t] # TASK_RUNNING
      /\ \A t \in Threads : st[t] = NO_TASK <=> status[t] = NO_TASK
      /\ st[main_thread] = TASK_READY
  BY <1>1, <1>2, MainAssumption
     DEF ThreadBlock, TypeOK, RunningIsCurrent, ReadyListExact,
         TASK_RUNNING, TASK_READY, NO_TASK
<1> HIDE DEF st
<1>6. /\ cur' \in Threads
      /\ intr' \in IntrStatus
      /\ status' \in [Threads -> TaskStatus]
      /\ thread_ready_list' \in Seq(Threads)
      /\ saved' \in [Threads -> IntrStatus]
      /\ RunningIsCurrent'
      /\ ReadyListExact'
      /\ \A t \in Threads : st[t] = NO_TASK <=> status'[t] = NO_TASK
      /\ MainRunnable'
  BY <1>3, <1>4, <1>5, MainAssumption, ScheduleNextFacts
     DEF TypeOK, ReadyListExact, MainRunnable
<1>7. TypeOK'
  BY <1>4, <1>6 DEF TypeOK
<1>8. AllListExact'
  BY <1>4, <1>5, <1>6 DEF AllListExact
<1> QED BY <1>4, <1>6, <1>7, <1>8 DEF NoPanic

(* thread_unblock. *)
LEMMA ThreadUnblockInv ==
  ASSUME ThreadInv, NEW t \in Threads, status[t] \in BlockedStatus, ThreadUnblock(t)
  PROVE  ThreadInv'
<1> USE DEF ThreadInv, SchedulerConsistent
<1>1. /\ status[t] \notin {TASK_RUNNING, TASK_READY, NO_TASK}
      /\ t \notin Range(thread_ready_list)
  BY DEF ThreadUnblock, ReadyListExact, BlockedStatus, TASK_RUNNING, TASK_READY,
         NO_TASK, TASK_BLOCKED, TASK_WAITING, TASK_HANGING
<1>2. /\ status' = [status EXCEPT ![t] = TASK_READY]
      /\ thread_ready_list' = <<t>> \o thread_ready_list
      /\ UNCHANGED <<cur, intr, ticks, thread_all_list, saved>>
      /\ panicked' = FALSE
  BY <1>1 DEF ThreadUnblock, Asserting, elem_find, list_push
<1>3. /\ thread_ready_list' \in Seq(Threads)
      /\ IsInjective(thread_ready_list')
      /\ Range(thread_ready_list') = Range(thread_ready_list) \cup {t}
  BY <1>1, <1>2, PushFacts DEF TypeOK, ReadyListExact
<1> USE DEF TASK_RUNNING, TASK_READY, NO_TASK
<1>4. TypeOK'
  BY <1>2, <1>3 DEF TypeOK, TaskStatus
<1>5. RunningIsCurrent' /\ MainRunnable' /\ NoPanic'
  BY <1>1, <1>2, MainAssumption DEF TypeOK, RunningIsCurrent, MainRunnable, NoPanic
<1>6. ReadyListExact'
  BY <1>1, <1>2, <1>3 DEF TypeOK, ReadyListExact
<1>7. AllListExact'
  BY <1>1, <1>2 DEF TypeOK, AllListExact
<1> QED BY <1>4, <1>5, <1>6, <1>7

(* Every step of the thread layer preserves the inductive invariant. *)
LEMMA ThreadStep == ThreadInv /\ [Next]_vars => ThreadInv'
<1> SUFFICES ASSUME ThreadInv, [Next]_vars PROVE ThreadInv'
  OBVIOUS
<1>1. CASE TimerTick
  BY <1>1, TimerTickInv
<1>2. CASE \E t \in Threads : ThreadStart(t)
  BY <1>2, ThreadStartInv
<1>3. CASE \E stat \in BlockedStatus : cur # main_thread /\ ThreadBlock(stat)
  BY <1>3, ThreadBlockInv
<1>4. CASE \E t \in Threads : status[t] \in BlockedStatus /\ ThreadUnblock(t)
  BY <1>4, ThreadUnblockInv
<1>5. ASSUME NEW s \in IntrStatus, IntrSet(s) PROVE ThreadInv'
  BY <1>5 DEF ThreadInv, IntrSet, TypeOK, SchedulerConsistent, RunningIsCurrent,
              ReadyListExact, AllListExact, MainRunnable, NoPanic
<1>6. CASE UNCHANGED vars
  BY <1>6 DEF ThreadInv, vars, TypeOK, SchedulerConsistent, RunningIsCurrent,
              ReadyListExact, AllListExact, MainRunnable, NoPanic
<1> QED BY <1>1, <1>2, <1>3, <1>4, <1>5, <1>6 DEF Next

(* The inductive invariant holds throughout every behaviour. *)
THEOREM ThreadInvariance == Spec => []ThreadInv
BY ThreadInit, ThreadStep, PTL DEF Spec

(* Every variable of the thread layer keeps its C type. *)
THEOREM ThreadTypes == Spec => []TypeOK
<1>1. ThreadInv => TypeOK
  BY DEF ThreadInv
<1> QED BY <1>1, ThreadInvariance, PTL

(* The running thread, the ready list and the list of all threads agree    *)
(* with the status fields, whoever blocks, wakes or preempts whom.         *)
THEOREM ThreadConsistency == Spec => []SchedulerConsistent
<1>1. ThreadInv => SchedulerConsistent
  BY DEF ThreadInv
<1> QED BY <1>1, ThreadInvariance, PTL

(* No ASSERT of thread.c can fail while its callers keep the contracts of  *)
(* thread_block (never main) and thread_unblock (only blocked threads).    *)
THEOREM ThreadSafety == Spec => []NoPanic
<1>1. ThreadInv => NoPanic
  BY DEF ThreadInv
<1> QED BY <1>1, ThreadInvariance, PTL

-----------------------------------------------------------------------------
(* The locks. *)

(* t has taken the semaphore of l and has not given it back. *)
Owns(t, l) ==
  \/ depth[t][l] > 0
  \/ plock[t] = l /\ pc[t] \in {"got", "first", "clear", "zero", "up", "wake"}

(* t is between holder = running_thread() and holder = NULL. *)
Held(t, l) ==
  \/ depth[t][l] > 0
  \/ plock[t] = l /\ pc[t] \in {"first", "clear"}

(* A release has begun that holder_repeat_nr does not show yet. *)
Pending(t, l) == plock[t] = l /\ pc[t] \in {"less", "clear", "zero"}

OneOwner == \A l \in Locks : \A t, u \in Threads : Owns(t, l) /\ Owns(u, l) => t = u
FreeValue == \A l \in Locks : value[l] = 1 => \A t \in Threads : ~Owns(t, l)
HolderOwns == \A l \in Locks : \A t \in Threads : holder[l] = t <=> Held(t, l)
RepeatExact ==
  \A l \in Locks :
    /\ (\A t \in Threads : ~Owns(t, l)) => holder_repeat_nr[l] = 0
    /\ \A t \in Threads : Owns(t, l) =>
         holder_repeat_nr[l] = IF Pending(t, l) THEN depth[t][l] + 1 ELSE depth[t][l]
DepthAtPC ==
  \A t \in Threads :
    /\ pc[t] \in {"again", "less"} =>
         depth[t][plock[t]] > 0 /\ depth[t][plock[t]] < MaxDepth
    /\ pc[t] \notin {"again", "less", "run"} => depth[t][plock[t]] = 0

(* The semaphore of a lock is down only while somebody owns the lock. *)
TakenValue == \A l \in Locks : value[l] = 0 => \E t \in Threads : Owns(t, l)

(* What the lock variables say of each other. *)
LockInv == OneOwner /\ FreeValue /\ HolderOwns /\ RepeatExact /\ DepthAtPC

(* Only clients that run make calls, and blocked threads are in sema_down, *)
(* from which they return with interrupts off.                             *)
CallsByClients ==
  \A t \in Threads :
    /\ t = main_thread \/ status[t] = NO_TASK => pc[t] = "run"
    /\ \A l \in Locks : t = main_thread => depth[t][l] = 0
    /\ status[t] \in BlockedStatus => pc[t] = "wait"
WaitOff == \A t \in Threads \ {cur} : pc[t] = "wait" => saved[t] = INTR_OFF

(* What the thread layer knows of the calls in progress. *)
CallInv == WaitersExact /\ AtomicSections /\ CallsByClients /\ WaitOff

SyncInv == ThreadInv /\ SyncTypeOK /\ LockInv /\ CallInv /\ NoLostWakeup

-----------------------------------------------------------------------------
(* What the operations of the thread layer do to the state sync.c relies on. *)

Runnable(t) == status[t] \in {TASK_READY, TASK_RUNNING}
Blocked(t) == status[t] \in BlockedStatus

(* A tick blocks and wakes nobody; a thread that is switched in gets the   *)
(* interrupt flag it left with.                                            *)
LEMMA TickEffects ==
  ASSUME ThreadInv, TimerTick
  PROVE  /\ intr = INTR_ON
         /\ \A t \in Threads : /\ Runnable(t)' <=> Runnable(t)
                               /\ Blocked(t)' <=> Blocked(t)
                               /\ status'[t] = NO_TASK <=> status[t] = NO_TASK
         /\ \A t \in Threads \ {cur} : saved'[t] = saved[t]
         /\ cur' # cur => intr' = saved[cur']
         /\ cur' \in Threads
<1> USE DEF ThreadInv, SchedulerConsistent, Runnable, Blocked
<1>1. CASE ticks[cur] > 0
  BY <1>1 DEF TimerTick, TypeOK
<1>2. CASE ticks[cur] = 0
  <2> DEFINE ready == Append(thread_ready_list, cur)
             st == [status EXCEPT ![cur] = TASK_READY]
  <2>1. /\ status[cur] = TASK_RUNNING
        /\ cur \notin Range(thread_ready_list)
    BY DEF TypeOK, RunningIsCurrent, ReadyListExact, TASK_RUNNING, TASK_READY
  <2>2. intr = INTR_ON /\ ScheduleNext(ready, st, INTR_ON)
    BY <1>2, <2>1 DEF TimerTick, TypeOK, ScheduleExpired, Asserting, elem_find, list_append
  <2>3. /\ ready \in Seq(Threads) /\ ready # << >> /\ IsInjective(ready)
        /\ Range(ready) = Range(thread_ready_list) \cup {cur}
    BY <2>1, AppendFacts DEF TypeOK, ReadyListExact
  <2>4. Head(ready) \in Threads /\ Head(ready) \in Range(ready)
    BY <2>3, PopFacts
  <2>5. st[Head(ready)] = TASK_READY
    BY <2>1, <2>3, <2>4 DEF TypeOK, ReadyListExact
  <2>6. /\ status' = [st EXCEPT ![Head(ready)] = TASK_RUNNING]
        /\ cur' = Head(ready)
        /\ saved' = [saved EXCEPT ![cur] = INTR_ON]
        /\ intr' = saved'[Head(ready)]
    BY <2>2 DEF ScheduleNext, switch_to
  <2> DEFINE next == Head(ready)
  <2>7. next \in Threads
    BY <2>4
  <2> HIDE DEF ready, next
  <2>8. \A t \in Threads : /\ Runnable(t)' <=> Runnable(t)
                           /\ Blocked(t)' <=> Blocked(t)
                           /\ status'[t] = NO_TASK <=> status[t] = NO_TASK
    BY <2>1, <2>5, <2>6, <2>7 DEF next, TypeOK, BlockedStatus, TASK_RUNNING, TASK_READY,
       TASK_BLOCKED, TASK_WAITING, TASK_HANGING, NO_TASK
  <2>9. /\ \A t \in Threads \ {cur} : saved'[t] = saved[t]
        /\ cur' # cur => intr' = saved[cur']
    BY <2>6, <2>7 DEF next, TypeOK
  <2> QED BY <2>2, <2>6, <2>7, <2>8, <2>9 DEF next
<1> QED BY <1>1, <1>2 DEF TimerTick

(* thread_block blocks the running thread, which leaves its interrupt flag *)
(* behind, and nobody else.                                                *)
LEMMA BlockEffects ==
  ASSUME ThreadInv, cur # main_thread, ThreadBlock(TASK_BLOCKED)
  PROVE  /\ cur' \in Threads /\ cur' # cur
         /\ \A t \in Threads :
              /\ Runnable(t)' <=> t # cur /\ Runnable(t)
              /\ Blocked(t)' <=> t = cur \/ Blocked(t)
              /\ status'[t] = NO_TASK <=> status[t] = NO_TASK
         /\ saved' = [saved EXCEPT ![cur] = intr]
         /\ intr' = saved[cur']
<1> USE DEF ThreadInv, SchedulerConsistent, Runnable, Blocked
<1> DEFINE next == Head(thread_ready_list)
<1>1. status[cur] = TASK_RUNNING /\ status[main_thread] = TASK_READY
  BY MainAssumption DEF TypeOK, RunningIsCurrent, MainRunnable
<1>2. thread_ready_list # << >>
  BY <1>1, EmptyFacts, MainAssumption DEF ReadyListExact
<1>3. next \in Threads /\ next \in Range(thread_ready_list)
  BY <1>2, PopFacts DEF TypeOK, ReadyListExact
<1>4. status[next] = TASK_READY
  BY <1>3 DEF ReadyListExact
<1>5. /\ status' = [[status EXCEPT ![cur] = TASK_BLOCKED] EXCEPT ![next] = TASK_RUNNING]
      /\ cur' = next
      /\ saved' = [saved EXCEPT ![cur] = intr]
      /\ intr' = saved'[next]
  BY <1>2 DEF ThreadBlock, ScheduleBlocked, Asserting, ScheduleNext, switch_to
<1> HIDE DEF next
<1> USE DEF BlockedStatus, TASK_RUNNING, TASK_READY, TASK_BLOCKED, TASK_WAITING,
            TASK_HANGING, NO_TASK
<1>6. next # cur
  BY <1>1, <1>4
<1>7. \A t \in Threads :
        /\ Runnable(t)' <=> t # cur /\ Runnable(t)
        /\ Blocked(t)' <=> t = cur \/ Blocked(t)
        /\ status'[t] = NO_TASK <=> status[t] = NO_TASK
  BY <1>1, <1>3, <1>4, <1>5, <1>6 DEF TypeOK
<1>8. intr' = saved[cur']
  BY <1>3, <1>5, <1>6 DEF TypeOK
<1> QED BY <1>3, <1>5, <1>6, <1>7, <1>8

(* thread_unblock makes its argument runnable and changes nobody else. *)
LEMMA UnblockEffects ==
  ASSUME ThreadInv, NEW w \in Threads, Blocked(w), ThreadUnblock(w)
  PROVE  /\ \A t \in Threads :
              /\ Runnable(t)' <=> t = w \/ Runnable(t)
              /\ Blocked(t)' <=> t # w /\ Blocked(t)
              /\ status'[t] = NO_TASK <=> status[t] = NO_TASK
         /\ UNCHANGED <<cur, intr, saved>>
<1> USE DEF ThreadInv, SchedulerConsistent, Runnable, Blocked
<1>1. w \notin Range(thread_ready_list)
  BY DEF ReadyListExact, BlockedStatus, TASK_READY, TASK_BLOCKED, TASK_WAITING, TASK_HANGING
<1>2. /\ status' = [status EXCEPT ![w] = TASK_READY]
      /\ UNCHANGED <<cur, intr, saved>>
  BY <1>1 DEF ThreadUnblock, Asserting, elem_find
<1> QED BY <1>2 DEF TypeOK, BlockedStatus, TASK_RUNNING, TASK_READY, TASK_BLOCKED,
                    TASK_WAITING, TASK_HANGING, NO_TASK

(* thread_start makes a new thread runnable. *)
LEMMA StartEffects ==
  ASSUME ThreadInv, NEW w \in Threads, ThreadStart(w)
  PROVE  /\ status[w] = NO_TASK
         /\ \A t \in Threads :
              /\ Runnable(t)' <=> t = w \/ Runnable(t)
              /\ Blocked(t)' <=> Blocked(t)
              /\ t # w => saved'[t] = saved[t]
              /\ status'[t] = NO_TASK => status[t] = NO_TASK
         /\ UNCHANGED <<cur, intr>>
<1> USE DEF ThreadInv, SchedulerConsistent, Runnable, Blocked
<1>1. status[w] = NO_TASK /\ w \notin Range(thread_ready_list)
  BY DEF ThreadStart, ReadyListExact, TASK_READY, NO_TASK
<1>2. /\ status' = [status EXCEPT ![w] = TASK_READY]
      /\ saved' = [saved EXCEPT ![w] = INTR_ON]
      /\ UNCHANGED <<cur, intr>>
  BY <1>1 DEF ThreadStart, init_thread, thread_create, Asserting, elem_find
<1> QED BY <1>1, <1>2 DEF TypeOK, BlockedStatus, TASK_RUNNING, TASK_READY, TASK_BLOCKED,
                    TASK_WAITING, TASK_HANGING, NO_TASK

-----------------------------------------------------------------------------

LEMMA SyncInitInv == SyncInit => SyncInv
<1> SUFFICES ASSUME SyncInit PROVE SyncInv
  OBVIOUS
<1>1. ThreadInv
  BY ThreadInit DEF SyncInit
<1>2. MaxDepth \in Nat /\ MaxDepth > 0
  BY MaxDepthAssumption
<1> USE DEF SyncInit, LockInit
<1>3. SyncTypeOK
  <2>1. 0 \in 0..MaxDepth /\ 1 \in 0..1 /\ "run" \in PC /\ INTR_OFF \in IntrStatus
    BY <1>2 DEF PC, IntrStatus
  <2>2. value \in [Locks -> 0..1] /\ waiters \in [Locks -> Seq(Threads)]
    BY <2>1
  <2>3. holder \in [Locks -> Threads \cup {NULL}] /\ holder_repeat_nr \in [Locks -> 0..MaxDepth]
    BY <2>1
  <2>4. pc \in [Threads -> PC] /\ old_status \in [Threads -> IntrStatus]
    BY <2>1
  <2>5. depth \in [Threads -> [Locks -> 0..MaxDepth]]
    BY <2>1
  <2> QED BY <2>2, <2>3, <2>4, <2>5 DEF SyncTypeOK
<1>4. \A t \in Threads, l \in Locks : ~Owns(t, l) /\ ~Held(t, l)
  BY DEF Owns, Held
<1>5. LockInv
  BY <1>4, NullAssumption DEF LockInv, OneOwner, FreeValue, HolderOwns, RepeatExact, DepthAtPC
<1>6. CallInv
  <2>1. WaitersExact
    BY EmptyFacts DEF WaitersExact
  <2>2. AtomicSections /\ WaitOff
    BY DEF AtomicSections, WaitOff, Init
  <2>3. CallsByClients
    BY DEF CallsByClients, Init, BlockedStatus, TASK_RUNNING, TASK_BLOCKED, TASK_WAITING,
           TASK_HANGING, NO_TASK
  <2> QED BY <2>1, <2>2, <2>3 DEF CallInv
<1>7. NoLostWakeup
  BY DEF NoLostWakeup
<1> QED BY <1>1, <1>3, <1>5, <1>6, <1>7 DEF SyncInv

(* The ASSERTs of sync.c hold where they are evaluated. *)
LEMMA AssertsHold ==
  ASSUME SyncInv
  PROVE  /\ cur \in Threads /\ lock \in Locks
         /\ status[cur] = TASK_RUNNING /\ ~Blocked(cur)
         /\ ~elem_find(waiters[lock], cur)
         /\ value[lock] # 0 => value[lock] = 1
         /\ pc[cur] = "first" => holder_repeat_nr[lock] = 0
         /\ pc[cur] = "wake" => value[lock] = 0
         /\ waiters[lock] # << >> => /\ Head(waiters[lock]) \in Threads
                                     /\ Blocked(Head(waiters[lock]))
         /\ \A l \in Locks : pc[cur] = "run" /\ depth[cur][l] > 0 =>
              /\ holder[l] = cur
              /\ holder_repeat_nr[l] = depth[cur][l]
              /\ holder_repeat_nr[l] >= 1
<1> USE DEF SyncInv
<1>1. cur \in Threads /\ lock \in Locks
  BY DEF ThreadInv, TypeOK, SyncTypeOK, lock
<1>2. status[cur] = TASK_RUNNING /\ ~Blocked(cur)
  BY <1>1 DEF ThreadInv, SchedulerConsistent, RunningIsCurrent, Blocked, BlockedStatus,
     TASK_RUNNING, TASK_BLOCKED, TASK_WAITING, TASK_HANGING
<1>3. ~elem_find(waiters[lock], cur)
  BY <1>1, <1>2 DEF CallInv, WaitersExact, elem_find, Blocked
<1>4. value[lock] # 0 => value[lock] = 1
  BY <1>1 DEF SyncTypeOK
<1>5. pc[cur] = "first" => holder_repeat_nr[lock] = 0
  BY <1>1 DEF LockInv, RepeatExact, DepthAtPC, Owns, Pending, lock
<1>6. pc[cur] = "wake" => value[lock] = 0
  BY <1>1, <1>4 DEF LockInv, FreeValue, Owns, lock
<1>7. waiters[lock] # << >> => /\ Head(waiters[lock]) \in Threads
                               /\ Blocked(Head(waiters[lock]))
  <2> SUFFICES ASSUME waiters[lock] # << >>
               PROVE  Head(waiters[lock]) \in Threads /\ Blocked(Head(waiters[lock]))
    OBVIOUS
  <2>1. waiters[lock] \in Seq(Threads) /\ IsInjective(waiters[lock])
    BY <1>1 DEF SyncTypeOK, CallInv, WaitersExact
  <2>2. Head(waiters[lock]) \in Range(waiters[lock])
    BY <2>1, PopFacts
  <2> QED BY <1>1, <2>2 DEF CallInv, WaitersExact, Blocked
<1>8. ASSUME NEW l \in Locks, pc[cur] = "run", depth[cur][l] > 0
      PROVE  /\ holder[l] = cur
             /\ holder_repeat_nr[l] = depth[cur][l]
             /\ holder_repeat_nr[l] >= 1
  <2>1. depth[cur][l] \in Nat
    BY <1>1, MaxDepthAssumption DEF SyncTypeOK
  <2>2. holder_repeat_nr[l] = depth[cur][l]
    BY <1>1, <1>8 DEF LockInv, RepeatExact, Owns, Pending
  <2>3. holder[l] = cur
    BY <1>1, <1>8 DEF LockInv, HolderOwns, Held
  <2> QED BY <1>8, <2>1, <2>2, <2>3
<1> QED BY <1>1, <1>2, <1>3, <1>4, <1>5, <1>6, <1>7, <1>8

(* Every step of sync.c and its clients is a step of the thread layer. *)
LEMMA SyncThreadStep == SyncInv /\ [SyncNext]_allVars => [Next]_vars
<1> SUFFICES ASSUME SyncInv, [SyncNext]_allVars PROVE [Next]_vars
  OBVIOUS
<1>0. pc[cur] # "run" => cur # main_thread
  BY AssertsHold DEF SyncInv, CallInv, CallsByClients
<1>1. CASE UNCHANGED allVars
  BY <1>1 DEF allVars, vars
<1>2. CASE Preempt
  BY <1>2 DEF Preempt, Next
<1>3. CASE \E t \in Clients : MainStart(t)
  BY <1>3 DEF MainStart, Clients, Next
<1>4. CASE \E s \in IntrStatus : OwnIntr(s)
  BY <1>4 DEF OwnIntr, Next
<1>5. ASSUME NEW l \in Locks, LockAcquire(l) PROVE [Next]_vars
  BY <1>5 DEF LockAcquire
<1>6. ASSUME NEW l \in Locks, LockRelease(l) PROVE [Next]_vars
  BY <1>6, AssertsHold DEF LockRelease, ASSERT, At
<1>7. CASE AcquireAgain \/ SetHolder \/ ReleaseOnce \/ ClearHolder \/ ClearRepeat
  BY <1>7 DEF AcquireAgain, SetHolder, ReleaseOnce, ClearHolder, ClearRepeat
<1>8. CASE SemaDown \/ SemaUp
  <2>1. IntrSet(INTR_OFF)
    BY <1>8 DEF SemaDown, SemaUp, IntrDisable
  <2> QED BY <2>1 DEF Next, IntrStatus
<1>9. CASE SemaDownBlock
  <2>1. cur # main_thread /\ ThreadBlock(TASK_BLOCKED)
    BY <1>0, <1>9, AssertsHold DEF SemaDownBlock, ASSERT, At
  <2>2. TASK_BLOCKED \in BlockedStatus
    BY DEF BlockedStatus
  <2> QED BY <2>1, <2>2 DEF Next
<1>10. CASE SemaDownTake
  <2>1. IntrSet(old_status[cur])
    BY <1>10, AssertsHold DEF SemaDownTake, ASSERT, At
  <2> QED BY <2>1, AssertsHold DEF Next, SyncInv, SyncTypeOK
<1>11. CASE SetRepeat
  BY <1>11, AssertsHold DEF SetRepeat, ASSERT, At
<1>12. CASE SemaUpWake
  <2>1. CASE waiters[lock] # << >>
    <3>1. ThreadUnblock(Head(waiters[lock]))
      BY <1>12, <2>1, AssertsHold DEF SemaUpWake, ASSERT, At
    <3>2. Head(waiters[lock]) \in Threads /\ status[Head(waiters[lock])] \in BlockedStatus
      BY <2>1, AssertsHold DEF Blocked
    <3> QED BY <3>1, <3>2 DEF Next
  <2>2. CASE waiters[lock] = << >>
    BY <1>12, <2>2, AssertsHold DEF SemaUpWake, ASSERT, At
  <2> QED BY <2>1, <2>2
<1>13. CASE SemaUpReturn
  <2>1. IntrSet(old_status[cur])
    BY <1>13 DEF SemaUpReturn
  <2> QED BY <2>1, AssertsHold DEF Next, SyncInv, SyncTypeOK
<1> QED BY <1>1, <1>2, <1>3, <1>4, <1>5, <1>6, <1>7, <1>8, <1>9, <1>10, <1>11, <1>12,
           <1>13 DEF SyncNext, CallStep

-----------------------------------------------------------------------------
(* The lock variables: one lemma per step that changes them. *)

(* The parts of the invariant the lock variables alone decide. *)
LockPart == SyncTypeOK /\ LockInv

LEMMA LockPartFrame == LockPart /\ UNCHANGED syncVars => LockPart'
BY DEF LockPart, syncVars, lockVars, callVars, SyncTypeOK, LockInv, OneOwner, FreeValue,
       HolderOwns, RepeatExact, DepthAtPC, Owns, Held, Pending

LEMMA LockAcquireStep ==
  ASSUME SyncInv, NEW l \in Locks, LockAcquire(l) PROVE LockPart'
<1> USE DEF SyncInv
<1>1. cur \in Threads /\ MaxDepth \in Nat
  BY AssertsHold, MaxDepthAssumption
<1>2. /\ pc[cur] = "run"
      /\ depth[cur][l] < MaxDepth
      /\ plock' = [plock EXCEPT ![cur] = l]
      /\ pc' = [pc EXCEPT ![cur] = IF holder[l] = cur THEN "again" ELSE "down"]
      /\ UNCHANGED <<value, waiters, holder, holder_repeat_nr, old_status, depth>>
  BY DEF LockAcquire, At, Goto, lockVars
<1>3. SyncTypeOK'
  BY <1>1, <1>2 DEF SyncTypeOK, PC, AcquirePC
<1>4. depth \in [Threads -> [Locks -> Nat]]
  BY <1>1 DEF SyncTypeOK
<1>5. \A t \in Threads, k \in Locks : /\ Owns(t, k)' <=> Owns(t, k)
                                      /\ Held(t, k)' <=> Held(t, k)
                                      /\ Pending(t, k)' <=> Pending(t, k)
  BY <1>1, <1>2 DEF Owns, Held, Pending, SyncTypeOK
<1>6. OneOwner' /\ FreeValue' /\ HolderOwns' /\ RepeatExact'
  BY <1>2, <1>5 DEF LockInv, OneOwner, FreeValue, HolderOwns, RepeatExact
<1>7. holder[l] = cur <=> depth[cur][l] > 0
  BY <1>1, <1>2 DEF LockInv, HolderOwns, Held
<1>8. DepthAtPC'
  BY <1>1, <1>2, <1>4, <1>7 DEF LockInv, DepthAtPC, SyncTypeOK
<1> QED BY <1>3, <1>6, <1>8 DEF LockPart, LockInv

LEMMA AcquireAgainStep ==
  ASSUME SyncInv, AcquireAgain PROVE LockPart'
<1> USE DEF SyncInv
<1> DEFINE l == plock[cur]
<1>1. cur \in Threads /\ MaxDepth \in Nat /\ l \in Locks
  BY AssertsHold, MaxDepthAssumption DEF lock
<1>2. /\ pc[cur] = "again"
      /\ holder_repeat_nr' = [holder_repeat_nr EXCEPT ![l] = @ + 1]
      /\ depth' = [depth EXCEPT ![cur][l] = @ + 1]
      /\ pc' = [pc EXCEPT ![cur] = "run"]
      /\ UNCHANGED <<value, waiters, holder, plock, old_status>>
  BY DEF AcquireAgain, At, Goto, lock
<1> HIDE DEF l
<1>3. /\ depth \in [Threads -> [Locks -> Nat]]
      /\ depth[cur][l] \in 1..(MaxDepth - 1)
      /\ holder_repeat_nr \in [Locks -> Nat]
      /\ holder_repeat_nr[l] = depth[cur][l]
  <2>1. depth \in [Threads -> [Locks -> Nat]] /\ holder_repeat_nr \in [Locks -> Nat]
    BY <1>1 DEF SyncTypeOK
  <2>2. depth[cur][l] > 0 /\ depth[cur][l] < MaxDepth
    BY <1>1, <1>2 DEF LockInv, DepthAtPC, l
  <2>3. holder_repeat_nr[l] = depth[cur][l]
    BY <1>1, <1>2, <2>2 DEF LockInv, RepeatExact, Owns, Pending
  <2> QED BY <1>1, <2>1, <2>2, <2>3
<1>4. SyncTypeOK'
  <2>1. depth[cur][l] + 1 \in 0..MaxDepth
    BY <1>1, <1>3
  <2>2. holder_repeat_nr' \in [Locks -> 0..MaxDepth]
    BY <1>1, <1>2, <1>3, <2>1 DEF SyncTypeOK
  <2>3. depth' \in [Threads -> [Locks -> 0..MaxDepth]]
    BY <1>1, <1>2, <2>1 DEF SyncTypeOK
  <2>4. pc' \in [Threads -> PC]
    BY <1>1, <1>2 DEF SyncTypeOK, PC
  <2> QED BY <1>2, <2>2, <2>3, <2>4 DEF SyncTypeOK
<1>5. \A t \in Threads, k \in Locks :
        depth'[t][k] = IF t = cur /\ k = l THEN depth[t][k] + 1 ELSE depth[t][k]
  BY <1>1, <1>2, <1>3
<1>6. \A t \in Threads, k \in Locks : /\ Owns(t, k)' <=> Owns(t, k)
                                      /\ Held(t, k)' <=> Held(t, k)
                                      /\ Pending(t, k)' <=> Pending(t, k)
  <2>1. \A t \in Threads, k \in Locks : depth'[t][k] > 0 <=> depth[t][k] > 0
    BY <1>1, <1>3, <1>5
  <2>2. \A t \in Threads : pc'[t] = IF t = cur THEN "run" ELSE pc[t]
    BY <1>1, <1>2 DEF SyncTypeOK
  <2> QED BY <1>2, <2>1, <2>2 DEF Owns, Held, Pending
<1>7. Owns(cur, l) /\ ~Pending(cur, l)
  BY <1>1, <1>2, <1>3 DEF Owns, Pending
<1>8. OneOwner' /\ FreeValue' /\ HolderOwns'
  BY <1>2, <1>6 DEF LockInv, OneOwner, FreeValue, HolderOwns
<1>9. RepeatExact'
  BY <1>1, <1>2, <1>3, <1>5, <1>6, <1>7 DEF LockInv, OneOwner, RepeatExact
<1>10. DepthAtPC'
  BY <1>1, <1>2, <1>3, <1>5 DEF LockInv, DepthAtPC, SyncTypeOK
<1> QED BY <1>4, <1>8, <1>9, <1>10 DEF LockPart, LockInv

(* Steps that only enter or leave a section with interrupts off, or queue  *)
(* the caller.                                                             *)
LEMMA MoveStep ==
  ASSUME SyncInv, NEW x \in PC,
         pc' = [pc EXCEPT ![cur] = x],
         \/ pc[cur] = "down" /\ x = "wait"
         \/ pc[cur] = "wait" /\ x = "wait"
         \/ pc[cur] = "up" /\ x = "wake"
         \/ pc[cur] = "upret" /\ x = "run",
         waiters' \in [Locks -> Seq(Threads)],
         old_status' \in [Threads -> IntrStatus],
         UNCHANGED <<value, holder, holder_repeat_nr, plock, depth>>
  PROVE  LockPart'
<1> USE DEF SyncInv
<1>1. cur \in Threads
  BY AssertsHold
<1>2. SyncTypeOK'
  BY <1>1 DEF SyncTypeOK
<1>3. \A t \in Threads : pc'[t] = IF t = cur THEN x ELSE pc[t]
  BY <1>1 DEF SyncTypeOK
<1>4. \A t \in Threads, k \in Locks : /\ Owns(t, k)' <=> Owns(t, k)
                                      /\ Held(t, k)' <=> Held(t, k)
                                      /\ Pending(t, k)' <=> Pending(t, k)
  BY <1>3 DEF Owns, Held, Pending
<1>5. OneOwner' /\ FreeValue' /\ HolderOwns' /\ RepeatExact'
  BY <1>4 DEF LockInv, OneOwner, FreeValue, HolderOwns, RepeatExact
<1>6. DepthAtPC'
  BY <1>1, <1>3 DEF LockInv, DepthAtPC
<1> QED BY <1>2, <1>5, <1>6 DEF LockPart, LockInv

LEMMA SemaDownTakeStep ==
  ASSUME SyncInv, SemaDownTake PROVE LockPart'
<1> USE DEF SyncInv
<1> DEFINE l == plock[cur]
<1>1. cur \in Threads /\ l \in Locks
  BY AssertsHold DEF lock
<1>2. /\ pc[cur] = "wait" /\ value[l] = 1
      /\ value' = [value EXCEPT ![l] = 0]
      /\ pc' = [pc EXCEPT ![cur] = "got"]
      /\ UNCHANGED <<waiters, holder, holder_repeat_nr, plock, old_status, depth>>
  BY AssertsHold DEF SemaDownTake, ASSERT, At, Goto, lock
<1>3. plock[cur] = l
  OBVIOUS
<1> HIDE DEF l
<1>4. SyncTypeOK'
  <2>0. 0 \in 0..1
    OBVIOUS
  <2>1. value' \in [Locks -> 0..1]
    BY <1>2, <2>0 DEF SyncTypeOK
  <2> QED BY <1>2, <2>1 DEF SyncTypeOK, PC, AcquirePC
<1>5. \A t \in Threads : pc'[t] = IF t = cur THEN "got" ELSE pc[t]
  BY <1>1, <1>2 DEF SyncTypeOK
<1>6. \A t \in Threads : ~Owns(t, l)
  BY <1>1, <1>2 DEF LockInv, FreeValue
<1>7. depth[cur][l] = 0
  BY <1>1, <1>2, <1>3 DEF LockInv, DepthAtPC
<1>8. \A t \in Threads, k \in Locks :
        /\ Owns(t, k)' <=> Owns(t, k) \/ (t = cur /\ k = l)
        /\ Held(t, k)' <=> Held(t, k)
        /\ Pending(t, k)' <=> Pending(t, k)
  BY <1>1, <1>2, <1>3, <1>5 DEF Owns, Held, Pending
<1>9. OneOwner' /\ HolderOwns'
  BY <1>2, <1>6, <1>8 DEF LockInv, OneOwner, HolderOwns
<1>10. FreeValue'
  BY <1>1, <1>2, <1>8 DEF LockInv, FreeValue, SyncTypeOK
<1>11. RepeatExact'
  <2>1. ~Pending(cur, l)
    BY <1>2 DEF Pending
  <2> QED BY <1>1, <1>2, <1>6, <1>7, <1>8, <2>1 DEF LockInv, RepeatExact
<1>12. DepthAtPC'
  BY <1>2, <1>3, <1>5, <1>7 DEF LockInv, DepthAtPC
<1> QED BY <1>4, <1>9, <1>10, <1>11, <1>12 DEF LockPart, LockInv

LEMMA SetHolderStep ==
  ASSUME SyncInv, SetHolder PROVE LockPart'
<1> USE DEF SyncInv
<1> DEFINE l == plock[cur]
<1>1. cur \in Threads /\ l \in Locks
  BY AssertsHold DEF lock
<1>2. /\ pc[cur] = "got"
      /\ holder' = [holder EXCEPT ![l] = cur]
      /\ pc' = [pc EXCEPT ![cur] = "first"]
      /\ UNCHANGED <<value, waiters, holder_repeat_nr, plock, old_status, depth>>
  BY DEF SetHolder, At, Goto, lock
<1>3. plock[cur] = l
  OBVIOUS
<1> HIDE DEF l
<1>4. SyncTypeOK'
  BY <1>1, <1>2 DEF SyncTypeOK, PC, AcquirePC
<1>5. \A t \in Threads : pc'[t] = IF t = cur THEN "first" ELSE pc[t]
  BY <1>1, <1>2 DEF SyncTypeOK
<1>6. \A t \in Threads : t # cur => ~Owns(t, l)
  BY <1>1, <1>2, <1>3 DEF LockInv, OneOwner, Owns
<1>7. \A t \in Threads, k \in Locks :
        /\ Owns(t, k)' <=> Owns(t, k)
        /\ Held(t, k)' <=> Held(t, k) \/ (t = cur /\ k = l)
        /\ Pending(t, k)' <=> Pending(t, k)
  BY <1>1, <1>2, <1>3, <1>5 DEF Owns, Held, Pending
<1>8. OneOwner' /\ FreeValue' /\ RepeatExact'
  BY <1>2, <1>7 DEF LockInv, OneOwner, FreeValue, RepeatExact
<1>9. HolderOwns'
  <2>1. \A k \in Locks : holder'[k] = IF k = l THEN cur ELSE holder[k]
    BY <1>1, <1>2 DEF SyncTypeOK
  <2>2. \A t \in Threads : t # cur => ~Held(t, l)
    BY <1>6 DEF Held, Owns
  <2> QED BY <1>1, <1>7, <2>1, <2>2 DEF LockInv, HolderOwns
<1>10. DepthAtPC'
  BY <1>1, <1>2, <1>3, <1>5 DEF LockInv, DepthAtPC
<1> QED BY <1>4, <1>8, <1>9, <1>10 DEF LockPart, LockInv

LEMMA SetRepeatStep ==
  ASSUME SyncInv, SetRepeat PROVE LockPart'
<1> USE DEF SyncInv
<1> DEFINE l == plock[cur]
<1>1. cur \in Threads /\ l \in Locks /\ MaxDepth \in Nat /\ MaxDepth > 0
  BY AssertsHold, MaxDepthAssumption DEF lock
<1>2. /\ pc[cur] = "first"
      /\ holder_repeat_nr' = [holder_repeat_nr EXCEPT ![l] = 1]
      /\ depth' = [depth EXCEPT ![cur][l] = 1]
      /\ pc' = [pc EXCEPT ![cur] = "run"]
      /\ UNCHANGED <<value, waiters, holder, plock, old_status>>
  BY AssertsHold DEF SetRepeat, ASSERT, At, Goto, lock
<1>3. plock[cur] = l
  OBVIOUS
<1> HIDE DEF l
<1>4. SyncTypeOK'
  <2>1. 1 \in 0..MaxDepth
    BY <1>1
  <2>2. holder_repeat_nr' \in [Locks -> 0..MaxDepth]
    BY <1>2, <2>1 DEF SyncTypeOK
  <2>3. depth' \in [Threads -> [Locks -> 0..MaxDepth]]
    BY <1>1, <1>2, <2>1 DEF SyncTypeOK
  <2> QED BY <1>1, <1>2, <2>2, <2>3 DEF SyncTypeOK, PC
<1>5. \A t \in Threads : pc'[t] = IF t = cur THEN "run" ELSE pc[t]
  BY <1>1, <1>2 DEF SyncTypeOK
<1>6. \A t \in Threads, k \in Locks :
        depth'[t][k] = IF t = cur /\ k = l THEN 1 ELSE depth[t][k]
  BY <1>1, <1>2 DEF SyncTypeOK
<1>7. \A t \in Threads, k \in Locks :
        /\ Owns(t, k)' <=> Owns(t, k)
        /\ Held(t, k)' <=> Held(t, k)
        /\ Pending(t, k)' <=> Pending(t, k)
  BY <1>1, <1>2, <1>3, <1>5, <1>6 DEF Owns, Held, Pending
<1>8. OneOwner' /\ FreeValue' /\ HolderOwns'
  BY <1>2, <1>7 DEF LockInv, OneOwner, FreeValue, HolderOwns
<1>9. RepeatExact'
  <2>1. Owns(cur, l) /\ ~Pending(cur, l)
    BY <1>2, <1>3 DEF Owns, Pending
  <2>2. \A k \in Locks : holder_repeat_nr'[k] = IF k = l THEN 1 ELSE holder_repeat_nr[k]
    BY <1>1, <1>2 DEF SyncTypeOK
  <2> QED BY <1>1, <1>6, <1>7, <2>1, <2>2 DEF LockInv, OneOwner, RepeatExact
<1>10. DepthAtPC'
  BY <1>1, <1>2, <1>3, <1>5, <1>6 DEF LockInv, DepthAtPC
<1> QED BY <1>4, <1>8, <1>9, <1>10 DEF LockPart, LockInv

LEMMA LockReleaseStep ==
  ASSUME SyncInv, NEW l \in Locks, LockRelease(l) PROVE LockPart'
<1> USE DEF SyncInv
<1> DEFINE x == IF holder_repeat_nr[l] > 1 THEN "less" ELSE "clear"
<1>1. cur \in Threads /\ MaxDepth \in Nat
  BY AssertsHold, MaxDepthAssumption
<1>2. /\ pc[cur] = "run"
      /\ depth[cur][l] > 0
      /\ holder_repeat_nr[l] = depth[cur][l]
      /\ plock' = [plock EXCEPT ![cur] = l]
      /\ depth' = [depth EXCEPT ![cur][l] = @ - 1]
      /\ pc' = [pc EXCEPT ![cur] = x]
      /\ UNCHANGED <<value, waiters, holder, holder_repeat_nr, old_status>>
  BY AssertsHold DEF LockRelease, ASSERT, At, Goto, lockVars
<1>3. /\ depth \in [Threads -> [Locks -> 0..MaxDepth]]
      /\ depth[cur][l] \in 1..MaxDepth
  BY <1>1, <1>2 DEF SyncTypeOK
<1>4. x = IF depth[cur][l] > 1 THEN "less" ELSE "clear"
  BY <1>2
<1> HIDE DEF x
<1>5. SyncTypeOK'
  <2>1. depth[cur][l] - 1 \in 0..MaxDepth
    BY <1>1, <1>3
  <2>2. depth' \in [Threads -> [Locks -> 0..MaxDepth]]
    BY <1>1, <1>2, <1>3, <2>1
  <2>3. x \in PC
    BY <1>4 DEF PC, ReleasePC
  <2> QED BY <1>1, <1>2, <2>2, <2>3 DEF SyncTypeOK
<1>6. \A t \in Threads : /\ pc'[t] = IF t = cur THEN x ELSE pc[t]
                         /\ plock'[t] = IF t = cur THEN l ELSE plock[t]
  BY <1>1, <1>2 DEF SyncTypeOK
<1>7. \A t \in Threads, k \in Locks :
        depth'[t][k] = IF t = cur /\ k = l THEN depth[t][k] - 1 ELSE depth[t][k]
  BY <1>1, <1>2, <1>3
<1>8. x = "less" <=> depth'[cur][l] > 0
  BY <1>1, <1>3, <1>4, <1>7
<1>9. \A t \in Threads, k \in Locks :
        /\ Owns(t, k)' <=> Owns(t, k)
        /\ Held(t, k)' <=> Held(t, k)
        /\ Pending(t, k)' <=> Pending(t, k) \/ (t = cur /\ k = l)
  BY <1>1, <1>2, <1>4, <1>6, <1>7, <1>8 DEF Owns, Held, Pending
<1>10. OneOwner' /\ FreeValue' /\ HolderOwns'
  BY <1>2, <1>9 DEF LockInv, OneOwner, FreeValue, HolderOwns
<1>11. RepeatExact'
  <2>1. Owns(cur, l) /\ \A k \in Locks : ~Pending(cur, k)
    BY <1>2 DEF Owns, Pending
  <2>2. depth'[cur][l] + 1 = holder_repeat_nr[l]
    BY <1>1, <1>2, <1>3, <1>7
  <2> QED BY <1>1, <1>2, <1>7, <1>9, <2>1, <2>2 DEF LockInv, OneOwner, RepeatExact
<1>12. DepthAtPC'
  <2>1. /\ x = "less" => depth'[cur][l] > 0 /\ depth'[cur][l] < MaxDepth
        /\ x = "clear" => depth'[cur][l] = 0
    BY <1>1, <1>3, <1>4, <1>7
  <2> QED BY <1>1, <1>2, <1>4, <1>6, <1>7, <2>1 DEF LockInv, DepthAtPC
<1> QED BY <1>5, <1>10, <1>11, <1>12 DEF LockPart, LockInv

LEMMA ReleaseOnceStep ==
  ASSUME SyncInv, ReleaseOnce PROVE LockPart'
<1> USE DEF SyncInv
<1> DEFINE l == plock[cur]
<1>1. cur \in Threads /\ l \in Locks /\ MaxDepth \in Nat
  BY AssertsHold, MaxDepthAssumption DEF lock
<1>2. /\ pc[cur] = "less"
      /\ holder_repeat_nr' = [holder_repeat_nr EXCEPT ![l] = @ - 1]
      /\ pc' = [pc EXCEPT ![cur] = "run"]
      /\ UNCHANGED <<value, waiters, holder, plock, old_status, depth>>
  BY DEF ReleaseOnce, At, Goto, lock
<1>3. plock[cur] = l
  OBVIOUS
<1> HIDE DEF l
<1>4. depth[cur][l] > 0 /\ depth[cur][l] \in 0..MaxDepth
  BY <1>1, <1>2, <1>3 DEF LockInv, DepthAtPC, SyncTypeOK
<1>5. Owns(cur, l) /\ Pending(cur, l)
  BY <1>2, <1>3, <1>4 DEF Owns, Pending
<1>6. holder_repeat_nr[l] - 1 = depth[cur][l]
  <2>1. holder_repeat_nr[l] = depth[cur][l] + 1
    BY <1>1, <1>5 DEF LockInv, RepeatExact
  <2> QED BY <1>4, <2>1
<1>7. \A k \in Locks : holder_repeat_nr'[k] =
        IF k = l THEN depth[cur][l] ELSE holder_repeat_nr[k]
  BY <1>1, <1>2, <1>6 DEF SyncTypeOK
<1>8. SyncTypeOK'
  <2>1. holder_repeat_nr' \in [Locks -> 0..MaxDepth]
    BY <1>1, <1>2, <1>4, <1>6 DEF SyncTypeOK
  <2> QED BY <1>1, <1>2, <2>1 DEF SyncTypeOK, PC
<1>9. \A t \in Threads : pc'[t] = IF t = cur THEN "run" ELSE pc[t]
  BY <1>1, <1>2 DEF SyncTypeOK
<1>10. \A t \in Threads, k \in Locks :
        /\ Owns(t, k)' <=> Owns(t, k)
        /\ Held(t, k)' <=> Held(t, k)
        /\ Pending(t, k)' <=> Pending(t, k) /\ ~(t = cur /\ k = l)
  BY <1>1, <1>2, <1>3, <1>9 DEF Owns, Held, Pending
<1>11. OneOwner' /\ FreeValue' /\ HolderOwns'
  BY <1>2, <1>10 DEF LockInv, OneOwner, FreeValue, HolderOwns
<1>12. RepeatExact'
  BY <1>1, <1>2, <1>5, <1>7, <1>10 DEF LockInv, OneOwner, RepeatExact
<1>13. DepthAtPC'
  BY <1>2, <1>9 DEF LockInv, DepthAtPC
<1> QED BY <1>8, <1>11, <1>12, <1>13 DEF LockPart, LockInv

LEMMA ClearHolderStep ==
  ASSUME SyncInv, ClearHolder PROVE LockPart'
<1> USE DEF SyncInv
<1> DEFINE l == plock[cur]
<1>1. cur \in Threads /\ l \in Locks
  BY AssertsHold DEF lock
<1>2. /\ pc[cur] = "clear"
      /\ holder' = [holder EXCEPT ![l] = NULL]
      /\ pc' = [pc EXCEPT ![cur] = "zero"]
      /\ UNCHANGED <<value, waiters, holder_repeat_nr, plock, old_status, depth>>
  BY DEF ClearHolder, At, Goto, lock
<1>3. plock[cur] = l
  OBVIOUS
<1> HIDE DEF l
<1>4. SyncTypeOK'
  BY <1>1, <1>2 DEF SyncTypeOK, PC, ReleasePC
<1>5. \A t \in Threads : pc'[t] = IF t = cur THEN "zero" ELSE pc[t]
  BY <1>1, <1>2 DEF SyncTypeOK
<1>6. Owns(cur, l) /\ ~(depth[cur][l] > 0)
  BY <1>1, <1>2, <1>3 DEF LockInv, DepthAtPC, Owns
<1>7. \A t \in Threads, k \in Locks :
        /\ Owns(t, k)' <=> Owns(t, k)
        /\ Held(t, k)' <=> Held(t, k) /\ ~(t = cur /\ k = l)
        /\ Pending(t, k)' <=> Pending(t, k)
  BY <1>1, <1>2, <1>3, <1>5, <1>6 DEF Owns, Held, Pending
<1>8. OneOwner' /\ FreeValue' /\ RepeatExact'
  BY <1>2, <1>7 DEF LockInv, OneOwner, FreeValue, RepeatExact
<1>9. HolderOwns'
  <2>1. \A k \in Locks : holder'[k] = IF k = l THEN NULL ELSE holder[k]
    BY <1>1, <1>2 DEF SyncTypeOK
  <2>2. \A t \in Threads : Held(t, l) => t = cur
    BY <1>1, <1>6 DEF Held, Owns, LockInv, OneOwner
  <2> QED BY <1>1, <1>7, <2>1, <2>2, NullAssumption DEF LockInv, HolderOwns
<1>10. DepthAtPC'
  BY <1>1, <1>2, <1>3, <1>5 DEF LockInv, DepthAtPC
<1> QED BY <1>4, <1>8, <1>9, <1>10 DEF LockPart, LockInv

LEMMA ClearRepeatStep ==
  ASSUME SyncInv, ClearRepeat PROVE LockPart'
<1> USE DEF SyncInv
<1> DEFINE l == plock[cur]
<1>1. cur \in Threads /\ l \in Locks /\ MaxDepth \in Nat
  BY AssertsHold, MaxDepthAssumption DEF lock
<1>2. /\ pc[cur] = "zero"
      /\ holder_repeat_nr' = [holder_repeat_nr EXCEPT ![l] = 0]
      /\ pc' = [pc EXCEPT ![cur] = "up"]
      /\ UNCHANGED <<value, waiters, holder, plock, old_status, depth>>
  BY DEF ClearRepeat, At, Goto, lock
<1>3. plock[cur] = l
  OBVIOUS
<1> HIDE DEF l
<1>4. SyncTypeOK'
  <2>1. 0 \in 0..MaxDepth
    BY <1>1
  <2>2. holder_repeat_nr' \in [Locks -> 0..MaxDepth]
    BY <1>2, <2>1 DEF SyncTypeOK
  <2> QED BY <1>1, <1>2, <2>2 DEF SyncTypeOK, PC, ReleasePC
<1>5. \A t \in Threads : pc'[t] = IF t = cur THEN "up" ELSE pc[t]
  BY <1>1, <1>2 DEF SyncTypeOK
<1>6. Owns(cur, l) /\ depth[cur][l] = 0
  BY <1>1, <1>2, <1>3 DEF LockInv, DepthAtPC, Owns
<1>7. \A t \in Threads, k \in Locks :
        /\ Owns(t, k)' <=> Owns(t, k)
        /\ Held(t, k)' <=> Held(t, k)
        /\ Pending(t, k)' <=> Pending(t, k) /\ ~(t = cur /\ k = l)
  BY <1>1, <1>2, <1>3, <1>5 DEF Owns, Held, Pending
<1>8. OneOwner' /\ FreeValue' /\ HolderOwns'
  BY <1>2, <1>7 DEF LockInv, OneOwner, FreeValue, HolderOwns
<1>9. RepeatExact'
  <2>1. \A k \in Locks : holder_repeat_nr'[k] = IF k = l THEN 0 ELSE holder_repeat_nr[k]
    BY <1>1, <1>2 DEF SyncTypeOK
  <2> QED BY <1>1, <1>2, <1>6, <1>7, <2>1 DEF LockInv, OneOwner, RepeatExact
<1>10. DepthAtPC'
  BY <1>1, <1>2, <1>3, <1>5 DEF LockInv, DepthAtPC
<1> QED BY <1>4, <1>8, <1>9, <1>10 DEF LockPart, LockInv

LEMMA SemaUpWakeStep ==
  ASSUME SyncInv, SemaUpWake PROVE LockPart'
<1> USE DEF SyncInv
<1> DEFINE l == plock[cur]
<1>1. cur \in Threads /\ l \in Locks
  BY AssertsHold DEF lock
<1>2. /\ pc[cur] = "wake" /\ value[l] = 0
      /\ value' = [value EXCEPT ![l] = 1]
      /\ waiters' = waiters \/ (waiters[l] # << >> /\ waiters' = [waiters EXCEPT ![l] = Tail(@)])
      /\ pc' = [pc EXCEPT ![cur] = "upret"]
      /\ UNCHANGED <<holder, holder_repeat_nr, plock, old_status, depth>>
  BY AssertsHold DEF SemaUpWake, ASSERT, At, Goto, lock
<1>3. plock[cur] = l
  OBVIOUS
<1> HIDE DEF l
<1>4. SyncTypeOK'
  <2>1. 1 \in 0..1
    OBVIOUS
  <2>2. value' \in [Locks -> 0..1]
    BY <1>2, <2>1 DEF SyncTypeOK
  <2>3. waiters[l] # << >> => Tail(waiters[l]) \in Seq(Threads)
    BY <1>1 DEF SyncTypeOK
  <2>4. waiters' \in [Locks -> Seq(Threads)]
    BY <1>1, <1>2, <2>3 DEF SyncTypeOK
  <2> QED BY <1>1, <1>2, <2>2, <2>4 DEF SyncTypeOK, PC, ReleasePC
<1>5. \A t \in Threads : pc'[t] = IF t = cur THEN "upret" ELSE pc[t]
  BY <1>1, <1>2 DEF SyncTypeOK
<1>6. Owns(cur, l) /\ depth[cur][l] = 0 /\ ~Pending(cur, l)
  BY <1>1, <1>2, <1>3 DEF LockInv, DepthAtPC, Owns, Pending
<1>7. holder_repeat_nr[l] = 0
  BY <1>1, <1>6 DEF LockInv, RepeatExact
<1>8. \A t \in Threads, k \in Locks :
        /\ Owns(t, k)' <=> Owns(t, k) /\ ~(t = cur /\ k = l)
        /\ Held(t, k)' <=> Held(t, k)
        /\ Pending(t, k)' <=> Pending(t, k)
  BY <1>1, <1>2, <1>3, <1>5, <1>6 DEF Owns, Held, Pending
<1>9. OneOwner' /\ HolderOwns'
  BY <1>2, <1>8 DEF LockInv, OneOwner, HolderOwns
<1>10. FreeValue'
  <2>1. \A k \in Locks : value'[k] = IF k = l THEN 1 ELSE value[k]
    BY <1>1, <1>2 DEF SyncTypeOK
  <2> QED BY <1>1, <1>6, <1>8, <2>1 DEF LockInv, FreeValue, OneOwner
<1>11. RepeatExact'
  BY <1>1, <1>2, <1>6, <1>7, <1>8 DEF LockInv, OneOwner, RepeatExact
<1>12. DepthAtPC'
  BY <1>1, <1>2, <1>3, <1>5 DEF LockInv, DepthAtPC
<1> QED BY <1>4, <1>9, <1>10, <1>11, <1>12 DEF LockPart, LockInv

-----------------------------------------------------------------------------
(* The calls in progress and the threads: what each step does to the lists *)
(* of waiters, the interrupt flag and the wake-ups.                        *)

CallPart == CallInv /\ NoLostWakeup

(* A step of a client, outside the sections with interrupts off. *)
LEMMA OpenStep ==
  ASSUME SyncInv, NEW x \in PC, NEW y \in Locks,
         pc[cur] \notin {"wait", "wake", "upret"}, x \notin {"wait", "wake", "upret"},
         pc' = [pc EXCEPT ![cur] = x], plock' = [plock EXCEPT ![cur] = y],
         cur # main_thread, \A l \in Locks : depth'[main_thread][l] = 0,
         UNCHANGED <<vars, value, waiters>>
  PROVE  CallPart'
<1> USE DEF SyncInv, CallInv
<1>1. cur \in Threads /\ ~Blocked(cur) /\ status[cur] # NO_TASK
  BY AssertsHold DEF TASK_RUNNING, NO_TASK
<1>2. UNCHANGED <<cur, intr, status, saved>>
  BY DEF vars
<1>3. \A t \in Threads : /\ pc'[t] = IF t = cur THEN x ELSE pc[t]
                         /\ plock'[t] = IF t = cur THEN y ELSE plock[t]
  BY <1>1 DEF SyncTypeOK
<1>4. WaitersExact'
  BY <1>1, <1>2, <1>3 DEF WaitersExact, Blocked
<1>5. AtomicSections' /\ WaitOff'
  BY <1>1, <1>2, <1>3 DEF AtomicSections, WaitOff
<1>6. CallsByClients'
  BY <1>1, <1>2, <1>3 DEF CallsByClients, Blocked
<1>7. NoLostWakeup'
  BY <1>1, <1>2, <1>3 DEF NoLostWakeup
<1> QED BY <1>4, <1>5, <1>6, <1>7 DEF CallPart

(* intr_disable on the way into sema_down or sema_up. *)
LEMMA DisableStep ==
  ASSUME SyncInv, NEW x \in {"wait", "wake"},
         pc[cur] \in {"down", "up"}, pc' = [pc EXCEPT ![cur] = x],
         IntrSet(INTR_OFF),
         UNCHANGED <<value, waiters, plock, depth>>
  PROVE  CallPart'
<1> USE DEF SyncInv, CallInv
<1>1. cur \in Threads /\ ~Blocked(cur) /\ status[cur] # NO_TASK
  BY AssertsHold DEF TASK_RUNNING, NO_TASK
<1>2. UNCHANGED <<cur, status, saved>> /\ intr' = INTR_OFF
  BY DEF IntrSet
<1>3. \A t \in Threads : pc'[t] = IF t = cur THEN x ELSE pc[t]
  BY <1>1 DEF SyncTypeOK
<1>4. WaitersExact'
  BY <1>1, <1>2, <1>3 DEF WaitersExact, Blocked
<1>5. AtomicSections' /\ WaitOff'
  BY <1>1, <1>2, <1>3 DEF AtomicSections, WaitOff
<1>6. CallsByClients'
  BY <1>1, <1>2, <1>3 DEF CallsByClients, Blocked
<1>7. NoLostWakeup'
  BY <1>1, <1>2, <1>3 DEF NoLostWakeup
<1> QED BY <1>4, <1>5, <1>6, <1>7 DEF CallPart

(* sema_down takes the semaphore: its waiters need nobody any more. *)
LEMMA TakeStep == ASSUME SyncInv, SemaDownTake PROVE CallPart'
<1> USE DEF SyncInv, CallInv
<1> DEFINE l == plock[cur]
<1>1. cur \in Threads /\ ~Blocked(cur) /\ status[cur] # NO_TASK /\ l \in Locks
  BY AssertsHold DEF TASK_RUNNING, NO_TASK, lock
<1>2. /\ pc[cur] = "wait" /\ value' = [value EXCEPT ![l] = 0]
      /\ pc' = [pc EXCEPT ![cur] = "got"]
      /\ UNCHANGED <<cur, status, saved, waiters, plock, depth>>
  BY AssertsHold DEF SemaDownTake, ASSERT, At, Goto, lock, IntrSet
<1> HIDE DEF l
<1>3. \A t \in Threads : pc'[t] = IF t = cur THEN "got" ELSE pc[t]
  BY <1>1, <1>2 DEF SyncTypeOK
<1>4. WaitersExact'
  BY <1>1, <1>2, <1>3 DEF WaitersExact, Blocked
<1>5. AtomicSections' /\ WaitOff'
  BY <1>1, <1>2, <1>3 DEF AtomicSections, WaitOff
<1>6. CallsByClients'
  BY <1>1, <1>2, <1>3 DEF CallsByClients, Blocked
<1>7. NoLostWakeup'
  <2>1. \A k \in Locks : value'[k] = IF k = l THEN 0 ELSE value[k]
    BY <1>1, <1>2 DEF SyncTypeOK
  <2>2. \A k \in Locks : k # l => plock[cur] # k
    BY DEF l
  <2> QED BY <1>1, <1>2, <1>3, <2>1, <2>2 DEF NoLostWakeup
<1> QED BY <1>4, <1>5, <1>6, <1>7 DEF CallPart

(* sema_down blocks: the thread and its entry in waiters go together. *)
LEMMA BlockStep == ASSUME SyncInv, SemaDownBlock PROVE CallPart'
<1> USE DEF SyncInv, CallInv
<1> DEFINE l == plock[cur]
<1>1. cur \in Threads /\ l \in Locks /\ ~Blocked(cur) /\ status[cur] # NO_TASK
  BY AssertsHold DEF lock, TASK_RUNNING, NO_TASK
<1>2. /\ pc[cur] = "wait" /\ value[l] = 0
      /\ cur \notin Range(waiters[l])
      /\ waiters' = [waiters EXCEPT ![l] = Append(@, cur)]
      /\ ThreadBlock(TASK_BLOCKED)
      /\ UNCHANGED <<value, pc, plock, depth>>
  BY AssertsHold DEF SemaDownBlock, ASSERT, At, lock, list_append, elem_find, callVars
<1>3. cur # main_thread
  BY <1>1, <1>2 DEF CallsByClients
<1>4. /\ cur' \in Threads /\ cur' # cur
      /\ \A t \in Threads :
           /\ Runnable(t)' <=> t # cur /\ Runnable(t)
           /\ Blocked(t)' <=> t = cur \/ Blocked(t)
           /\ status'[t] = NO_TASK <=> status[t] = NO_TASK
      /\ saved' = [saved EXCEPT ![cur] = intr]
      /\ intr' = saved[cur']
  BY <1>2, <1>3, BlockEffects
<1>5. /\ waiters[l] \in Seq(Threads) /\ IsInjective(waiters[l])
      /\ Range(waiters[l]) = {t \in Threads : Blocked(t) /\ pc[t] = "wait" /\ plock[t] = l}
  BY <1>1 DEF SyncTypeOK, WaitersExact, Blocked
<1>6. /\ IsInjective(Append(waiters[l], cur))
      /\ Range(Append(waiters[l], cur)) = Range(waiters[l]) \cup {cur}
  BY <1>1, <1>2, <1>5, AppendFacts
<1>7. plock[cur] = l
  OBVIOUS
<1> HIDE DEF l
<1>8. WaitersExact'
  <2>1. \A k \in Locks : waiters'[k] = IF k = l THEN Append(waiters[l], cur) ELSE waiters[k]
    BY <1>1, <1>2 DEF SyncTypeOK
  <2> SUFFICES ASSUME NEW k \in Locks
               PROVE  /\ IsInjective(waiters'[k])
                      /\ Range(waiters'[k]) =
                           {t \in Threads : Blocked(t)' /\ pc'[t] = "wait" /\ plock'[t] = k}
    BY DEF WaitersExact, Blocked
  <2>2. CASE k = l
    BY <1>1, <1>2, <1>4, <1>5, <1>6, <1>7, <2>1, <2>2
  <2>3. CASE k # l
    <3>1. /\ IsInjective(waiters[k])
          /\ Range(waiters[k]) = {t \in Threads : Blocked(t) /\ pc[t] = "wait" /\ plock[t] = k}
      BY DEF WaitersExact, Blocked
    <3> QED BY <1>1, <1>2, <1>4, <1>7, <2>1, <2>3, <3>1
  <2> QED BY <2>2, <2>3
<1>9. intr = INTR_OFF
  BY <1>2 DEF AtomicSections
<1>10. AtomicSections' /\ WaitOff'
  BY <1>1, <1>2, <1>4, <1>9 DEF AtomicSections, WaitOff, ThreadInv, TypeOK
<1>11. CallsByClients'
  BY <1>1, <1>2, <1>4 DEF CallsByClients, Blocked
<1>12. NoLostWakeup'
  <2>1. \A k \in Locks : k # l => waiters'[k] = waiters[k] /\ plock[cur] # k
    BY <1>1, <1>2, <1>7 DEF SyncTypeOK
  <2> QED BY <1>1, <1>2, <1>4, <2>1 DEF NoLostWakeup, Runnable
<1> QED BY <1>8, <1>10, <1>11, <1>12 DEF CallPart

(* sema_up: the waiter that leaves the list is runnable. *)
LEMMA WakeStep == ASSUME SyncInv, SemaUpWake PROVE CallPart'
<1> USE DEF SyncInv, CallInv
<1> DEFINE l == plock[cur]
           w == Head(waiters[l])
<1>1. cur \in Threads /\ l \in Locks /\ ~Blocked(cur) /\ status[cur] # NO_TASK
  BY AssertsHold DEF lock, TASK_RUNNING, NO_TASK
<1>2. /\ pc[cur] = "wake"
      /\ value' = [value EXCEPT ![l] = @ + 1]
      /\ IF waiters[l] # << >>
           THEN /\ waiters' = [waiters EXCEPT ![l] = Tail(@)]
                /\ ThreadUnblock(w)
           ELSE UNCHANGED <<waiters, vars>>
      /\ pc' = [pc EXCEPT ![cur] = "upret"]
      /\ UNCHANGED <<plock, depth>>
  BY AssertsHold DEF SemaUpWake, ASSERT, At, Goto, lock
<1>3. \A t \in Threads : pc'[t] = IF t = cur THEN "upret" ELSE pc[t]
  BY <1>1, <1>2 DEF SyncTypeOK
<1>4. \A k \in Locks : k # l => value'[k] = value[k]
  BY <1>1, <1>2 DEF SyncTypeOK
<1>5. intr = INTR_OFF
  BY <1>2 DEF AtomicSections
<1>6. CASE waiters[l] = << >>
  <2>1. UNCHANGED <<waiters, cur, intr, status, saved>>
    BY <1>2, <1>6 DEF vars
  <2> HIDE DEF l
  <2>2. WaitersExact' /\ CallsByClients'
    BY <1>1, <1>2, <1>3, <2>1 DEF WaitersExact, CallsByClients, Blocked
  <2>3. AtomicSections' /\ WaitOff'
    BY <1>1, <1>2, <1>3, <1>5, <2>1 DEF AtomicSections, WaitOff
  <2>4. NoLostWakeup'
    BY <1>2, <1>3, <1>4, <1>6, <2>1 DEF NoLostWakeup
  <2> QED BY <2>2, <2>3, <2>4 DEF CallPart
<1>7. CASE waiters[l] # << >>
  <2>1. /\ waiters' = [waiters EXCEPT ![l] = Tail(@)]
        /\ ThreadUnblock(w)
    BY <1>2, <1>7
  <2>2. /\ waiters[l] \in Seq(Threads) /\ IsInjective(waiters[l])
        /\ Range(waiters[l]) = {t \in Threads : Blocked(t) /\ pc[t] = "wait" /\ plock[t] = l}
    BY <1>1 DEF SyncTypeOK, WaitersExact, Blocked
  <2>3. /\ w \in Threads /\ w \in Range(waiters[l])
        /\ IsInjective(Tail(waiters[l]))
        /\ Range(Tail(waiters[l])) = Range(waiters[l]) \ {w}
    BY <1>7, <2>2, PopFacts
  <2>4. Blocked(w) /\ pc[w] = "wait" /\ plock[w] = l /\ w # cur
    BY <1>1, <2>2, <2>3
  <2>5. /\ \A t \in Threads :
             /\ Runnable(t)' <=> t = w \/ Runnable(t)
             /\ Blocked(t)' <=> t # w /\ Blocked(t)
             /\ status'[t] = NO_TASK <=> status[t] = NO_TASK
        /\ UNCHANGED <<cur, intr, saved>>
    BY <2>1, <2>3, <2>4, UnblockEffects
  <2>6. \A k \in Locks : waiters'[k] = IF k = l THEN Tail(waiters[l]) ELSE waiters[k]
    BY <1>1, <2>1 DEF SyncTypeOK
  <2> HIDE DEF l, w
  <2>7. WaitersExact'
    <3> SUFFICES ASSUME NEW k \in Locks
                 PROVE  /\ IsInjective(waiters'[k])
                        /\ Range(waiters'[k]) =
                             {t \in Threads : Blocked(t)' /\ pc'[t] = "wait" /\ plock'[t] = k}
      BY DEF WaitersExact, Blocked
    <3>1. CASE k = l
      BY <1>1, <1>2, <1>3, <2>2, <2>3, <2>4, <2>5, <2>6, <3>1
    <3>2. CASE k # l
      <4>1. /\ IsInjective(waiters[k])
            /\ Range(waiters[k]) = {t \in Threads : Blocked(t) /\ pc[t] = "wait" /\ plock[t] = k}
        BY DEF WaitersExact, Blocked
      <4> QED BY <1>1, <1>2, <1>3, <2>4, <2>5, <2>6, <3>2, <4>1
    <3> QED BY <3>1, <3>2
  <2>8. AtomicSections' /\ WaitOff'
    BY <1>1, <1>2, <1>3, <1>5, <2>5 DEF AtomicSections, WaitOff
  <2>9. CallsByClients'
    BY <1>1, <1>2, <1>3, <2>5 DEF CallsByClients, Blocked
  <2>10. NoLostWakeup'
    <3> SUFFICES ASSUME NEW k \in Locks, value'[k] = 1, waiters'[k] # << >>
                 PROVE  \E t \in Threads : Runnable(t)' /\ pc'[t] = "wait" /\ plock'[t] = k
      BY DEF NoLostWakeup, Runnable
    <3>1. CASE k = l
      BY <1>2, <1>3, <2>3, <2>4, <2>5, <3>1
    <3>2. CASE k # l
      <4>1. PICK t \in Threads : Runnable(t) /\ pc[t] = "wait" /\ plock[t] = k
        BY <1>4, <2>6, <3>2 DEF NoLostWakeup, Runnable
      <4> QED BY <1>2, <1>3, <2>5, <4>1
    <3> QED BY <3>1, <3>2
  <2> QED BY <2>7, <2>8, <2>9, <2>10 DEF CallPart
<1> QED BY <1>6, <1>7

(* sema_up returns, and a thread that sets its own interrupt flag. *)
LEMMA FlagStep ==
  ASSUME SyncInv, NEW s, IntrSet(s),
         pc[cur] \in {"run", "upret"}, pc' = [pc EXCEPT ![cur] = "run"],
         UNCHANGED <<value, waiters, plock, depth>>
  PROVE  CallPart'
<1> USE DEF SyncInv, CallInv
<1>1. cur \in Threads
  BY AssertsHold
<1>2. UNCHANGED <<cur, status, saved>>
  BY DEF IntrSet
<1>3. \A t \in Threads : pc'[t] = IF t = cur THEN "run" ELSE pc[t]
  BY <1>1 DEF SyncTypeOK
<1>4. WaitersExact'
  BY <1>1, <1>2, <1>3 DEF WaitersExact
<1>5. AtomicSections' /\ WaitOff'
  BY <1>1, <1>2, <1>3 DEF AtomicSections, WaitOff
<1>6. CallsByClients'
  <2>1. ~Blocked(cur)
    BY AssertsHold
  <2> QED BY <1>1, <1>2, <1>3, <2>1 DEF CallsByClients, Blocked
<1>7. NoLostWakeup'
  BY <1>1, <1>2, <1>3 DEF NoLostWakeup
<1> QED BY <1>4, <1>5, <1>6, <1>7 DEF CallPart

(* A timer interrupt: the thread that leaves is in no protected section,   *)
(* and one that comes back into sema_down does so with interrupts off.     *)
LEMMA PreemptStep == ASSUME SyncInv, Preempt PROVE CallPart'
<1> USE DEF SyncInv, CallInv
<1>1. UNCHANGED <<value, waiters, pc, plock, depth>> /\ cur \in Threads
  BY AssertsHold DEF Preempt, syncVars, lockVars, callVars
<1>2. /\ intr = INTR_ON
      /\ \A t \in Threads : /\ Runnable(t)' <=> Runnable(t)
                            /\ Blocked(t)' <=> Blocked(t)
                            /\ status'[t] = NO_TASK <=> status[t] = NO_TASK
      /\ \A t \in Threads \ {cur} : saved'[t] = saved[t]
      /\ cur' # cur => intr' = saved[cur']
      /\ cur' \in Threads
  BY TickEffects DEF Preempt
<1>3. pc[cur] \notin {"wait", "wake", "upret"}
  BY <1>2 DEF AtomicSections, INTR_ON, INTR_OFF
<1>4. WaitersExact'
  BY <1>1, <1>2 DEF WaitersExact, Blocked
<1>5. AtomicSections' /\ WaitOff'
  BY <1>1, <1>2, <1>3 DEF AtomicSections, WaitOff
<1>6. CallsByClients'
  BY <1>1, <1>2 DEF CallsByClients, Blocked
<1>7. NoLostWakeup'
  BY <1>1, <1>2 DEF NoLostWakeup, Runnable
<1> QED BY <1>4, <1>5, <1>6, <1>7 DEF CallPart

(* thread_start by main(): the new thread is in no call. *)
LEMMA MainStartStep == ASSUME SyncInv, NEW w \in Clients, MainStart(w) PROVE CallPart'
<1> USE DEF SyncInv, CallInv
<1>1. UNCHANGED <<value, waiters, pc, plock, depth>> /\ w \in Threads
  BY DEF MainStart, syncVars, lockVars, callVars, Clients
<1>2. /\ status[w] = NO_TASK
      /\ \A t \in Threads :
           /\ Runnable(t)' <=> t = w \/ Runnable(t)
           /\ Blocked(t)' <=> Blocked(t)
           /\ t # w => saved'[t] = saved[t]
           /\ status'[t] = NO_TASK => status[t] = NO_TASK
      /\ UNCHANGED <<cur, intr>>
  BY <1>1, StartEffects DEF MainStart
<1>3. pc[w] = "run"
  BY <1>1, <1>2 DEF CallsByClients
<1>4. WaitersExact'
  BY <1>1, <1>2 DEF WaitersExact, Blocked
<1>5. AtomicSections' /\ WaitOff'
  BY <1>1, <1>2, <1>3 DEF AtomicSections, WaitOff
<1>6. CallsByClients'
  BY <1>1, <1>2 DEF CallsByClients, Blocked
<1>7. NoLostWakeup'
  BY <1>1, <1>2 DEF NoLostWakeup, Runnable
<1> QED BY <1>4, <1>5, <1>6, <1>7 DEF CallPart

-----------------------------------------------------------------------------

LEMMA SyncStep == SyncInv /\ [SyncNext]_allVars => SyncInv'
<1> SUFFICES ASSUME SyncInv, [SyncNext]_allVars PROVE SyncInv'
  OBVIOUS
<1> SUFFICES LockPart' /\ CallPart'
  <2>1. ThreadInv'
    BY SyncThreadStep, ThreadStep DEF SyncInv
  <2> QED BY <2>1 DEF SyncInv, LockPart, CallPart
<1>0. /\ cur \in Threads /\ lock \in Locks
      /\ LockPart /\ pc \in [Threads -> PC] /\ plock \in [Threads -> Locks]
      /\ waiters \in [Locks -> Seq(Threads)]
      /\ old_status \in [Threads -> IntrStatus]
      /\ plock = [plock EXCEPT ![cur] = plock[cur]]
      /\ pc[cur] # "run" => cur # main_thread
      /\ \A l \in Locks : depth[main_thread][l] = 0
  BY AssertsHold, MainAssumption
     DEF SyncInv, SyncTypeOK, LockPart, CallInv, CallsByClients
<1>1. CASE UNCHANGED allVars
  <2>1. UNCHANGED syncVars /\ UNCHANGED vars
    BY <1>1 DEF allVars
  <2>2. CallPart'
    BY <2>1 DEF SyncInv, CallPart, CallInv, vars, syncVars, lockVars, callVars, WaitersExact,
       AtomicSections, CallsByClients, WaitOff, NoLostWakeup
  <2> QED BY <1>0, <2>1, <2>2, LockPartFrame
<1>2. CASE Preempt
  BY <1>0, <1>2, PreemptStep, LockPartFrame DEF Preempt
<1>3. CASE \E t \in Clients : MainStart(t)
  BY <1>0, <1>3, MainStartStep, LockPartFrame DEF MainStart
<1>4. ASSUME NEW s \in IntrStatus, OwnIntr(s) PROVE LockPart' /\ CallPart'
  <2>1. /\ IntrSet(s) /\ UNCHANGED syncVars /\ pc[cur] = "run"
        /\ pc' = [pc EXCEPT ![cur] = "run"]
    BY <1>0, <1>4 DEF OwnIntr, At, syncVars, callVars
  <2>2. UNCHANGED <<value, waiters, plock, depth>>
    BY <2>1 DEF syncVars, lockVars, callVars
  <2> QED BY <1>0, <2>1, <2>2, FlagStep, LockPartFrame
<1>5. ASSUME NEW l \in Locks, LockAcquire(l) PROVE LockPart' /\ CallPart'
  <2> DEFINE x == IF holder[l] = cur THEN "again" ELSE "down"
  <2>1. /\ pc[cur] = "run" /\ pc' = [pc EXCEPT ![cur] = x]
        /\ plock' = [plock EXCEPT ![cur] = l]
        /\ cur # main_thread
        /\ UNCHANGED <<vars, value, waiters, depth>>
    BY <1>5 DEF LockAcquire, At, Goto, Clients, lockVars
  <2>2. x \in PC /\ x \notin {"wait", "wake", "upret"}
    BY DEF PC, AcquirePC
  <2> HIDE DEF x
  <2>3. CallPart'
    BY <1>0, <2>1, <2>2, OpenStep
  <2> QED BY <1>5, <2>3, LockAcquireStep
<1>6. ASSUME NEW l \in Locks, LockRelease(l) PROVE LockPart' /\ CallPart'
  <2> DEFINE x == IF holder_repeat_nr[l] > 1 THEN "less" ELSE "clear"
  <2>1. /\ pc[cur] = "run" /\ depth[cur][l] > 0 /\ pc' = [pc EXCEPT ![cur] = x]
        /\ plock' = [plock EXCEPT ![cur] = l]
        /\ depth' = [depth EXCEPT ![cur][l] = @ - 1]
        /\ UNCHANGED <<vars, value, waiters>>
    BY <1>6, AssertsHold DEF LockRelease, ASSERT, At, Goto, lockVars
  <2>2. x \in PC /\ x \notin {"wait", "wake", "upret"}
    BY DEF PC, ReleasePC
  <2> HIDE DEF x
  <2>3. cur # main_thread
    BY <1>0, <2>1
  <2>4. \A k \in Locks : depth'[main_thread][k] = 0
    BY <1>0, <2>1, <2>3, MainAssumption DEF SyncInv, SyncTypeOK
  <2>5. CallPart'
    BY <1>0, <2>1, <2>2, <2>3, <2>4, OpenStep
  <2> QED BY <1>6, <2>5, LockReleaseStep
<1>7. CASE AcquireAgain
  <2>1. /\ pc[cur] = "again" /\ pc' = [pc EXCEPT ![cur] = "run"]
        /\ depth' = [depth EXCEPT ![cur][lock] = @ + 1]
        /\ UNCHANGED <<vars, value, waiters, plock>>
    BY <1>7 DEF AcquireAgain, At, Goto
  <2>2. \A k \in Locks : depth'[main_thread][k] = 0
    BY <1>0, <2>1, MainAssumption DEF SyncInv, SyncTypeOK
  <2>3. CallPart'
    BY <1>0, <2>1, <2>2, OpenStep DEF PC
  <2> QED BY <1>7, <2>3, AcquireAgainStep
<1>8. CASE SetHolder
  <2>1. /\ pc[cur] = "got" /\ pc' = [pc EXCEPT ![cur] = "first"]
        /\ UNCHANGED <<vars, value, waiters, plock, depth>>
    BY <1>8 DEF SetHolder, At, Goto
  <2>2. CallPart'
    BY <1>0, <2>1, OpenStep DEF PC, AcquirePC
  <2> QED BY <1>8, <2>2, SetHolderStep
<1>9. CASE SetRepeat
  <2>1. /\ pc[cur] = "first" /\ pc' = [pc EXCEPT ![cur] = "run"]
        /\ depth' = [depth EXCEPT ![cur][lock] = 1]
        /\ UNCHANGED <<vars, value, waiters, plock>>
    BY <1>9, AssertsHold DEF SetRepeat, ASSERT, At, Goto
  <2>2. \A k \in Locks : depth'[main_thread][k] = 0
    BY <1>0, <2>1, MainAssumption DEF SyncInv, SyncTypeOK
  <2>3. CallPart'
    BY <1>0, <2>1, <2>2, OpenStep DEF PC
  <2> QED BY <1>9, <2>3, SetRepeatStep
<1>10. CASE ReleaseOnce
  <2>1. /\ pc[cur] = "less" /\ pc' = [pc EXCEPT ![cur] = "run"]
        /\ UNCHANGED <<vars, value, waiters, plock, depth>>
    BY <1>10 DEF ReleaseOnce, At, Goto
  <2>2. CallPart'
    BY <1>0, <2>1, OpenStep DEF PC
  <2> QED BY <1>10, <2>2, ReleaseOnceStep
<1>11. CASE ClearHolder
  <2>1. /\ pc[cur] = "clear" /\ pc' = [pc EXCEPT ![cur] = "zero"]
        /\ UNCHANGED <<vars, value, waiters, plock, depth>>
    BY <1>11 DEF ClearHolder, At, Goto
  <2>2. CallPart'
    BY <1>0, <2>1, OpenStep DEF PC, ReleasePC
  <2> QED BY <1>11, <2>2, ClearHolderStep
<1>12. CASE ClearRepeat
  <2>1. /\ pc[cur] = "zero" /\ pc' = [pc EXCEPT ![cur] = "up"]
        /\ UNCHANGED <<vars, value, waiters, plock, depth>>
    BY <1>12 DEF ClearRepeat, At, Goto
  <2>2. CallPart'
    BY <1>0, <2>1, OpenStep DEF PC, ReleasePC
  <2> QED BY <1>12, <2>2, ClearRepeatStep
<1>13. CASE SemaDown \/ SemaUp
  <2>1. PICK x \in {"wait", "wake"} :
          /\ pc' = [pc EXCEPT ![cur] = x]
          /\ (pc[cur] = "down" /\ x = "wait") \/ (pc[cur] = "up" /\ x = "wake")
          /\ IntrSet(INTR_OFF)
          /\ old_status' = [old_status EXCEPT ![cur] = intr]
          /\ UNCHANGED <<value, waiters, holder, holder_repeat_nr, plock, depth>>
    BY <1>13 DEF SemaDown, SemaUp, IntrDisable, At, Goto, lockVars
  <2>2. old_status' \in [Threads -> IntrStatus]
    BY <1>0, <2>1 DEF SyncInv, ThreadInv, TypeOK
  <2>3. x \in PC
    BY DEF PC, AcquirePC, ReleasePC
  <2>4. LockPart'
    BY <1>0, <2>1, <2>2, <2>3, MoveStep
  <2>5. CallPart'
    BY <2>1, DisableStep
  <2> QED BY <2>4, <2>5
<1>14. CASE SemaDownBlock
  <2>1. /\ pc[cur] = "wait"
        /\ waiters' = [waiters EXCEPT ![lock] = Append(@, cur)]
        /\ UNCHANGED <<value, holder, holder_repeat_nr, pc, plock, old_status, depth>>
    BY <1>14, AssertsHold DEF SemaDownBlock, ASSERT, At, list_append, callVars
  <2>2. waiters' \in [Locks -> Seq(Threads)] /\ pc' = [pc EXCEPT ![cur] = "wait"]
    BY <1>0, <2>1
  <2>3. LockPart'
    BY <1>0, <2>1, <2>2, MoveStep DEF PC, AcquirePC
  <2> QED BY <1>14, <2>3, BlockStep
<1>15. CASE SemaDownTake
  BY <1>15, SemaDownTakeStep, TakeStep
<1>16. CASE SemaUpWake
  BY <1>16, SemaUpWakeStep, WakeStep
<1>17. CASE SemaUpReturn
  <2>1. /\ pc[cur] = "upret" /\ pc' = [pc EXCEPT ![cur] = "run"]
        /\ IntrSet(old_status[cur])
        /\ UNCHANGED <<value, waiters, holder, holder_repeat_nr, plock, old_status, depth>>
    BY <1>17 DEF SemaUpReturn, At, Goto, lockVars
  <2>2. LockPart'
    BY <1>0, <2>1, MoveStep DEF PC
  <2> QED BY <2>1, <2>2, FlagStep
<1> QED BY <1>1, <1>2, <1>3, <1>4, <1>5, <1>6, <1>7, <1>8, <1>9, <1>10, <1>11, <1>12,
           <1>13, <1>14, <1>15, <1>16, <1>17 DEF SyncNext, CallStep

(* The inductive invariant of the locks holds throughout every behaviour. *)
THEOREM SyncInvariance == SyncSpec => []SyncInv
BY SyncInitInv, SyncStep, PTL DEF SyncSpec

(* Every call of thread_block and thread_unblock by sync.c keeps their     *)
(* contracts: the behaviours of the locks are behaviours of the thread     *)
(* layer.                                                                  *)
THEOREM SyncUsesThreads == SyncSpec => ThreadLayer
<1>1. SyncInit => Init
  BY DEF SyncInit
<1> QED BY <1>1, SyncThreadStep, SyncInvariance, PTL DEF SyncSpec, ThreadLayer, Spec

(* No ASSERT of sync.c or thread.c fails, whatever the clients do. *)
THEOREM SyncPanicFree == SyncSpec => []NoPanic
BY SyncUsesThreads, ThreadSafety, PTL DEF ThreadLayer

(* Two threads are never inside the same lock. *)
THEOREM SyncExclusion == SyncSpec => []MutualExclusion
<1>1. SyncInv => MutualExclusion
  BY DEF SyncInv, LockInv, OneOwner, Owns, MutualExclusion
<1> QED BY <1>1, SyncInvariance, PTL

(* holder and holder_repeat_nr count what the thread inside really did. *)
THEOREM SyncHolder == SyncSpec => []HolderExact
<1>1. SyncInv => HolderExact
  <2> SUFFICES ASSUME SyncInv, NEW l \in Locks, NEW t \in Threads
               PROVE  /\ depth[t][l] > 0 => holder[l] = t
                      /\ holder[l] = t /\ pc[t] = "run" => holder_repeat_nr[l] = depth[t][l]
    BY DEF HolderExact
  <2> QED BY DEF SyncInv, LockInv, HolderOwns, RepeatExact, Held, Owns, Pending
<1> QED BY <1>1, SyncInvariance, PTL

(* The semaphore of a lock is 0 or 1 and its count stays within the calls. *)
THEOREM SyncTypes == SyncSpec => []SyncTypeOK
<1>1. SyncInv => SyncTypeOK
  BY DEF SyncInv
<1> QED BY <1>1, SyncInvariance, PTL

(* A free lock with waiters has a thread on its way to take it. *)
THEOREM SyncWakeups == SyncSpec => []NoLostWakeup
<1>1. SyncInv => NoLostWakeup
  BY DEF SyncInv
<1> QED BY <1>1, SyncInvariance, PTL

(* The waiters of a lock are the threads blocked in its sema_down: a       *)
(* general_tag is never linked into two lists.                             *)
THEOREM SyncWaiters == SyncSpec => []WaitersExact
<1>1. SyncInv => WaitersExact
  BY DEF SyncInv, CallInv
<1> QED BY <1>1, SyncInvariance, PTL

(* The sections of sema_down and sema_up run with interrupts off. *)
THEOREM SyncAtomicity == SyncSpec => []AtomicSections
<1>1. SyncInv => AtomicSections
  BY DEF SyncInv, CallInv
<1> QED BY <1>1, SyncInvariance, PTL

-----------------------------------------------------------------------------

(* The locks grant only what a recursive mutex may grant. *)
LEMMA MutexStep == SyncInv /\ [SyncNext]_allVars => [M!Next]_(M!mutexVars)
<1> SUFFICES ASSUME SyncInv, [SyncNext]_allVars PROVE [M!Next]_(M!mutexVars)
  OBVIOUS
<1> USE DEF SyncInv
<1>0. /\ cur \in Threads /\ lock \in Locks
      /\ pc \in [Threads -> PC] /\ plock \in [Threads -> Locks]
  BY AssertsHold DEF SyncTypeOK
<1>1. ASSUME UNCHANGED <<plock, depth>>,
             NEW x \in PC, pc' = [pc EXCEPT ![cur] = x],
             x \in AcquirePC <=> pc[cur] \in AcquirePC
      PROVE  [M!Next]_(M!mutexVars)
  <2>1. \A t \in Threads : pc'[t] \in AcquirePC <=> pc[t] \in AcquirePC
    BY <1>0, <1>1
  <2>2. want' = want
    BY <1>1, <2>1 DEF want
  <2> QED BY <1>1, <2>2 DEF M!mutexVars
<1>2. ASSUME UNCHANGED syncVars PROVE [M!Next]_(M!mutexVars)
  BY <1>2 DEF M!mutexVars, want, syncVars, callVars
<1>3. ASSUME NEW l \in Locks, LockAcquire(l) PROVE [M!Next]_(M!mutexVars)
  <2> DEFINE x == IF holder[l] = cur THEN "again" ELSE "down"
  <2>1. /\ pc[cur] = "run" /\ pc' = [pc EXCEPT ![cur] = x]
        /\ plock' = [plock EXCEPT ![cur] = l] /\ UNCHANGED depth
    BY <1>3 DEF LockAcquire, At, Goto
  <2>2. x \in AcquirePC /\ "run" \notin AcquirePC
    BY DEF AcquirePC
  <2> HIDE DEF x
  <2>3. want[cur] = NULL
    BY <1>0, <2>1, <2>2 DEF want
  <2>4. want' = [want EXCEPT ![cur] = l]
    BY <1>0, <2>1, <2>2 DEF want
  <2>5. M!Request(cur, l)
    BY <2>1, <2>3, <2>4 DEF M!Request
  <2> QED BY <1>0, <2>5 DEF M!Next
<1>4. ASSUME NEW l \in Locks, LockRelease(l) PROVE [M!Next]_(M!mutexVars)
  <2> DEFINE x == IF holder_repeat_nr[l] > 1 THEN "less" ELSE "clear"
  <2>1. /\ pc[cur] = "run" /\ depth[cur][l] > 0 /\ pc' = [pc EXCEPT ![cur] = x]
        /\ plock' = [plock EXCEPT ![cur] = l]
        /\ depth' = [depth EXCEPT ![cur][l] = @ - 1]
    BY <1>4, AssertsHold DEF LockRelease, ASSERT, At, Goto
  <2>2. x \notin AcquirePC /\ "run" \notin AcquirePC
    BY DEF AcquirePC
  <2> HIDE DEF x
  <2>3. want[cur] = NULL
    BY <1>0, <2>1, <2>2 DEF want
  <2>4. want' = want
    BY <1>0, <2>1, <2>2 DEF want
  <2>5. M!Release(cur, l)
    BY <2>1, <2>3, <2>4 DEF M!Release
  <2> QED BY <1>0, <2>5 DEF M!Next
<1>5. ASSUME pc[cur] \in {"again", "first"}, pc' = [pc EXCEPT ![cur] = "run"],
             depth' = [depth EXCEPT ![cur][lock] = @ + 1], UNCHANGED plock
      PROVE  [M!Next]_(M!mutexVars)
  <2>1. pc[cur] \in AcquirePC /\ "run" \notin AcquirePC
    BY <1>5 DEF AcquirePC
  <2>2. want[cur] = lock /\ want' = [want EXCEPT ![cur] = NULL]
    BY <1>0, <1>5, <2>1 DEF want, lock
  <2>3. Owns(cur, lock)
    BY <1>0, <1>5 DEF LockInv, DepthAtPC, Owns, lock
  <2>4. \A u \in Threads \ {cur} : depth[u][lock] = 0
    <3> SUFFICES ASSUME NEW u \in Threads, u # cur PROVE depth[u][lock] = 0
      OBVIOUS
    <3>1. ~(depth[u][lock] > 0)
      BY <1>0, <2>3 DEF LockInv, OneOwner, Owns
    <3>2. depth[u][lock] \in Nat
      BY <1>0, MaxDepthAssumption DEF SyncTypeOK
    <3> QED BY <3>1, <3>2
  <2>5. M!Grant(cur, lock)
    BY <1>5, <2>2, <2>4 DEF M!Grant
  <2> QED BY <1>0, <2>5 DEF M!Next
<1>6. CASE AcquireAgain
  BY <1>5, <1>6 DEF AcquireAgain, At, Goto
<1>7. CASE SetRepeat
  <2>1. /\ pc[cur] = "first" /\ pc' = [pc EXCEPT ![cur] = "run"]
        /\ depth' = [depth EXCEPT ![cur][lock] = 1] /\ UNCHANGED plock
    BY <1>7, AssertsHold DEF SetRepeat, ASSERT, At, Goto
  <2>2. depth[cur][lock] = 0
    BY <1>0, <2>1 DEF LockInv, DepthAtPC, lock
  <2>3. depth' = [depth EXCEPT ![cur][lock] = @ + 1]
    BY <2>1, <2>2
  <2> QED BY <1>5, <2>1, <2>3
<1>8. CASE SemaDown \/ SemaUp
  <2>1. PICK x \in {"wait", "wake"} :
          /\ pc' = [pc EXCEPT ![cur] = x] /\ UNCHANGED <<plock, depth>>
          /\ (pc[cur] = "down" /\ x = "wait") \/ (pc[cur] = "up" /\ x = "wake")
    BY <1>8 DEF SemaDown, SemaUp, IntrDisable, At, Goto
  <2> QED BY <1>1, <2>1 DEF PC, AcquirePC, ReleasePC
<1>9. CASE SemaDownBlock
  <2>1. UNCHANGED <<pc, plock, depth>>
    BY <1>9, AssertsHold DEF SemaDownBlock, ASSERT, At, callVars
  <2> QED BY <2>1 DEF M!mutexVars, want
<1>10. CASE SemaDownTake
  <2>1. pc[cur] = "wait" /\ pc' = [pc EXCEPT ![cur] = "got"] /\ UNCHANGED <<plock, depth>>
    BY <1>10, AssertsHold DEF SemaDownTake, ASSERT, At, Goto
  <2> QED BY <1>1, <2>1 DEF PC, AcquirePC
<1>11. CASE SetHolder
  <2>1. pc[cur] = "got" /\ pc' = [pc EXCEPT ![cur] = "first"] /\ UNCHANGED <<plock, depth>>
    BY <1>11 DEF SetHolder, At, Goto
  <2> QED BY <1>1, <2>1 DEF PC, AcquirePC
<1>12. CASE ReleaseOnce
  <2>1. pc[cur] = "less" /\ pc' = [pc EXCEPT ![cur] = "run"] /\ UNCHANGED <<plock, depth>>
    BY <1>12 DEF ReleaseOnce, At, Goto
  <2> QED BY <1>1, <2>1 DEF PC, AcquirePC
<1>13. CASE ClearHolder
  <2>1. pc[cur] = "clear" /\ pc' = [pc EXCEPT ![cur] = "zero"] /\ UNCHANGED <<plock, depth>>
    BY <1>13 DEF ClearHolder, At, Goto
  <2> QED BY <1>1, <2>1 DEF PC, AcquirePC, ReleasePC
<1>14. CASE ClearRepeat
  <2>1. pc[cur] = "zero" /\ pc' = [pc EXCEPT ![cur] = "up"] /\ UNCHANGED <<plock, depth>>
    BY <1>14 DEF ClearRepeat, At, Goto
  <2> QED BY <1>1, <2>1 DEF PC, AcquirePC, ReleasePC
<1>15. CASE SemaUpWake
  <2>1. pc[cur] = "wake" /\ pc' = [pc EXCEPT ![cur] = "upret"] /\ UNCHANGED <<plock, depth>>
    BY <1>15, AssertsHold DEF SemaUpWake, ASSERT, At, Goto
  <2> QED BY <1>1, <2>1 DEF PC, AcquirePC, ReleasePC
<1>16. CASE SemaUpReturn
  <2>1. pc[cur] = "upret" /\ pc' = [pc EXCEPT ![cur] = "run"] /\ UNCHANGED <<plock, depth>>
    BY <1>16 DEF SemaUpReturn, At, Goto
  <2> QED BY <1>1, <2>1 DEF PC, AcquirePC
<1>17. CASE UNCHANGED allVars \/ Preempt \/ (\E t \in Clients : MainStart(t))
              \/ (\E s \in IntrStatus : OwnIntr(s))
  BY <1>2, <1>17 DEF allVars, Preempt, MainStart, OwnIntr
<1> QED BY <1>3, <1>4, <1>6, <1>7, <1>8, <1>9, <1>10, <1>11, <1>12, <1>13, <1>14, <1>15,
           <1>16, <1>17 DEF SyncNext, CallStep

(* The locks of sync.c implement the safety part of Mutex: a recursive     *)
(* lock, held by one thread at a time.                                     *)
THEOREM SyncImplementsMutex == SyncSpec => MutexSafety
<1>1. SyncInit => M!Init
  BY DEF SyncInit, M!Init, want, AcquirePC
<1> QED BY <1>1, MutexStep, SyncInvariance, PTL DEF SyncSpec, MutexSafety, M!Spec
-----------------------------------------------------------------------------
(* For the modules that use the locks: what a step inside sync.c does. *)

CallMoves ==
  {<<"again", "run">>, <<"down", "wait">>, <<"wait", "wait">>, <<"wait", "got">>,
   <<"got", "first">>, <<"first", "run">>, <<"less", "run">>, <<"clear", "zero">>,
   <<"zero", "up">>, <<"up", "wake">>, <<"wake", "upret">>, <<"upret", "run">>}

(* The statement moves on as sync.c says, the count of acquisitions        *)
(* changes only where the lock is granted, the flag only where sync.c sets *)
(* it, and the CPU is given away only to wait for a lock that is taken.    *)
LEMMA CallStepEffects ==
  ASSUME SyncInv, CallStep
  PROVE  /\ cur \in Clients /\ cur \in Threads /\ lock \in Locks
         /\ pc[cur] # "run" /\ plock' = plock
         /\ \E x \in PC : pc' = [pc EXCEPT ![cur] = x] /\ <<pc[cur], x>> \in CallMoves
         /\ depth' = IF pc[cur] = "again" THEN [depth EXCEPT ![cur][lock] = @ + 1]
                     ELSE IF pc[cur] = "first" THEN [depth EXCEPT ![cur][lock] = 1]
                     ELSE depth
         /\ pc[cur] = "wait" /\ pc'[cur] = "wait" => value[lock] = 0
         /\ cur' # cur => pc[cur] = "wait" /\ pc'[cur] = "wait"
         /\ old_status' = IF pc[cur] \in {"down", "up"}
                            THEN [old_status EXCEPT ![cur] = intr] ELSE old_status
         /\ cur' = cur => intr' = IF pc[cur] \in {"down", "up"} THEN INTR_OFF
                                  ELSE IF pc[cur] \in {"wait", "upret"} THEN old_status[cur]
                                  ELSE intr
         /\ \A t \in Threads : status'[t] = NO_TASK <=> status[t] = NO_TASK
<1>0. /\ cur \in Threads /\ lock \in Locks
      /\ pc \in [Threads -> PC]
      /\ pc[cur] # "run" => cur # main_thread /\ cur \in Clients
  BY AssertsHold DEF SyncInv, SyncTypeOK, CallInv, CallsByClients, Clients
<1>1. \A t \in Threads : status'[t] = NO_TASK <=> status[t] = NO_TASK
  <2>1. CASE UNCHANGED status
    BY <2>1
  <2>2. CASE SemaDownBlock
    BY <1>0, <2>2, AssertsHold, BlockEffects DEF SyncInv, SemaDownBlock, ASSERT, At
  <2>3. CASE SemaUpWake /\ waiters[lock] # << >>
    <3>1. ThreadUnblock(Head(waiters[lock]))
      BY <2>3, AssertsHold DEF SemaUpWake, ASSERT, At
    <3> QED BY <2>3, <3>1, AssertsHold, UnblockEffects DEF SyncInv
  <2>4. CASE SemaUpWake /\ waiters[lock] = << >>
    BY <2>4, AssertsHold DEF SemaUpWake, ASSERT, At, vars
  <2> QED BY <2>1, <2>2, <2>3, <2>4, AssertsHold
        DEF CallStep, AcquireAgain, SemaDown, SemaUp, IntrDisable, IntrSet, SemaDownTake,
            SetHolder, SetRepeat, ReleaseOnce, ClearHolder, ClearRepeat, SemaUpReturn,
            ASSERT, At, vars
<1>2. CASE AcquireAgain
  <2>1. /\ pc[cur] = "again" /\ pc' = [pc EXCEPT ![cur] = "run"]
        /\ depth' = [depth EXCEPT ![cur][lock] = @ + 1]
        /\ UNCHANGED <<cur, intr, plock, old_status>>
    BY <1>2 DEF AcquireAgain, At, Goto, vars
  <2> QED BY <1>0, <1>1, <2>1 DEF PC, CallMoves
<1>3. CASE SetRepeat
  <2>1. /\ pc[cur] = "first" /\ pc' = [pc EXCEPT ![cur] = "run"]
        /\ depth' = [depth EXCEPT ![cur][lock] = 1]
        /\ UNCHANGED <<cur, intr, plock, old_status>>
    BY <1>3, AssertsHold DEF SetRepeat, ASSERT, At, Goto, vars
  <2> QED BY <1>0, <1>1, <2>1 DEF PC, CallMoves
<1>4. CASE SetHolder \/ ReleaseOnce \/ ClearHolder \/ ClearRepeat
  <2>1. PICK x \in PC : /\ pc' = [pc EXCEPT ![cur] = x] /\ <<pc[cur], x>> \in CallMoves
                        /\ pc[cur] \in {"got", "less", "clear", "zero"}
                        /\ UNCHANGED <<cur, intr, plock, old_status, depth>>
    BY <1>4 DEF SetHolder, ReleaseOnce, ClearHolder, ClearRepeat, At, Goto, vars, PC, AcquirePC,
                ReleasePC, CallMoves
  <2> QED BY <1>0, <1>1, <2>1
<1>5. CASE SemaDown \/ SemaUp
  <2>1. PICK x \in PC : /\ pc' = [pc EXCEPT ![cur] = x] /\ <<pc[cur], x>> \in CallMoves
                        /\ pc[cur] \in {"down", "up"}
                        /\ old_status' = [old_status EXCEPT ![cur] = intr]
                        /\ intr' = INTR_OFF
                        /\ UNCHANGED <<cur, plock, depth>>
    BY <1>5 DEF SemaDown, SemaUp, IntrDisable, IntrSet, At, Goto, PC, AcquirePC, ReleasePC, CallMoves
  <2> QED BY <1>0, <1>1, <2>1
<1>6. CASE SemaDownBlock
  <2>1. /\ pc[cur] = "wait" /\ pc' = [pc EXCEPT ![cur] = "wait"] /\ value[lock] = 0
        /\ ThreadBlock(TASK_BLOCKED) /\ UNCHANGED <<plock, old_status, depth>>
    BY <1>0, <1>6, AssertsHold DEF SemaDownBlock, ASSERT, At, callVars
  <2>2. cur' # cur
    BY <1>0, <2>1, BlockEffects DEF SyncInv
  <2> QED BY <1>0, <1>1, <2>1, <2>2 DEF PC, AcquirePC, CallMoves
<1>7. CASE SemaDownTake
  <2>1. /\ pc[cur] = "wait" /\ pc' = [pc EXCEPT ![cur] = "got"]
        /\ intr' = old_status[cur]
        /\ UNCHANGED <<cur, plock, old_status, depth>>
    BY <1>7, AssertsHold DEF SemaDownTake, ASSERT, At, Goto, IntrSet
  <2> QED BY <1>0, <1>1, <2>1 DEF PC, AcquirePC, CallMoves
<1>8. CASE SemaUpWake
  <2>1. /\ pc[cur] = "wake" /\ pc' = [pc EXCEPT ![cur] = "upret"]
        /\ UNCHANGED <<plock, old_status, depth>>
    BY <1>8, AssertsHold DEF SemaUpWake, ASSERT, At, Goto
  <2>2. UNCHANGED <<cur, intr>>
    <3>1. CASE waiters[lock] # << >>
      <4>1. ThreadUnblock(Head(waiters[lock]))
        BY <1>8, <3>1, AssertsHold DEF SemaUpWake, ASSERT, At
      <4> QED BY <3>1, <4>1, AssertsHold, UnblockEffects DEF SyncInv
    <3>2. CASE waiters[lock] = << >>
      BY <1>8, <3>2, AssertsHold DEF SemaUpWake, ASSERT, At, vars
    <3> QED BY <3>1, <3>2
  <2> QED BY <1>0, <1>1, <2>1, <2>2 DEF PC, ReleasePC, CallMoves
<1>9. CASE SemaUpReturn
  <2>1. /\ pc[cur] = "upret" /\ pc' = [pc EXCEPT ![cur] = "run"]
        /\ intr' = old_status[cur]
        /\ UNCHANGED <<cur, plock, old_status, depth>>
    BY <1>9 DEF SemaUpReturn, At, Goto, IntrSet
  <2> QED BY <1>0, <1>1, <2>1 DEF PC, CallMoves
<1> QED BY <1>2, <1>3, <1>4, <1>5, <1>6, <1>7, <1>8, <1>9 DEF CallStep

(* A lock that is taken stays with somebody: only sema_up gives it back.   *)
LEMMA TakenStep == SyncInv /\ TakenValue /\ [SyncNext]_allVars => TakenValue'
<1> SUFFICES ASSUME SyncInv, TakenValue, [SyncNext]_allVars,
                    NEW l \in Locks, value'[l] = 0
             PROVE  \E t \in Threads : Owns(t, l)'
  BY DEF TakenValue
<1>0. /\ cur \in Threads /\ lock \in Locks /\ MaxDepth \in Nat
      /\ value \in [Locks -> 0..1] /\ pc \in [Threads -> PC] /\ plock \in [Threads -> Locks]
      /\ depth \in [Threads -> [Locks -> 0..MaxDepth]]
  BY AssertsHold, MaxDepthAssumption DEF SyncInv, SyncTypeOK
<1>1. CASE UNCHANGED <<value, pc, plock, depth>>
  BY <1>1 DEF TakenValue, Owns
<1>2. CASE SemaDownTake
  <2>1. /\ pc' = [pc EXCEPT ![cur] = "got"] /\ UNCHANGED <<plock, depth>>
        /\ value' = [value EXCEPT ![lock] = @ - 1]
    BY <1>2, AssertsHold DEF SemaDownTake, ASSERT, At, Goto
  <2>2. CASE l = lock
    BY <1>0, <2>1, <2>2 DEF Owns, lock
  <2>3. CASE l # lock
    <3>1. PICK t \in Threads : Owns(t, l)
      BY <1>0, <2>1, <2>3 DEF TakenValue
    <3> QED BY <1>0, <2>1, <2>3, <3>1 DEF Owns, lock
  <2> QED BY <2>2, <2>3
<1>3. CASE SemaUpWake
  <2>1. /\ pc' = [pc EXCEPT ![cur] = "upret"] /\ UNCHANGED <<plock, depth>>
        /\ value' = [value EXCEPT ![lock] = @ + 1]
    BY <1>3, AssertsHold DEF SemaUpWake, ASSERT, At, Goto
  <2>2. l # lock
    BY <1>0, <2>1
  <2>3. PICK t \in Threads : Owns(t, l)
    BY <1>0, <2>1, <2>2 DEF TakenValue
  <2> QED BY <1>0, <2>1, <2>2, <2>3 DEF Owns, lock
<1>4. ASSUME UNCHANGED value, ~SemaDownTake, ~SemaUpWake, CallStep
      PROVE  \E t \in Threads : Owns(t, l)'
  <2>1. PICK t \in Threads : Owns(t, l)
    BY <1>4 DEF TakenValue
  <2>2. PICK x \in PC : pc' = [pc EXCEPT ![cur] = x] /\ <<pc[cur], x>> \in CallMoves
    BY <1>4, CallStepEffects
  <2>3. /\ plock' = plock
        /\ depth' = IF pc[cur] = "again" THEN [depth EXCEPT ![cur][lock] = @ + 1]
                    ELSE IF pc[cur] = "first" THEN [depth EXCEPT ![cur][lock] = 1]
                    ELSE depth
    BY <1>4, CallStepEffects
  <2>4. pc[cur] # "wake"
    BY <1>4, AssertsHold DEF CallStep, AcquireAgain, SemaDown, SemaUp, IntrDisable,
       SemaDownBlock, SetHolder, SetRepeat, ReleaseOnce, ClearHolder, ClearRepeat,
       SemaUpReturn, ASSERT, At
  <2>5. depth'[t][l] >= depth[t][l]
    <3>1. depth[t][l] \in Nat
      BY <1>0
    <3>2. CASE t # cur \/ l # lock \/ pc[cur] \notin {"again", "first"}
      <4>1. depth'[t][l] = depth[t][l]
        BY <1>0, <2>3, <3>2
      <4> QED BY <3>1, <4>1
    <3>3. CASE t = cur /\ l = lock /\ pc[cur] = "again"
      BY <1>0, <2>3, <3>1, <3>3
    <3>4. CASE t = cur /\ l = lock /\ pc[cur] = "first"
      <4>1. depth[t][l] = 0
        BY <1>0, <3>4 DEF SyncInv, LockInv, DepthAtPC, lock
      <4>2. depth'[t][l] = 1
        BY <1>0, <2>3, <3>4
      <4> QED BY <4>1, <4>2
    <3> QED BY <3>2, <3>3, <3>4
  <2>6. CASE depth[t][l] > 0
    <3>1. depth'[t][l] > 0
      <4>1. depth[t][l] \in Nat
        BY <1>0
      <4>2. depth' \in [Threads -> [Locks -> Int]]
        BY <1>0, <2>3
      <4>3. depth'[t][l] \in Int
        BY <4>2
      <4> QED BY <2>5, <2>6, <4>1, <4>3
    <3> QED BY <3>1 DEF Owns
  <2>7. CASE ~(depth[t][l] > 0)
    <3>1. plock[t] = l /\ pc[t] \in {"got", "first", "clear", "zero", "up", "wake"}
      BY <2>1, <2>7 DEF Owns
    <3>2. CASE t = cur
      <4>1. CASE pc[cur] = "first"
        <5>1. depth'[t][l] = 1
          BY <1>0, <2>3, <3>1, <3>2, <4>1 DEF lock
        <5> QED BY <5>1 DEF Owns
      <4>2. CASE pc[cur] # "first"
        <5>1. x \in {"first", "zero", "up", "wake"}
          BY <2>2, <2>4, <3>1, <3>2, <4>2 DEF CallMoves
        <5> QED BY <1>0, <2>2, <2>3, <3>1, <3>2, <5>1 DEF Owns
      <4> QED BY <4>1, <4>2
    <3>3. CASE t # cur
      BY <1>0, <2>2, <2>3, <3>1, <3>3 DEF Owns
    <3> QED BY <3>2, <3>3
  <2> QED BY <2>6, <2>7
<1>5. ASSUME NEW k \in Locks, LockAcquire(k) PROVE \E t \in Threads : Owns(t, l)'
  <2>1. /\ pc[cur] = "run" /\ UNCHANGED <<value, depth>>
        /\ \A t \in Threads \ {cur} : pc'[t] = pc[t] /\ plock'[t] = plock[t]
    BY <1>0, <1>5 DEF LockAcquire, At, Goto, lockVars
  <2>2. PICK t \in Threads : Owns(t, l)
    BY <2>1 DEF TakenValue
  <2> QED BY <2>1, <2>2 DEF Owns
<1>6. ASSUME NEW k \in Locks, LockRelease(k) PROVE \E t \in Threads : Owns(t, l)'
  <2>1. /\ pc[cur] = "run" /\ value' = value
        /\ depth' = [depth EXCEPT ![cur][k] = @ - 1]
        /\ plock' = [plock EXCEPT ![cur] = k]
        /\ pc' = [pc EXCEPT ![cur] = IF holder_repeat_nr[k] > 1 THEN "less" ELSE "clear"]
        /\ holder_repeat_nr[k] = depth[cur][k]
        /\ depth[cur][k] > 0
    BY <1>6, AssertsHold DEF LockRelease, ASSERT, At, Goto, lockVars
  <2>2. PICK t \in Threads : Owns(t, l)
    BY <2>1 DEF TakenValue
  <2>3. CASE t # cur
    BY <1>0, <2>1, <2>2, <2>3 DEF Owns
  <2>4. CASE t = cur
    <3>1. depth[cur][l] > 0 /\ depth[cur][l] \in Nat /\ depth[cur][k] \in Nat
      BY <1>0, <2>1, <2>2, <2>4 DEF Owns
    <3>2. CASE l # k
      BY <1>0, <2>1, <3>1, <3>2 DEF Owns
    <3>3. CASE l = k /\ depth[cur][k] > 1
      <4>1. depth'[cur][l] = depth[cur][k] - 1
        BY <1>0, <2>1, <3>3
      <4> QED BY <1>0, <3>1, <3>3, <4>1 DEF Owns
    <3>4. CASE l = k /\ ~(depth[cur][k] > 1)
      BY <1>0, <2>1, <3>4 DEF Owns
    <3> QED BY <3>2, <3>3, <3>4
  <2> QED BY <2>3, <2>4
<1>7. CASE CallStep /\ ~SemaDownTake /\ ~SemaUpWake
  <2>1. UNCHANGED value
    BY <1>7, AssertsHold DEF CallStep, AcquireAgain, SemaDown, SemaUp, IntrDisable,
       SemaDownBlock, SetHolder, SetRepeat, ReleaseOnce, ClearHolder, ClearRepeat,
       SemaUpReturn, ASSERT, At, lockVars
  <2> QED BY <1>4, <1>7, <2>1
<1>8. CASE Preempt \/ (\E t \in Clients : MainStart(t)) \/ (\E s \in IntrStatus : OwnIntr(s))
  BY <1>1, <1>8 DEF Preempt, MainStart, OwnIntr, syncVars, lockVars, callVars
<1>9. CASE UNCHANGED allVars
  BY <1>1, <1>9 DEF allVars, syncVars, lockVars, callVars
<1> QED BY <1>2, <1>3, <1>5, <1>6, <1>7, <1>8, <1>9 DEF SyncNext
=============================================================================
