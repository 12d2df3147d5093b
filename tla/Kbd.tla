-------------------------------- MODULE Kbd ---------------------------------
(***************************************************************************)
(* The running system of kernel/main.c: the keyboard interrupt puts the    *)
(* characters typed into kbd_buf, two consumer threads take them out and   *)
(* show them on the console, under the console lock of device/console.c.   *)
(*                                                                         *)
(* loc[t] is the statement of k_thread_a or k_thread_b thread t is at; a   *)
(* thread executes it when it is not inside a call of sync.c.              *)
(***************************************************************************)
EXTENDS Ioqueue

CONSTANTS
  console_lock,
  MaxKeys        \* bound: characters typed

ASSUME ConsoleLockAssumption == console_lock \in Locks
ASSUME MaxKeysAssumption == MaxKeys \in Nat

VARIABLES
  loc,        \* the next statement of each consumer
  intr_old,   \* old_status of k_thread_a and k_thread_b
  byte,       \* the character a consumer holds
  keys,       \* history: how many characters were typed (the k-th is k)
  accepted,   \* history: the characters put into kbd_buf
  screen,     \* history: what was written: <<thread or NULL, text>>
  shown       \* history: the characters among it that consumers wrote

kbdVars == <<loc, intr_old, byte, keys, accepted, screen, shown>>
kbdAllVars == <<allVars, ioqVars, kbdVars>>

ARG == 0              \* the thread's argument " a_" or " b_"
UNKNOWN == MaxKeys + 1 \* "unknown key", which the interrupt handler prints

KbdInit ==
  /\ SyncInit
  /\ IoqInit
  /\ loc = [t \in Clients |-> "disable"]
  /\ intr_old = [t \in Clients |-> INTR_OFF]
  /\ byte = [t \in Clients |-> 0]
  /\ keys = 0
  /\ accepted = << >>
  /\ screen = << >>
  /\ shown = << >>

-----------------------------------------------------------------------------

(* Mutant of KeyInterrupt: the queue is not tested. *)
KeyInterruptUntested ==
  /\ ~panicked
  /\ intr = INTR_ON
  /\ keys < MaxKeys
  /\ keys' = keys + 1
  /\ PutByte(keys')
  /\ accepted' = Append(accepted, keys')
  /\ UNCHANGED <<loc, intr_old, byte, screen, shown>>

(* intr_keyboard_handler with a key that has a character: the character is *)
(* lost when kbd_buf is full.  The interrupt gate turns interrupts off.    *)
KeyInterrupt ==
  /\ ~panicked
  /\ intr = INTR_ON
  /\ keys < MaxKeys
  /\ keys' = keys + 1
  /\ IF ioq_full
       THEN UNCHANGED <<accepted, allVars, ioqVars>>
       ELSE PutByte(keys') /\ accepted' = Append(accepted, keys')
  /\ UNCHANGED <<loc, intr_old, byte, screen, shown>>

(* intr_keyboard_handler with a key it does not know: put_str, although    *)
(* the handler does not have the console lock.                             *)
UnknownKey ==
  /\ ~panicked
  /\ intr = INTR_ON
  /\ keys < MaxKeys
  /\ keys' = keys + 1
  /\ screen' = Append(screen, <<NULL, UNKNOWN>>)
  /\ UNCHANGED <<allVars, ioqVars, loc, intr_old, byte, accepted, shown>>

-----------------------------------------------------------------------------

From(label) == cur \in Clients /\ At("run") /\ loc[cur] = label
To(label) == loc' = [loc EXCEPT ![cur] = label]

IntrDisableStep ==
  /\ From("disable") /\ To("test")
  /\ intr_old' = [intr_old EXCEPT ![cur] = intr]
  /\ OwnIntr(INTR_OFF)
  /\ UNCHANGED <<ioqVars, byte, keys, accepted, screen, shown>>

(* ASSERT(intr_get_status() == INTR_OFF) of ioq_empty and ioq_getchar. *)
IntrOffASSERT(steps) ==
  IF intr = INTR_OFF
    THEN steps
    ELSE Panic /\ UNCHANGED <<syncVars, ioqVars, loc, byte>>

(* Mutant of TestStep: the queue is not tested. *)
TestStepUntested ==
  /\ From("test")
  /\ IntrOffASSERT(To("str_acquire") /\ UNCHANGED <<allVars, ioqVars, byte>>)
  /\ UNCHANGED <<intr_old, keys, accepted, screen, shown>>

(* if (!ioq_empty(&kbd_buf)) *)
TestStep ==
  /\ From("test")
  /\ IntrOffASSERT(/\ To(IF ioq_empty THEN "restore" ELSE "str_acquire")
                   /\ UNCHANGED <<allVars, ioqVars, byte>>)
  /\ UNCHANGED <<intr_old, keys, accepted, screen, shown>>

(* console_acquire and console_release in console_put_str, console_put_char. *)
ConsoleAcquire(from, to) ==
  /\ From(from) /\ To(to)
  /\ LockAcquire(console_lock)
  /\ UNCHANGED <<ioqVars, intr_old, byte, keys, accepted, screen, shown>>

ConsoleRelease(from, to) ==
  /\ From(from) /\ To(to)
  /\ LockRelease(console_lock)
  /\ UNCHANGED <<ioqVars, intr_old, byte, keys, accepted, screen, shown>>

(* put_str and put_char. *)
Put(from, to, text) ==
  /\ From(from) /\ To(to)
  /\ screen' = Append(screen, <<cur, text>>)
  /\ shown' = IF text = ARG THEN shown ELSE Append(shown, text)
  /\ UNCHANGED <<allVars, ioqVars, intr_old, byte, keys, accepted>>

(* ioq_getchar: it returns, or enters its loop.  ConsumersNeverWait shows  *)
(* that it never gets there; IoqueueWait models what the loop would do.    *)
GetStep ==
  /\ From("get")
  /\ IntrOffASSERT(IF ioq_empty
                     THEN To("wait") /\ GetWaitLock /\ UNCHANGED byte
                     ELSE /\ To("chr_acquire")
                          /\ byte' = [byte EXCEPT ![cur] = buffer[tail]]
                          /\ TakeByte)
  /\ UNCHANGED <<intr_old, keys, accepted, screen, shown>>

IntrRestoreStep ==
  /\ From("restore") /\ To("disable")
  /\ OwnIntr(intr_old[cur])
  /\ UNCHANGED <<ioqVars, intr_old, byte, keys, accepted, screen, shown>>

(* k_thread_a and k_thread_b, once around their loop. *)
ConsumerStep ==
  \/ IntrDisableStep
  \/ TestStep
  \/ ConsoleAcquire("str_acquire", "str_put")
  \/ Put("str_put", "str_release", ARG)
  \/ ConsoleRelease("str_release", "get")
  \/ GetStep
  \/ ConsoleAcquire("chr_acquire", "chr_put")
  \/ Put("chr_put", "chr_release", byte[cur])
  \/ ConsoleRelease("chr_release", "restore")
  \/ IntrRestoreStep

(* main() starts the consumers, then executes sti and loops. *)
MainStep ==
  /\ cur = main_thread
  /\ \/ \E t \in Clients : MainStart(t)
     \/ /\ \A t \in Clients : status[t] # NO_TASK
        /\ OwnIntr(INTR_ON)
  /\ UNCHANGED <<ioqVars, kbdVars>>

KbdNext ==
  \/ MainStep
  \/ ConsumerStep
  \/ CallStep /\ UNCHANGED <<ioqVars, kbdVars>>
  \/ Preempt /\ UNCHANGED <<ioqVars, kbdVars>>
  \/ KeyInterrupt
  \/ UnknownKey

KbdSpec == KbdInit /\ [][KbdNext]_kbdAllVars

(* The CPU executes many statements between two ticks, so a thread that    *)
(* runs again and again gets on with its code; ticks keep coming.  Nobody  *)
(* has to type.                                                            *)
KbdFairSpec ==
  /\ KbdSpec
  /\ WF_kbdAllVars(MainStep)
  /\ \A t \in Clients :
       SF_kbdAllVars(cur = t /\ (ConsumerStep \/ (CallStep /\ UNCHANGED <<ioqVars, kbdVars>>)))
  /\ SF_kbdAllVars(Preempt /\ UNCHANGED <<ioqVars, kbdVars>>)

-----------------------------------------------------------------------------

(* A consumer that found a character in kbd_buf still finds it when it     *)
(* calls ioq_getchar: it took the console lock in between, and the queue   *)
(* it tested is shared with the other consumer and the interrupt handler.  *)
ConsumersNeverWait == \A t \in Clients : loc[t] # "wait"

(* The character a consumer carries to the screen. *)
Carriers == {t \in Clients : loc[t] \in {"chr_acquire", "chr_put"}}
Carried == IF Carriers = {} THEN << >> ELSE <<byte[CHOOSE t \in Carriers : TRUE]>>

(* Every character accepted is shown once and in the order it was typed,   *)
(* whichever of the two consumers takes it.                                *)
InOrder == accepted = shown \o Carried \o Content

(* A consumer's prefix is followed by its own character: the two console   *)
(* calls of one loop are not torn apart, although the console lock is      *)
(* released between them and the interrupt handler prints without it.      *)
PrefixAndCharacter ==
  \A i \in 1..(Len(screen) - 1) :
    screen[i][2] = ARG => /\ screen[i + 1][1] = screen[i][1]
                          /\ screen[i + 1][2] \in 1..MaxKeys

(* A character in the queue reaches the screen. *)
AllShown ==
  \A k \in 1..MaxKeys : k \in Range(accepted) ~> k \in Range(shown)

(* A key is lost only when the ring is full, with all but one of its bytes *)
(* waiting: so the handler's test of ioq_full reads.                       *)
LostOnlyIfFull ==
  [][keys' # keys /\ screen' = screen /\ accepted' = accepted =>
       Len(Content) = bufsize - 1]_kbdAllVars

(* What the code does: a key is lost exactly when one byte waits.          *)
(* ioq_full, next_pos(tail) = head, looks at the wrong end of the ring, so *)
(* one slow round of a consumer is enough to lose a key.                   *)
LostBehindOne ==
  [][keys' # keys /\ screen' = screen =>
       (accepted' = accepted <=> Content # << >>)]_kbdAllVars
=============================================================================
