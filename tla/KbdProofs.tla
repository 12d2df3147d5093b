----------------------------- MODULE KbdProofs ------------------------------
(***************************************************************************)
(* The running system delivers every character it accepts, in order, for   *)
(* any number of consumers and any size of the ring.                       *)
(*                                                                         *)
(* The argument is about the interrupt flag.  A consumer turns interrupts  *)
(* off before it tests the queue and turns them on after it has shown the  *)
(* character.  In between only a contended console lock could take the CPU *)
(* from it; but then the holder would have lost the CPU while it was in    *)
(* the same section.  So at most one thread is on duty, it is the running  *)
(* one, and the others are all at the start of their loops.                *)
(***************************************************************************)
EXTENDS Kbd, SyncProofs, SequenceTheorems

(* t is at the start of its loop, outside every lock and every call. *)
OffDuty(t) ==
  /\ loc[t] = "disable" /\ pc[t] = "run"
  /\ \A l \in Locks : depth[t][l] = 0

(* Where a consumer found the queue not empty and has not taken the byte, *)
(* where it has the byte and has not shown it, and where it has the lock. *)
Tested   == {"str_acquire", "str_put", "str_release", "get"}
Carrying == {"chr_acquire", "chr_put"}
Inside   == {"str_put", "str_release", "chr_put", "chr_release"}
Duty     == {"test", "str_acquire", "str_put", "str_release", "get",
             "chr_acquire", "chr_put", "chr_release", "restore"}

(* The running consumer is between intr_disable and intr_set_status. *)
OnDuty ==
  /\ intr = INTR_OFF
  /\ loc[cur] \in Duty
  /\ pc[cur] # "run" => plock[cur] = console_lock
  /\ pc[cur] \in {"wait", "wake", "upret"} => old_status[cur] = INTR_OFF
  /\ pc[cur] \in AcquirePC => loc[cur] \in {"str_put", "chr_put"}
  /\ pc[cur] \in ReleasePC => loc[cur] \in {"get", "restore"}
  /\ pc[cur] \notin {"again", "less"}
  /\ \A l \in Locks : l # console_lock => depth[cur][l] = 0
  /\ depth[cur][console_lock] \in {0, 1}
  /\ loc[cur] \notin Inside => depth[cur][console_lock] = 0

DutyInv ==
  /\ loc \in [Clients -> Duty \cup {"disable"}]
  /\ intr_old \in [Clients -> IntrStatus]
  /\ \A t \in Clients : OffDuty(t) \/ (t = cur /\ OnDuty)

(* The ring holds one byte or none, nobody waits at it, and a consumer     *)
(* that has tested it finds its byte.                                      *)
RingInv ==
  /\ producer = NULL /\ consumer = NULL
  /\ tail \in 0..(bufsize - 1)
  /\ head = tail \/ head = next_pos(tail)
  /\ buffer \in [0..(bufsize - 1) -> 0..MaxKeys]
  /\ head # tail => buffer[tail] \in 1..MaxKeys
  /\ cur \in Clients /\ loc[cur] \in Tested => head # tail

CharInv ==
  /\ keys \in 0..MaxKeys
  /\ byte \in [Clients -> 0..MaxKeys]
  /\ cur \in Clients /\ loc[cur] \in Carrying => byte[cur] \in 1..MaxKeys

OrderInv ==
  /\ accepted \in Seq(1..MaxKeys) /\ shown \in Seq(1..MaxKeys)
  /\ InOrder

(* A prefix that is the last thing on the screen was written by the        *)
(* running consumer, which has not written its character yet.              *)
PrefixInv ==
  /\ screen \in Seq((Clients \cup {NULL}) \X (0..(MaxKeys + 1)))
  /\ PrefixAndCharacter
  /\ screen # << >> /\ screen[Len(screen)][2] = ARG =>
       /\ cur \in Clients /\ screen[Len(screen)][1] = cur
       /\ loc[cur] \in {"str_release", "get", "chr_acquire", "chr_put"}

(* What the consumers and the interrupt handler add to the locks. *)
ConsumerInv == DutyInv /\ RingInv /\ CharInv /\ OrderInv /\ PrefixInv

KbdInv == SyncInv /\ TakenValue /\ ConsumerInv

-----------------------------------------------------------------------------
(* The ring and the hands of the running consumer, as sequences. *)

InRing == IF head = tail THEN << >> ELSE <<buffer[tail]>>
InHand == IF cur \in Clients /\ loc[cur] \in Carrying THEN <<byte[cur]>> ELSE << >>

(* One position further in the ring is another one, and the distance back  *)
(* is 1, also where the ring wraps.                                        *)
LEMMA NextPos ==
  ASSUME NEW p \in 0..(bufsize - 1)
  PROVE  /\ next_pos(p) \in 0..(bufsize - 1) /\ next_pos(p) # p
         /\ (next_pos(p) - p) % bufsize = 1
         /\ (p - p) % bufsize = 0
         /\ p % bufsize = p
<1>0. bufsize \in Nat /\ bufsize > 1 /\ p \in Nat /\ p <= bufsize - 1
  BY BufsizeAssumption
<1>1. CASE p = bufsize - 1
  <2>1. next_pos(p) = 0
    BY <1>0, <1>1 DEF next_pos
  <2>2. (0 - (bufsize - 1)) % bufsize = 1
    BY <1>0
  <2>3. 0 % bufsize = 0 /\ 1 % bufsize = 1 /\ p % bufsize = p
    BY <1>0
  <2> QED BY <1>0, <1>1, <2>1, <2>2, <2>3
<1>2. CASE p # bufsize - 1
  <2>1. next_pos(p) = p + 1
    BY <1>0, <1>2 DEF next_pos
  <2>2. 0 % bufsize = 0 /\ 1 % bufsize = 1 /\ p % bufsize = p
    BY <1>0
  <2>3. p + 1 - p = 1 /\ p - p = 0 /\ p + 1 \in 0..(bufsize - 1) /\ p + 1 # p
    BY <1>0, <1>2
  <2> QED BY <2>1, <2>2, <2>3
<1> QED BY <1>1, <1>2

(* The queue's content is its one byte. *)
LEMMA ContentIs == RingInv => Content = InRing
<1> SUFFICES ASSUME RingInv PROVE Content = InRing
  OBVIOUS
<1>0. tail \in 0..(bufsize - 1) /\ bufsize \in Nat /\ tail \in Nat
  BY BufsizeAssumption DEF RingInv
<1>1. CASE head = tail
  <2>1. (head - tail) % bufsize = 0
    BY <1>0, <1>1, NextPos
  <2> QED BY <1>1, <2>1 DEF Content, InRing
<1>2. CASE head # tail
  <2>1. (head - tail) % bufsize = 1
    BY <1>0, <1>2, NextPos DEF RingInv
  <2>2. (tail + 1 - 1) % bufsize = tail
    BY <1>0, NextPos
  <2>3. Content = [i \in 1..1 |-> buffer[tail]]
    BY <2>1, <2>2 DEF Content
  <2>4. <<buffer[tail]>> = [i \in 1..1 |-> buffer[tail]]
    OBVIOUS
  <2> QED BY <1>2, <2>3, <2>4 DEF InRing
<1> QED BY <1>1, <1>2

(* The only consumer that can carry a character is the running one. *)
LEMMA CarriedIs == DutyInv => Carried = InHand
<1> SUFFICES ASSUME DutyInv PROVE Carried = InHand
  OBVIOUS
<1>1. \A t \in Carriers : t = cur
  BY DEF DutyInv, OffDuty, Carriers
<1>2. CASE cur \in Clients /\ loc[cur] \in Carrying
  <2>1. Carriers = {cur}
    BY <1>1, <1>2 DEF Carriers, Carrying
  <2> QED BY <1>2, <2>1 DEF Carried, InHand
<1>3. CASE ~(cur \in Clients /\ loc[cur] \in Carrying)
  <2>1. Carriers = {}
    BY <1>1, <1>3 DEF Carriers, Carrying
  <2> QED BY <1>3, <2>1 DEF Carried, InHand
<1> QED BY <1>2, <1>3

(* A character leaves the front of the queue for the hands, and the hands  *)
(* for the end of what is shown.                                           *)
LEMMA Concats ==
  ASSUME NEW S, NEW s \in Seq(S), NEW x \in S
  PROVE  /\ s \o << >> = s /\ s \o <<x>> = Append(s, x)
         /\ s \o << >> \o << >> = s
         /\ s \o << >> \o <<x>> = Append(s, x)
         /\ s \o <<x>> \o << >> = Append(s, x)
         /\ Append(s, x) \in Seq(S)
<1>1. s \o << >> = s /\ Append(s, x) \in Seq(S)
  BY ConcatEmptySeq
<1>2. s \o <<x>> = Append(s, x)
  OBVIOUS
<1>3. Append(s, x) \o << >> = Append(s, x)
  BY <1>1, ConcatEmptySeq
<1> QED BY <1>1, <1>2, <1>3

(* What is accepted, with the ring and the hands as they really are. *)
LEMMA InOrderIs == DutyInv /\ RingInv => (InOrder <=> accepted = shown \o InHand \o InRing)
BY ContentIs, CarriedIs DEF InOrder

-----------------------------------------------------------------------------

(* main() has not started a consumer yet, and the ring is empty. *)
LEMMA KbdInitInv == KbdInit => KbdInv
<1> SUFFICES ASSUME KbdInit PROVE KbdInv
  OBVIOUS
<1>1. SyncInv
  BY SyncInitInv DEF KbdInit
<1>2. TakenValue
  BY DEF TakenValue, KbdInit, SyncInit, LockInit
<1>3. cur = main_thread /\ cur \notin Clients
  BY DEF KbdInit, SyncInit, Init, Clients
<1>4. DutyInv
  BY DEF DutyInv, OffDuty, KbdInit, SyncInit, Clients, IntrStatus, INTR_OFF, INTR_ON
<1>5. RingInv
  BY <1>3, BufsizeAssumption, MaxKeysAssumption DEF RingInv, KbdInit, IoqInit
<1>6. CharInv
  BY <1>3, MaxKeysAssumption DEF CharInv, KbdInit
<1>7. OrderInv
  <2>1. accepted = << >> /\ shown = << >> /\ InHand = << >> /\ InRing = << >>
    BY <1>3 DEF KbdInit, IoqInit, InHand, InRing
  <2>2. << >> \o << >> \o << >> = << >>
    OBVIOUS
  <2> QED BY <1>4, <1>5, <2>1, <2>2, InOrderIs DEF OrderInv
<1>8. PrefixInv
  BY DEF PrefixInv, KbdInit, PrefixAndCharacter
<1> QED BY <1>1, <1>2, <1>4, <1>5, <1>6, <1>7, <1>8 DEF KbdInv, ConsumerInv

-----------------------------------------------------------------------------

(* With interrupts on, or while main() runs, no consumer is on duty. *)
LEMMA NobodyOnDuty ==
  ASSUME KbdInv, intr = INTR_ON \/ cur \notin Clients
  PROVE  \A t \in Clients : OffDuty(t)
BY DEF KbdInv, ConsumerInv, DutyInv, OnDuty, INTR_ON, INTR_OFF

(* A consumer past its intr_disable is on duty, and it runs. *)
LEMMA RunningOnDuty ==
  ASSUME KbdInv, cur \in Clients, loc[cur] # "disable"
  PROVE  /\ OnDuty
         /\ \A t \in Clients \ {cur} : OffDuty(t)
BY DEF KbdInv, ConsumerInv, DutyInv, OffDuty

(* The consumers use locks and interrupts as SyncSpec allows: no ASSERT of *)
(* ioqueue.c fails and the interrupt handler never has to wake anybody.    *)
LEMMA KbdSyncStep == KbdInv /\ [KbdNext]_kbdAllVars => [SyncNext]_allVars
<1> SUFFICES ASSUME KbdInv, [KbdNext]_kbdAllVars PROVE [SyncNext]_allVars
  OBVIOUS
<1>0. /\ producer = NULL /\ consumer = NULL
      /\ cur \in Clients /\ loc[cur] \in Tested => head # tail
      /\ intr_old \in [Clients -> IntrStatus]
  BY DEF KbdInv, ConsumerInv, RingInv, DutyInv
<1>1. CASE MainStep
  BY <1>1 DEF MainStep, SyncNext, IntrStatus
<1>2. CASE IntrDisableStep
  BY <1>2 DEF IntrDisableStep, SyncNext, IntrStatus
<1>3. CASE TestStep \/ GetStep
  <2>1. /\ cur \in Clients /\ loc[cur] \in {"test", "get"}
    BY <1>3 DEF TestStep, GetStep, From
  <2>2. intr = INTR_OFF
    BY <2>1, RunningOnDuty DEF OnDuty
  <2>3. loc[cur] = "get" => head # tail
    BY <1>0, <2>1 DEF Tested
  <2>4. UNCHANGED allVars
    BY <1>0, <1>3, <2>2, <2>3 DEF TestStep, GetStep, From, IntrOffASSERT, ioq_empty, TakeByte,
       allVars
  <2> QED BY <2>4
<1>4. ASSUME NEW from, NEW to, ConsoleAcquire(from, to) \/ ConsoleRelease(from, to)
      PROVE  [SyncNext]_allVars
  BY <1>4, ConsoleLockAssumption DEF ConsoleAcquire, ConsoleRelease, SyncNext
<1>5. ASSUME NEW from, NEW to, NEW text, Put(from, to, text) PROVE [SyncNext]_allVars
  BY <1>5 DEF Put
<1>6. CASE IntrRestoreStep
  BY <1>0, <1>6 DEF IntrRestoreStep, From, SyncNext
<1>7. CASE KeyInterrupt \/ UnknownKey
  BY <1>0, <1>7 DEF KeyInterrupt, UnknownKey, PutByte, allVars
<1>8. CASE CallStep \/ Preempt
  BY <1>8 DEF SyncNext
<1>9. CASE UNCHANGED kbdAllVars
  BY <1>9 DEF kbdAllVars
<1> QED BY <1>1, <1>2, <1>3, <1>4, <1>5, <1>6, <1>7, <1>8, <1>9 DEF KbdNext, ConsumerStep

(* Another thread gets the CPU only when no consumer is on duty. *)
LEMMA IdleStep ==
  ASSUME KbdInv, \A t \in Clients : OffDuty(t), cur' \in Threads,
         UNCHANGED <<syncVars, ioqVars, kbdVars>>
  PROVE  ConsumerInv'
<1> USE DEF KbdInv, ConsumerInv, syncVars, callVars, ioqVars, kbdVars
<1>0. \A t \in Clients : loc[t] = "disable"
  BY DEF OffDuty
<1>1. DutyInv'
  BY DEF DutyInv, OffDuty
<1>2. RingInv'
  BY <1>0 DEF RingInv, Tested, next_pos
<1>3. CharInv'
  BY <1>0 DEF CharInv, Carrying
<1>4. OrderInv'
  <2>1. InHand' = << >> /\ InHand = << >> /\ InRing' = InRing
    BY <1>0 DEF InHand, InRing, Carrying
  <2>2. (DutyInv /\ RingInv => (InOrder <=> accepted = shown \o InHand \o InRing))'
    BY InOrderIs, PTL
  <2> QED BY <1>1, <1>2, <2>1, <2>2, InOrderIs DEF OrderInv
<1>5. PrefixInv'
  BY <1>0 DEF PrefixInv, PrefixAndCharacter, ARG
<1> QED BY <1>1, <1>2, <1>3, <1>4, <1>5

(* A text on the screen keeps prefix and character together if it follows  *)
(* a prefix only as that consumer's character.                             *)
LEMMA PrefixAppend ==
  ASSUME PrefixInv, NEW e \in (Clients \cup {NULL}) \X (0..(MaxKeys + 1)),
         screen' = Append(screen, e),
         screen # << >> /\ screen[Len(screen)][2] = ARG =>
           e[1] = screen[Len(screen)][1] /\ e[2] \in 1..MaxKeys
  PROVE  /\ screen' \in Seq((Clients \cup {NULL}) \X (0..(MaxKeys + 1)))
         /\ PrefixAndCharacter'
         /\ screen' # << >> /\ screen'[Len(screen')] = e
<1> DEFINE S == (Clients \cup {NULL}) \X (0..(MaxKeys + 1))
<1>0. screen \in Seq(S) /\ Len(screen) \in Nat
  BY DEF PrefixInv
<1>1. /\ screen' \in Seq(S) /\ screen' # << >> /\ Len(screen') = Len(screen) + 1
      /\ screen'[Len(screen) + 1] = e
      /\ \A i \in 1..Len(screen) : screen'[i] = screen[i]
  <2>1. e \in S
    OBVIOUS
  <2> HIDE DEF S
  <2> QED BY <1>0, <2>1
<1>2. PrefixAndCharacter'
  <2> SUFFICES ASSUME NEW i \in 1..(Len(screen') - 1), screen'[i][2] = ARG
               PROVE  /\ screen'[i + 1][1] = screen'[i][1]
                      /\ screen'[i + 1][2] \in 1..MaxKeys
    BY DEF PrefixAndCharacter, ARG
  <2>1. i \in 1..Len(screen) /\ screen'[i] = screen[i]
    BY <1>0, <1>1
  <2>2. CASE i = Len(screen)
    <3>1. screen # << >>
      BY <1>0, <2>1
    <3>2. i + 1 = Len(screen) + 1 /\ screen'[i + 1] = e
      BY <1>1, <2>2
    <3>3. e[1] = screen[i][1] /\ e[2] \in 1..MaxKeys
      BY <2>1, <2>2, <3>1
    <3> QED BY <2>1, <3>2, <3>3
  <2>3. CASE i # Len(screen)
    <3>1. i \in 1..(Len(screen) - 1) /\ i + 1 \in 1..Len(screen)
      BY <1>0, <2>1, <2>3
    <3>2. screen'[i + 1] = screen[i + 1]
      BY <1>1, <3>1
    <3> QED BY <2>1, <3>1, <3>2 DEF PrefixInv, PrefixAndCharacter
  <2> QED BY <2>2, <2>3
<1> QED BY <1>0, <1>1, <1>2

(* intr_keyboard_handler finds the ring empty or its one byte in it; it    *)
(* runs only when no consumer is on duty.                                  *)
LEMMA KeyStep == ASSUME KbdInv, KeyInterrupt PROVE ConsumerInv'
<1> USE DEF KbdInv, ConsumerInv
<1>0. /\ intr = INTR_ON /\ keys < MaxKeys /\ keys' = keys + 1
      /\ UNCHANGED <<loc, intr_old, byte, screen, shown>>
      /\ consumer = NULL /\ producer = NULL
  BY DEF KeyInterrupt, RingInv
<1>1. UNCHANGED allVars
  BY <1>0 DEF KeyInterrupt, PutByte, allVars
<1>2. /\ UNCHANGED <<cur, intr, pc, plock, depth, old_status>>
      /\ \A t \in Clients : OffDuty(t) /\ loc[t] = "disable"
      /\ cur \in Threads
  BY <1>0, <1>1, NobodyOnDuty, AssertsHold DEF allVars, vars, syncVars, callVars, OffDuty
<1>3. keys' \in 1..MaxKeys /\ keys \in 0..MaxKeys
  BY <1>0, MaxKeysAssumption DEF CharInv
<1>4. DutyInv'
  BY <1>0, <1>2 DEF DutyInv, OffDuty
<1>5. CharInv'
  BY <1>0, <1>2, <1>3 DEF CharInv, Carrying
<1>6. PrefixInv'
  BY <1>0, <1>2 DEF PrefixInv, PrefixAndCharacter, ARG
<1>7. (DutyInv /\ RingInv => (InOrder <=> accepted = shown \o InHand \o InRing))'
  BY InOrderIs, PTL
<1>8. InHand = << >> /\ InHand' = << >>
  BY <1>0, <1>2 DEF InHand, Carrying
<1>9. CASE ioq_full
  <2>1. UNCHANGED <<accepted, ioqVars>>
    BY <1>9 DEF KeyInterrupt
  <2>2. RingInv' /\ InRing' = InRing
    BY <1>0, <1>2, <2>1 DEF RingInv, Tested, InRing, ioqVars, next_pos
  <2> QED BY <1>0, <1>4, <1>5, <1>6, <1>7, <1>8, <2>1, <2>2, InOrderIs DEF OrderInv
<1>10. CASE ~ioq_full
  <2>1. /\ buffer' = [buffer EXCEPT ![head] = keys'] /\ head' = next_pos(head)
        /\ UNCHANGED <<tail, producer, consumer>>
        /\ accepted' = Append(accepted, keys')
    BY <1>0, <1>10 DEF KeyInterrupt, PutByte
  <2>2. head = tail /\ tail \in 0..(bufsize - 1)
    BY <1>10 DEF ioq_full, RingInv
  <2>3. head' # tail' /\ head' = next_pos(tail)'
    BY <2>1, <2>2, NextPos DEF next_pos
  <2>4. buffer' \in [0..(bufsize - 1) -> 0..MaxKeys] /\ buffer'[tail] = keys'
    BY <1>3, <2>1, <2>2 DEF RingInv
  <2>5. RingInv'
    BY <1>0, <1>2, <1>3, <2>1, <2>2, <2>3, <2>4 DEF RingInv, Tested
  <2>6. InRing = << >> /\ InRing' = <<keys'>>
    BY <2>1, <2>2, <2>3, <2>4 DEF InRing
  <2>7. /\ accepted = shown \o << >> \o << >> /\ shown \in Seq(1..MaxKeys)
        /\ accepted \in Seq(1..MaxKeys)
    BY <1>8, <2>6, InOrderIs DEF OrderInv
  <2>8. accepted' = shown' \o << >> \o <<keys'>> /\ accepted' \in Seq(1..MaxKeys)
    <3>1. accepted = shown
      BY <1>3, <2>7, Concats
    <3>2. shown \o << >> \o <<keys'>> = Append(shown, keys')
      BY <1>3, <2>7, Concats
    <3> QED BY <1>0, <1>3, <2>1, <2>7, <3>1, <3>2
  <2>9. OrderInv'
    BY <1>0, <1>4, <1>7, <1>8, <2>5, <2>6, <2>7, <2>8 DEF OrderInv
  <2> QED BY <1>4, <1>5, <1>6, <2>5, <2>9
<1> QED BY <1>9, <1>10

(* The handler's own message never falls between a prefix and its          *)
(* character.                                                              *)
LEMMA UnknownStep == ASSUME KbdInv, UnknownKey PROVE ConsumerInv'
<1> USE DEF KbdInv, ConsumerInv
<1>0. /\ intr = INTR_ON /\ keys < MaxKeys /\ keys' = keys + 1
      /\ UNCHANGED <<cur, pc, plock, depth, loc, intr_old, byte, accepted, shown, ioqVars>>
      /\ screen' = Append(screen, <<NULL, UNKNOWN>>)
  BY DEF UnknownKey, allVars, vars, syncVars, callVars
<1>2. \A t \in Clients : OffDuty(t) /\ loc[t] = "disable"
  BY <1>0, NobodyOnDuty DEF OffDuty
<1>3. keys' \in 0..MaxKeys
  BY <1>0, MaxKeysAssumption DEF CharInv
<1>4. DutyInv'
  BY <1>0, <1>2 DEF DutyInv, OffDuty
<1>5. CharInv'
  BY <1>0, <1>2, <1>3 DEF CharInv, Carrying
<1>6. RingInv'
  BY <1>0, <1>2 DEF RingInv, Tested, ioqVars, next_pos
<1>7. OrderInv'
  <2>1. (DutyInv /\ RingInv => (InOrder <=> accepted = shown \o InHand \o InRing))'
    BY InOrderIs, PTL
  <2>2. InHand' = InHand /\ InRing' = InRing
    BY <1>0 DEF InHand, InRing, ioqVars
  <2> QED BY <1>0, <1>4, <1>6, <2>1, <2>2, InOrderIs DEF OrderInv
<1>8. PrefixInv'
  <2>1. <<NULL, UNKNOWN>> \in (Clients \cup {NULL}) \X (0..(MaxKeys + 1))
    BY MaxKeysAssumption DEF UNKNOWN
  <2>2. ~(screen # << >> /\ screen[Len(screen)][2] = ARG)
    BY <1>2 DEF PrefixInv
  <2>3. /\ screen' \in Seq((Clients \cup {NULL}) \X (0..(MaxKeys + 1)))
        /\ PrefixAndCharacter'
        /\ screen' # << >> /\ screen'[Len(screen')] = <<NULL, UNKNOWN>>
    BY <1>0, <2>1, <2>2, PrefixAppend
  <2>4. UNKNOWN # ARG
    BY MaxKeysAssumption DEF UNKNOWN, ARG
  <2> QED BY <2>3, <2>4 DEF PrefixInv, ARG
<1> QED BY <1>4, <1>5, <1>6, <1>7, <1>8

-----------------------------------------------------------------------------
(* The steps of the running consumer. *)

(* Where the consumer's prefix is the last thing it wrote. *)
Prefixed == {"str_release", "get", "chr_acquire", "chr_put"}

(* A step that moves the running consumer, or leaves it where it is inside *)
(* a call, and touches neither the ring nor the histories.                 *)
LEMMA QuietStep ==
  ASSUME KbdInv, cur \in Clients, cur' = cur, NEW x \in Duty \cup {"disable"},
         loc' = [loc EXCEPT ![cur] = x],
         UNCHANGED <<ioqVars, byte, keys, accepted, screen, shown>>,
         intr_old' \in [Clients -> IntrStatus],
         \A t \in Threads \ {cur} : pc'[t] = pc[t] /\ depth'[t] = depth[t],
         OffDuty(cur)' \/ OnDuty',
         x \in Tested => head # tail,
         x \in Carrying <=> loc[cur] \in Carrying,
         loc[cur] \in Prefixed => x \in Prefixed
  PROVE  ConsumerInv'
<1> USE DEF KbdInv, ConsumerInv
<1>0. /\ loc \in [Clients -> Duty \cup {"disable"}] /\ loc'[cur] = x
      /\ \A t \in Clients \ {cur} : loc'[t] = loc[t]
      /\ \A t \in Clients \ {cur} : t \in Threads \ {cur}
  BY DEF DutyInv, Clients
<1>1. DutyInv'
  <2>1. loc' \in [Clients -> Duty \cup {"disable"}]
    BY <1>0
  <2>2. ASSUME NEW t \in Clients, t # cur PROVE OffDuty(t)'
    BY <1>0, <2>2 DEF DutyInv, OffDuty
  <2>3. ASSUME NEW t \in Clients PROVE OffDuty(t)' \/ (t = cur' /\ OnDuty')
    <3>1. CASE t = cur
      <4>1. OffDuty(t)' <=> OffDuty(cur)'
        BY <3>1 DEF OffDuty
      <4> QED BY <3>1, <4>1
    <3>2. CASE t # cur
      BY <2>2, <3>2
    <3> QED BY <3>1, <3>2
  <2> QED BY <2>1, <2>3 DEF DutyInv
<1>2. RingInv'
  BY <1>0 DEF RingInv, ioqVars, next_pos
<1>3. CharInv'
  BY <1>0 DEF CharInv
<1>4. OrderInv'
  <2>1. (DutyInv /\ RingInv => (InOrder <=> accepted = shown \o InHand \o InRing))'
    BY InOrderIs, PTL
  <2>2. InHand' = InHand /\ InRing' = InRing
    BY <1>0 DEF InHand, InRing, ioqVars
  <2> QED BY <1>1, <1>2, <2>1, <2>2, InOrderIs DEF OrderInv
<1>5. PrefixInv'
  BY <1>0 DEF PrefixInv, PrefixAndCharacter, ARG, Prefixed
<1> QED BY <1>1, <1>2, <1>3, <1>4, <1>5

(* The console lock is free when a consumer on duty asks for it, so it     *)
(* never gives the CPU away, and sync.c gives it back its interrupt flag.  *)
LEMMA InCallStep == ASSUME KbdInv, CallStep, UNCHANGED <<ioqVars, kbdVars>> PROVE ConsumerInv'
<1>0. SyncInv /\ TakenValue /\ ConsumerInv /\ SyncTypeOK
  BY DEF KbdInv, SyncInv
<1>1. /\ cur \in Clients /\ cur \in Threads /\ lock \in Locks
      /\ pc[cur] # "run" /\ plock' = plock
  BY <1>0, CallStepEffects
<1>2. PICK x \in PC : pc' = [pc EXCEPT ![cur] = x] /\ <<pc[cur], x>> \in CallMoves
  BY <1>0, CallStepEffects
<1>3. OnDuty /\ \A t \in Clients \ {cur} : OffDuty(t)
  BY <1>0, <1>1 DEF ConsumerInv, DutyInv, OffDuty
<1>4. pc \in [Threads -> PC] /\ plock \in [Threads -> Locks] /\ old_status \in [Threads -> IntrStatus]
      /\ depth \in [Threads -> [Locks -> 0..MaxDepth]] /\ value \in [Locks -> 0..1]
  BY <1>0 DEF SyncTypeOK
<1>5. cur' = cur
  <2> SUFFICES ASSUME cur' # cur PROVE FALSE
    OBVIOUS
  <2>1. pc[cur] = "wait" /\ value[lock] = 0
    BY <1>0, CallStepEffects
  <2>2. PICK t \in Threads : Owns(t, lock)
    BY <1>0, <1>1, <2>1 DEF TakenValue
  <2>3. t # cur
    <3>1. depth[cur][lock] = 0
      BY <1>0, <1>1, <2>1 DEF SyncInv, LockInv, DepthAtPC, lock
    <3> QED BY <2>1, <2>2, <3>1 DEF Owns
  <2>4. t # main_thread
    <3>1. t = main_thread => pc[t] = "run" /\ depth[t][lock] = 0
      BY <1>0, <1>1 DEF SyncInv, CallInv, CallsByClients
    <3> QED BY <2>2, <3>1 DEF Owns
  <2>5. t \in Clients /\ OffDuty(t)
    BY <1>3, <2>3, <2>4 DEF Clients
  <2> QED BY <1>1, <2>2, <2>5 DEF OffDuty, Owns
<1>6. /\ loc[cur] \in Duty /\ loc \in [Clients -> Duty \cup {"disable"}]
      /\ loc' = [loc EXCEPT ![cur] = loc[cur]]
      /\ lock = console_lock /\ pc[cur] \notin {"again", "less"}
      /\ UNCHANGED <<loc, intr_old, byte, keys, accepted, screen, shown>>
      /\ intr_old \in [Clients -> IntrStatus]
  BY <1>0, <1>1, <1>3 DEF OnDuty, ConsumerInv, DutyInv, kbdVars, lock
<1>7. depth' = IF pc[cur] = "first" THEN [depth EXCEPT ![cur][console_lock] = 1] ELSE depth
  BY <1>0, <1>6, CallStepEffects
<1>8. \A t \in Threads \ {cur} : pc'[t] = pc[t] /\ depth'[t] = depth[t]
  BY <1>1, <1>2, <1>4, <1>7
<1>9. OnDuty'
  <2>1. pc'[cur] = x /\ pc[cur] # "run"
    BY <1>1, <1>2, <1>4
  <2>2. intr' = INTR_OFF
    <3>1. intr' = IF pc[cur] \in {"down", "up"} THEN INTR_OFF
                  ELSE IF pc[cur] \in {"wait", "upret"} THEN old_status[cur] ELSE intr
      BY <1>0, <1>5, CallStepEffects
    <3> QED BY <1>3, <3>1 DEF OnDuty
  <2>3. x \in {"wait", "wake", "upret"} => old_status'[cur] = INTR_OFF
    <3>1. old_status' = IF pc[cur] \in {"down", "up"}
                          THEN [old_status EXCEPT ![cur] = intr] ELSE old_status
      BY <1>0, CallStepEffects
    <3>2. x \in {"wait", "wake", "upret"} => pc[cur] \in {"down", "up", "wait", "wake"}
      BY <1>2 DEF CallMoves
    <3> QED BY <1>1, <1>3, <1>4, <3>1, <3>2 DEF OnDuty
  <2>4. /\ x \in AcquirePC => pc[cur] \in AcquirePC
        /\ x \in ReleasePC => pc[cur] \in ReleasePC
        /\ x \notin {"again", "less"}
    BY <1>2 DEF CallMoves, AcquirePC, ReleasePC
  <2>5. pc[cur] = "first" => loc[cur] \in Inside
    BY <1>3 DEF OnDuty, AcquirePC, Inside
  <2>6. /\ \A l \in Locks : l # console_lock => depth'[cur][l] = 0
        /\ depth'[cur][console_lock] \in {0, 1}
        /\ loc[cur] \notin Inside => depth'[cur][console_lock] = 0
    <3>1. CASE pc[cur] = "first"
      BY <1>1, <1>3, <1>4, <1>6, <1>7, <2>5, <3>1 DEF OnDuty
    <3>2. CASE pc[cur] # "first"
      BY <1>3, <1>7, <3>2 DEF OnDuty
    <3> QED BY <3>1, <3>2
  <2> QED BY <1>1, <1>3, <1>5, <1>6, <2>1, <2>2, <2>3, <2>4, <2>6 DEF OnDuty, lock
<1>10. loc[cur] \in Tested => head # tail
  BY <1>0, <1>1 DEF ConsumerInv, RingInv
<1> QED BY <1>1, <1>5, <1>6, <1>8, <1>9, <1>10, QuietStep

(* A consumer in its own code past intr_disable: it makes no call. *)
LEMMA ConsumerAt ==
  ASSUME KbdInv, NEW label \in Duty, From(label)
  PROVE  /\ cur \in Clients /\ cur \in Threads /\ loc[cur] = label /\ pc[cur] = "run"
         /\ OnDuty /\ intr = INTR_OFF
         /\ loc \in [Clients -> Duty \cup {"disable"}]
         /\ intr_old \in [Clients -> IntrStatus]
         /\ label \in Tested => head # tail
BY RunningOnDuty, AssertsHold
   DEF From, At, OnDuty, KbdInv, ConsumerInv, DutyInv, RingInv, Duty

(* intr_disable: the consumer goes on duty; intr_set_status: it leaves. *)
LEMMA FlagSteps == ASSUME KbdInv, IntrDisableStep \/ IntrRestoreStep PROVE ConsumerInv'
<1>0. /\ loc \in [Clients -> Duty \cup {"disable"}]
      /\ intr_old \in [Clients -> IntrStatus] /\ intr \in IntrStatus
  BY DEF KbdInv, ConsumerInv, DutyInv, SyncInv, ThreadInv, TypeOK
<1>1. CASE IntrDisableStep
  <2>1. /\ cur \in Clients /\ pc[cur] = "run" /\ loc[cur] = "disable"
        /\ loc' = [loc EXCEPT ![cur] = "test"]
        /\ intr_old' = [intr_old EXCEPT ![cur] = intr]
        /\ intr' = INTR_OFF /\ cur' = cur
        /\ UNCHANGED <<pc, plock, old_status, depth>>
        /\ UNCHANGED <<ioqVars, byte, keys, accepted, screen, shown>>
    BY <1>1 DEF IntrDisableStep, From, To, At, OwnIntr, IntrSet, syncVars, callVars
  <2>2. OffDuty(cur)
    BY <2>1 DEF KbdInv, ConsumerInv, DutyInv, OnDuty, Duty
  <2>3. OnDuty'
    BY <1>0, <2>1, <2>2, ConsoleLockAssumption DEF OnDuty, OffDuty, Duty, AcquirePC, ReleasePC, Inside
  <2>4. intr_old' \in [Clients -> IntrStatus]
    BY <1>0, <2>1
  <2>5. "test" \in Duty \cup {"disable"} /\ "test" \notin Tested /\ "test" \notin Carrying
    BY DEF Duty, Tested, Carrying
  <2>6. loc[cur] \notin Carrying /\ loc[cur] \notin Prefixed
    BY <2>1 DEF Carrying, Prefixed
  <2> QED BY <2>1, <2>3, <2>4, <2>5, <2>6, QuietStep
<1>2. CASE IntrRestoreStep
  <2>0. "restore" \in Duty
    BY DEF Duty
  <2>1. /\ cur \in Clients /\ pc[cur] = "run" /\ loc[cur] = "restore" /\ OnDuty
        /\ loc' = [loc EXCEPT ![cur] = "disable"]
        /\ intr_old' = intr_old /\ cur' = cur
        /\ UNCHANGED <<pc, plock, old_status, depth>>
        /\ UNCHANGED <<ioqVars, byte, keys, accepted, screen, shown>>
    BY <1>2, <2>0, ConsumerAt
       DEF IntrRestoreStep, From, To, At, OwnIntr, IntrSet, syncVars, callVars
  <2>2. OffDuty(cur)'
    BY <1>0, <2>1 DEF OnDuty, OffDuty, Inside
  <2>3. "disable" \notin Tested /\ "disable" \notin Carrying
    BY DEF Tested, Carrying
  <2>4. loc[cur] \notin Carrying /\ loc[cur] \notin Prefixed
    BY <2>1 DEF Carrying, Prefixed
  <2> QED BY <1>0, <2>1, <2>2, <2>3, <2>4, QuietStep
<1> QED BY <1>1, <1>2

(* ioq_empty, with interrupts off: what it says stays true until the byte  *)
(* is taken.                                                               *)
LEMMA TestStepInv == ASSUME KbdInv, TestStep PROVE ConsumerInv'
<1> DEFINE x == IF ioq_empty THEN "restore" ELSE "str_acquire"
<1>0. "test" \in Duty
  BY DEF Duty
<1>1. From("test")
  BY DEF TestStep
<1>2. /\ cur \in Clients /\ cur \in Threads /\ loc[cur] = "test" /\ pc[cur] = "run"
      /\ OnDuty /\ intr = INTR_OFF
      /\ loc \in [Clients -> Duty \cup {"disable"}] /\ intr_old \in [Clients -> IntrStatus]
  BY <1>0, <1>1, ConsumerAt
<1>3. /\ loc' = [loc EXCEPT ![cur] = x]
      /\ UNCHANGED <<cur, intr, pc, plock, old_status, depth>>
      /\ UNCHANGED <<ioqVars, byte, keys, accepted, screen, shown, intr_old>>
  BY <1>2 DEF TestStep, IntrOffASSERT, To, allVars, vars, syncVars, callVars
<1>4. x \in Duty /\ x \notin Inside /\ (x \in Tested => head # tail)
  BY DEF Duty, Inside, Tested, ioq_empty
<1>5. x \notin Carrying /\ loc[cur] \notin Carrying /\ loc[cur] \notin Prefixed /\ loc[cur] \notin Inside
  BY <1>2 DEF Carrying, Prefixed, Inside
<1> HIDE DEF x
<1>6. OnDuty'
  <2>1. loc'[cur] = x
    BY <1>2, <1>3
  <2> QED BY <1>2, <1>3, <1>4, <1>5, <2>1 DEF OnDuty, AcquirePC, ReleasePC
<1> QED BY <1>2, <1>3, <1>4, <1>5, <1>6, QuietStep

(* console_acquire: the consumer does not have the lock yet. *)
LEMMA ConsoleAcquireInv ==
  ASSUME KbdInv,
         NEW from \in {"str_acquire", "chr_acquire"}, NEW to \in {"str_put", "chr_put"},
         from = "str_acquire" <=> to = "str_put",
         ConsoleAcquire(from, to)
  PROVE  ConsumerInv'
<1>0. from \in Duty /\ to \in Duty /\ to \in Inside /\ from \notin Inside
  BY DEF Duty, Inside
<1>1. From(from)
  BY DEF ConsoleAcquire
<1>2. /\ cur \in Clients /\ cur \in Threads /\ loc[cur] = from /\ pc[cur] = "run"
      /\ OnDuty /\ intr = INTR_OFF
      /\ loc \in [Clients -> Duty \cup {"disable"}] /\ intr_old \in [Clients -> IntrStatus]
      /\ from \in Tested => head # tail
  BY <1>0, <1>1, ConsumerAt
<1>3. pc \in [Threads -> PC] /\ plock \in [Threads -> Locks]
  BY DEF KbdInv, SyncInv, SyncTypeOK
<1>4. holder[console_lock] # cur
  <2>1. ~Held(cur, console_lock)
    BY <1>0, <1>2 DEF Held, OnDuty
  <2> QED BY <1>2, <2>1, ConsoleLockAssumption DEF KbdInv, SyncInv, LockInv, HolderOwns
<1>5. /\ loc' = [loc EXCEPT ![cur] = to]
      /\ pc' = [pc EXCEPT ![cur] = "down"] /\ plock' = [plock EXCEPT ![cur] = console_lock]
      /\ UNCHANGED <<cur, intr, old_status, depth>>
      /\ UNCHANGED <<ioqVars, byte, keys, accepted, screen, shown, intr_old>>
  BY <1>4 DEF ConsoleAcquire, LockAcquire, Goto, To, vars
<1>6. OnDuty'
  <2>1. loc'[cur] = to /\ pc'[cur] = "down" /\ plock'[cur] = console_lock
    BY <1>2, <1>3, <1>5
  <2> QED BY <1>0, <1>2, <1>5, <2>1 DEF OnDuty, AcquirePC, ReleasePC
<1>7. /\ to \in Tested => head # tail
      /\ to \in Carrying <=> loc[cur] \in Carrying
      /\ loc[cur] \in Prefixed => to \in Prefixed
  BY <1>2 DEF Tested, Carrying, Prefixed
<1>8. \A t \in Threads \ {cur} : pc'[t] = pc[t] /\ depth'[t] = depth[t]
  BY <1>3, <1>5
<1> QED BY <1>0, <1>2, <1>5, <1>6, <1>7, <1>8, QuietStep

(* console_release: the consumer had taken the lock once. *)
LEMMA ConsoleReleaseInv ==
  ASSUME KbdInv,
         NEW from \in {"str_release", "chr_release"}, NEW to \in {"get", "restore"},
         from = "str_release" <=> to = "get",
         ConsoleRelease(from, to)
  PROVE  ConsumerInv'
<1>0. from \in Duty /\ to \in Duty /\ to \notin Inside /\ from \in Inside
  BY DEF Duty, Inside
<1>1. From(from)
  BY DEF ConsoleRelease
<1>2. /\ cur \in Clients /\ cur \in Threads /\ loc[cur] = from /\ pc[cur] = "run"
      /\ OnDuty /\ intr = INTR_OFF
      /\ loc \in [Clients -> Duty \cup {"disable"}] /\ intr_old \in [Clients -> IntrStatus]
      /\ from \in Tested => head # tail
  BY <1>0, <1>1, ConsumerAt
<1>3. /\ pc \in [Threads -> PC] /\ plock \in [Threads -> Locks]
      /\ depth \in [Threads -> [Locks -> 0..MaxDepth]]
      /\ console_lock \in Locks
  BY ConsoleLockAssumption DEF KbdInv, SyncInv, SyncTypeOK
<1>4. depth[cur][console_lock] = 1
  BY <1>2 DEF ConsoleRelease, LockRelease, OnDuty
<1>5. holder[console_lock] = cur /\ holder_repeat_nr[console_lock] = 1
  <2>1. Held(cur, console_lock) /\ Owns(cur, console_lock) /\ ~Pending(cur, console_lock)
    BY <1>2, <1>4 DEF Held, Owns, Pending
  <2> QED BY <1>2, <1>3, <1>4, <2>1 DEF KbdInv, SyncInv, LockInv, HolderOwns, RepeatExact
<1>6. /\ loc' = [loc EXCEPT ![cur] = to]
      /\ pc' = [pc EXCEPT ![cur] = "clear"] /\ plock' = [plock EXCEPT ![cur] = console_lock]
      /\ depth' = [depth EXCEPT ![cur][console_lock] = @ - 1]
      /\ UNCHANGED <<cur, intr, old_status>>
      /\ UNCHANGED <<ioqVars, byte, keys, accepted, screen, shown, intr_old>>
  BY <1>5 DEF ConsoleRelease, LockRelease, ASSERT, Goto, To, vars
<1>7. OnDuty'
  <2>1. loc'[cur] = to /\ pc'[cur] = "clear" /\ plock'[cur] = console_lock
    BY <1>2, <1>3, <1>6
  <2>2. depth'[cur][console_lock] = 0 /\ \A l \in Locks : l # console_lock => depth'[cur][l] = 0
    BY <1>2, <1>3, <1>4, <1>6 DEF OnDuty
  <2> QED BY <1>0, <1>2, <1>6, <2>1, <2>2 DEF OnDuty, AcquirePC, ReleasePC
<1>8. /\ to \in Tested => head # tail
      /\ to \in Carrying <=> loc[cur] \in Carrying
      /\ loc[cur] \in Prefixed => to \in Prefixed
  BY <1>2 DEF Tested, Carrying, Prefixed
<1>9. \A t \in Threads \ {cur} : pc'[t] = pc[t] /\ depth'[t] = depth[t]
  BY <1>2, <1>3, <1>6
<1> QED BY <1>0, <1>2, <1>6, <1>7, <1>8, <1>9, QuietStep

(* The running consumer moves to a statement outside or inside the lock as *)
(* it was before, makes no call and changes no flag.                       *)
LEMMA StayOnDuty ==
  ASSUME KbdInv, NEW label \in Duty, From(label), NEW x \in Duty,
         loc' = [loc EXCEPT ![cur] = x],
         UNCHANGED <<cur, intr, pc, plock, old_status, depth, intr_old>>,
         x \in Inside <=> label \in Inside
  PROVE  DutyInv'
<1>1. /\ cur \in Clients /\ loc[cur] = label /\ pc[cur] = "run" /\ OnDuty
      /\ loc \in [Clients -> Duty \cup {"disable"}] /\ intr_old \in [Clients -> IntrStatus]
  BY ConsumerAt
<1>2. loc'[cur] = x /\ loc' \in [Clients -> Duty \cup {"disable"}]
  BY <1>1
<1>3. OnDuty'
  BY <1>1, <1>2 DEF OnDuty, AcquirePC, ReleasePC
<1>4. \A t \in Clients : t # cur => OffDuty(t)'
  BY <1>1 DEF KbdInv, ConsumerInv, DutyInv, OffDuty
<1> QED BY <1>1, <1>2, <1>3, <1>4 DEF DutyInv

(* ioq_getchar finds the byte ioq_empty saw and hands it over. *)
LEMMA GetStepInv == ASSUME KbdInv, GetStep PROVE ConsumerInv'
<1>0. "get" \in Duty /\ "chr_acquire" \in Duty /\ "get" \in Tested
      /\ "get" \notin Inside /\ "chr_acquire" \notin Inside
      /\ "get" \notin Carrying /\ "chr_acquire" \in Carrying /\ "chr_acquire" \notin Tested
  BY DEF Duty, Tested, Inside, Carrying
<1>1. From("get")
  BY DEF GetStep
<1>2. /\ cur \in Clients /\ loc[cur] = "get" /\ intr = INTR_OFF
      /\ loc \in [Clients -> Duty \cup {"disable"}] /\ intr_old \in [Clients -> IntrStatus]
      /\ head # tail
  BY <1>0, <1>1, ConsumerAt
<1>3. RingInv /\ CharInv /\ OrderInv /\ PrefixInv /\ DutyInv
  BY DEF KbdInv, ConsumerInv
<1>4. /\ loc' = [loc EXCEPT ![cur] = "chr_acquire"]
      /\ byte' = [byte EXCEPT ![cur] = buffer[tail]]
      /\ tail' = next_pos(tail)
      /\ UNCHANGED <<cur, intr, pc, plock, old_status, depth, intr_old>>
      /\ UNCHANGED <<buffer, head, producer, consumer>>
      /\ UNCHANGED <<keys, accepted, screen, shown>>
  BY <1>2, <1>3 DEF GetStep, IntrOffASSERT, ioq_empty, TakeByte, To, RingInv, vars, syncVars,
     callVars
<1>5. /\ loc'[cur] = "chr_acquire"
      /\ head = next_pos(tail) /\ tail \in 0..(bufsize - 1)
      /\ buffer[tail] \in 1..MaxKeys /\ buffer[tail] \in 0..MaxKeys
      /\ tail' \in 0..(bufsize - 1) /\ head' = tail'
  BY <1>2, <1>3, <1>4, NextPos, MaxKeysAssumption DEF RingInv
<1>6. DutyInv'
  BY <1>0, <1>1, <1>4, StayOnDuty
<1>7. RingInv'
  BY <1>0, <1>3, <1>4, <1>5 DEF RingInv
<1>8. CharInv' /\ byte'[cur] = buffer[tail]
  BY <1>2, <1>3, <1>4, <1>5 DEF CharInv
<1>9. OrderInv'
  <2>1. (DutyInv /\ RingInv => (InOrder <=> accepted = shown \o InHand \o InRing))'
    BY InOrderIs, PTL
  <2>2. /\ InHand = << >> /\ InRing = <<buffer[tail]>>
        /\ InHand' = <<buffer[tail]>> /\ InRing' = << >>
    BY <1>0, <1>2, <1>4, <1>5, <1>8 DEF InHand, InRing
  <2>3. accepted = shown \o << >> \o <<buffer[tail]>> /\ shown \in Seq(1..MaxKeys)
    BY <1>3, <2>2, InOrderIs DEF OrderInv
  <2>4. accepted = shown \o <<buffer[tail]>> \o << >>
    BY <1>5, <2>3, Concats
  <2> QED BY <1>3, <1>4, <1>6, <1>7, <2>1, <2>2, <2>4 DEF OrderInv
<1>10. PrefixInv'
  BY <1>2, <1>3, <1>4, <1>5 DEF PrefixInv, PrefixAndCharacter, ARG
<1> QED BY <1>6, <1>7, <1>8, <1>9, <1>10 DEF ConsumerInv

(* The prefix goes to the screen: it does not follow another one. *)
LEMMA PutPrefixInv == ASSUME KbdInv, Put("str_put", "str_release", ARG) PROVE ConsumerInv'
<1>0. "str_put" \in Duty /\ "str_release" \in Duty /\ "str_put" \in Tested
      /\ "str_put" \in Inside /\ "str_release" \in Inside
      /\ "str_put" \notin Carrying /\ "str_release" \notin Carrying
  BY DEF Duty, Tested, Inside, Carrying
<1>1. From("str_put")
  BY DEF Put
<1>2. /\ cur \in Clients /\ loc[cur] = "str_put"
      /\ loc \in [Clients -> Duty \cup {"disable"}] /\ head # tail
  BY <1>0, <1>1, ConsumerAt
<1>3. RingInv /\ CharInv /\ OrderInv /\ PrefixInv /\ DutyInv
  BY DEF KbdInv, ConsumerInv
<1>4. /\ loc' = [loc EXCEPT ![cur] = "str_release"]
      /\ screen' = Append(screen, <<cur, ARG>>)
      /\ UNCHANGED <<cur, intr, pc, plock, old_status, depth, intr_old, ioqVars>>
      /\ UNCHANGED <<byte, keys, accepted, shown>>
  BY DEF Put, To, allVars, vars, syncVars, callVars
<1>5. loc'[cur] = "str_release"
  BY <1>2, <1>4
<1>6. DutyInv'
  BY <1>0, <1>1, <1>4, StayOnDuty
<1>7. RingInv'
  BY <1>2, <1>3, <1>4 DEF RingInv, ioqVars, next_pos
<1>8. CharInv'
  BY <1>0, <1>3, <1>4, <1>5 DEF CharInv
<1>9. OrderInv'
  <2>1. (DutyInv /\ RingInv => (InOrder <=> accepted = shown \o InHand \o InRing))'
    BY InOrderIs, PTL
  <2>2. InHand' = InHand /\ InRing' = InRing
    BY <1>0, <1>2, <1>4, <1>5 DEF InHand, InRing, ioqVars
  <2> QED BY <1>3, <1>4, <1>6, <1>7, <2>1, <2>2, InOrderIs DEF OrderInv
<1>10. PrefixInv'
  <2>1. <<cur, ARG>> \in (Clients \cup {NULL}) \X (0..(MaxKeys + 1))
    BY <1>2, MaxKeysAssumption DEF ARG
  <2>2. ~(screen # << >> /\ screen[Len(screen)][2] = ARG)
    BY <1>2, <1>3 DEF PrefixInv
  <2>3. /\ screen' \in Seq((Clients \cup {NULL}) \X (0..(MaxKeys + 1)))
        /\ PrefixAndCharacter'
        /\ screen' # << >> /\ screen'[Len(screen')] = <<cur, ARG>>
    BY <1>3, <1>4, <2>1, <2>2, PrefixAppend
  <2> QED BY <1>2, <1>4, <1>5, <2>3 DEF PrefixInv, ARG
<1> QED BY <1>6, <1>7, <1>8, <1>9, <1>10 DEF ConsumerInv

(* The character goes to the screen, behind the consumer's own prefix. *)
LEMMA PutCharInv == ASSUME KbdInv, Put("chr_put", "chr_release", byte[cur]) PROVE ConsumerInv'
<1>0. "chr_put" \in Duty /\ "chr_release" \in Duty
      /\ "chr_put" \in Inside /\ "chr_release" \in Inside
      /\ "chr_put" \in Carrying /\ "chr_release" \notin Carrying /\ "chr_release" \notin Tested
  BY DEF Duty, Tested, Inside, Carrying
<1>1. From("chr_put")
  BY DEF Put
<1>2. /\ cur \in Clients /\ loc[cur] = "chr_put"
      /\ loc \in [Clients -> Duty \cup {"disable"}]
  BY <1>0, <1>1, ConsumerAt
<1>3. RingInv /\ CharInv /\ OrderInv /\ PrefixInv /\ DutyInv
  BY DEF KbdInv, ConsumerInv
<1>4. byte[cur] \in 1..MaxKeys /\ byte[cur] # ARG /\ byte[cur] \in 0..(MaxKeys + 1)
  BY <1>0, <1>2, <1>3, MaxKeysAssumption DEF CharInv, ARG
<1>5. /\ loc' = [loc EXCEPT ![cur] = "chr_release"]
      /\ screen' = Append(screen, <<cur, byte[cur]>>)
      /\ shown' = Append(shown, byte[cur])
      /\ UNCHANGED <<cur, intr, pc, plock, old_status, depth, intr_old, ioqVars>>
      /\ UNCHANGED <<byte, keys, accepted>>
  BY <1>4 DEF Put, To, allVars, vars, syncVars, callVars
<1>6. loc'[cur] = "chr_release"
  BY <1>2, <1>5
<1>7. DutyInv'
  BY <1>0, <1>1, <1>5, StayOnDuty
<1>8. RingInv'
  BY <1>0, <1>3, <1>5, <1>6 DEF RingInv, ioqVars, next_pos
<1>9. CharInv'
  BY <1>0, <1>3, <1>5, <1>6 DEF CharInv
<1>10. OrderInv'
  <2>1. (DutyInv /\ RingInv => (InOrder <=> accepted = shown \o InHand \o InRing))'
    BY InOrderIs, PTL
  <2>2. InHand = <<byte[cur]>> /\ InHand' = << >> /\ InRing' = InRing
    BY <1>0, <1>2, <1>5, <1>6 DEF InHand, InRing, ioqVars
  <2>3. /\ accepted = shown \o <<byte[cur]>> \o InRing
        /\ shown \in Seq(1..MaxKeys) /\ accepted \in Seq(1..MaxKeys)
    BY <1>3, <2>2, InOrderIs DEF OrderInv
  <2>4. shown \o <<byte[cur]>> = shown' /\ shown' \o << >> = shown' /\ shown' \in Seq(1..MaxKeys)
    BY <1>4, <1>5, <2>3, Concats
  <2>5. accepted = shown' \o << >> \o InRing'
    BY <2>2, <2>3, <2>4
  <2> QED BY <1>5, <1>7, <1>8, <2>1, <2>2, <2>3, <2>4, <2>5 DEF OrderInv
<1>11. PrefixInv'
  <2>1. <<cur, byte[cur]>> \in (Clients \cup {NULL}) \X (0..(MaxKeys + 1))
    BY <1>2, <1>4
  <2>2. screen # << >> /\ screen[Len(screen)][2] = ARG => screen[Len(screen)][1] = cur
    BY <1>3 DEF PrefixInv
  <2>3. /\ screen' \in Seq((Clients \cup {NULL}) \X (0..(MaxKeys + 1)))
        /\ PrefixAndCharacter'
        /\ screen' # << >> /\ screen'[Len(screen')] = <<cur, byte[cur]>>
    BY <1>3, <1>4, <1>5, <2>1, <2>2, PrefixAppend
  <2> QED BY <1>4, <2>3 DEF PrefixInv, ARG
<1> QED BY <1>7, <1>8, <1>9, <1>10, <1>11 DEF ConsumerInv

-----------------------------------------------------------------------------

(* Every step of a consumer, of main(), of the handler or inside sync.c.   *)
LEMMA KbdStep == KbdInv /\ [KbdNext]_kbdAllVars => KbdInv'
<1> SUFFICES ASSUME KbdInv, [KbdNext]_kbdAllVars PROVE KbdInv'
  OBVIOUS
<1>0. cur \in Threads /\ SyncInv /\ TakenValue /\ ThreadInv
  BY AssertsHold DEF KbdInv, SyncInv
<1>1. SyncInv' /\ TakenValue'
  BY <1>0, KbdSyncStep, SyncStep, TakenStep
<1>2. CASE MainStep
  <2>1. cur = main_thread /\ cur \notin Clients /\ UNCHANGED <<cur, syncVars, ioqVars, kbdVars>>
    BY <1>0, <1>2, StartEffects DEF MainStep, MainStart, OwnIntr, IntrSet, Clients
  <2> QED BY <1>0, <1>1, <2>1, NobodyOnDuty, IdleStep DEF KbdInv
<1>3. CASE Preempt /\ UNCHANGED <<ioqVars, kbdVars>>
  <2>1. intr = INTR_ON /\ cur' \in Threads /\ UNCHANGED syncVars
    BY <1>0, <1>3, TickEffects DEF Preempt
  <2> QED BY <1>1, <1>3, <2>1, NobodyOnDuty, IdleStep DEF KbdInv
<1>4. CASE CallStep /\ UNCHANGED <<ioqVars, kbdVars>>
  BY <1>1, <1>4, InCallStep DEF KbdInv
<1>5. CASE KeyInterrupt \/ UnknownKey
  BY <1>1, <1>5, KeyStep, UnknownStep DEF KbdInv
<1>6. CASE ConsumerStep
  <2>1. CASE IntrDisableStep \/ IntrRestoreStep
    BY <1>1, <2>1, FlagSteps DEF KbdInv
  <2>2. CASE TestStep \/ GetStep
    BY <1>1, <2>2, TestStepInv, GetStepInv DEF KbdInv
  <2>3. CASE ConsoleAcquire("str_acquire", "str_put") \/ ConsoleAcquire("chr_acquire", "chr_put")
    BY <1>1, <2>3, ConsoleAcquireInv DEF KbdInv
  <2>4. CASE ConsoleRelease("str_release", "get") \/ ConsoleRelease("chr_release", "restore")
    BY <1>1, <2>4, ConsoleReleaseInv DEF KbdInv
  <2>5. CASE Put("str_put", "str_release", ARG) \/ Put("chr_put", "chr_release", byte[cur])
    BY <1>1, <2>5, PutPrefixInv, PutCharInv DEF KbdInv
  <2> QED BY <1>6, <2>1, <2>2, <2>3, <2>4, <2>5 DEF ConsumerStep
<1>7. CASE UNCHANGED kbdAllVars
  <2> USE <1>7 DEF kbdAllVars, allVars, vars, syncVars, lockVars, callVars, ioqVars, kbdVars
  <2>1. DutyInv'
    BY DEF KbdInv, ConsumerInv, DutyInv, OffDuty, OnDuty
  <2>2. RingInv' /\ CharInv'
    BY DEF KbdInv, ConsumerInv, RingInv, CharInv, next_pos
  <2>3. OrderInv' /\ PrefixInv'
    BY DEF KbdInv, ConsumerInv, OrderInv, InOrder, Carried, Carriers, Content, PrefixInv,
           PrefixAndCharacter
  <2> QED BY <1>1, <2>1, <2>2, <2>3 DEF KbdInv, ConsumerInv
<1> QED BY <1>2, <1>3, <1>4, <1>5, <1>6, <1>7 DEF KbdNext

(* At most one consumer is between intr_disable and intr_set_status, it is *)
(* the running one, and what it tested, carries and wrote agrees with the  *)
(* ring and the screen.                                                    *)
THEOREM KbdInvariance == KbdSpec => []KbdInv
BY KbdInitInv, KbdStep, PTL DEF KbdSpec

(* The running system uses threads and locks as sync.c allows: no ASSERT   *)
(* of thread.c, sync.c or ioqueue.c fails.                                 *)
THEOREM KbdUsesLocks == KbdSpec => SyncSpec /\ []NoPanic
<1>1. KbdInit => SyncInit
  BY DEF KbdInit
<1>2. KbdInv => NoPanic
  BY DEF KbdInv, SyncInv, ThreadInv
<1> QED BY <1>1, <1>2, KbdInvariance, KbdSyncStep, PTL DEF KbdSpec, SyncSpec

(* No consumer ever enters the loop of ioq_getchar: the byte ioq_empty saw *)
(* is still there when the consumer comes for it, past the console lock.   *)
THEOREM KbdNeverWaits == KbdSpec => []ConsumersNeverWait
<1>1. KbdInv => ConsumersNeverWait
  BY DEF KbdInv, ConsumerInv, DutyInv, Duty, ConsumersNeverWait
<1> QED BY <1>1, KbdInvariance, PTL

(* Every character the interrupt handler put into kbd_buf is shown once,   *)
(* in the order typed, or is still in a consumer's hands or in the ring.   *)
THEOREM KbdInOrder == KbdSpec => []InOrder
<1>1. KbdInv => InOrder
  BY DEF KbdInv, ConsumerInv, OrderInv
<1> QED BY <1>1, KbdInvariance, PTL

(* A consumer's prefix is followed by its own character on the screen.     *)
THEOREM KbdPrefix == KbdSpec => []PrefixAndCharacter
<1>1. KbdInv => PrefixAndCharacter
  BY DEF KbdInv, ConsumerInv, PrefixInv
<1> QED BY <1>1, KbdInvariance, PTL

(* A key with a character is lost exactly when the one before it has not   *)
(* been taken: that a ring of 64 bytes holds one does not depend on the    *)
(* bufsize of an instance.                                                 *)
THEOREM KbdLostBehindOne == KbdSpec => LostBehindOne
<1> DEFINE A == keys' # keys /\ screen' = screen => (accepted' = accepted <=> Content # << >>)
<1>1. KbdInv /\ [KbdNext]_kbdAllVars => [A]_kbdAllVars
  <2> SUFFICES ASSUME KbdInv, [KbdNext]_kbdAllVars, keys' # keys, screen' = screen
               PROVE  accepted' = accepted <=> Content # << >>
    OBVIOUS
  <2>0. RingInv /\ accepted \in Seq(1..MaxKeys) /\ keys \in 0..MaxKeys
        /\ screen \in Seq((Clients \cup {NULL}) \X (0..(MaxKeys + 1)))
    BY DEF KbdInv, ConsumerInv, OrderInv, CharInv, PrefixInv
  <2>1. KeyInterrupt
    <3>1. KeyInterrupt \/ UnknownKey
      BY DEF KbdNext, ConsumerStep, MainStep, IntrDisableStep, TestStep, ConsoleAcquire,
             ConsoleRelease, Put, GetStep, IntrRestoreStep, kbdAllVars, kbdVars
    <3>2. ~UnknownKey
      <4>1. Append(screen, <<NULL, UNKNOWN>>) # screen
        <5>1. Len(Append(screen, <<NULL, UNKNOWN>>)) = Len(screen) + 1 /\ Len(screen) \in Nat
          BY <2>0
        <5> QED BY <5>1
      <4> QED BY <4>1 DEF UnknownKey
    <3> QED BY <3>1, <3>2
  <2>2. Content # << >> <=> head # tail
    <3>1. <<buffer[tail]>> # << >>
      OBVIOUS
    <3> QED BY <2>0, <3>1, ContentIs DEF InRing
  <2>3. CASE ioq_full
    BY <2>0, <2>1, <2>2, <2>3, NextPos DEF KeyInterrupt, ioq_full, RingInv
  <2>4. CASE ~ioq_full
    <3>1. head = tail /\ accepted' = Append(accepted, keys')
      BY <2>0, <2>1, <2>4 DEF KeyInterrupt, ioq_full, RingInv
    <3>2. Append(accepted, keys') # accepted
      <4>1. Len(Append(accepted, keys')) = Len(accepted) + 1 /\ Len(accepted) \in Nat
        BY <2>0
      <4> QED BY <4>1
    <3> QED BY <2>2, <3>1, <3>2
  <2> QED BY <2>3, <2>4
<1> QED BY <1>1, KbdInvariance, PTL DEF KbdSpec, LostBehindOne
=============================================================================
