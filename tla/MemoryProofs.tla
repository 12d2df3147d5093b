---------------------------- MODULE MemoryProofs ----------------------------
(***************************************************************************)
(* The memory manager gives no frame away twice and keeps its books, for   *)
(* any number of processes, which share one page directory, and any sizes  *)
(* of the pools.                                                           *)
(*                                                                         *)
(* The argument is that one thread at a time works on bitmaps and page     *)
(* tables: main() while it makes the threads, with interrupts off, then    *)
(* the process that has the user pool's lock.  The page tables it takes    *)
(* from the kernel pool are protected by that lock too, as main() is done. *)
(* So what bitmap_scan found is still free when bitmap_set takes it.       *)
(* Nothing happens after a panic, so the inductive invariant speaks of the *)
(* states before one, and the properties are shown of the step that panics. *)
(***************************************************************************)
EXTENDS Memory, SyncProofs

Full(pf) == pool_bitmap[pf] = 0..(PoolSize[pf] - 1)

(* t works on bitmaps and tables: it is inside a request and has its lock. *)
Working(t) == at[t] \notin {"out", "return"} /\ pc[t] = "run"

(* The places in memory.c; the last three are in the making of a table. *)
TableAt == {"table_scan", "table_set", "table_map"}
LoopAt  == {"palloc_scan", "palloc_set", "map"} \cup TableAt
Places  == {"out", "vaddr_scan", "vaddr_set", "mark", "unlock", "return"} \cup LoopAt

SpaceOf(t) == IF t \in Processes THEN t ELSE PF_KERNEL
PoolOf(t) == IF t \in Processes THEN PF_USER ELSE PF_KERNEL
Calls == [fn : {NULL, "get_kernel_pages", "get_user_pages", "get_a_page"},
          pf : pool_flags, start : Int, page : Int, cnt : Nat, total : Nat,
          bit : Int, table : Int]

LocalTypes ==
  /\ at \in [Threads -> Places]
  /\ call \in [Threads -> Calls]
  /\ making \in [who : Clients \cup {NULL}, step : {"none", "pcb", "bitmap", "pgdir"},
                 ret : Int]
  /\ pool_bitmap \in [pool_flags -> SUBSET Int]
  /\ vaddr_bitmap \in [Spaces -> SUBSET Int]

(* main() makes the threads before it lets any of them run. *)
MainIdle ==
  /\ at[main_thread] = "out" /\ making.step = "none"
  /\ Started = Clients /\ vaddr_bitmap[PF_KERNEL] # {}
BootInv ==
  /\ MainIdle \/ Clients = {} \/ (intr = INTR_OFF /\ cur = main_thread)
  /\ \A t \in Clients : at[t] # "out" \/ pc[t] # "run" => MainIdle
  /\ Started # {} \/ making.step \in {"bitmap", "pgdir"} => vaddr_bitmap[PF_KERNEL] # {}
  /\ making.step # "none" => making.who \in Clients \ Started
  /\ making.step \in {"bitmap", "pgdir"} => making.who \in Processes
  /\ at[main_thread] = "out" /\ making.step # "none" =>
       \/ making.ret = -1 /\ Full(PF_KERNEL)
       \/ making.ret # -1 /\ <<PF_KERNEL, making.ret>> \in Mapped
  /\ \A t \in Processes : t \in Started /\ pgdir[t] = ABSENT => Full(PF_KERNEL)
  /\ \A t \in Threads : at[t] # "out" => t = main_thread \/ t \in Processes

(* Processes use the user pool's lock and no other; they have it while     *)
(* they work, and give it back unless the pool is empty.                   *)
LockingInv ==
  /\ \A t \in Threads :
       /\ depth[t][kernel_lock] = 0
       /\ pc[t] # "run" => plock[t] = user_lock
       /\ pc[t] \in AcquirePC => at[t] \in {"vaddr_scan", "mark"}
       /\ pc[t] \in ReleasePC => at[t] = "return"
       /\ t \in Processes /\ Working(t) => depth[t][user_lock] > 0
       /\ t \notin Processes => depth[t][user_lock] = 0
  /\ ~Full(PF_USER) =>
       \A t \in Processes : depth[t][user_lock] = IF Working(t) THEN 1 ELSE 0

(* What the page tables say of each other. *)
TableInv ==
  /\ OneUse
  /\ \A d \in Tables : pde[d] # FRAME_0
  /\ \A p \in Mapped : p[1] = PF_USER => p[2] \div TablePages \in Made

(* The arguments of a request. *)
RequestOK(t) ==
  /\ call[t].pf = PoolOf(t)
  /\ call[t].fn \in IF t \in Processes THEN {"get_user_pages", "get_a_page"}
                                       ELSE {"get_kernel_pages"}
  /\ call[t].cnt >= 1 /\ call[t].cnt <= call[t].total
  /\ call[t].fn = "get_user_pages" => UserPages - 1 \in vaddr_bitmap[t]

(* The pages of a request: none yet, none to be had, or reserved, and      *)
(* mapped up to the one the loop of malloc_page is at.                     *)
AskingOK(t) ==
  /\ at[t] \in {"vaddr_scan", "vaddr_set"} =>
       /\ call[t].fn # "get_a_page"
       /\ call[t].start = -1 /\ call[t].page = -1 /\ call[t].cnt = call[t].total
  /\ at[t] = "vaddr_set" =>
       /\ call[t].bit \in 0..(SpaceSize(SpaceOf(t)) - call[t].total)
       /\ \A i \in call[t].bit..(call[t].bit + call[t].total - 1) :
            i \notin vaddr_bitmap[SpaceOf(t)]
  /\ at[t] = "mark" =>
       /\ call[t].fn = "get_a_page" /\ call[t].total = 1
       /\ call[t].start = UserPages - 1 /\ call[t].page = UserPages - 1
       /\ UserPages - 1 \notin vaddr_bitmap[t]
LoopOK(t) ==
  at[t] \in LoopAt =>
    \/ /\ call[t].page = -1 /\ call[t].start = -1
       /\ at[t] \notin TableAt
       /\ bitmap_scan(vaddr_bitmap[SpaceOf(t)], SpaceSize(SpaceOf(t)), call[t].total) = -1
    \/ /\ call[t].start >= 0
       /\ call[t].page = call[t].start + (call[t].total - call[t].cnt)
       /\ call[t].start + call[t].total <= SpaceSize(SpaceOf(t))
       /\ \A i \in call[t].start..(call[t].start + call[t].total - 1) :
            /\ i \in vaddr_bitmap[SpaceOf(t)]
            /\ i < call[t].page => <<PoolOf(t), i>> \in Mapped
DoneOK(t) ==
  at[t] \in {"unlock", "return"} =>
    \/ call[t].start = -1 /\ Full(PoolOf(t))
    \/ /\ call[t].start >= 0
       /\ \A i \in call[t].start..(call[t].start + call[t].total - 1) :
            i \in vaddr_bitmap[SpaceOf(t)] /\ <<PoolOf(t), i>> \in Mapped

(* The frames of a request: found free, then taken and not used yet. *)
FrameOK(t) ==
  /\ at[t] = "palloc_set" =>
       call[t].bit \in (0..(PoolSize[PoolOf(t)] - 1)) \ pool_bitmap[PoolOf(t)]
  /\ at[t] \in {"map"} \cup TableAt =>
       /\ call[t].bit \in pool_bitmap[PoolOf(t)]
       /\ <<PoolOf(t), call[t].bit>> \notin Used
  /\ at[t] \in TableAt =>
       t \in Processes /\ pde[call[t].page \div TablePages] = ABSENT
  /\ at[t] = "table_set" =>
       call[t].table \in (0..(KernelFrames - 1)) \ pool_bitmap[PF_KERNEL]
  /\ at[t] = "table_map" =>
       \/ call[t].table = -1 /\ Full(PF_KERNEL)
       \/ call[t].table \in pool_bitmap[PF_KERNEL] /\ <<PF_KERNEL, call[t].table>> \notin Used

CallOK(t) == RequestOK(t) /\ AskingOK(t) /\ LoopOK(t) /\ DoneOK(t) /\ FrameOK(t)
CallsOK == \A t \in Threads : at[t] # "out" => CallOK(t)

(* Every frame taken is accounted for. *)
InFlight(t, pf, i) ==
  \/ at[t] \in {"map"} \cup TableAt /\ pf = PoolOf(t) /\ i = call[t].bit
  \/ at[t] = "table_map" /\ pf = PF_KERNEL /\ i = call[t].table
BooksInv ==
  /\ \A g \in granted : AddressOf(g) \in Mapped
  /\ \A pf \in pool_flags : \A i \in pool_bitmap[pf] :
       <<pf, i>> \in Used \/ \E t \in Threads : InFlight(t, pf, i)

(* The pages a request has reserved and not come to, those it has mapped,  *)
(* and those of a space that are reserved by no request under way.         *)
Coming(t, i) ==
  /\ at[t] \in LoopAt /\ call[t].page # -1
  /\ i \in call[t].page..(call[t].start + call[t].total - 1)
Claim(t, i) ==
  /\ at[t] \in LoopAt \cup {"unlock", "return"} /\ call[t].start >= 0
  /\ i \in call[t].start..(call[t].start + call[t].total - 1)
  /\ at[t] \in LoopAt => i < call[t].page
Settled(s, i) ==
  /\ i \in vaddr_bitmap[s]
  /\ \A t \in Threads : SpaceOf(t) = s => ~Coming(t, i)
Claims(s, i) == <<s, i>> \in granted \/ \E t \in Threads : SpaceOf(t) = s /\ Claim(t, i)

(* The processes share the page directory: what is mapped in it was        *)
(* reserved by somebody before, and no address of it has two claimants.    *)
ShareInv ==
  /\ \A p \in Mapped : \E s \in Spaces : Half(s) = p[1] /\ Settled(s, p[2])
  /\ \A g \in granted : Settled(g[1], g[2])
  /\ \A r, s \in Spaces : \A i : Half(r) = Half(s) /\ Claims(r, i) /\ Claims(s, i) => r = s

Live ==
  /\ SyncInv /\ MemTypeOK /\ LocalTypes /\ BootInv /\ LockingInv
  /\ TableInv /\ CallsOK /\ BooksInv /\ ShareInv

(* What the runs check of a state, a panic's included. *)
Safe ==
  MemTypeOK /\ FramesOwned /\ BooksExact /\ LockKeptOnlyIfEmpty /\ PanicCauses

MemInv == Safe /\ (~panicked => Live)

-----------------------------------------------------------------------------
(* Bitmaps, pages, frames and tables. *)

(* bitmap_scan finds free bits inside the bitmap, or there are none. *)
LEMMA ScanFacts ==
  ASSUME NEW taken, NEW size \in Nat, NEW cnt \in Nat \ {0}
  PROVE  LET r == bitmap_scan(taken, size, cnt)
         IN  \/ r = -1 /\ \A i \in 0..(size - cnt) : \E j \in i..(i + cnt - 1) : j \in taken
             \/ r \in 0..(size - cnt) /\ \A j \in r..(r + cnt - 1) : j \notin taken
<1> DEFINE fits == {i \in 0..(size - cnt) : \A j \in i..(i + cnt - 1) : j \notin taken}
           r == bitmap_scan(taken, size, cnt)
<1>1. CASE fits = {}
  BY <1>1 DEF bitmap_scan
<1>2. CASE fits # {}
  <2>1. \E m \in fits : \A k \in fits : m <= k
    <3>1. fits \in SUBSET Nat
      OBVIOUS
    <3> HIDE DEF fits
    <3> QED BY <1>2, <3>1, Least
  <2>2. r = CHOOSE i \in fits : \A j \in fits : i <= j
    BY <1>2 DEF bitmap_scan
  <2>3. r \in fits
    <3> HIDE DEF fits, r
    <3> QED BY <2>1, <2>2
  <2> QED BY <2>3
<1> QED BY <1>1, <1>2

(* One bit is found unless all are taken. *)
LEMMA ScanFull ==
  ASSUME NEW size \in Nat, NEW taken \in SUBSET (0..(size - 1))
  PROVE  /\ bitmap_scan(taken, size, 1) = -1 => taken = 0..(size - 1)
         /\ bitmap_scan(taken, size, 1) # -1 => bitmap_scan(taken, size, 1) \in (0..(size - 1)) \ taken
<1>1. LET r == bitmap_scan(taken, size, 1)
      IN  \/ r = -1 /\ \A i \in 0..(size - 1) : \E j \in i..(i + 1 - 1) : j \in taken
          \/ r \in 0..(size - 1) /\ \A j \in r..(r + 1 - 1) : j \notin taken
  <2>1. 1 \in Nat \ {0}
    OBVIOUS
  <2> QED BY <2>1, ScanFacts
<1>2. \A i \in Int : \A j \in i..(i + 1 - 1) : j = i
  OBVIOUS
<1>3. \A i \in 0..(size - 1) : i \in i..(i + 1 - 1)
  OBVIOUS
<1>4. bitmap_scan(taken, size, 1) = -1 => taken = 0..(size - 1)
  <2> SUFFICES ASSUME bitmap_scan(taken, size, 1) = -1, NEW i \in 0..(size - 1)
               PROVE  i \in taken
    OBVIOUS
  <2>1. -1 \notin 0..(size - 1)
    OBVIOUS
  <2>2. \E j \in i..(i + 1 - 1) : j \in taken
    BY <1>1, <2>1
  <2> QED BY <1>2, <2>2
<1>5. bitmap_scan(taken, size, 1) # -1 => bitmap_scan(taken, size, 1) \in (0..(size - 1)) \ taken
  BY <1>1, <1>3
<1> QED BY <1>4, <1>5

(* The sizes are positive numbers. *)
LEMMA Sizes ==
  /\ \A pf \in pool_flags : PoolSize[pf] \in Nat \ {0}
  /\ \A s \in Spaces : SpaceSize(s) \in Nat \ {0}
  /\ KernelFrames \in Nat \ {0} /\ UserFrames \in Nat \ {0} /\ UserPages \in Nat /\ UserPages > 1
  /\ TablePages \in Nat \ {0} /\ BitmapPages \in Nat \ {0} /\ MaxPages \in Nat \ {0}
  /\ MainRequests \subseteq Nat \ {0}
  /\ PoolSize[PF_KERNEL] = KernelFrames /\ PoolSize[PF_USER] = UserFrames
  /\ PF_KERNEL \in pool_flags /\ PF_USER \in pool_flags /\ PF_KERNEL # PF_USER
  /\ HalfSize[PF_KERNEL] = KernelFrames /\ HalfSize[PF_USER] = UserPages
BY MemoryAssumption DEF PoolSize, SpaceSize, HalfSize, Half, pool_flags, PF_KERNEL, PF_USER

(* A page is a half of the directory and a number. *)
LEMMA PagesAre ==
  /\ \A pf, i : <<pf, i>> \in Pages <=> pf \in pool_flags /\ i \in 0..(HalfSize[pf] - 1)
  /\ \A p \in Pages : p = <<p[1], p[2]>> /\ p[1] \in pool_flags /\ p[2] \in 0..(HalfSize[p[1]] - 1)
BY DEF Pages

(* A frame is a pool and a number; ABSENT and FRAME_0 are no frames of a     *)
(* pool.                                                                    *)
LEMMA FramesAre ==
  /\ \A pf, i : <<pf, i>> \in Frames <=> pf \in pool_flags /\ i \in 0..(PoolSize[pf] - 1)
  /\ \A f \in Frames : f = <<f[1], f[2]>> /\ f[1] \in pool_flags /\ f[2] \in 0..(PoolSize[f[1]] - 1)
  /\ ABSENT \notin Frames /\ FRAME_0 \notin Frames /\ FRAME_0 # ABSENT
<1>1. /\ \A pf, i : <<pf, i>> \in Frames <=> pf \in pool_flags /\ i \in 0..(PoolSize[pf] - 1)
      /\ \A f \in Frames : f = <<f[1], f[2]>> /\ f[1] \in pool_flags /\ f[2] \in 0..(PoolSize[f[1]] - 1)
  BY DEF Frames
<1>2. "absent" \notin pool_flags /\ "physical" \notin pool_flags
  BY DEF pool_flags, PF_KERNEL, PF_USER
<1> QED BY <1>1, <1>2 DEF ABSENT, FRAME_0

(* The table of every page of a process is one of the directory. *)
LEMMA TablesAre ==
  ASSUME NEW i \in 0..(UserPages - 1)
  PROVE  i \div TablePages \in Tables
<1>1. i \in Nat /\ UserPages \in Nat /\ TablePages \in Nat \ {0} /\ i <= UserPages
  BY Sizes
<1>2. i \div TablePages \in 0..(UserPages \div TablePages)
  BY <1>1
<1> QED BY <1>2 DEF Tables

-----------------------------------------------------------------------------
(* One thread works. *)

(* Where the threads that do not work are. *)
Resting == {"out", "vaddr_scan", "mark", "return"}

(* main() takes no lock, and is no process. *)
LEMMA ThreadKinds ==
  /\ main_thread \in Threads /\ main_thread \notin Clients /\ main_thread \notin Processes
  /\ Processes \subseteq Clients /\ Clients \subseteq Threads
  /\ \A t \in Threads : t = main_thread \/ t \in Clients
  /\ kernel_lock \in Locks /\ user_lock \in Locks /\ kernel_lock # user_lock
  /\ PF_KERNEL \notin Processes
BY MainAssumption, MemoryAssumption, SpacesAssumption DEF Clients

(* The running thread works: nobody else does, and it has its own pool and *)
(* its own pages.                                                          *)
LEMMA WorkFacts ==
  ASSUME Live, Working(cur)
  PROVE  /\ cur \in Threads /\ (cur = main_thread \/ cur \in Processes)
         /\ CallOK(cur) /\ call[cur] \in Calls /\ at[cur] # "out"
         /\ my.pf = PoolOf(cur) /\ Space = SpaceOf(cur)
         /\ PoolOf(cur) \in pool_flags /\ SpaceOf(cur) \in Spaces
         /\ \A t \in Threads : t # cur => at[t] \in Resting
         /\ cur = main_thread => \A t \in Clients : at[t] = "out" /\ pc[t] = "run"
         /\ cur \in Processes => MainIdle
<1> USE ThreadKinds DEF Live
<1>1. /\ cur \in Threads /\ at[cur] \notin {"out", "return"} /\ pc[cur] = "run"
      /\ at \in [Threads -> Places] /\ call \in [Threads -> Calls] /\ pc \in [Threads -> PC]
      /\ depth \in [Threads -> [Locks -> 0..MaxDepth]]
  BY AssertsHold DEF Working, LocalTypes, SyncInv, SyncTypeOK
<1>2. cur = main_thread \/ cur \in Processes
  BY <1>1 DEF BootInv
<1>3. CallOK(cur)
  BY <1>1 DEF CallsOK
<1>4. /\ my.pf = PoolOf(cur) /\ Space = SpaceOf(cur)
      /\ PoolOf(cur) \in pool_flags /\ SpaceOf(cur) \in Spaces
  BY <1>3, Sizes DEF CallOK, RequestOK, my, Space, SpaceOf, PoolOf, Spaces
<1>5. cur = main_thread => \A t \in Clients : at[t] = "out" /\ pc[t] = "run"
  BY <1>1 DEF BootInv, MainIdle
<1>6. cur \in Processes => MainIdle
  BY DEF BootInv
<1>7. ASSUME NEW t \in Threads, t # cur PROVE at[t] \in Resting
  <2>1. CASE cur = main_thread
    BY <1>5, <1>7, <2>1 DEF Resting
  <2>2. CASE cur \in Processes /\ t = main_thread
    BY <1>6, <2>2 DEF MainIdle, Resting
  <2>3. CASE cur \in Processes /\ t # main_thread
    <3>1. CASE at[t] # "out" /\ pc[t] = "run" /\ at[t] # "return"
      <4>1. t \in Processes /\ Working(t)
        BY <2>3, <3>1 DEF BootInv, Working
      <4>2. depth[t][user_lock] > 0 /\ depth[cur][user_lock] > 0
        BY <1>1, <2>3, <4>1 DEF LockingInv
      <4>3. Owns(t, user_lock) /\ Owns(cur, user_lock)
        BY <4>2 DEF Owns
      <4> QED BY <1>1, <1>7, <4>3 DEF SyncInv, LockInv, OneOwner
    <3>2. CASE pc[t] # "run"
      <4>1. pc[t] \in AcquirePC \/ pc[t] \in ReleasePC
        BY <1>1, <3>2 DEF PC
      <4> QED BY <4>1 DEF LockingInv, Resting
    <3> QED BY <3>1, <3>2 DEF Resting
  <2> QED BY <1>2, <2>1, <2>2, <2>3
<1> QED BY <1>1, <1>2, <1>3, <1>4, <1>5, <1>6, <1>7

(* The bitmaps and the tables only grow, inside their bounds, and the      *)
(* pages only in the running thread's space.                               *)
Grows ==
  /\ pool_bitmap' \in [pool_flags -> SUBSET Int]
  /\ vaddr_bitmap' \in [Spaces -> SUBSET Int]
  /\ \A pf \in pool_flags : pool_bitmap[pf] \subseteq pool_bitmap'[pf]
  /\ \A s \in Spaces : vaddr_bitmap[s] \subseteq vaddr_bitmap'[s]
  /\ \A s \in Spaces : s # SpaceOf(cur) => vaddr_bitmap'[s] = vaddr_bitmap[s]
  /\ Mapped \subseteq Mapped'

(* A pool that is full stays full. *)
LEMMA FullStays ==
  ASSUME MemTypeOK, MemTypeOK', Grows, NEW pf \in pool_flags, Full(pf)
  PROVE  Full(pf)'
BY DEF MemTypeOK, Grows, Full

(* A thread that rests keeps what is said of its request while another one *)
(* works.                                                                  *)
LEMMA OthersRest ==
  ASSUME Live, MemTypeOK', Grows, NEW t \in Threads,
         at[t] \in Resting, at[t] # "out", t # cur, cur' = cur,
         at'[t] = at[t], call'[t] = call[t]
  PROVE  CallOK(t)'
<1> USE ThreadKinds DEF Live
<1>1. CallOK(t) /\ (t = main_thread \/ t \in Processes)
  BY DEF CallsOK, BootInv
<1>2. PoolOf(t) \in pool_flags /\ SpaceOf(t) \in Spaces
  BY Sizes DEF PoolOf, SpaceOf, Spaces
<1>3. Full(PoolOf(t)) => Full(PoolOf(t))'
  BY <1>2, FullStays
<1>4. t \in Processes => vaddr_bitmap'[t] = vaddr_bitmap[t]
  BY DEF Grows, SpaceOf, Spaces
<1>5. RequestOK(t)'
  BY <1>1, <1>4 DEF CallOK, RequestOK
<1>6. at[t] \notin LoopAt /\ at[t] # "vaddr_set" /\ at[t] \notin TableAt
      /\ at[t] \notin {"palloc_set", "map", "table_set", "table_map", "unlock"}
  BY DEF Resting, LoopAt, TableAt
<1>7. AskingOK(t)'
  <2>1. at[t] = "mark" => t \in Processes
    BY <1>1 DEF CallOK, AskingOK, RequestOK
  <2> QED BY <1>1, <1>4, <1>6, <2>1 DEF CallOK, AskingOK
<1>8. LoopOK(t)' /\ FrameOK(t)'
  BY <1>6 DEF LoopOK, FrameOK, TableAt
<1>9. DoneOK(t)'
  BY <1>1, <1>2, <1>3 DEF CallOK, DoneOK, Grows
<1> QED BY <1>5, <1>7, <1>8, <1>9 DEF CallOK

(* A space's half of the page directory is that of the pool its frames     *)
(* come from.                                                              *)
LEMMA SpaceFacts ==
  ASSUME NEW t PROVE SpaceOf(t) \in Spaces /\ Half(SpaceOf(t)) = PoolOf(t)
BY ThreadKinds DEF SpaceOf, PoolOf, Half, Spaces

(* What somebody claims is mapped. *)
LEMMA ClaimsMapped ==
  ASSUME Live, NEW s \in Spaces, NEW i, Claims(s, i)
  PROVE  <<Half(s), i>> \in Mapped
<1>1. CASE <<s, i>> \in granted
  <2>1. AddressOf(<<s, i>>) \in Mapped
    BY <1>1 DEF Live, BooksInv
  <2> QED BY <2>1 DEF AddressOf
<1>2. CASE <<s, i>> \notin granted
  <2>1. PICK t \in Threads : SpaceOf(t) = s /\ Claim(t, i)
    BY <1>2 DEF Claims
  <2>2. at[t] # "out" /\ Half(s) = PoolOf(t)
    BY <2>1, SpaceFacts DEF Claim, LoopAt, TableAt
  <2>3. LoopOK(t) /\ DoneOK(t) /\ call[t].start >= 0 /\ call[t].start # -1
    BY <2>1, <2>2 DEF Live, CallsOK, CallOK, Claim
  <2> QED BY <2>1, <2>2, <2>3 DEF Claim, LoopOK, DoneOK
<1> QED BY <1>1, <1>2

(* What a step of the running thread on bitmaps and tables has to show:    *)
(* that its own request is in order, and the books with it, and that it    *)
(* lays claim to a page only when it maps it.                              *)
LEMMA WorkStep ==
  ASSUME Live, Working(cur), UNCHANGED <<allVars, makeVars, granted>>,
         NEW x \in Places \ {"out"}, at' = [at EXCEPT ![cur] = x],
         NEW c \in Calls, call' = [call EXCEPT ![cur] = c],
         x = "return" => cur \notin Processes \/ Full(PF_USER),
         Grows, MemTypeOK', TableInv', CallOK(cur)',
         \A pf \in pool_flags : \A i \in pool_bitmap'[pf] :
           <<pf, i>> \in Used' \/ InFlight(cur, pf, i)',
         \A p \in Mapped' \ Mapped :
           p[1] = PoolOf(cur) /\ p[2] \in vaddr_bitmap'[SpaceOf(cur)] /\ ~Coming(cur, p[2])',
         \A i \in vaddr_bitmap[SpaceOf(cur)] : Coming(cur, i)' => Coming(cur, i),
         \A i : Claim(cur, i)' => Claim(cur, i) \/ <<PoolOf(cur), i>> \notin Mapped
  PROVE  Live'
<1> USE ThreadKinds
<1>0. /\ SyncInv /\ MemTypeOK /\ LocalTypes /\ BootInv /\ LockingInv /\ CallsOK /\ BooksInv
      /\ cur \in Threads /\ pc \in [Threads -> PC]
  BY AssertsHold DEF Live, SyncInv, SyncTypeOK
<1>1. /\ UNCHANGED <<cur, intr, status, panicked, pc, plock, depth, making, pgdir, granted>>
      /\ UNCHANGED allVars
  BY DEF allVars, vars, syncVars, callVars, makeVars
<1>2. SyncInv'
  BY <1>0, <1>1, SyncStep
<1>3. LocalTypes'
  BY <1>0, <1>1 DEF LocalTypes, Grows
<1>4. /\ at'[cur] = x /\ \A t \in Threads : t # cur => at'[t] = at[t] /\ call'[t] = call[t]
      /\ at \in [Threads -> Places] /\ call'[cur] = c
  BY <1>0 DEF LocalTypes
<1>5. /\ \A pf \in pool_flags : Full(pf) => Full(pf)'
      /\ PF_KERNEL \in pool_flags /\ PF_USER \in pool_flags
  BY <1>0, FullStays, Sizes
<1>6. /\ cur = main_thread \/ cur \in Processes
      /\ at[cur] # "out"
      /\ \A t \in Threads : t # cur => at[t] \in Resting
      /\ cur = main_thread => \A t \in Clients : at[t] = "out" /\ pc[t] = "run"
      /\ cur \in Processes => MainIdle
  BY WorkFacts
<1>7. Started' = Started /\ (vaddr_bitmap[PF_KERNEL] # {} => vaddr_bitmap'[PF_KERNEL] # {})
  BY <1>1 DEF Started, Grows, Spaces
<1>8. MainIdle => MainIdle'
  BY <1>1, <1>4, <1>6, <1>7 DEF MainIdle
<1>9. BootInv'
  <2>1. CASE cur = main_thread
    <3>1. ~MainIdle
      BY <1>6, <2>1 DEF MainIdle
    <3>2. Clients = {} \/ intr = INTR_OFF
      BY <1>0, <3>1 DEF BootInv
    <3> QED BY <1>0, <1>1, <1>4, <1>5, <1>6, <1>7, <2>1, <3>2 DEF BootInv
  <2>2. CASE cur \in Processes
    <3>1. MainIdle' /\ MainIdle
      BY <1>6, <1>8, <2>2
    <3> QED BY <1>0, <1>1, <1>4, <1>5, <1>6, <1>7, <2>2, <3>1 DEF BootInv, MainIdle
  <2> QED BY <1>6, <2>1, <2>2
<1>10. \A t \in Threads : t # cur => (Working(t)' <=> Working(t))
  BY <1>1, <1>4 DEF Working
<1>11. LockingInv'
  <2>1. pc[cur] = "run" /\ pc[cur] \notin AcquirePC /\ pc[cur] \notin ReleasePC
        /\ Working(cur)
    BY DEF Working, AcquirePC, ReleasePC
  <2>2. Working(cur)' => Working(cur)
    BY <2>1
  <2>3. \A t \in Threads :
          /\ depth'[t][kernel_lock] = 0
          /\ pc'[t] # "run" => plock'[t] = user_lock
          /\ pc'[t] \in AcquirePC => at'[t] \in {"vaddr_scan", "mark"}
          /\ pc'[t] \in ReleasePC => at'[t] = "return"
          /\ t \in Processes /\ Working(t)' => depth'[t][user_lock] > 0
          /\ t \notin Processes => depth'[t][user_lock] = 0
    BY <1>0, <1>1, <1>4, <1>10, <2>1 DEF LockingInv
  <2>4. ASSUME ~Full(PF_USER)', NEW t \in Processes
        PROVE  depth'[t][user_lock] = IF Working(t)' THEN 1 ELSE 0
    <3>1. ~Full(PF_USER)
      BY <1>5, <2>4
    <3>2. Working(t)' <=> Working(t)
      <4>1. CASE t = cur
        BY <1>1, <1>4, <2>1, <3>1, <4>1 DEF Working
      <4> QED BY <1>10, <4>1
    <3> QED BY <1>0, <1>1, <2>4, <3>1, <3>2 DEF LockingInv
  <2> QED BY <2>3, <2>4 DEF LockingInv
<1>12. CallsOK'
  <2> SUFFICES ASSUME NEW t \in Threads, at'[t] # "out" PROVE CallOK(t)'
    BY DEF CallsOK
  <2>1. CASE t = cur
    <3>1. cur' = t
      BY <1>1, <2>1
    <3> QED BY <1>1, <2>1, <3>1
  <2>2. CASE t # cur
    BY <1>1, <1>4, <1>6, <2>2, OthersRest
  <2> QED BY <2>1, <2>2
<1>13. BooksInv'
  <2>1. \A g \in granted' : AddressOf(g) \in Mapped'
    BY <1>0, <1>1 DEF BooksInv, Grows
  <2>2. \A pf \in pool_flags : \A i \in pool_bitmap'[pf] :
          <<pf, i>> \in Used' \/ \E t \in Threads : InFlight(t, pf, i)'
    BY <1>0, <1>1
  <2> QED BY <2>1, <2>2 DEF BooksInv
<1>14. ShareInv'
  <2>0. ShareInv
    BY DEF Live
  <2>1. \A t \in Threads : \A i : t # cur => ~Coming(t, i)'
    BY <1>4, <1>6 DEF Coming, Resting, LoopAt, TableAt
  <2>2. ASSUME NEW s \in Spaces, NEW i, Settled(s, i) PROVE Settled(s, i)'
    <3>1. i \in vaddr_bitmap'[s]
      BY <2>2 DEF Settled, Grows
    <3>2. ASSUME NEW t \in Threads, SpaceOf(t) = s PROVE ~Coming(t, i)'
      <4>1. CASE t = cur
        <5>1. ~Coming(cur, i) /\ i \in vaddr_bitmap[SpaceOf(cur)]
          BY <2>2, <3>2, <4>1 DEF Settled
        <5>2. ~Coming(cur, i)'
          BY <5>1
        <5> QED BY <1>1, <4>1, <5>2
      <4> QED BY <2>1, <4>1
    <3> QED BY <3>1, <3>2 DEF Settled
  <2>3. ASSUME NEW p \in Mapped' PROVE \E s \in Spaces : Half(s) = p[1] /\ Settled(s, p[2])'
    <3>1. CASE p \in Mapped
      <4>1. PICK s \in Spaces : Half(s) = p[1] /\ Settled(s, p[2])
        BY <2>0, <3>1 DEF ShareInv
      <4> QED BY <2>2, <4>1
    <3>2. CASE p \notin Mapped
      <4>1. PICK s \in Spaces : s = SpaceOf(cur) /\ Half(s) = PoolOf(cur)
        BY SpaceFacts
      <4>2. p[1] = PoolOf(cur) /\ p[2] \in vaddr_bitmap'[s] /\ ~Coming(cur, p[2])'
        BY <2>3, <3>2, <4>1
      <4>3. \A t \in Threads : ~Coming(t, p[2])'
        BY <1>1, <2>1, <4>2
      <4>4. Settled(s, p[2])'
        BY <4>2, <4>3 DEF Settled
      <4> QED BY <4>1, <4>2, <4>4
    <3> QED BY <3>1, <3>2
  <2>4. \A g \in granted' : Settled(g[1], g[2])'
    <3>1. \A g \in granted : g[1] \in Spaces /\ Settled(g[1], g[2])
      BY <1>0, <2>0 DEF ShareInv, MemTypeOK
    <3> QED BY <1>1, <2>2, <3>1
  <2>5. ASSUME NEW s \in Spaces, NEW i, Claims(s, i)', ~Claims(s, i)
        PROVE  s = SpaceOf(cur) /\ <<PoolOf(cur), i>> \notin Mapped
    <3>1. PICK t \in Threads : SpaceOf(t) = s /\ Claim(t, i)'
      BY <1>1, <2>5 DEF Claims
    <3>2. ~Claim(t, i)
      BY <2>5, <3>1 DEF Claims
    <3>3. t = cur
      BY <1>4, <3>1, <3>2 DEF Claim
    <3>4. Claim(cur, i)' /\ ~Claim(cur, i)
      BY <1>1, <3>1, <3>2, <3>3
    <3> QED BY <3>1, <3>3, <3>4
  <2>6. ASSUME NEW r \in Spaces, NEW s \in Spaces, NEW i,
               Half(r) = Half(s), Claims(r, i)', Claims(s, i)'
        PROVE  r = s
    <3>1. CASE Claims(r, i) /\ Claims(s, i)
      BY <2>0, <2>6, <3>1 DEF ShareInv
    <3>2. CASE ~Claims(r, i)
      <4>1. r = SpaceOf(cur) /\ <<Half(s), i>> \notin Mapped
        BY <2>5, <2>6, <3>2, SpaceFacts
      <4>2. ~Claims(s, i)
        BY <4>1, ClaimsMapped
      <4> QED BY <2>5, <2>6, <4>1, <4>2
    <3>3. CASE ~Claims(s, i)
      <4>1. s = SpaceOf(cur) /\ <<Half(r), i>> \notin Mapped
        BY <2>5, <2>6, <3>3, SpaceFacts
      <4>2. ~Claims(r, i)
        BY <4>1, ClaimsMapped
      <4> QED BY <2>5, <2>6, <4>1, <4>2
    <3> QED BY <3>1, <3>2, <3>3
  <2> QED BY <2>3, <2>4, <2>6 DEF ShareInv
<1> QED BY <1>2, <1>3, <1>9, <1>11, <1>12, <1>13, <1>14 DEF Live

(* A frame that is taken and not used is the running thread's. *)
LEMMA FrameBooks ==
  ASSUME Live, Working(cur), NEW pf \in pool_flags, NEW i \in pool_bitmap[pf]
  PROVE  <<pf, i>> \in Used \/ InFlight(cur, pf, i)
<1>1. \A t \in Threads : t # cur => at[t] \notin {"map", "table_map"} \cup TableAt
  BY WorkFacts DEF Resting, TableAt
<1>2. <<pf, i>> \in Used \/ \E t \in Threads : InFlight(t, pf, i)
  BY DEF Live, BooksInv
<1> QED BY <1>1, <1>2 DEF InFlight

(* The running thread is at a place inside memory.c. *)
LEMMA InFacts ==
  ASSUME Live, NEW label \in Places \ {"out", "return"}, In(label)
  PROVE  /\ Working(cur) /\ cur \in Threads /\ at[cur] = label
         /\ at \in [Threads -> Places] /\ call \in [Threads -> Calls]
         /\ call[cur] = my /\ my \in Calls
         /\ my.pf = PoolOf(cur) /\ PoolOf(cur) \in pool_flags
         /\ Space = SpaceOf(cur) /\ SpaceOf(cur) \in Spaces
         /\ SpaceSize(SpaceOf(cur)) \in Nat /\ PoolSize[PoolOf(cur)] \in Nat
         /\ my.total \in Nat \ {0} /\ my.cnt \in Nat
<1>1. Working(cur) /\ at[cur] = label
  BY DEF In, At, Working
<1>2. /\ cur \in Threads /\ CallOK(cur) /\ call[cur] \in Calls
      /\ my.pf = PoolOf(cur) /\ PoolOf(cur) \in pool_flags
      /\ Space = SpaceOf(cur) /\ SpaceOf(cur) \in Spaces
  BY <1>1, WorkFacts
<1>3. my.total \in Nat /\ my.cnt \in Nat
  BY <1>2 DEF my, Calls
<1>4. my.total # 0
  BY <1>2, <1>3 DEF CallOK, RequestOK, my
<1> QED BY <1>1, <1>2, <1>3, <1>4, Sizes DEF my, Live, LocalTypes

(* The request itself does not change while it is worked on. *)
LEMMA RequestStays ==
  ASSUME Live, Working(cur), cur' = cur, Grows,
         call'[cur].fn = my.fn, call'[cur].pf = my.pf, call'[cur].total = my.total,
         call'[cur].cnt >= 1, call'[cur].cnt <= my.total
  PROVE  RequestOK(cur)'
<1>1. RequestOK(cur) /\ cur \in Threads
  BY WorkFacts DEF CallOK
<1>2. cur \in Processes => vaddr_bitmap[cur] \subseteq vaddr_bitmap'[cur]
  BY DEF Grows, Spaces
<1> QED BY <1>1, <1>2 DEF RequestOK, my, PoolOf

(* A step on the thread's local variables only. *)
LEMMA LocalWork ==
  ASSUME Live, Working(cur),
         UNCHANGED <<allVars, pool_bitmap, vaddr_bitmap, pte, pde, makeVars, granted>>,
         NEW x \in Places \ {"out"}, at' = [at EXCEPT ![cur] = x],
         NEW c \in Calls, call' = [call EXCEPT ![cur] = c],
         x = "return" => cur \notin Processes \/ Full(PF_USER),
         c.fn = my.fn, c.pf = my.pf, c.total = my.total, c.cnt = my.cnt,
         (AskingOK(cur) /\ LoopOK(cur) /\ DoneOK(cur) /\ FrameOK(cur))',
         \A pf, i : InFlight(cur, pf, i) => InFlight(cur, pf, i)',
         \A i : (Coming(cur, i)' => Coming(cur, i)) /\ (Claim(cur, i)' => Claim(cur, i))
  PROVE  Live'
<1>0. cur' = cur /\ UNCHANGED <<granted, pgdir>>
  BY DEF allVars, vars, makeVars
<1>1. UNCHANGED <<Mapped, Made, Used>> /\ Mapped' = Mapped /\ Used' = Used /\ Made' = Made
  BY DEF Mapped, Made, Used
<1>2. MemTypeOK' /\ TableInv'
  <2>1. MemTypeOK'
    BY <1>0 DEF Live, MemTypeOK
  <2>2. TableInv'
    BY <1>1 DEF Live, TableInv, OneUse
  <2> QED BY <2>1, <2>2
<1>3. Grows
  BY <1>1 DEF Live, LocalTypes, Grows
<1>4. call'[cur] = c /\ my.cnt >= 1 /\ my.cnt <= my.total
  <2>1. cur \in Threads /\ call \in [Threads -> Calls] /\ CallOK(cur)
    BY WorkFacts DEF Live, LocalTypes
  <2> QED BY <2>1 DEF CallOK, RequestOK, my
<1>5. RequestOK(cur)'
  BY <1>0, <1>3, <1>4, RequestStays
<1>6. CallOK(cur)'
  BY <1>5 DEF CallOK
<1>7. \A pf \in pool_flags : \A i \in pool_bitmap'[pf] :
        <<pf, i>> \in Used' \/ InFlight(cur, pf, i)'
  BY <1>1, FrameBooks
<1> QED BY <1>1, <1>2, <1>3, <1>6, <1>7, WorkStep

-----------------------------------------------------------------------------
(* The steps of memory.c on local variables. *)

(* vaddr_get's bitmap_scan: free pages, or none. *)
LEMMA VaddrScanInv == ASSUME Live, VaddrScan PROVE Live'
<1> DEFINE bit == bitmap_scan(vaddr_bitmap[Space], SpaceSize(Space), my.total)
           x == IF bit = -1 THEN "palloc_scan" ELSE "vaddr_set"
           c == [my EXCEPT !.bit = bit]
<1>0. "vaddr_scan" \in Places \ {"out", "return"} /\ In("vaddr_scan")
  BY DEF Places, VaddrScan
<1>1. /\ Working(cur) /\ cur \in Threads /\ at[cur] = "vaddr_scan"
      /\ at \in [Threads -> Places] /\ call \in [Threads -> Calls] /\ call[cur] = my /\ my \in Calls
      /\ Space = SpaceOf(cur) /\ SpaceOf(cur) \in Spaces
      /\ SpaceSize(SpaceOf(cur)) \in Nat /\ my.total \in Nat \ {0}
  BY <1>0, InFacts
<1>2. /\ UNCHANGED <<allVars, pool_bitmap, vaddr_bitmap, pte, pde, makeVars, granted>>
      /\ at' = [at EXCEPT ![cur] = x] /\ call' = [call EXCEPT ![cur] = c] /\ cur' = cur
  BY DEF VaddrScan, SetCall, GoTo, allVars, vars
<1>3. \/ bit = -1
      \/ /\ bit \in 0..(SpaceSize(Space) - my.total)
         /\ \A j \in bit..(bit + my.total - 1) : j \notin vaddr_bitmap[Space]
  BY <1>1, ScanFacts
<1>4. bit \in Int /\ bit # -1 => bit \in 0..(SpaceSize(Space) - my.total)
  BY <1>3
<1>5. bit \in Int
  BY <1>1, <1>3
<1> HIDE DEF bit
<1>6. c \in Calls /\ c.fn = my.fn /\ c.pf = my.pf /\ c.total = my.total /\ c.cnt = my.cnt
      /\ c.start = my.start /\ c.page = my.page /\ c.bit = bit
  BY <1>1, <1>5 DEF Calls
<1>7. at'[cur] = x /\ call'[cur] = c /\ x \in {"palloc_scan", "vaddr_set"}
  BY <1>1, <1>2
<1>8. AskingOK(cur)
  BY <1>1, WorkFacts DEF CallOK
<1>9. SpaceOf(cur)' = SpaceOf(cur)
  BY <1>2 DEF SpaceOf
<1> HIDE DEF c
<1>10. AskingOK(cur)'
  BY <1>1, <1>2, <1>3, <1>6, <1>7, <1>8, <1>9 DEF AskingOK
<1>11. LoopOK(cur)'
  BY <1>1, <1>2, <1>6, <1>7, <1>8, <1>9 DEF LoopOK, AskingOK, LoopAt, TableAt, bit
<1>12. DoneOK(cur)' /\ FrameOK(cur)'
  BY <1>2, <1>7 DEF DoneOK, FrameOK, TableAt
<1>13. /\ \A pf, i : ~InFlight(cur, pf, i)
       /\ \A i : ~Coming(cur, i)' /\ ~Claim(cur, i)'
  <2>1. \A pf, i : ~InFlight(cur, pf, i)
    BY <1>1 DEF InFlight, TableAt
  <2>2. c.page = -1 /\ c.start = -1
    BY <1>1, <1>6, <1>8 DEF AskingOK
  <2> QED BY <1>2, <1>7, <2>1, <2>2 DEF Coming, Claim
<1>14. x \in Places \ {"out"} /\ x # "return"
  BY DEF Places, LoopAt
<1> HIDE DEF x
<1> QED BY <1>1, <1>2, <1>6, <1>10, <1>11, <1>12, <1>13, <1>14, LocalWork

(* palloc's bitmap_scan finds a frame that is free. *)
LEMMA PallocScanInv == ASSUME Live, PallocScan PROVE Live'
<1> DEFINE bit == bitmap_scan(pool_bitmap[my.pf], PoolSize[my.pf], 1)
           c == [my EXCEPT !.bit = bit]
<1>0. "palloc_scan" \in Places \ {"out", "return"} /\ In("palloc_scan")
  BY DEF Places, LoopAt, PallocScan
<1>1. /\ Working(cur) /\ cur \in Threads /\ at[cur] = "palloc_scan"
      /\ at \in [Threads -> Places] /\ call \in [Threads -> Calls] /\ call[cur] = my /\ my \in Calls
      /\ my.pf = PoolOf(cur) /\ PoolOf(cur) \in pool_flags /\ PoolSize[PoolOf(cur)] \in Nat
  BY <1>0, InFacts
<1>2. /\ UNCHANGED <<allVars, pool_bitmap, vaddr_bitmap, pte, pde, makeVars, granted>>
      /\ at' = [at EXCEPT ![cur] = "palloc_set"] /\ call' = [call EXCEPT ![cur] = c]
      /\ bit # -1 /\ cur' = cur
  BY DEF PallocScan, SetCall, GoTo, allVars, vars
<1>3. pool_bitmap[my.pf] \in SUBSET (0..(PoolSize[my.pf] - 1)) /\ 1 \in Nat \ {0}
  BY <1>1 DEF Live, MemTypeOK
<1>4. bit \in (0..(PoolSize[my.pf] - 1)) \ pool_bitmap[my.pf]
  BY <1>1, <1>2, <1>3, ScanFull
<1> HIDE DEF bit
<1>5. bit \in Int
  BY <1>4
<1>6. c \in Calls /\ c.fn = my.fn /\ c.pf = my.pf /\ c.total = my.total /\ c.cnt = my.cnt
      /\ c.start = my.start /\ c.page = my.page /\ c.bit = bit
  BY <1>1, <1>5 DEF Calls
<1>7. at'[cur] = "palloc_set" /\ call'[cur] = c
  BY <1>1, <1>2
<1>8. LoopOK(cur)
  BY <1>1, WorkFacts DEF CallOK
<1>9. SpaceOf(cur)' = SpaceOf(cur) /\ PoolOf(cur)' = PoolOf(cur) /\ Mapped' = Mapped
  BY <1>2 DEF SpaceOf, PoolOf, Mapped
<1> HIDE DEF c
<1>10. AskingOK(cur)' /\ DoneOK(cur)'
  BY <1>2, <1>7 DEF AskingOK, DoneOK
<1>11. LoopOK(cur)'
  BY <1>1, <1>2, <1>6, <1>7, <1>8, <1>9 DEF LoopOK, LoopAt, TableAt
<1>12. FrameOK(cur)'
  BY <1>1, <1>2, <1>4, <1>6, <1>7, <1>9 DEF FrameOK, TableAt
<1>13. \A pf, i : ~InFlight(cur, pf, i)
  BY <1>1 DEF InFlight, TableAt
<1>14. \A i : (Coming(cur, i)' => Coming(cur, i)) /\ (Claim(cur, i)' => Claim(cur, i))
  BY <1>1, <1>2, <1>6, <1>7 DEF Coming, Claim, LoopAt
<1>15. "palloc_set" \in Places \ {"out"}
  BY DEF Places, LoopAt
<1> QED BY <1>1, <1>2, <1>6, <1>10, <1>11, <1>12, <1>13, <1>14, <1>15, LocalWork

(* malloc_page and get_a_page give up only when the pool is full. *)
LEMMA PallocFailInv == ASSUME Live, PallocFail PROVE Live'
<1> DEFINE x == IF my.fn = "get_user_pages" THEN "unlock" ELSE "return"
           c == [my EXCEPT !.start = -1]
<1>0. "palloc_scan" \in Places \ {"out", "return"} /\ In("palloc_scan")
  BY DEF Places, LoopAt, PallocFail
<1>1. /\ Working(cur) /\ cur \in Threads /\ at[cur] = "palloc_scan"
      /\ at \in [Threads -> Places] /\ call \in [Threads -> Calls] /\ call[cur] = my /\ my \in Calls
      /\ my.pf = PoolOf(cur) /\ PoolOf(cur) \in pool_flags /\ PoolSize[PoolOf(cur)] \in Nat
  BY <1>0, InFacts
<1>2. /\ UNCHANGED <<allVars, pool_bitmap, vaddr_bitmap, pte, pde, makeVars, granted>>
      /\ at' = [at EXCEPT ![cur] = x] /\ call' = [call EXCEPT ![cur] = c] /\ cur' = cur
      /\ bitmap_scan(pool_bitmap[my.pf], PoolSize[my.pf], 1) = -1
  BY DEF PallocFail, SetCall, GoTo, allVars, vars
<1>3. pool_bitmap[my.pf] \in SUBSET (0..(PoolSize[my.pf] - 1)) /\ 1 \in Nat \ {0}
  BY <1>1 DEF Live, MemTypeOK
<1>4. Full(PoolOf(cur))
  BY <1>1, <1>2, <1>3, ScanFull DEF Full
<1>5. c \in Calls /\ c.fn = my.fn /\ c.pf = my.pf /\ c.total = my.total /\ c.cnt = my.cnt
      /\ c.start = -1
  BY <1>1 DEF Calls
<1>6. at'[cur] = x /\ call'[cur] = c /\ x \in {"unlock", "return"}
  BY <1>1, <1>2
<1>7. Full(PoolOf(cur))'
  BY <1>2, <1>4 DEF Full, PoolOf
<1> HIDE DEF c
<1>8. AskingOK(cur)' /\ LoopOK(cur)' /\ FrameOK(cur)'
  BY <1>2, <1>6 DEF AskingOK, LoopOK, FrameOK, LoopAt, TableAt
<1>9. DoneOK(cur)'
  BY <1>2, <1>5, <1>6, <1>7 DEF DoneOK
<1>10. \A pf, i : ~InFlight(cur, pf, i)
  BY <1>1 DEF InFlight, TableAt
<1>11. x = "return" => cur \notin Processes \/ Full(PF_USER)
  BY <1>4 DEF PoolOf
<1>12. x \in Places \ {"out"}
  BY DEF Places
<1>13. \A i : ~Coming(cur, i)' /\ ~Claim(cur, i)'
  BY <1>2, <1>5, <1>6 DEF Coming, Claim, LoopAt, TableAt
<1> HIDE DEF x
<1> QED BY <1>1, <1>2, <1>5, <1>8, <1>9, <1>10, <1>11, <1>12, <1>13, LocalWork

(* The frame for a page table is free, or the kernel's frames are all      *)
(* taken.                                                                  *)
LEMMA TableScanInv == ASSUME Live, TableScan PROVE Live'
<1> DEFINE bit == bitmap_scan(pool_bitmap[PF_KERNEL], KernelFrames, 1)
           x == IF bit = -1 THEN "table_map" ELSE "table_set"
           c == [my EXCEPT !.table = bit]
<1>0. "table_scan" \in Places \ {"out", "return"} /\ In("table_scan")
  BY DEF Places, LoopAt, TableAt, TableScan
<1>1. /\ Working(cur) /\ cur \in Threads /\ at[cur] = "table_scan"
      /\ at \in [Threads -> Places] /\ call \in [Threads -> Calls] /\ call[cur] = my /\ my \in Calls
  BY <1>0, InFacts
<1>2. /\ UNCHANGED <<allVars, pool_bitmap, vaddr_bitmap, pte, pde, makeVars, granted>>
      /\ at' = [at EXCEPT ![cur] = x] /\ call' = [call EXCEPT ![cur] = c] /\ cur' = cur
  BY DEF TableScan, SetCall, GoTo, allVars, vars
<1>3. pool_bitmap[PF_KERNEL] \in SUBSET (0..(KernelFrames - 1)) /\ 1 \in Nat \ {0}
      /\ KernelFrames \in Nat
  BY Sizes DEF Live, MemTypeOK
<1>4. /\ bit = -1 => Full(PF_KERNEL)
      /\ bit # -1 => bit \in (0..(KernelFrames - 1)) \ pool_bitmap[PF_KERNEL]
  BY <1>3, ScanFull, Sizes DEF Full
<1> HIDE DEF bit
<1>5. bit \in Int
  BY <1>4
<1>6. c \in Calls /\ c.fn = my.fn /\ c.pf = my.pf /\ c.total = my.total /\ c.cnt = my.cnt
      /\ c.start = my.start /\ c.page = my.page /\ c.bit = my.bit /\ c.table = bit
  BY <1>1, <1>5 DEF Calls
<1>7. at'[cur] = x /\ call'[cur] = c /\ x \in {"table_map", "table_set"}
  BY <1>1, <1>2
<1>8. LoopOK(cur) /\ FrameOK(cur)
  BY <1>1, WorkFacts DEF CallOK
<1>9. SpaceOf(cur)' = SpaceOf(cur) /\ PoolOf(cur)' = PoolOf(cur) /\ Mapped' = Mapped /\ Used' = Used
      /\ Full(PF_KERNEL)' = Full(PF_KERNEL)
  BY <1>2 DEF SpaceOf, PoolOf, Mapped, Made, Used, Full
<1> HIDE DEF c
<1>10. AskingOK(cur)' /\ DoneOK(cur)'
  BY <1>2, <1>7 DEF AskingOK, DoneOK
<1>11. LoopOK(cur)'
  BY <1>1, <1>2, <1>6, <1>7, <1>8, <1>9 DEF LoopOK, LoopAt, TableAt
<1>12. FrameOK(cur)'
  <2>1. /\ cur \in Processes /\ pde[my.page \div TablePages] = ABSENT
        /\ my.bit \in pool_bitmap[PoolOf(cur)] /\ <<PoolOf(cur), my.bit>> \notin Used
    BY <1>1, <1>8 DEF FrameOK, TableAt
  <2> QED BY <1>2, <1>4, <1>6, <1>7, <1>9, <2>1 DEF FrameOK, TableAt
<1>13. \A pf, i : InFlight(cur, pf, i) => InFlight(cur, pf, i)'
  BY <1>1, <1>2, <1>6, <1>7, <1>9 DEF InFlight, TableAt
<1>14. \A i : (Coming(cur, i)' => Coming(cur, i)) /\ (Claim(cur, i)' => Claim(cur, i))
  BY <1>1, <1>2, <1>6, <1>7 DEF Coming, Claim, LoopAt, TableAt
<1>15. x \in Places \ {"out"} /\ x # "return"
  BY DEF Places, LoopAt, TableAt
<1> HIDE DEF x
<1> QED BY <1>1, <1>2, <1>6, <1>10, <1>11, <1>12, <1>13, <1>14, <1>15, LocalWork

-----------------------------------------------------------------------------
(* The steps of memory.c that take pages and frames. *)

(* A frame that is not taken is not used. *)
LEMMA FreeUnused ==
  ASSUME Live
  PROVE  \A pf \in pool_flags : \A i : i \notin pool_bitmap[pf] => <<pf, i>> \notin Used
<1>1. \A f \in Used \ {FRAME_0} : f[2] \in pool_bitmap[f[1]]
  BY DEF Live, TableInv, OneUse
<1>2. \A pf \in pool_flags : \A i : <<pf, i>> # FRAME_0
  BY DEF FRAME_0, pool_flags, PF_KERNEL, PF_USER
<1> QED BY <1>1, <1>2

(* vaddr_get and get_a_page reserve pages that were free. *)
LEMMA ReserveStep ==
  ASSUME Live, Working(cur), at[cur] \in {"vaddr_set", "mark"},
         NEW first \in 0..(SpaceSize(SpaceOf(cur)) - my.total),
         \A i \in first..(first + my.total - 1) : i \notin vaddr_bitmap[SpaceOf(cur)],
         vaddr_bitmap' = [vaddr_bitmap EXCEPT
                            ![SpaceOf(cur)] = @ \cup (first..(first + my.total - 1))],
         UNCHANGED <<allVars, pool_bitmap, pte, pde, makeVars, granted>>,
         at' = [at EXCEPT ![cur] = "palloc_scan"],
         NEW c \in Calls, call' = [call EXCEPT ![cur] = c],
         c.fn = my.fn, c.pf = my.pf, c.total = my.total, c.cnt = my.total,
         c.start = first, c.page = first
  PROVE  Live'
<1> DEFINE sp == SpaceOf(cur)
<1>0. cur' = cur /\ UNCHANGED <<granted, pgdir>>
  BY DEF allVars, vars, makeVars
<1>1. /\ cur \in Threads /\ sp \in Spaces /\ PoolOf(cur) \in pool_flags
      /\ at \in [Threads -> Places] /\ call \in [Threads -> Calls]
      /\ vaddr_bitmap \in [Spaces -> SUBSET Int] /\ MemTypeOK
      /\ my \in Calls /\ RequestOK(cur)
      /\ pool_bitmap \in [pool_flags -> SUBSET Int]
  BY WorkFacts DEF Live, LocalTypes, my, CallOK
<1>2. my.total \in Nat \ {0} /\ SpaceSize(sp) \in Nat /\ first \in Nat
  <2>1. my.total \in Nat /\ my.cnt \in Nat /\ my.cnt >= 1 /\ my.cnt <= my.total
    BY <1>1 DEF Calls, RequestOK, my
  <2> QED BY <1>1, <2>1, Sizes
<1>3. UNCHANGED <<Mapped, Made, Used>> /\ sp' = sp /\ PoolOf(cur)' = PoolOf(cur)
  BY <1>0 DEF Mapped, Made, Used, SpaceOf, PoolOf
<1>4. /\ vaddr_bitmap'[sp] = vaddr_bitmap[sp] \cup (first..(first + my.total - 1))
      /\ \A s \in Spaces : s # sp => vaddr_bitmap'[s] = vaddr_bitmap[s]
      /\ vaddr_bitmap' \in [Spaces -> SUBSET Int]
  BY <1>1, <1>2
<1>5. Grows
  BY <1>1, <1>3, <1>4 DEF Grows
<1>6. MemTypeOK'
  <2>1. first..(first + my.total - 1) \subseteq 0..(SpaceSize(sp) - 1)
    BY <1>2
  <2>2. \A s \in Spaces : vaddr_bitmap'[s] \subseteq 0..(SpaceSize(s) - 1)
    BY <1>1, <1>4, <2>1 DEF MemTypeOK
  <2> QED BY <1>0, <1>1, <2>2 DEF MemTypeOK
<1>7. TableInv'
  BY <1>3 DEF Live, TableInv, OneUse
<1>8. at'[cur] = "palloc_scan" /\ call'[cur] = c
  BY <1>1
<1>9. RequestOK(cur)'
  BY <1>0, <1>2, <1>5, <1>8, RequestStays
<1>10. AskingOK(cur)' /\ DoneOK(cur)' /\ FrameOK(cur)'
  BY <1>0, <1>8 DEF AskingOK, DoneOK, FrameOK, TableAt
<1>11. LoopOK(cur)'
  <2>1. /\ c.start >= 0 /\ c.page = c.start + (c.total - c.cnt)
        /\ c.start + c.total <= SpaceSize(sp)
    BY <1>2
  <2>2. ASSUME NEW i \in c.start..(c.start + c.total - 1)
        PROVE  i \in vaddr_bitmap'[sp] /\ ~(i < c.page)
    <3>1. i \in first..(first + my.total - 1) /\ ~(i < c.page)
      BY <1>2
    <3> QED BY <1>4, <3>1
  <2> HIDE DEF sp
  <2> QED BY <1>0, <1>3, <1>8, <2>1, <2>2 DEF LoopOK, sp
<1>12. \A pf \in pool_flags : \A i \in pool_bitmap'[pf] : <<pf, i>> \in Used'
  <2>1. \A pf, i : ~InFlight(cur, pf, i)
    BY DEF InFlight, TableAt
  <2> QED BY <1>3, <2>1, FrameBooks
<1>13. /\ \A i \in vaddr_bitmap[sp] : ~Coming(cur, i)'
       /\ \A i : ~Claim(cur, i)'
  <2>1. \A i : Coming(cur, i)' => i \in first..(first + my.total - 1)
    BY <1>0, <1>8 DEF Coming
  <2>2. \A i \in first..(first + my.total - 1) : ~(i < first)
    BY <1>2
  <2>3. \A i : Claim(cur, i)' => i \in first..(first + my.total - 1) /\ i < first
    BY <1>0, <1>8 DEF Claim, LoopAt
  <2> QED BY <2>1, <2>2, <2>3
<1>14. "palloc_scan" \in Places \ {"out"}
  BY DEF Places, LoopAt
<1>15. CallOK(cur)'
  BY <1>9, <1>10, <1>11 DEF CallOK
<1> QED BY <1>3, <1>5, <1>6, <1>7, <1>12, <1>13, <1>14, <1>15, WorkStep

(* vaddr_get: the ASSERT never fails, since the stack's page is taken. *)
LEMMA VaddrSetInv == ASSUME Live, VaddrSet PROVE Live'
<1>0. "vaddr_set" \in Places \ {"out", "return"} /\ In("vaddr_set")
  BY DEF Places, VaddrSet
<1>1. /\ Working(cur) /\ cur \in Threads /\ at[cur] = "vaddr_set"
      /\ call \in [Threads -> Calls] /\ call[cur] = my /\ my \in Calls
      /\ Space = SpaceOf(cur) /\ SpaceOf(cur) \in Spaces /\ my.pf = PoolOf(cur)
      /\ SpaceSize(SpaceOf(cur)) \in Nat /\ my.total \in Nat \ {0}
  BY <1>0, InFacts
<1>2. AskingOK(cur) /\ RequestOK(cur)
  BY <1>1, WorkFacts DEF CallOK
<1>3. /\ my.bit \in 0..(SpaceSize(SpaceOf(cur)) - my.total)
      /\ \A i \in my.bit..(my.bit + my.total - 1) : i \notin vaddr_bitmap[SpaceOf(cur)]
      /\ my.cnt = my.total /\ my.fn # "get_a_page"
  BY <1>1, <1>2 DEF AskingOK
<1>4. ~(my.pf = PF_USER /\ my.bit >= UserPages - 1)
  <2> SUFFICES ASSUME my.pf = PF_USER, my.bit >= UserPages - 1 PROVE FALSE
    OBVIOUS
  <2>1. cur \in Processes /\ UserPages - 1 \in vaddr_bitmap[cur]
    BY <1>1, <1>2, <1>3, Sizes DEF RequestOK, PoolOf
  <2>2. SpaceOf(cur) = cur /\ SpaceSize(cur) = UserPages /\ UserPages \in Nat
    BY <2>1, ThreadKinds, Sizes DEF SpaceOf, SpaceSize, Half
  <2>3. my.bit = UserPages - 1 /\ UserPages - 1 \in my.bit..(my.bit + my.total - 1)
    BY <1>1, <1>3, <2>2
  <2> QED BY <1>3, <2>1, <2>2, <2>3
<1> DEFINE c == [my EXCEPT !.start = my.bit, !.page = my.bit]
<1>5. /\ vaddr_bitmap' = [vaddr_bitmap EXCEPT
                            ![SpaceOf(cur)] = @ \cup (my.bit..(my.bit + my.total - 1))]
      /\ at' = [at EXCEPT ![cur] = "palloc_scan"] /\ call' = [call EXCEPT ![cur] = c]
      /\ UNCHANGED <<allVars, pool_bitmap, pte, pde, makeVars, granted>>
  BY <1>1, <1>4 DEF VaddrSet, SetCall, GoTo
<1>6. c \in Calls /\ c.fn = my.fn /\ c.pf = my.pf /\ c.total = my.total /\ c.cnt = my.total
      /\ c.start = my.bit /\ c.page = my.bit
  BY <1>1, <1>3 DEF Calls
<1> HIDE DEF c
<1> QED BY <1>1, <1>3, <1>5, <1>6, ReserveStep

(* get_a_page marks the page of the stack, or fails its ASSERT because the *)
(* process has no page directory.                                          *)
LEMMA MarkPageInv == ASSUME Live, MarkPage, HasPgdir(cur) PROVE Live'
<1>0. "mark" \in Places \ {"out", "return"} /\ In("mark")
  BY DEF Places, MarkPage
<1>1. /\ Working(cur) /\ cur \in Threads /\ at[cur] = "mark"
      /\ call \in [Threads -> Calls] /\ call[cur] = my /\ my \in Calls
      /\ Space = SpaceOf(cur) /\ SpaceOf(cur) \in Spaces /\ my.pf = PoolOf(cur)
      /\ my.cnt \in Nat
  BY <1>0, InFacts
<1>2. AskingOK(cur) /\ RequestOK(cur) /\ cur \in Processes
  BY <1>1, WorkFacts DEF CallOK, HasPgdir
<1>3. /\ my.total = 1 /\ my.start = UserPages - 1 /\ my.page = UserPages - 1
      /\ UserPages - 1 \notin vaddr_bitmap[cur]
  BY <1>1, <1>2 DEF AskingOK
<1>4. my.cnt = 1
  BY <1>1, <1>2, <1>3 DEF RequestOK
<1>5. SpaceOf(cur) = cur /\ SpaceSize(cur) = UserPages /\ UserPages \in Nat /\ UserPages > 1
      /\ PoolOf(cur) = PF_USER
  BY <1>2, ThreadKinds, Sizes DEF SpaceOf, SpaceSize, Half, PoolOf
<1>6. /\ vaddr_bitmap' = [vaddr_bitmap EXCEPT ![SpaceOf(cur)] = @ \cup {my.page}]
      /\ at' = [at EXCEPT ![cur] = "palloc_scan"] /\ call' = call
      /\ UNCHANGED <<allVars, pool_bitmap, pte, pde, makeVars, granted>>
  BY <1>1, <1>3, <1>5 DEF MarkPage, GoTo, SetCall
<1>7. {my.page} = my.page..(my.page + my.total - 1)
  BY <1>3, <1>5
<1>8. /\ my.page \in 0..(SpaceSize(SpaceOf(cur)) - my.total)
      /\ \A i \in my.page..(my.page + my.total - 1) : i \notin vaddr_bitmap[SpaceOf(cur)]
  BY <1>3, <1>5, <1>7
<1>9. call' = [call EXCEPT ![cur] = my]
  BY <1>1, <1>6
<1>10. my.cnt = my.total /\ my.start = my.page
  BY <1>3, <1>4
<1>11. vaddr_bitmap' = [vaddr_bitmap EXCEPT
                         ![SpaceOf(cur)] = @ \cup (my.page..(my.page + my.total - 1))]
  BY <1>6, <1>7
<1> QED BY <1>1, <1>6, <1>8, <1>9, <1>10, <1>11, ReserveStep

(* palloc's bitmap_set: the frame was free, so it is not in use. *)
LEMMA TakeFrame ==
  ASSUME Live, Working(cur), NEW pf \in pool_flags,
         NEW i \in (0..(PoolSize[pf] - 1)) \ pool_bitmap[pf],
         pool_bitmap' = [pool_bitmap EXCEPT ![pf] = @ \cup {i}],
         UNCHANGED <<allVars, vaddr_bitmap, pte, pde, call, makeVars, granted>>,
         at[cur] \in LoopAt, NEW x \in LoopAt, at' = [at EXCEPT ![cur] = x],
         x \in TableAt => at[cur] \in TableAt,
         FrameOK(cur)', InFlight(cur, pf, i)',
         \A p, j : InFlight(cur, p, j) => InFlight(cur, p, j)'
  PROVE  Live'
<1>0. cur' = cur /\ UNCHANGED <<granted, pgdir>>
  BY DEF allVars, vars, makeVars
<1>1. /\ cur \in Threads /\ MemTypeOK /\ CallOK(cur) /\ my \in Calls /\ call[cur] = my
      /\ at \in [Threads -> Places] /\ call \in [Threads -> Calls]
      /\ pool_bitmap \in [pool_flags -> SUBSET Int]
      /\ vaddr_bitmap \in [Spaces -> SUBSET Int] /\ PoolSize[pf] \in Nat
  BY WorkFacts, Sizes DEF Live, LocalTypes, my
<1>2. UNCHANGED <<Mapped, Made, Used>> /\ SpaceOf(cur)' = SpaceOf(cur) /\ PoolOf(cur)' = PoolOf(cur)
      /\ Mapped' = Mapped /\ Used' = Used
  BY <1>0 DEF Mapped, Made, Used, SpaceOf, PoolOf
<1>3. /\ pool_bitmap'[pf] = pool_bitmap[pf] \cup {i} /\ i \in Int
      /\ \A p \in pool_flags : p # pf => pool_bitmap'[p] = pool_bitmap[p]
      /\ pool_bitmap' \in [pool_flags -> SUBSET Int]
  BY <1>1
<1>4. Grows
  BY <1>1, <1>2, <1>3 DEF Grows
<1>5. MemTypeOK'
  BY <1>0, <1>1, <1>3 DEF MemTypeOK
<1>6. TableInv'
  <2>1. \A f \in Used \ {FRAME_0} : f[2] \in pool_bitmap[f[1]] /\ f[1] \in pool_flags
    <3>1. Used \subseteq Frames \cup {FRAME_0}
      BY <1>1 DEF MemTypeOK, Used, Mapped, Made
    <3> QED BY <3>1, FramesAre DEF Live, TableInv, OneUse
  <2>2. \A f \in Used' \ {FRAME_0} : f[2] \in pool_bitmap'[f[1]]
    BY <1>2, <1>4, <2>1 DEF Grows
  <2> QED BY <1>2, <2>2 DEF Live, TableInv, OneUse
<1>7. at'[cur] = x /\ call'[cur] = my /\ call' = [call EXCEPT ![cur] = my]
  BY <1>1
<1>8. RequestOK(cur)'
  <2>1. my.cnt >= 1 /\ my.cnt <= my.total
    BY <1>1 DEF CallOK, RequestOK, my
  <2> QED BY <1>0, <1>4, <1>7, <2>1, RequestStays
<1>9. AskingOK(cur)' /\ DoneOK(cur)'
  BY <1>0, <1>7 DEF AskingOK, DoneOK, LoopAt, TableAt
<1>10. LoopOK(cur)'
  BY <1>0, <1>1, <1>2, <1>7 DEF CallOK, LoopOK
<1>11. ASSUME NEW p \in pool_flags, NEW j \in pool_bitmap'[p]
       PROVE  <<p, j>> \in Used' \/ InFlight(cur, p, j)'
  <2>1. CASE j \in pool_bitmap[p]
    BY <1>2, <2>1, FrameBooks
  <2>2. CASE j \notin pool_bitmap[p]
    BY <1>3, <2>2
  <2> QED BY <2>1, <2>2
<1>12. \A j : (Coming(cur, j)' => Coming(cur, j)) /\ (Claim(cur, j)' => Claim(cur, j))
  BY <1>0, <1>1, <1>7 DEF Coming, Claim
<1>13. x \in Places \ {"out"} /\ x # "return"
  BY DEF Places, LoopAt, TableAt
<1>14. CallOK(cur)'
  BY <1>8, <1>9, <1>10 DEF CallOK
<1> QED BY <1>1, <1>2, <1>4, <1>5, <1>6, <1>7, <1>11, <1>12, <1>13, <1>14, WorkStep

(* The frame for a page is taken. *)
LEMMA PallocSetInv == ASSUME Live, PallocSet PROVE Live'
<1>0. "palloc_set" \in Places \ {"out", "return"} /\ In("palloc_set")
  BY DEF Places, LoopAt, PallocSet
<1>1. /\ Working(cur) /\ cur \in Threads /\ at[cur] = "palloc_set"
      /\ at \in [Threads -> Places] /\ my.pf = PoolOf(cur) /\ PoolOf(cur) \in pool_flags
      /\ call[cur] = my
  BY <1>0, InFacts
<1>2. /\ pool_bitmap' = [pool_bitmap EXCEPT ![PoolOf(cur)] = @ \cup {my.bit}]
      /\ at' = [at EXCEPT ![cur] = "map"] /\ cur' = cur
      /\ UNCHANGED <<allVars, vaddr_bitmap, pte, pde, call, makeVars, granted>>
  BY <1>1 DEF PallocSet, GoTo, allVars, vars
<1>3. my.bit \in (0..(PoolSize[PoolOf(cur)] - 1)) \ pool_bitmap[PoolOf(cur)]
  BY <1>1, WorkFacts DEF CallOK, FrameOK
<1>4. /\ at'[cur] = "map" /\ call'[cur] = my /\ PoolOf(cur)' = PoolOf(cur) /\ Used' = Used
      /\ my.bit \in pool_bitmap'[PoolOf(cur)]
  <2>1. pool_bitmap \in [pool_flags -> SUBSET Int]
    BY DEF Live, LocalTypes
  <2> QED BY <1>1, <1>2, <2>1 DEF PoolOf, Used, Mapped, Made
<1>5. <<PoolOf(cur), my.bit>> \notin Used
  BY <1>1, <1>3, FreeUnused
<1>6. FrameOK(cur)'
  BY <1>2, <1>4, <1>5 DEF FrameOK, TableAt
<1>7. \A p, j : ~InFlight(cur, p, j)
  BY <1>1 DEF InFlight, TableAt
<1>8. at[cur] \in LoopAt /\ "map" \in LoopAt /\ "map" \notin TableAt
  BY <1>1 DEF LoopAt, TableAt
<1>9. PICK pf \in pool_flags, i \in (0..(PoolSize[PoolOf(cur)] - 1)) \ pool_bitmap[PoolOf(cur)] :
         pf = PoolOf(cur) /\ i = my.bit
  BY <1>1, <1>3
<1>10. InFlight(cur, pf, i)'
  BY <1>2, <1>4, <1>9 DEF InFlight
<1> QED BY <1>1, <1>2, <1>6, <1>7, <1>8, <1>9, <1>10, TakeFrame

(* The frame for a page table is taken. *)
LEMMA TableSetInv == ASSUME Live, TableSet PROVE Live'
<1>0. "table_set" \in Places \ {"out", "return"} /\ In("table_set")
  BY DEF Places, LoopAt, TableAt, TableSet
<1>1. /\ Working(cur) /\ cur \in Threads /\ at[cur] = "table_set"
      /\ at \in [Threads -> Places] /\ PF_KERNEL \in pool_flags /\ PF_KERNEL # PF_USER
      /\ call[cur] = my /\ PoolSize[PF_KERNEL] = KernelFrames
  BY <1>0, InFacts, Sizes
<1>2. /\ pool_bitmap' = [pool_bitmap EXCEPT ![PF_KERNEL] = @ \cup {my.table}]
      /\ at' = [at EXCEPT ![cur] = "table_map"] /\ cur' = cur
      /\ UNCHANGED <<allVars, vaddr_bitmap, pte, pde, call, makeVars, granted>>
  BY <1>1 DEF TableSet, GoTo, allVars, vars
<1>3. /\ my.table \in (0..(PoolSize[PF_KERNEL] - 1)) \ pool_bitmap[PF_KERNEL]
      /\ cur \in Processes /\ pde[my.page \div TablePages] = ABSENT
      /\ my.bit \in pool_bitmap[PoolOf(cur)] /\ <<PoolOf(cur), my.bit>> \notin Used
  BY <1>1, WorkFacts DEF CallOK, FrameOK, TableAt
<1>4. /\ at'[cur] = "table_map" /\ call'[cur] = my /\ PoolOf(cur)' = PoolOf(cur) /\ Used' = Used
      /\ my.table \in pool_bitmap'[PF_KERNEL]
      /\ my.bit \in pool_bitmap'[PoolOf(cur)]
  <2>1. pool_bitmap \in [pool_flags -> SUBSET Int]
    BY DEF Live, LocalTypes
  <2>2. PoolOf(cur) = PF_USER /\ PF_USER \in pool_flags
    BY <1>3, Sizes DEF PoolOf
  <2> QED BY <1>1, <1>2, <1>3, <2>1, <2>2 DEF PoolOf, Used, Mapped, Made
<1>5. <<PF_KERNEL, my.table>> \notin Used
  BY <1>1, <1>3, FreeUnused
<1>6. FrameOK(cur)'
  BY <1>2, <1>3, <1>4, <1>5 DEF FrameOK, TableAt
<1>7. \A j : j = my.table => InFlight(cur, PF_KERNEL, j)'
  BY <1>2, <1>4 DEF InFlight
<1>8. \A p, j : InFlight(cur, p, j) => InFlight(cur, p, j)'
  BY <1>1, <1>2, <1>4 DEF InFlight, TableAt
<1>9. at[cur] \in LoopAt /\ "table_map" \in LoopAt /\ at[cur] \in TableAt
  BY <1>1 DEF LoopAt, TableAt
<1>10. PICK i \in (0..(PoolSize[PF_KERNEL] - 1)) \ pool_bitmap[PF_KERNEL] : i = my.table
  BY <1>3
<1>11. InFlight(cur, PF_KERNEL, i)'
  BY <1>7, <1>10
<1> QED BY <1>1, <1>2, <1>6, <1>8, <1>9, <1>10, <1>11, TakeFrame

(* The end of page_table_add, whether or not it made the table: the page's *)
(* entry gets the frame that was taken for it.                             *)
LEMMA MapStep ==
  ASSUME Live, Working(cur), at[cur] \in {"map", "table_map"}, my.page # -1, Page \notin Mapped,
         UNCHANGED <<allVars, pool_bitmap, vaddr_bitmap, makeVars, granted>>,
         pte' = [pte EXCEPT ![Page] = <<my.pf, my.bit>>],
         pde' \in [Tables -> Frames \cup {ABSENT, FRAME_0}],
         \A d \in Made : pde'[d] = pde[d],
         \A d \in Tables \ Made : pde'[d] # ABSENT =>
           at[cur] = "table_map" /\ d = Table /\ pde'[d] = <<PF_KERNEL, my.table>>,
         at[cur] = "table_map" => my.table # -1 /\ pde'[Table] = <<PF_KERNEL, my.table>>,
         cur \in Processes => Table \in Tables /\ pde'[Table] # ABSENT,
         NextPage
  PROVE  Live' /\ \A p \in Mapped : pte'[p] = pte[p]
<1> DEFINE sp == SpaceOf(cur)
           P == <<PoolOf(cur), my.page>>
           F == <<PoolOf(cur), my.bit>>
           G == <<PF_KERNEL, my.table>>
<1>0. cur' = cur /\ UNCHANGED <<granted, pgdir, making>>
  BY DEF allVars, vars, makeVars
<1>1. /\ cur \in Threads /\ MemTypeOK /\ CallOK(cur) /\ my \in Calls /\ call[cur] = my
      /\ at \in [Threads -> Places] /\ call \in [Threads -> Calls]
      /\ pool_bitmap \in [pool_flags -> SUBSET Int]
      /\ vaddr_bitmap \in [Spaces -> SUBSET Int]
      /\ my.pf = PoolOf(cur) /\ Space = sp /\ PoolOf(cur) \in pool_flags /\ sp \in Spaces
      /\ SpaceSize(sp) \in Nat /\ SpaceSize(sp) = HalfSize[PoolOf(cur)]
  BY WorkFacts, Sizes, SpaceFacts DEF Live, LocalTypes, my, SpaceSize
<1>2. /\ my.start \in Int /\ my.page \in Int /\ my.cnt \in Nat /\ my.total \in Nat
      /\ my.bit \in Int /\ my.table \in Int /\ my.cnt >= 1 /\ my.cnt <= my.total
  BY <1>1 DEF Calls, CallOK, RequestOK
<1>3. /\ my.start >= 0 /\ my.page = my.start + (my.total - my.cnt)
      /\ my.start + my.total <= SpaceSize(sp)
      /\ \A i \in my.start..(my.start + my.total - 1) :
           /\ i \in vaddr_bitmap[sp]
           /\ i < my.page => <<PoolOf(cur), i>> \in Mapped
  BY <1>1 DEF CallOK, LoopOK, LoopAt, TableAt
<1>4. my.page \in my.start..(my.start + my.total - 1) /\ my.page \in 0..(SpaceSize(sp) - 1)
  BY <1>1, <1>2, <1>3
<1>5. P \in Pages /\ Page = P /\ P \notin Mapped /\ my.page \in vaddr_bitmap[sp]
  BY <1>1, <1>2, <1>3, <1>4, PagesAre DEF Page
<1>6. F \in Frames /\ F \notin Used /\ my.bit \in pool_bitmap[PoolOf(cur)]
  <2>1. my.bit \in pool_bitmap[PoolOf(cur)] /\ F \notin Used
    BY <1>1 DEF CallOK, FrameOK, TableAt
  <2> QED BY <1>1, <2>1, FramesAre DEF MemTypeOK
<1>7. at[cur] = "table_map" =>
        /\ G \in Frames /\ G \notin Used /\ my.table \in pool_bitmap[PF_KERNEL]
        /\ G # F /\ cur \in Processes /\ Table \in Tables \ Made
  <2> SUFFICES ASSUME at[cur] = "table_map"
               PROVE  /\ G \in Frames /\ G \notin Used /\ my.table \in pool_bitmap[PF_KERNEL]
                      /\ G # F /\ cur \in Processes /\ Table \in Tables \ Made
    OBVIOUS
  <2>1. /\ my.table \in pool_bitmap[PF_KERNEL] /\ G \notin Used
        /\ cur \in Processes /\ pde[my.page \div TablePages] = ABSENT
    BY <1>1 DEF CallOK, FrameOK, TableAt
  <2>2. G # F
    BY <2>1, Sizes DEF PoolOf
  <2>3. G \in Frames
    BY <1>1, <2>1, FramesAre, Sizes DEF MemTypeOK
  <2> QED BY <2>1, <2>2, <2>3 DEF Table, Made
<1>8. /\ pte' = [pte EXCEPT ![P] = F] /\ pte \in [Pages -> Frames \cup {ABSENT}]
      /\ pte' \in [Pages -> Frames \cup {ABSENT}]
      /\ pte'[P] = F /\ \A p \in Pages : p # P => pte'[p] = pte[p]
  BY <1>1, <1>5, <1>6 DEF MemTypeOK
<1>9. /\ Mapped' = Mapped \cup {P} /\ Made \subseteq Made' /\ Made' \subseteq Tables
      /\ \A d \in Made' \ Made : at[cur] = "table_map" /\ d = Table /\ pde'[d] = G
      /\ \A p \in Mapped : pte'[p] = pte[p]
      /\ cur \in Processes => Table \in Made'
  <2>1. Mapped' = Mapped \cup {P}
    BY <1>5, <1>6, <1>8, FramesAre DEF Mapped
  <2> QED BY <1>5, <1>8, <2>1 DEF Mapped, Made
<1> HIDE DEF P, F, G
<1>10. /\ Used \subseteq Used' /\ F \in Used' /\ Used' \subseteq Used \cup {F, G}
       /\ at[cur] = "table_map" => G \in Used'
       /\ at[cur] # "table_map" => Used' \subseteq Used \cup {F}
  <2>1. Used \subseteq Used' /\ F \in Used'
    BY <1>8, <1>9 DEF Used
  <2>2. at[cur] = "table_map" => G \in Used'
    BY <1>7, <1>9 DEF Used, G
  <2>3. Used' \subseteq Used \cup {F, G} /\ (at[cur] # "table_map" => Used' \subseteq Used \cup {F})
    BY <1>8, <1>9 DEF Used
  <2> QED BY <2>1, <2>2, <2>3
<1>11. MemTypeOK'
  BY <1>0, <1>1, <1>8 DEF MemTypeOK
<1>12. Grows
  BY <1>1, <1>9 DEF Grows
<1>13. TableInv'
  <2>1. OneUse /\ \A d \in Tables : pde[d] # FRAME_0
    BY DEF Live, TableInv
  <2>2. \A p, q \in Mapped' : pte'[p] = pte'[q] => p = q
    <3>1. \A p \in Mapped : pte[p] # F
      BY <1>6 DEF Used
    <3> QED BY <1>8, <1>9, <2>1, <3>1 DEF OneUse
  <2>3. \A d, e \in Made' : pde'[d] = pde'[e] => d = e
    <3>1. \A d \in Made, e \in Made' \ Made : pde'[d] # pde'[e]
      BY <1>7, <1>9 DEF Used
    <3>2. \A d, e \in Made' \ Made : d = e
      BY <1>9
    <3> QED BY <1>9, <2>1, <3>1, <3>2 DEF OneUse
  <2>4. \A p \in Mapped', d \in Made' : pte'[p] # pde'[d]
    <3>1. \A p \in Mapped, d \in Made : pte'[p] # pde'[d]
      BY <1>9, <2>1 DEF OneUse
    <3>2. \A p \in Mapped, d \in Made' \ Made : pte'[p] # pde'[d]
      BY <1>7, <1>9 DEF Used
    <3>3. \A d \in Made : F # pde'[d]
      BY <1>6, <1>9 DEF Used
    <3>4. \A d \in Made' \ Made : F # pde'[d]
      BY <1>7, <1>9
    <3> QED BY <1>8, <1>9, <3>1, <3>2, <3>3, <3>4
  <2>5. \A f \in Used' \ {FRAME_0} : f[2] \in pool_bitmap'[f[1]]
    <3>1. F[2] \in pool_bitmap[F[1]]
      BY <1>6 DEF F
    <3>2. at[cur] = "table_map" => G[2] \in pool_bitmap[G[1]]
      BY <1>7 DEF G
    <3> QED BY <1>10, <2>1, <3>1, <3>2 DEF OneUse
  <2>6. \A d \in Tables : pde'[d] # FRAME_0
    <3>1. \A d \in Made' : pde'[d] # FRAME_0
      BY <1>7, <1>9, <2>1, FramesAre
    <3> QED BY <3>1, FramesAre DEF Made
  <2>7. ASSUME NEW p \in Mapped', p[1] = PF_USER
        PROVE  p[2] \div TablePages \in Made'
    <3>1. CASE p \in Mapped
      BY <1>9, <2>7, <3>1 DEF Live, TableInv
    <3>2. CASE p = P
      <4>1. p[1] = PoolOf(cur) /\ p[2] = my.page
        BY <3>2 DEF P
      <4>2. cur \in Processes
        BY <2>7, <4>1, Sizes DEF PoolOf
      <4> QED BY <1>9, <4>1, <4>2 DEF Table
    <3> QED BY <1>9, <2>7, <3>1, <3>2
  <2>8. OneUse'
    BY <2>2, <2>3, <2>4, <2>5 DEF OneUse
  <2> QED BY <2>6, <2>7, <2>8 DEF TableInv
<1>14. PICK x \in Places \ {"out"}, c \in Calls :
         /\ at' = [at EXCEPT ![cur] = x] /\ call' = [call EXCEPT ![cur] = c]
         /\ c.fn = my.fn /\ c.pf = my.pf /\ c.total = my.total /\ c.start = my.start
         /\ \/ x = "palloc_scan" /\ my.cnt > 1 /\ c.cnt = my.cnt - 1 /\ c.page = my.page + 1
            \/ /\ my.cnt = 1 /\ c.cnt = my.cnt
               /\ x = IF my.fn = "get_kernel_pages" THEN "return" ELSE "unlock"
  <2>1. CASE my.cnt > 1
    <3> DEFINE c == [my EXCEPT !.cnt = @ - 1, !.page = @ + 1]
    <3>0. my.cnt - 1 \in Nat /\ my.page + 1 \in Int
      BY <1>2, <2>1
    <3>1. c \in Calls /\ c.fn = my.fn /\ c.pf = my.pf /\ c.total = my.total /\ c.start = my.start
          /\ c.cnt = my.cnt - 1 /\ c.page = my.page + 1
      <4>1. c = [my EXCEPT !.cnt = my.cnt - 1, !.page = my.page + 1]
        BY <1>1 DEF Calls
      <4> HIDE DEF c
      <4> QED BY <1>1, <3>0, <4>1 DEF Calls
    <3>2. at' = [at EXCEPT ![cur] = "palloc_scan"] /\ call' = [call EXCEPT ![cur] = c]
      BY <2>1 DEF NextPage, SetCall, GoTo
    <3>3. "palloc_scan" \in Places \ {"out"}
      BY DEF Places, LoopAt
    <3> HIDE DEF c
    <3> QED BY <2>1, <3>1, <3>2, <3>3
  <2>2. CASE ~(my.cnt > 1)
    <3> DEFINE x == IF my.fn = "get_kernel_pages" THEN "return" ELSE "unlock"
    <3>1. at' = [at EXCEPT ![cur] = x] /\ call' = [call EXCEPT ![cur] = my]
      BY <2>2 DEF NextPage, SetCall, GoTo
    <3>2. x \in Places \ {"out"} /\ my.cnt = 1
      BY <1>2, <2>2 DEF Places
    <3> QED BY <1>1, <3>1, <3>2
  <2> QED BY <2>1, <2>2
<1>15. /\ at'[cur] = x /\ call'[cur] = c
       /\ x \in {"palloc_scan", "return", "unlock"}
       /\ c.cnt >= 1 /\ c.cnt <= my.total
       /\ sp' = sp /\ PoolOf(cur)' = PoolOf(cur)
  BY <1>0, <1>1, <1>2, <1>14 DEF SpaceOf, PoolOf
<1> HIDE DEF sp
<1>16. RequestOK(cur)'
  BY <1>0, <1>12, <1>14, <1>15, RequestStays
<1>17. AskingOK(cur)' /\ FrameOK(cur)'
  BY <1>0, <1>15 DEF AskingOK, FrameOK, TableAt
<1>18. \A i \in my.start..(my.start + my.total - 1) :
         /\ i \in vaddr_bitmap[sp]
         /\ i < my.page + 1 => <<PoolOf(cur), i>> \in Mapped'
  <2>1. \A i \in Int : i < my.page + 1 <=> i < my.page \/ i = my.page
    BY <1>2
  <2>2. \A i : i = my.page => <<PoolOf(cur), i>> = P
    BY DEF P
  <2> QED BY <1>2, <1>3, <1>9, <2>1, <2>2
<1>19. LoopOK(cur)'
  <2>1. CASE x = "palloc_scan"
    <3>1. c.cnt = my.cnt - 1 /\ c.page = my.page + 1
      BY <1>14, <2>1
    <3>2. c.page = c.start + (c.total - c.cnt)
      BY <1>2, <1>3, <1>14, <3>1
    <3>3. /\ c.start >= 0 /\ c.start + c.total <= SpaceSize(sp)
          /\ \A i \in c.start..(c.start + c.total - 1) :
               /\ i \in vaddr_bitmap'[sp]
               /\ i < c.page => <<PoolOf(cur), i>> \in Mapped'
      BY <1>3, <1>14, <1>18, <3>1
    <3> QED BY <1>0, <1>15, <3>2, <3>3 DEF LoopOK, sp
  <2>2. CASE x # "palloc_scan"
    BY <1>0, <1>15, <2>2 DEF LoopOK, LoopAt, TableAt
  <2> QED BY <2>1, <2>2
<1>20. DoneOK(cur)'
  <2>1. CASE x = "palloc_scan"
    BY <1>0, <1>15, <2>1 DEF DoneOK
  <2>2. CASE x # "palloc_scan"
    <3>1. my.cnt = 1
      BY <1>14, <2>2
    <3>2. \A i \in my.start..(my.start + my.total - 1) : i < my.page + 1
      BY <1>2, <1>3, <3>1
    <3>3. \A i \in c.start..(c.start + c.total - 1) :
            i \in vaddr_bitmap'[sp] /\ <<PoolOf(cur), i>> \in Mapped'
      BY <1>14, <1>18, <3>2
    <3> QED BY <1>0, <1>3, <1>14, <1>15, <3>3 DEF DoneOK, sp
  <2> QED BY <2>1, <2>2
<1>21. CallOK(cur)'
  BY <1>16, <1>17, <1>19, <1>20 DEF CallOK
<1>22. ASSUME NEW pf \in pool_flags, NEW i \in pool_bitmap'[pf]
       PROVE  <<pf, i>> \in Used'
  <2>1. <<pf, i>> \in Used \/ InFlight(cur, pf, i)
    BY <1>22, FrameBooks
  <2>2. InFlight(cur, pf, i) => <<pf, i>> = F \/ (at[cur] = "table_map" /\ <<pf, i>> = G)
    BY <1>1 DEF InFlight, F, G
  <2> QED BY <1>10, <2>1, <2>2
<1>23. /\ \A p \in Mapped' \ Mapped :
            p[1] = PoolOf(cur) /\ p[2] \in vaddr_bitmap'[SpaceOf(cur)] /\ ~Coming(cur, p[2])'
       /\ \A i : Coming(cur, i)' => Coming(cur, i)
       /\ \A i : Claim(cur, i)' => Claim(cur, i) \/ <<PoolOf(cur), i>> \notin Mapped
  <2>1. \A i : i = my.page => ~Coming(cur, i)'
    <3>1. x = "palloc_scan" => my.page \notin c.page..(c.start + c.total - 1)
      BY <1>2, <1>14
    <3> QED BY <1>0, <1>15, <3>1 DEF Coming, LoopAt, TableAt
  <2>2. \A p \in Mapped' \ Mapped : p[1] = PoolOf(cur) /\ p[2] = my.page
    BY <1>9 DEF P
  <2>3. ASSUME NEW i, Coming(cur, i)' PROVE Coming(cur, i)
    <3>1. x = "palloc_scan" /\ i \in c.page..(c.start + c.total - 1)
      BY <1>0, <1>15, <2>3 DEF Coming, LoopAt, TableAt
    <3>2. i \in my.page..(my.start + my.total - 1)
      BY <1>2, <1>14, <3>1
    <3> QED BY <1>1, <3>2 DEF Coming, LoopAt, TableAt
  <2>4. ASSUME NEW i, Claim(cur, i)', ~Claim(cur, i) PROVE <<PoolOf(cur), i>> \notin Mapped
    <3>1. i \in my.start..(my.start + my.total - 1) /\ (x = "palloc_scan" => i < c.page)
      BY <1>0, <1>14, <1>15, <2>4 DEF Claim, LoopAt
    <3>2. i < my.page + 1
      <4>1. CASE x = "palloc_scan"
        BY <1>14, <3>1, <4>1
      <4>2. CASE x # "palloc_scan"
        BY <1>2, <1>3, <1>14, <3>1, <4>2
      <4> QED BY <4>1, <4>2
    <3>3. ~(i < my.page)
      BY <1>1, <1>3, <2>4, <3>1 DEF Claim, LoopAt, TableAt
    <3>4. i = my.page
      BY <1>2, <3>1, <3>2, <3>3
    <3> QED BY <1>5, <3>4 DEF P
  <2> QED BY <1>1, <1>5, <2>1, <2>2, <2>3, <2>4 DEF sp
<1>24. x = "return" => cur \notin Processes
  BY <1>1, <1>14 DEF CallOK, RequestOK
<1>25. Live'
  BY <1>11, <1>12, <1>13, <1>14, <1>21, <1>22, <1>23, <1>24, WorkStep
<1> QED BY <1>9, <1>25

(* page_table_add, for a page vaddr_get found that is not mapped yet. *)
LEMMA PageTableAddInv ==
  ASSUME Live, PageTableAdd, my.page # -1, NoTable \/ pte[Page] = ABSENT
  PROVE  Live' /\ \A p \in Mapped : pte'[p] = pte[p]
<1>0. "map" \in Places \ {"out", "return"} /\ In("map")
  BY DEF Places, LoopAt, PageTableAdd
<1>1. /\ Working(cur) /\ cur \in Threads /\ at[cur] = "map"
      /\ at \in [Threads -> Places] /\ call \in [Threads -> Calls] /\ call[cur] = my /\ my \in Calls
      /\ Space = SpaceOf(cur) /\ SpaceOf(cur) \in Spaces /\ SpaceSize(SpaceOf(cur)) \in Nat
      /\ my.total \in Nat /\ my.cnt \in Nat
  BY <1>0, InFacts
<1>2. LoopOK(cur) /\ FrameOK(cur) /\ RequestOK(cur) /\ (cur = main_thread \/ cur \in Processes)
  BY <1>1, WorkFacts DEF CallOK
<1>3. /\ my.start >= 0 /\ my.page = my.start + (my.total - my.cnt)
      /\ my.start + my.total <= SpaceSize(SpaceOf(cur))
      /\ my.cnt >= 1 /\ my.cnt <= my.total /\ my.start \in Int /\ my.page \in Int
  BY <1>1, <1>2 DEF LoopOK, LoopAt, RequestOK, Calls
<1>4. my.page \in 0..(SpaceSize(SpaceOf(cur)) - 1)
  BY <1>1, <1>3
<1>5. my.pf = PoolOf(cur)
  BY <1>2 DEF RequestOK, my
<1>6. cur \in Processes => Table \in Tables
  <2>1. cur \in Processes => SpaceSize(SpaceOf(cur)) = UserPages
    BY ThreadKinds, Sizes DEF SpaceOf, SpaceSize, Half
  <2> QED BY <1>4, <2>1, TablesAre DEF Table
<1>7. CASE NoTable
  <2>1. /\ UNCHANGED <<allVars, pool_bitmap, vaddr_bitmap, pte, pde, call, makeVars, granted>>
        /\ at' = [at EXCEPT ![cur] = "table_scan"] /\ cur' = cur
        /\ call' = [call EXCEPT ![cur] = my]
    BY <1>1, <1>7 DEF PageTableAdd, GoTo, allVars, vars
  <2>2. cur \in Processes /\ pde[Table] = ABSENT
    BY <1>5, <1>7, Sizes DEF NoTable, PoolOf
  <2>3. at'[cur] = "table_scan" /\ call'[cur] = my /\ SpaceOf(cur)' = SpaceOf(cur)
        /\ PoolOf(cur)' = PoolOf(cur) /\ Mapped' = Mapped /\ Used' = Used
    BY <1>1, <2>1 DEF SpaceOf, PoolOf, Mapped, Used, Made
  <2>4. AskingOK(cur)' /\ DoneOK(cur)'
    BY <2>1, <2>3 DEF AskingOK, DoneOK
  <2>5. LoopOK(cur)'
    BY <1>1, <1>2, <2>1, <2>3 DEF LoopOK, LoopAt, TableAt
  <2>6. FrameOK(cur)'
    BY <1>1, <1>2, <2>1, <2>2, <2>3 DEF FrameOK, TableAt, Table
  <2>7. \A pf, i : InFlight(cur, pf, i) => InFlight(cur, pf, i)'
    BY <1>1, <2>1, <2>3 DEF InFlight, TableAt
  <2>8. \A i : (Coming(cur, i)' => Coming(cur, i)) /\ (Claim(cur, i)' => Claim(cur, i))
    BY <1>1, <2>1, <2>3 DEF Coming, Claim, LoopAt, TableAt
  <2>9. "table_scan" \in Places \ {"out"}
    BY DEF Places, LoopAt, TableAt
  <2> QED BY <1>1, <2>1, <2>4, <2>5, <2>6, <2>7, <2>8, <2>9, LocalWork
<1>8. CASE ~NoTable
  <2>1. /\ pte' = [pte EXCEPT ![Page] = <<my.pf, my.bit>>] /\ NextPage
        /\ UNCHANGED <<allVars, pool_bitmap, vaddr_bitmap, pde, makeVars, granted>>
    BY <1>8 DEF PageTableAdd
  <2>2. pde' = pde /\ pde \in [Tables -> Frames \cup {ABSENT, FRAME_0}]
    BY <2>1 DEF Live, MemTypeOK
  <2>3. cur \in Processes => Table \in Tables /\ pde'[Table] # ABSENT
    BY <1>5, <1>6, <1>8, <2>2 DEF NoTable, PoolOf
  <2>4. \A d \in Tables \ Made : pde'[d] = ABSENT
    BY <2>2 DEF Made
  <2>5. Page \notin Mapped
    BY <1>8 DEF Mapped
  <2> QED BY <1>1, <2>1, <2>2, <2>3, <2>4, <2>5, MapStep
<1> QED BY <1>7, <1>8

(* page_table_add's ASSERT fails for a page that is mapped: it is another  *)
(* process's, since no request of the kernel or of the process itself is   *)
(* for a page that was reserved before.                                    *)
LEMMA AddressTakenHolds ==
  ASSUME Live, In("map"), my.page # -1, Page \in Mapped
  PROVE  AddressTaken
<1>0. "map" \in Places \ {"out", "return"}
  BY DEF Places, LoopAt
<1>1. /\ Working(cur) /\ cur \in Threads /\ at[cur] = "map" /\ call[cur] = my /\ my \in Calls
      /\ my.pf = PoolOf(cur) /\ my.total \in Nat /\ my.cnt \in Nat
  BY <1>0, InFacts
<1>2. LoopOK(cur) /\ RequestOK(cur) /\ (cur = main_thread \/ cur \in Processes)
  BY <1>1, WorkFacts DEF CallOK
<1>3. /\ my.start >= 0 /\ my.page = my.start + (my.total - my.cnt)
      /\ my.cnt >= 1 /\ my.start \in Int /\ my.page \in Int
  BY <1>1, <1>2 DEF LoopOK, LoopAt, RequestOK, Calls
<1>4. Coming(cur, my.page)
  <2>1. my.page \in my.page..(my.start + my.total - 1)
    BY <1>1, <1>3
  <2> QED BY <1>1, <2>1 DEF Coming, LoopAt
<1>5. ~Settled(SpaceOf(cur), my.page)
  BY <1>1, <1>4 DEF Settled
<1>6. PICK s \in Spaces : Half(s) = my.pf /\ Settled(s, my.page)
  BY DEF Live, ShareInv, Page
<1>7. cur \in Processes /\ s \in Processes /\ s # cur
  <2>1. s # SpaceOf(cur) /\ Half(s) = PoolOf(cur)
    BY <1>1, <1>5, <1>6
  <2> QED BY <2>1, ThreadKinds, Sizes DEF SpaceOf, PoolOf, Half, Spaces
<1>8. my.page \in vaddr_bitmap[s]
  BY <1>6 DEF Settled
<1>9. <<cur, my.page>> \notin granted
  <2>1. SpaceOf(cur) = cur
    BY <1>7 DEF SpaceOf
  <2> QED BY <1>5, <2>1 DEF Live, ShareInv
<1> QED BY <1>1, <1>7, <1>8, <1>9 DEF AddressTaken

(* A page table is made only where no page has an entry, so clearing it    *)
(* unmaps nothing.                                                         *)
LEMMA TableMapInv ==
  ASSUME Live, TableMap
  PROVE  Live' /\ \A p \in Mapped : pte'[p] = pte[p]
<1>0. "table_map" \in Places \ {"out", "return"} /\ In("table_map")
  BY DEF Places, LoopAt, TableAt, TableMap
<1>1. /\ Working(cur) /\ cur \in Threads /\ at[cur] = "table_map"
      /\ call[cur] = my /\ my \in Calls
      /\ SpaceSize(SpaceOf(cur)) \in Nat /\ my.pf = PoolOf(cur)
      /\ my.total \in Nat /\ my.cnt \in Nat
  BY <1>0, InFacts
<1>2. LoopOK(cur) /\ FrameOK(cur) /\ RequestOK(cur) /\ MemTypeOK /\ TableInv
  BY <1>1, WorkFacts DEF CallOK, Live
<1>3. /\ my.table # -1 /\ NextPage
      /\ pde' = [pde EXCEPT ![Table] = <<PF_KERNEL, my.table>>]
      /\ pte' = [p \in Pages |->
                   IF p = Page THEN <<my.pf, my.bit>>
                   ELSE IF p[1] = PF_USER /\ p[2] \div TablePages = Table
                     THEN ABSENT ELSE pte[p]]
      /\ UNCHANGED <<allVars, pool_bitmap, vaddr_bitmap, makeVars, granted>>
  BY DEF TableMap
<1>4. /\ cur \in Processes /\ pde[Table] = ABSENT
      /\ my.table \in pool_bitmap[PF_KERNEL]
      /\ my.page # -1
  <2>1. /\ cur \in Processes /\ pde[Table] = ABSENT /\ my.table \in pool_bitmap[PF_KERNEL]
    BY <1>1, <1>2, <1>3 DEF FrameOK, TableAt, Table
  <2>2. my.start >= 0 /\ my.page = my.start + (my.total - my.cnt) /\ my.cnt <= my.total
        /\ my.start \in Int
    BY <1>1, <1>2 DEF LoopOK, LoopAt, TableAt, RequestOK, Calls
  <2> QED BY <1>1, <2>1, <2>2
<1>5. <<PF_KERNEL, my.table>> \in Frames
  BY <1>2, <1>4, FramesAre, Sizes DEF MemTypeOK
<1>6. Table \in Tables
  <2>1. /\ my.start >= 0 /\ my.page = my.start + (my.total - my.cnt) /\ my.cnt <= my.total
        /\ my.cnt >= 1 /\ my.start + my.total <= SpaceSize(SpaceOf(cur)) /\ my.start \in Int
    BY <1>1, <1>2, <1>4 DEF LoopOK, LoopAt, TableAt, RequestOK, Calls
  <2>2. SpaceSize(SpaceOf(cur)) = UserPages /\ UserPages \in Nat
    BY <1>4, ThreadKinds, Sizes DEF SpaceOf, SpaceSize, Half
  <2>3. my.page \in 0..(UserPages - 1)
    BY <1>1, <2>1, <2>2
  <2> QED BY <2>3, TablesAre DEF Table
<1>7. /\ pde \in [Tables -> Frames \cup {ABSENT, FRAME_0}] /\ pte \in [Pages -> Frames \cup {ABSENT}]
      /\ pde' \in [Tables -> Frames \cup {ABSENT, FRAME_0}]
      /\ pde'[Table] = <<PF_KERNEL, my.table>> /\ \A d \in Tables : d # Table => pde'[d] = pde[d]
      /\ pde'[Table] # ABSENT
  BY <1>2, <1>3, <1>5, <1>6, FramesAre DEF MemTypeOK
<1>8. \A p \in Pages : p[1] = PF_USER /\ p[2] \div TablePages = Table => pte[p] = ABSENT
  <2>1. Table \notin Made
    BY <1>4 DEF Made
  <2> QED BY <1>2, <2>1 DEF TableInv, Mapped
<1>9. pte' = [pte EXCEPT ![Page] = <<my.pf, my.bit>>]
  BY <1>3, <1>7, <1>8
<1>10. /\ \A d \in Made : pde'[d] = pde[d]
       /\ \A d \in Tables \ Made : pde'[d] # ABSENT => d = Table
  BY <1>4, <1>7 DEF Made
<1>11. Page \notin Mapped
  <2>1. Page[1] = PF_USER /\ Page[2] \div TablePages = Table
    BY <1>1, <1>4 DEF Page, Table, PoolOf
  <2> QED BY <1>8, <2>1 DEF Mapped
<1> QED BY <1>1, <1>3, <1>4, <1>6, <1>7, <1>9, <1>10, <1>11, MapStep

-----------------------------------------------------------------------------
(* The steps that leave the bitmaps and the tables alone. *)

(* What is said of a request depends on it, the bitmaps and the tables. *)
LEMMA CallFrame ==
  ASSUME UNCHANGED <<pool_bitmap, vaddr_bitmap, pte, pde>>,
         NEW t \in Threads, at'[t] = at[t], call'[t] = call[t], CallOK(t)
  PROVE  CallOK(t)'
<1>1. /\ Mapped' = Mapped /\ Made' = Made /\ Used' = Used
      /\ \A pf : Full(pf)' <=> Full(pf)
  BY DEF Mapped, Made, Used, Full
<1>2. RequestOK(t)' /\ AskingOK(t)'
  BY DEF CallOK, RequestOK, AskingOK
<1>3. LoopOK(t)' /\ DoneOK(t)'
  BY <1>1 DEF CallOK, LoopOK, DoneOK
<1>4. FrameOK(t)'
  BY <1>1 DEF CallOK, FrameOK
<1> QED BY <1>2, <1>3, <1>4 DEF CallOK

(* What a step has to show that changes at most where the thread me is:    *)
(* the pages of a request that ends are the caller's.                      *)
LEMMA QuietStep ==
  ASSUME Live, (SyncInv /\ LocalTypes /\ BootInv /\ LockingInv)',
         UNCHANGED <<pool_bitmap, vaddr_bitmap, pte, pde>>,
         pgdir' \in [Processes -> Frames \cup {ABSENT}],
         NEW me \in Threads, granted \subseteq granted',
         \A g \in granted' \ granted :
           at[me] = "return" /\ g = <<SpaceOf(me), g[2]>> /\ Claim(me, g[2]),
         \A t \in Threads : t # me => at'[t] = at[t] /\ call'[t] = call[t],
         \/ at'[me] = at[me] /\ call'[me] = call[me]
         \/ /\ at[me] \in {"out", "unlock", "return"} /\ at'[me] \in Resting
            /\ at'[me] # "out" => CallOK(me)'
            /\ \A i : Claim(me, i)' => Claim(me, i)
  PROVE  Live'
<1>0. MemTypeOK /\ BooksInv /\ ShareInv
  BY DEF Live
<1>1. /\ Mapped' = Mapped /\ Made' = Made /\ Used' = Used
      /\ \A pf : Full(pf)' <=> Full(pf)
  BY DEF Mapped, Made, Used, Full
<1>2. ASSUME NEW g \in granted' \ granted
      PROVE  /\ g = <<g[1], g[2]>> /\ g[1] = SpaceOf(me) /\ g[1] \in Spaces
             /\ Settled(g[1], g[2]) /\ AddressOf(g) \in Mapped
  <2>1. /\ at[me] = "return" /\ Claim(me, g[2]) /\ g = <<g[1], g[2]>>
        /\ g[1] = SpaceOf(me) /\ SpaceOf(me) \in Spaces /\ Half(g[1]) = PoolOf(me)
    BY <1>2, SpaceFacts
  <2>2. DoneOK(me)
    BY <2>1 DEF Live, CallsOK, CallOK
  <2>3. g[2] \in vaddr_bitmap[SpaceOf(me)] /\ <<PoolOf(me), g[2]>> \in Mapped
    BY <2>1, <2>2 DEF DoneOK, Claim
  <2>4. ASSUME NEW t \in Threads, SpaceOf(t) = SpaceOf(me) PROVE ~Coming(t, g[2])
    <3> SUFFICES ASSUME at[t] \in LoopAt PROVE FALSE
      BY DEF Coming
    <3>1. at[t] # "out" /\ t # me
      BY <2>1 DEF LoopAt, TableAt
    <3>2. (t = main_thread \/ t \in Processes) /\ (me = main_thread \/ me \in Processes)
      BY <2>1, <3>1 DEF Live, BootInv
    <3> QED BY <2>4, <3>1, <3>2, ThreadKinds DEF SpaceOf
  <2> QED BY <2>1, <2>3, <2>4 DEF Settled, AddressOf
<1>3. MemTypeOK'
  <2>1. \A g \in granted' \ granted : g[2] \in 0..(SpaceSize(g[1]) - 1)
    BY <1>0, <1>2 DEF Settled, MemTypeOK
  <2>2. \A g \in granted' \ granted : g \in {g[1]} \X (0..(SpaceSize(g[1]) - 1)) /\ g[1] \in Spaces
    BY <1>2, <2>1
  <2>3. granted' \subseteq UNION {{s} \X (0..(SpaceSize(s) - 1)) : s \in Spaces}
    BY <1>0, <2>2 DEF MemTypeOK
  <2> QED BY <1>0, <2>3 DEF MemTypeOK
<1>4. TableInv'
  BY <1>1 DEF Live, TableInv, OneUse
<1>5. CallsOK'
  <2> SUFFICES ASSUME NEW t \in Threads, at'[t] # "out" PROVE CallOK(t)'
    BY DEF CallsOK
  <2>1. CASE at'[t] = at[t] /\ call'[t] = call[t]
    <3>1. CallOK(t)
      BY <2>1 DEF Live, CallsOK
    <3> QED BY <2>1, <3>1, CallFrame
  <2>2. CASE ~(at'[t] = at[t] /\ call'[t] = call[t])
    <3>1. t = me
      BY <2>2
    <3> QED BY <2>2, <3>1
  <2> QED BY <2>1, <2>2
<1>6. BooksInv'
  <2>1. \A g \in granted' : AddressOf(g) \in Mapped'
    BY <1>0, <1>1, <1>2 DEF BooksInv
  <2>2. ASSUME NEW t \in Threads, NEW pf, NEW i, InFlight(t, pf, i) PROVE InFlight(t, pf, i)'
    BY <2>2 DEF InFlight, TableAt
  <2>3. ASSUME NEW pf \in pool_flags, NEW i \in pool_bitmap'[pf]
        PROVE  <<pf, i>> \in Used' \/ \E t \in Threads : InFlight(t, pf, i)'
    <3>1. <<pf, i>> \in Used \/ \E t \in Threads : InFlight(t, pf, i)
      BY <1>0, <2>3 DEF BooksInv
    <3> QED BY <1>1, <2>2, <3>1
  <2> QED BY <2>1, <2>3 DEF BooksInv
<1>7. ShareInv'
  <2>1. ASSUME NEW t \in Threads, NEW i, Coming(t, i)' PROVE Coming(t, i)
    BY <2>1 DEF Coming, Resting, LoopAt, TableAt
  <2>2. \A s, i : Settled(s, i) => Settled(s, i)'
    BY <2>1 DEF Settled
  <2>3. \A t \in Threads : \A i : Claim(t, i)' => Claim(t, i)
    BY DEF Claim
  <2>4. ASSUME NEW s \in Spaces, NEW i, Claims(s, i)' PROVE Claims(s, i)
    <3>1. CASE <<s, i>> \in granted' \ granted
      <4>1. PICK g \in granted' \ granted : g = <<s, i>>
        BY <3>1
      <4>2. s = SpaceOf(me) /\ Claim(me, i)
        BY <4>1
      <4> QED BY <4>2 DEF Claims
    <3>2. CASE <<s, i>> \notin granted' \ granted
      BY <2>3, <2>4, <3>2 DEF Claims
    <3> QED BY <3>1, <3>2
  <2>5. \A p \in Mapped' : \E s \in Spaces : Half(s) = p[1] /\ Settled(s, p[2])'
    BY <1>0, <1>1, <2>2 DEF ShareInv
  <2>6. \A g \in granted' : Settled(g[1], g[2])'
    <3>1. \A g \in granted' : Settled(g[1], g[2])
      BY <1>0, <1>2 DEF ShareInv
    <3> QED BY <2>2, <3>1
  <2>7. \A r, s \in Spaces : \A i :
          Half(r) = Half(s) /\ Claims(r, i)' /\ Claims(s, i)' => r = s
    BY <1>0, <2>4 DEF ShareInv
  <2> QED BY <2>5, <2>6, <2>7 DEF ShareInv
<1> QED BY <1>3, <1>4, <1>5, <1>6, <1>7 DEF Live

(* main() is done once a client is inside a call, or may be preempted. *)
LEMMA ClientsRun ==
  ASSUME Live, cur \in Clients PROVE MainIdle
BY ThreadKinds DEF Live, BootInv

(* lock_release, with the lock of the user pool: only processes get here   *)
(* with a lock.                                                            *)
LEMMA UnlockInv == ASSUME Live, Unlock PROVE Live'
<1> USE ThreadKinds
<1>0. "unlock" \in Places \ {"out", "return"} /\ In("unlock")
  BY DEF Places, Unlock
<1>1. /\ Working(cur) /\ cur \in Threads /\ at[cur] = "unlock" /\ pc[cur] = "run"
      /\ at \in [Threads -> Places] /\ call \in [Threads -> Calls] /\ call[cur] = my
      /\ my.pf = PoolOf(cur)
  BY <1>0, InFacts DEF Working
<1>2. cur \in Processes
  <2>1. cur = main_thread => \A l \in Locks : depth[cur][l] = 0
    BY <1>1 DEF Live, SyncInv, CallInv, CallsByClients
  <2>2. PoolLock(my.pf) \in Locks /\ depth[cur][PoolLock(my.pf)] > 0
    BY DEF Unlock, LockRelease, PoolLock
  <2> QED BY <1>1, <2>1, <2>2, WorkFacts
<1>3. PoolLock(my.pf) = user_lock
  BY <1>1, <1>2, Sizes DEF PoolOf, PoolLock
<1>4. /\ LockRelease(user_lock) /\ at' = [at EXCEPT ![cur] = "return"]
      /\ UNCHANGED <<pool_bitmap, vaddr_bitmap, pte, pde, call, makeVars, granted>>
      /\ UNCHANGED <<making, pgdir>>
  BY <1>3 DEF Unlock, GoTo, makeVars
<1>5. /\ SyncInv /\ depth \in [Threads -> [Locks -> 0..MaxDepth]]
      /\ pc \in [Threads -> PC] /\ plock \in [Threads -> Locks] /\ MaxDepth \in Nat
  BY MaxDepthAssumption DEF Live, SyncInv, SyncTypeOK
<1>6. /\ plock' = [plock EXCEPT ![cur] = user_lock]
      /\ depth' = [depth EXCEPT ![cur][user_lock] = @ - 1]
      /\ \E x \in {"less", "clear"} : pc' = [pc EXCEPT ![cur] = x]
      /\ UNCHANGED <<cur, intr, status, panicked>>
  <2>1. depth[cur][user_lock] > 0
    BY <1>4 DEF LockRelease
  <2>2. holder[user_lock] = cur /\ holder_repeat_nr[user_lock] >= 1
    BY <1>1, <1>5, <2>1, AssertsHold
  <2> QED BY <1>4, <2>2 DEF LockRelease, ASSERT, Goto, vars
<1>7. SyncInv'
  <2>1. SyncNext
    BY <1>4 DEF SyncNext
  <2> QED BY <1>5, <2>1, SyncStep
<1>8. /\ at'[cur] = "return" /\ \A t \in Threads : t # cur => at'[t] = at[t]
      /\ pc'[cur] \in {"less", "clear"} /\ \A t \in Threads : t # cur => pc'[t] = pc[t]
      /\ plock'[cur] = user_lock /\ \A t \in Threads : t # cur => plock'[t] = plock[t]
      /\ depth'[cur][user_lock] = depth[cur][user_lock] - 1
      /\ depth'[cur][kernel_lock] = depth[cur][kernel_lock]
      /\ \A t \in Threads : t # cur => depth'[t] = depth[t]
  BY <1>1, <1>4, <1>5, <1>6
<1>9. LocalTypes'
  <2>1. "return" \in Places
    BY DEF Places
  <2> QED BY <1>1, <1>4, <2>1 DEF Live, LocalTypes
<1>10. Mapped' = Mapped /\ (\A pf : Full(pf)' <=> Full(pf)) /\ Started' = Started
  BY <1>4, <1>6 DEF Mapped, Full, Started
<1>11. BootInv'
  <2>1. MainIdle
    BY <1>2, ClientsRun
  <2>2. MainIdle'
    BY <1>2, <1>4, <1>8, <1>10, <2>1 DEF MainIdle
  <2> QED BY <1>2, <1>4, <1>6, <1>8, <1>10, <2>2 DEF Live, BootInv, MainIdle
<1>12. LockingInv'
  <2>1. ~Working(cur)'
    BY <1>6, <1>8 DEF Working
  <2>2. \A t \in Threads : t # cur => (Working(t)' <=> Working(t))
    BY <1>8 DEF Working
  <2>3. LockingInv /\ depth[cur][user_lock] \in 0..MaxDepth
    BY <1>1, <1>5 DEF Live
  <2>4. ASSUME NEW t \in Threads
        PROVE  /\ depth'[t][kernel_lock] = 0
               /\ pc'[t] # "run" => plock'[t] = user_lock
               /\ pc'[t] \in AcquirePC => at'[t] \in {"vaddr_scan", "mark"}
               /\ pc'[t] \in ReleasePC => at'[t] = "return"
               /\ t \in Processes /\ Working(t)' => depth'[t][user_lock] > 0
               /\ t \notin Processes => depth'[t][user_lock] = 0
    <3>1. CASE t = cur
      <4>1. ~Working(t)'
        BY <1>8, <3>1 DEF Working
      <4> QED BY <1>2, <1>8, <2>3, <3>1, <4>1 DEF LockingInv, AcquirePC
    <3>2. CASE t # cur
      BY <1>8, <2>2, <2>3, <3>2 DEF LockingInv
    <3> QED BY <3>1, <3>2
  <2>5. ASSUME ~Full(PF_USER)', NEW t \in Processes
        PROVE  depth'[t][user_lock] = IF Working(t)' THEN 1 ELSE 0
    <3>1. depth[t][user_lock] = IF Working(t) THEN 1 ELSE 0
      BY <1>10, <2>3, <2>5 DEF LockingInv
    <3>2. CASE t = cur
      <4>1. ~Working(t)'
        BY <1>8, <3>2 DEF Working
      <4> QED BY <1>1, <1>8, <3>1, <3>2, <4>1
    <3>3. CASE t # cur
      BY <1>8, <2>2, <3>1, <3>3
    <3> QED BY <3>2, <3>3
  <2> QED BY <2>4, <2>5 DEF LockingInv
<1>13. ASSUME NEW me \in Threads, me = cur
       PROVE  /\ CallOK(me)'
              /\ \A i : Claim(me, i)' => Claim(me, i)
  <2>1. CallOK(me) /\ at'[me] = "return" /\ at[me] = "unlock" /\ call'[me] = call[me]
    BY <1>1, <1>4, <1>8, <1>13, WorkFacts
  <2>2. RequestOK(me)' /\ AskingOK(me)' /\ LoopOK(me)' /\ FrameOK(me)'
    BY <1>4, <2>1 DEF CallOK, RequestOK, AskingOK, LoopOK, FrameOK, LoopAt, TableAt
  <2>3. DoneOK(me)'
    BY <1>4, <1>10, <2>1 DEF CallOK, DoneOK
  <2> QED BY <2>1, <2>2, <2>3 DEF CallOK, Claim, LoopAt, TableAt
<1>14. pgdir' \in [Processes -> Frames \cup {ABSENT}]
  BY <1>4 DEF Live, MemTypeOK
<1>15. PICK me \in Threads : me = cur
  BY <1>1
<1>16. at'[me] \in Resting
  BY <1>8, <1>15 DEF Resting
<1> QED BY <1>1, <1>4, <1>7, <1>8, <1>9, <1>11, <1>12, <1>13, <1>14, <1>15, <1>16, QuietStep

(* The locks are as they were, and the running thread, outside the locks,  *)
(* does not begin to work with a process's lock.                           *)
LEMMA LockingFrame ==
  ASSUME Live, UNCHANGED <<pc, plock, depth, pool_bitmap>>, NEW me \in Threads, pc[me] = "run",
         \A t \in Threads : t # me => at'[t] = at[t],
         me \in Processes => ~Working(me) /\ ~Working(me)'
  PROVE  LockingInv'
<1>1. LockingInv /\ (Full(PF_USER)' <=> Full(PF_USER))
  BY DEF Live, Full
<1>2. pc[me] \notin AcquirePC /\ pc[me] \notin ReleasePC
  BY DEF AcquirePC, ReleasePC
<1>3. \A t \in Processes : Working(t)' <=> Working(t)
  <2>1. \A t \in Processes : t # me => (Working(t)' <=> Working(t))
    BY ThreadKinds DEF Working
  <2> QED BY <2>1
<1> QED BY <1>1, <1>2, <1>3, ThreadKinds DEF LockingInv

(* A request ends: the pages it got are the caller's. *)
LEMMA ReturnInv == ASSUME Live, Return PROVE Live'
<1> USE ThreadKinds
<1>1. /\ cur \in Threads /\ at[cur] = "return" /\ pc[cur] = "run"
      /\ at \in [Threads -> Places] /\ call \in [Threads -> Calls] /\ call[cur] = my /\ my \in Calls
      /\ SyncInv /\ BootInv /\ LocalTypes
  BY AssertsHold DEF Live, LocalTypes, Return, In, At, my
<1>2. cur = main_thread \/ cur \in Processes
  BY <1>1 DEF BootInv
<1>3. RequestOK(cur) /\ DoneOK(cur)
  BY <1>1 DEF Live, CallsOK, CallOK
<1>4. /\ Space = SpaceOf(cur) /\ my.total \in Nat \ {0} /\ my.start \in Int
      /\ SpaceOf(cur) \in Spaces
  BY <1>1, <1>2, <1>3, Sizes DEF RequestOK, my, Space, SpaceOf, PoolOf, Spaces, Calls
<1>5. /\ granted' = granted \cup (IF my.start = -1 THEN {}
                                  ELSE {SpaceOf(cur)} \X (my.start..(my.start + my.total - 1)))
      /\ making' = IF cur = main_thread THEN [making EXCEPT !.ret = my.start] ELSE making
      /\ call' = [call EXCEPT ![cur] = NoCall] /\ at' = [at EXCEPT ![cur] = "out"]
      /\ UNCHANGED <<allVars, pool_bitmap, vaddr_bitmap, pte, pde, pgdir>>
      /\ UNCHANGED <<cur, intr, status, panicked, pc, plock, depth>>
  BY <1>4 DEF Return, SetCall, GoTo, allVars, vars, syncVars, callVars
<1>6. \/ my.start = -1 /\ Full(PoolOf(cur))
      \/ /\ my.start >= 0
         /\ \A i \in my.start..(my.start + my.total - 1) : <<PoolOf(cur), i>> \in Mapped
  BY <1>1, <1>3 DEF DoneOK
<1>7. SyncInv'
  BY <1>1, <1>5, SyncStep
<1>8. /\ at'[cur] = "out" /\ \A t \in Threads : t # cur => at'[t] = at[t] /\ call'[t] = call[t]
      /\ making' \in [who : Clients \cup {NULL}, step : {"none", "pcb", "bitmap", "pgdir"}, ret : Int]
      /\ making'.who = making.who /\ making'.step = making.step
      /\ cur = main_thread => making'.ret = my.start
      /\ cur # main_thread => making' = making
  <2>1. making \in [who : Clients \cup {NULL}, step : {"none", "pcb", "bitmap", "pgdir"}, ret : Int]
    BY <1>1 DEF LocalTypes
  <2> QED BY <1>1, <1>4, <1>5, <2>1
<1>9. LocalTypes'
  <2>1. "out" \in Places /\ NoCall \in Calls
    BY Sizes DEF Places, NoCall, Calls
  <2> QED BY <1>1, <1>5, <1>8, <2>1 DEF LocalTypes
<1>10. /\ Mapped' = Mapped /\ (\A pf : Full(pf)' <=> Full(pf)) /\ Started' = Started
  BY <1>5 DEF Mapped, Full, Started
<1>11. BootInv'
  <2>1. CASE cur = main_thread
    <3>1. ~MainIdle
      BY <1>1, <2>1 DEF MainIdle
    <3>2. Clients = {} \/ intr = INTR_OFF
      BY <1>1, <3>1 DEF BootInv
    <3>3. \/ making'.ret = -1 /\ Full(PF_KERNEL)
          \/ making'.ret # -1 /\ <<PF_KERNEL, making'.ret>> \in Mapped
      <4>1. PoolOf(cur) = PF_KERNEL
        BY <2>1 DEF PoolOf
      <4>2. my.start >= 0 => my.start \in my.start..(my.start + my.total - 1) /\ my.start # -1
        BY <1>4
      <4> QED BY <1>6, <1>8, <2>1, <4>1, <4>2
    <3>4. \A t \in Clients : at[t] = "out" /\ pc[t] = "run"
      BY <1>1, <3>1 DEF BootInv
    <3> QED BY <1>1, <1>5, <1>8, <1>10, <2>1, <3>2, <3>3, <3>4 DEF BootInv
  <2>2. CASE cur \in Processes
    <3>1. MainIdle /\ MainIdle'
      <4>1. MainIdle
        BY <2>2, ClientsRun
      <4> QED BY <1>5, <1>8, <1>10, <2>2, <4>1 DEF MainIdle
    <3> QED BY <1>1, <1>5, <1>8, <1>10, <2>2, <3>1 DEF BootInv, MainIdle
  <2> QED BY <1>2, <2>1, <2>2
<1>12. PICK me \in Threads : me = cur
  BY <1>1
<1>13. LockingInv'
  <2>1. ~Working(me) /\ ~Working(me)'
    BY <1>1, <1>8, <1>12 DEF Working
  <2> QED BY <1>1, <1>5, <1>8, <1>12, <2>1, LockingFrame
<1>14. ASSUME NEW g \in granted' \ granted
       PROVE  g = <<SpaceOf(me), g[2]>> /\ Claim(me, g[2])
  <2>1. my.start >= 0 /\ g \in {SpaceOf(cur)} \X (my.start..(my.start + my.total - 1))
    BY <1>5, <1>6, <1>14
  <2>2. g = <<SpaceOf(cur), g[2]>> /\ g[2] \in my.start..(my.start + my.total - 1)
    BY <2>1
  <2> QED BY <1>1, <1>12, <2>1, <2>2 DEF Claim, LoopAt, TableAt
<1>15. granted \subseteq granted' /\ at'[me] \in Resting /\ \A i : ~Claim(me, i)'
  BY <1>5, <1>8, <1>12 DEF Resting, Claim, LoopAt, TableAt
<1>16. pgdir' \in [Processes -> Frames \cup {ABSENT}]
  BY <1>5 DEF Live, MemTypeOK
<1> QED BY <1>1, <1>5, <1>7, <1>8, <1>9, <1>11, <1>12, <1>13, <1>14, <1>15, <1>16, QuietStep

-----------------------------------------------------------------------------
(* The calls. *)

(* The local variables of a call that begins. *)
LEMMA RequestFacts ==
  ASSUME NEW fn \in {"get_kernel_pages", "get_user_pages", "get_a_page"},
         NEW pf \in pool_flags, NEW n \in Nat
  PROVE  /\ Request(fn, pf, n) \in Calls
         /\ Request(fn, pf, n).fn = fn /\ Request(fn, pf, n).pf = pf
         /\ Request(fn, pf, n).cnt = n /\ Request(fn, pf, n).total = n
         /\ Request(fn, pf, n).start = -1 /\ Request(fn, pf, n).page = -1
<1>1. NoCall \in Calls /\ NoCall.start = -1 /\ NoCall.page = -1
  BY Sizes DEF NoCall, Calls
<1>2. Request(fn, pf, n) = [NoCall EXCEPT !.fn = fn, !.pf = pf, !.cnt = n, !.total = n]
  BY DEF Request
<1> QED BY <1>1, <1>2 DEF Calls

(* A process asks for pages: it waits for the lock of the user pool first. *)
LEMMA ClientAsks ==
  ASSUME Live, cur \in Processes, In("out"), LockAcquire(user_lock),
         UNCHANGED <<pool_bitmap, vaddr_bitmap, pte, pde, makeVars, granted>>,
         NEW x \in {"vaddr_scan", "mark"}, at' = [at EXCEPT ![cur] = x],
         NEW c \in Calls, call' = [call EXCEPT ![cur] = c],
         NEW me \in Threads, me = cur, CallOK(me)'
  PROVE  Live'
<1> USE ThreadKinds
<1>1. /\ at[cur] = "out" /\ pc[cur] = "run" /\ SyncInv /\ BootInv /\ LocalTypes /\ LockingInv
      /\ at \in [Threads -> Places] /\ call \in [Threads -> Calls]
      /\ pc \in [Threads -> PC] /\ plock \in [Threads -> Locks]
  BY DEF Live, LocalTypes, In, At, SyncInv, SyncTypeOK
<1>2. /\ plock' = [plock EXCEPT ![cur] = user_lock]
      /\ \E p \in {"again", "down"} : pc' = [pc EXCEPT ![cur] = p]
      /\ UNCHANGED <<cur, intr, status, panicked, depth, making, pgdir>>
  BY DEF LockAcquire, Goto, vars, makeVars
<1>3. SyncInv'
  <2>1. SyncNext
    BY DEF SyncNext
  <2> QED BY <1>1, <2>1, SyncStep
<1>4. /\ at'[cur] = x /\ \A t \in Threads : t # cur => at'[t] = at[t] /\ call'[t] = call[t]
      /\ pc'[cur] \in {"again", "down"} /\ \A t \in Threads : t # cur => pc'[t] = pc[t]
      /\ plock'[cur] = user_lock /\ \A t \in Threads : t # cur => plock'[t] = plock[t]
  BY <1>1, <1>2
<1>5. LocalTypes'
  <2>1. x \in Places
    BY DEF Places
  <2> QED BY <1>1, <1>2, <2>1 DEF LocalTypes
<1>6. Mapped' = Mapped /\ (\A pf : Full(pf)' <=> Full(pf)) /\ Started' = Started
  BY <1>2 DEF Mapped, Full, Started
<1>7. BootInv'
  <2>1. MainIdle /\ MainIdle'
    <3>1. MainIdle
      BY ClientsRun
    <3> QED BY <1>2, <1>4, <1>6, <3>1 DEF MainIdle
  <2> QED BY <1>1, <1>2, <1>4, <1>6, <2>1 DEF BootInv, MainIdle
<1>8. LockingInv'
  <2>1. ~Working(me) /\ ~Working(me)'
    BY <1>1, <1>4 DEF Working
  <2>2. \A t \in Threads : Working(t)' <=> Working(t)
    <3>1. \A t \in Threads : t # me => (Working(t)' <=> Working(t))
      BY <1>4 DEF Working
    <3> QED BY <2>1, <3>1
  <2>3. pc'[cur] \notin ReleasePC
    BY <1>4 DEF ReleasePC
  <2> QED BY <1>1, <1>2, <1>4, <1>6, <2>2, <2>3 DEF LockingInv
<1>9. pgdir' \in [Processes -> Frames \cup {ABSENT}]
  BY <1>2 DEF Live, MemTypeOK
<1>10. at'[me] \in Resting /\ \A i : ~Claim(me, i)'
  BY <1>4 DEF Resting, Claim, LoopAt, TableAt
<1> QED BY <1>1, <1>2, <1>3, <1>4, <1>5, <1>7, <1>8, <1>9, <1>10, QuietStep

(* get_user_pages, and get_a_page for the stack. *)
LEMMA ClientCallInv == ASSUME Live, ClientCall PROVE Live'
<1> USE ThreadKinds, Sizes
<1>1. /\ cur \in Processes /\ cur \in Threads /\ at \in [Threads -> Places] /\ call \in [Threads -> Calls]
  BY DEF ClientCall, Live, LocalTypes
<1>2. PICK me \in Threads : me = cur
  BY <1>1
<1>3. PoolOf(me) = PF_USER /\ SpaceOf(me) = me
  BY <1>1, <1>2 DEF PoolOf, SpaceOf
<1>4. ASSUME NEW n \in 1..MaxPages, get_user_pages(n), UserPages - 1 \in vaddr_bitmap[cur]
      PROVE  Live'
  <2> DEFINE c == Request("get_user_pages", PF_USER, n)
  <2>1. c \in Calls /\ c.fn = "get_user_pages" /\ c.pf = PF_USER /\ c.cnt = n /\ c.total = n
        /\ c.start = -1 /\ c.page = -1 /\ n \in Nat /\ n >= 1
    BY RequestFacts
  <2> HIDE DEF c
  <2>2. /\ In("out") /\ LockAcquire(user_lock)
        /\ at' = [at EXCEPT ![cur] = "vaddr_scan"] /\ call' = [call EXCEPT ![cur] = c]
        /\ UNCHANGED <<pool_bitmap, vaddr_bitmap, pte, pde, makeVars, granted>>
    BY <1>4 DEF get_user_pages, SetCall, GoTo, c
  <2>3. at'[me] = "vaddr_scan" /\ call'[me] = c /\ UserPages - 1 \in vaddr_bitmap'[me]
    BY <1>1, <1>2, <1>4, <2>2
  <2>4. RequestOK(me)' /\ AskingOK(me)'
    BY <1>1, <1>2, <1>3, <2>1, <2>3 DEF RequestOK, AskingOK
  <2>5. LoopOK(me)' /\ DoneOK(me)' /\ FrameOK(me)'
    BY <2>3 DEF LoopOK, DoneOK, FrameOK, LoopAt, TableAt
  <2>6. CallOK(me)'
    BY <2>4, <2>5 DEF CallOK
  <2> QED BY <1>1, <1>2, <2>1, <2>2, <2>6, ClientAsks
<1>5. ASSUME get_a_page(PF_USER, UserPages - 1), UserPages - 1 \notin vaddr_bitmap[cur]
      PROVE  Live'
  <2> DEFINE c == [Request("get_a_page", PF_USER, 1) EXCEPT !.start = UserPages - 1, !.page = UserPages - 1]
  <2>1. c \in Calls /\ c.fn = "get_a_page" /\ c.pf = PF_USER /\ c.cnt = 1 /\ c.total = 1
        /\ c.start = UserPages - 1 /\ c.page = UserPages - 1
    <3> DEFINE r == Request("get_a_page", PF_USER, 1)
    <3>1. r \in Calls /\ r.fn = "get_a_page" /\ r.pf = PF_USER /\ r.cnt = 1 /\ r.total = 1
      BY RequestFacts
    <3> HIDE DEF r
    <3>2. UserPages - 1 \in Int /\ c = [r EXCEPT !.start = UserPages - 1, !.page = UserPages - 1]
      BY DEF r
    <3> QED BY <3>1, <3>2 DEF Calls
  <2> HIDE DEF c
  <2>2. /\ In("out") /\ LockAcquire(user_lock)
        /\ at' = [at EXCEPT ![cur] = "mark"] /\ call' = [call EXCEPT ![cur] = c]
        /\ UNCHANGED <<pool_bitmap, vaddr_bitmap, pte, pde, makeVars, granted>>
    BY <1>5 DEF get_a_page, SetCall, GoTo, PoolLock, c
  <2>3. at'[me] = "mark" /\ call'[me] = c /\ UserPages - 1 \notin vaddr_bitmap'[me]
    BY <1>1, <1>2, <1>5, <2>2
  <2>4. RequestOK(me)' /\ AskingOK(me)'
    BY <1>1, <1>2, <1>3, <2>1, <2>3 DEF RequestOK, AskingOK
  <2>5. LoopOK(me)' /\ DoneOK(me)' /\ FrameOK(me)'
    BY <2>3 DEF LoopOK, DoneOK, FrameOK, LoopAt, TableAt
  <2>6. CallOK(me)'
    BY <2>4, <2>5 DEF CallOK
  <2> QED BY <1>1, <1>2, <2>1, <2>2, <2>6, ClientAsks
<1> QED BY <1>4, <1>5 DEF ClientCall

-----------------------------------------------------------------------------
(* main() makes the threads. *)

(* main() asks for kernel pages; nobody else runs yet. *)
LEMMA AskInv ==
  ASSUME Live, cur = main_thread, ~MainIdle, NEW t \in Clients \cup {NULL},
         NEW step \in {"none", "pcb", "bitmap", "pgdir"}, NEW n \in Nat \ {0}, Ask(t, step, n),
         step # "none" => t \in Clients \ Started,
         step \in {"bitmap", "pgdir"} => t \in Processes /\ vaddr_bitmap[PF_KERNEL] # {}
  PROVE  Live'
<1> USE ThreadKinds
<1> DEFINE c == Request("get_kernel_pages", PF_KERNEL, n)
<1>1. /\ at[cur] = "out" /\ pc[cur] = "run" /\ SyncInv /\ BootInv /\ LocalTypes
      /\ at \in [Threads -> Places] /\ call \in [Threads -> Calls]
  BY DEF Live, LocalTypes, Ask, get_kernel_pages, In, At
<1>2. c \in Calls /\ c.fn = "get_kernel_pages" /\ c.pf = PF_KERNEL /\ c.cnt = n /\ c.total = n
      /\ c.start = -1 /\ c.page = -1
  BY RequestFacts, Sizes
<1> HIDE DEF c
<1>3. /\ making' = [who |-> t, step |-> step, ret |-> -1]
      /\ call' = [call EXCEPT ![cur] = c] /\ at' = [at EXCEPT ![cur] = "vaddr_scan"]
      /\ UNCHANGED <<allVars, pool_bitmap, vaddr_bitmap, pte, pde, pgdir, granted>>
      /\ UNCHANGED <<cur, intr, status, panicked, pc, plock, depth>>
  BY DEF Ask, get_kernel_pages, SetCall, GoTo, allVars, vars, syncVars, callVars, c
<1>4. /\ at'[cur] = "vaddr_scan" /\ call'[cur] = c
      /\ \A u \in Threads : u # cur => at'[u] = at[u] /\ call'[u] = call[u]
      /\ making'.who = t /\ making'.step = step
  BY <1>1, <1>3
<1>5. SyncInv'
  BY <1>1, <1>3, SyncStep
<1>6. LocalTypes'
  <2>1. "vaddr_scan" \in Places /\ -1 \in Int
    BY DEF Places
  <2>2. making' \in [who : Clients \cup {NULL}, step : {"none", "pcb", "bitmap", "pgdir"}, ret : Int]
    BY <1>3, <2>1
  <2> QED BY <1>1, <1>2, <1>3, <2>1, <2>2 DEF LocalTypes
<1>7. Mapped' = Mapped /\ (\A pf : Full(pf)' <=> Full(pf)) /\ Started' = Started
  BY <1>3 DEF Mapped, Full, Started
<1>8. BootInv'
  <2>1. Clients = {} \/ intr = INTR_OFF
    BY <1>1 DEF BootInv
  <2>2. \A u \in Clients : at[u] = "out" /\ pc[u] = "run"
    BY <1>1 DEF BootInv
  <2> QED BY <1>1, <1>3, <1>4, <1>7, <2>1, <2>2 DEF BootInv
<1>9. PICK me \in Threads : me = cur
  OBVIOUS
<1>10. LockingInv'
  BY <1>1, <1>3, <1>4, <1>9, LockingFrame
<1>11. CallOK(me)'
  <2>1. PoolOf(me) = PF_KERNEL /\ me \notin Processes /\ at'[me] = "vaddr_scan" /\ call'[me] = c
    BY <1>4, <1>9 DEF PoolOf
  <2>2. RequestOK(me)' /\ AskingOK(me)'
    BY <1>2, <2>1 DEF RequestOK, AskingOK
  <2>3. LoopOK(me)' /\ DoneOK(me)' /\ FrameOK(me)'
    BY <2>1 DEF LoopOK, DoneOK, FrameOK, LoopAt, TableAt
  <2> QED BY <2>2, <2>3 DEF CallOK
<1>12. pgdir' \in [Processes -> Frames \cup {ABSENT}]
  BY <1>3 DEF Live, MemTypeOK
<1>13. at'[me] \in Resting /\ \A i : ~Claim(me, i)'
  BY <1>4, <1>9 DEF Resting, Claim, LoopAt, TableAt
<1> QED BY <1>1, <1>3, <1>4, <1>5, <1>6, <1>8, <1>9, <1>10, <1>11, <1>12, <1>13, QuietStep

(* main() puts the thread it has made in the lists. *)
LEMMA ReadyInv ==
  ASSUME Live, making.step # "none", In("out"), Ready,
         pgdir' \in [Processes -> Frames \cup {ABSENT}],
         \A t \in Processes : t # making.who => pgdir'[t] = pgdir[t],
         making.who \in Processes => pgdir'[making.who] # ABSENT \/ Full(PF_KERNEL),
         vaddr_bitmap[PF_KERNEL] # {}
  PROVE  Live'
<1> USE ThreadKinds
<1>1. /\ SyncInv /\ BootInv /\ LocalTypes /\ LockingInv /\ ThreadInv /\ at[cur] = "out" /\ pc[cur] = "run"
      /\ status \in [Threads -> TaskStatus]
  BY DEF Live, SyncInv, ThreadInv, TypeOK, In, At
<1>2. /\ making.who \in Clients \ Started /\ ~MainIdle
  BY <1>1 DEF BootInv, MainIdle
<1>3. PICK w \in Clients : w = making.who
  BY <1>2
<1>4. /\ MainStart(w) /\ cur = main_thread /\ ThreadStart(w) /\ making' = NoThread
      /\ UNCHANGED <<pool_bitmap, vaddr_bitmap, pte, pde, at, call, granted, syncVars>>
      /\ UNCHANGED <<pc, plock, depth>>
  BY <1>3 DEF Ready, MainStart, syncVars, callVars
<1>5. SyncInv'
  <2>1. SyncNext
    BY <1>4 DEF SyncNext
  <2> QED BY <1>1, <2>1, SyncStep
<1>6. /\ UNCHANGED <<cur, intr>> /\ intr = INTR_OFF
      /\ \A t \in Threads : /\ Runnable(t)' <=> t = w \/ Runnable(t)
                            /\ Blocked(t)' <=> Blocked(t)
                            /\ status'[t] = NO_TASK => status[t] = NO_TASK
  BY <1>1, <1>4, StartEffects DEF ThreadStart
<1>7. \A t \in Started' : t = w \/ t \in Started
  <2>1. status' \in [Threads -> TaskStatus]
    BY <1>5 DEF SyncInv, ThreadInv, TypeOK
  <2>2. \A t \in Threads : status'[t] # NO_TASK => Runnable(t)' \/ Blocked(t)'
    BY <2>1 DEF Runnable, Blocked, TaskStatus
  <2>3. \A t \in Threads : Runnable(t) \/ Blocked(t) => status[t] # NO_TASK
    BY DEF Runnable, Blocked, BlockedStatus, TASK_RUNNING, TASK_READY, TASK_BLOCKED,
           TASK_WAITING, TASK_HANGING, NO_TASK
  <2> QED BY <1>6, <2>2, <2>3 DEF Started
<1>8. making' \in [who : Clients \cup {NULL}, step : {"none", "pcb", "bitmap", "pgdir"}, ret : Int]
      /\ making'.step = "none"
  BY <1>4 DEF NoThread
<1>9. LocalTypes'
  BY <1>1, <1>4, <1>8 DEF LocalTypes
<1>10. Mapped' = Mapped /\ (\A pf : Full(pf)' <=> Full(pf))
  BY <1>4 DEF Mapped, Full
<1>11. BootInv'
  <2>1. \A t \in Clients : at'[t] = "out" /\ pc'[t] = "run"
    BY <1>1, <1>2, <1>4 DEF BootInv
  <2>2. \A t \in Processes : t \in Started' /\ pgdir'[t] = ABSENT => Full(PF_KERNEL)'
    <3>1. \A t \in Processes : t \in Started /\ pgdir[t] = ABSENT => Full(PF_KERNEL)
      BY <1>1 DEF BootInv
    <3> QED BY <1>3, <1>7, <1>10, <3>1
  <2>3. \A t \in Threads : at'[t] # "out" => t = main_thread \/ t \in Processes
    BY <1>1, <1>4 DEF BootInv
  <2> QED BY <1>4, <1>6, <1>8, <2>1, <2>2, <2>3 DEF BootInv
<1>12. LockingInv'
  BY <1>1, <1>4, <1>10 DEF LockingInv, Working
<1>13. main_thread \in Threads /\ at'[main_thread] = at[main_thread] /\ call'[main_thread] = call[main_thread]
  BY <1>4
<1> QED BY <1>4, <1>5, <1>9, <1>11, <1>12, <1>13, QuietStep

(* What main() got is mapped, so that memory of the kernel is in use. *)
LEMMA MainGot ==
  ASSUME Live, cur = main_thread, In("out"), making.step # "none", making.ret # -1
  PROVE  <<PF_KERNEL, making.ret>> \in Mapped /\ vaddr_bitmap[PF_KERNEL] # {}
<1>1. <<PF_KERNEL, making.ret>> \in Mapped
  BY DEF Live, BootInv, In
<1>2. PICK s \in Spaces : Half(s) = PF_KERNEL /\ making.ret \in vaddr_bitmap[s]
  BY <1>1 DEF Live, ShareInv, Settled
<1>3. s = PF_KERNEL
  BY <1>2, Sizes DEF Half
<1> QED BY <1>1, <1>2, <1>3

(* Every step of main(): nothing fails while what it asked for was there. *)
LEMMA BootStepInv ==
  ASSUME Live, BootStep, making.step \in {"pcb", "bitmap"} => MemsetOK
  PROVE  Live'
<1> USE ThreadKinds, Sizes
<1>1. /\ cur = main_thread /\ In("out") /\ BootInv /\ LocalTypes /\ SyncInv /\ LockingInv
      /\ at[main_thread] = "out"
  BY DEF BootStep, MainRequest, AskPCB, InitThread, CreatePageDir, SetPgdir, Sti, Asked, In, Live
<1>2. CASE MainRequest
  <2>1. PICK n \in MainRequests : Ask(NULL, "none", n)
    BY <1>2 DEF MainRequest
  <2>2. ~MainIdle /\ n \in Nat \ {0}
    BY <1>2 DEF MainRequest, MainIdle
  <2> QED BY <1>1, <2>1, <2>2, AskInv
<1>3. CASE AskPCB
  <2>1. PICK t \in Clients \ Started : Ask(t, "pcb", 1)
    BY <1>3 DEF AskPCB
  <2>2. ~MainIdle /\ 1 \in Nat \ {0}
    BY <2>1 DEF MainIdle
  <2> QED BY <1>1, <2>1, <2>2, AskInv
<1>4. CASE InitThread
  <2>1. making.step = "pcb" /\ MemsetOK /\ making.who \in Clients \ Started /\ ~MainIdle
        /\ making.ret # -1
    BY <1>1, <1>4 DEF InitThread, Asked, BootInv, MainIdle, MemsetOK
  <2>2. vaddr_bitmap[PF_KERNEL] # {}
    BY <1>1, <2>1, MainGot
  <2>3. CASE making.who \in Processes
    <3>1. Ask(making.who, "bitmap", BitmapPages)
      BY <1>4, <2>1, <2>3 DEF InitThread
    <3> QED BY <1>1, <2>1, <2>2, <2>3, <3>1, AskInv
  <2>4. CASE making.who \notin Processes
    <3>1. Ready /\ pgdir' = pgdir
      BY <1>4, <2>1, <2>4 DEF InitThread
    <3>2. pgdir \in [Processes -> Frames \cup {ABSENT}]
      BY DEF Live, MemTypeOK
    <3> QED BY <1>1, <2>1, <2>2, <2>4, <3>1, <3>2, ReadyInv
  <2> QED BY <2>3, <2>4
<1>5. CASE CreatePageDir
  <2>1. making.step = "bitmap" /\ Ask(making.who, "pgdir", 1)
    BY <1>5 DEF CreatePageDir, Asked
  <2>2. making.who \in Clients \ Started /\ making.who \in Processes /\ ~MainIdle
        /\ vaddr_bitmap[PF_KERNEL] # {} /\ 1 \in Nat \ {0}
    BY <1>1, <2>1 DEF BootInv, MainIdle
  <2> QED BY <1>1, <2>1, <2>2, AskInv
<1>6. CASE SetPgdir
  <2>1. /\ making.step = "pgdir" /\ Ready
        /\ pgdir' = [pgdir EXCEPT ![making.who] =
                       IF making.ret = -1 THEN ABSENT ELSE pte[<<PF_KERNEL, making.ret>>]]
    BY <1>6 DEF SetPgdir, Asked, addr_v2p
  <2>2. making.who \in Processes /\ vaddr_bitmap[PF_KERNEL] # {}
    BY <1>1, <2>1 DEF BootInv
  <2>3. pgdir \in [Processes -> Frames \cup {ABSENT}] /\ pte \in [Pages -> Frames \cup {ABSENT}]
    BY DEF Live, MemTypeOK
  <2>4. \/ making.ret = -1 /\ Full(PF_KERNEL)
        \/ making.ret # -1 /\ <<PF_KERNEL, making.ret>> \in Mapped
    BY <1>1, <2>1 DEF BootInv
  <2>5. <<PF_KERNEL, making.ret>> \in Mapped =>
          /\ pte[<<PF_KERNEL, making.ret>>] \in Frames \cup {ABSENT}
          /\ pte[<<PF_KERNEL, making.ret>>] # ABSENT
    BY <2>3 DEF Mapped
  <2>6. /\ pgdir' \in [Processes -> Frames \cup {ABSENT}]
        /\ \A t \in Processes : t # making.who => pgdir'[t] = pgdir[t]
        /\ pgdir'[making.who] # ABSENT \/ Full(PF_KERNEL)
    BY <2>1, <2>2, <2>3, <2>4, <2>5
  <2> QED BY <1>1, <2>1, <2>2, <2>6, ReadyInv
<1>7. CASE Sti
  <2>1. /\ making.step = "none" /\ Started = Clients /\ OwnIntr(INTR_ON)
        /\ UNCHANGED memVars /\ UNCHANGED <<pool_bitmap, vaddr_bitmap, pte, pde, at, call, making, pgdir, granted>>
        /\ UNCHANGED <<cur, status, pc, plock, depth>>
    BY <1>7 DEF Sti, Asked, OwnIntr, IntrSet, memVars, syncVars, callVars
  <2>2. SyncInv'
    <3>1. SyncNext
      BY <2>1 DEF SyncNext, IntrStatus
    <3> QED BY <1>1, <3>1, SyncStep
  <2>3. Mapped' = Mapped /\ (\A pf : Full(pf)' <=> Full(pf)) /\ Started' = Started
    BY <2>1 DEF Mapped, Full, Started
  <2>4. MainIdle' \/ Clients = {}
    BY <1>1, <2>1, <2>3 DEF MainIdle, BootInv
  <2>5. BootInv'
    BY <1>1, <2>1, <2>3, <2>4 DEF BootInv
  <2>6. LocalTypes' /\ LockingInv'
    BY <1>1, <2>1, <2>3 DEF LocalTypes, LockingInv, Working
  <2>7. pgdir' \in [Processes -> Frames \cup {ABSENT}]
    BY <2>1 DEF Live, MemTypeOK
  <2> QED BY <2>1, <2>2, <2>5, <2>6, <2>7, QuietStep
<1> QED BY <1>2, <1>3, <1>4, <1>5, <1>6, <1>7 DEF BootStep

-----------------------------------------------------------------------------
(* The steps inside sync.c, and the timer. *)

(* A process that waits for the lock begins to work when it gets it, for   *)
(* the first time unless the pool is empty.                                *)
LEMMA CallStepInv == ASSUME Live, CallStep, UNCHANGED memVars PROVE Live'
<1> USE ThreadKinds
<1>1. /\ SyncInv /\ BootInv /\ LocalTypes /\ LockingInv
      /\ depth \in [Threads -> [Locks -> 0..MaxDepth]]
      /\ pc \in [Threads -> PC] /\ plock \in [Threads -> Locks] /\ MaxDepth \in Nat
  BY MaxDepthAssumption DEF Live, SyncInv, SyncTypeOK
<1>2. /\ cur \in Clients /\ cur \in Threads /\ pc[cur] # "run" /\ plock' = plock
      /\ \E x \in PC : pc' = [pc EXCEPT ![cur] = x] /\ <<pc[cur], x>> \in CallMoves
      /\ depth' = IF pc[cur] = "again" THEN [depth EXCEPT ![cur][lock] = @ + 1]
                  ELSE IF pc[cur] = "first" THEN [depth EXCEPT ![cur][lock] = 1]
                  ELSE depth
      /\ \A t \in Threads : status'[t] = NO_TASK <=> status[t] = NO_TASK
  BY <1>1, CallStepEffects
<1>3. PICK x \in PC : pc' = [pc EXCEPT ![cur] = x] /\ <<pc[cur], x>> \in CallMoves
  BY <1>2
<1>4. UNCHANGED <<pool_bitmap, vaddr_bitmap, pte, pde, at, call, making, pgdir, granted>>
  BY DEF memVars
<1>5. SyncInv'
  <2>1. SyncNext
    BY DEF SyncNext
  <2> QED BY <1>1, <2>1, SyncStep
<1>6. LocalTypes' /\ Mapped' = Mapped /\ (\A pf : Full(pf)' <=> Full(pf)) /\ Started' = Started
  BY <1>1, <1>2, <1>4 DEF LocalTypes, Mapped, Full, Started
<1>7. BootInv'
  <2>1. MainIdle /\ MainIdle'
    <3>1. MainIdle
      BY <1>2, ClientsRun
    <3> QED BY <1>4, <1>6, <3>1 DEF MainIdle
  <2> QED BY <1>1, <1>4, <1>6, <2>1 DEF BootInv
<1>8. lock = user_lock /\ plock[cur] = user_lock
  BY <1>1, <1>2 DEF LockingInv, lock
<1>9. /\ pc'[cur] = x /\ \A t \in Threads : t # cur => pc'[t] = pc[t]
      /\ \A t \in Threads : depth'[t][kernel_lock] = depth[t][kernel_lock]
      /\ \A t \in Threads : t # cur => depth'[t][user_lock] = depth[t][user_lock]
      /\ depth'[cur][user_lock] = IF pc[cur] = "again" THEN depth[cur][user_lock] + 1
                                  ELSE IF pc[cur] = "first" THEN 1
                                  ELSE depth[cur][user_lock]
  BY <1>1, <1>2, <1>3, <1>8
<1>10. /\ x \in AcquirePC => pc[cur] \in AcquirePC
       /\ x \in ReleasePC => pc[cur] \in ReleasePC
       /\ x = "run" => pc[cur] \in {"again", "first"} \/ pc[cur] \in ReleasePC
       /\ pc[cur] \in {"again", "first"} => x = "run" /\ pc[cur] \in AcquirePC
  BY <1>3 DEF CallMoves, AcquirePC, ReleasePC
<1>11. ~Working(cur) /\ depth[cur][user_lock] \in 0..MaxDepth
  BY <1>1, <1>2 DEF Working
<1>12. PICK me \in Threads : me = cur
  BY <1>2
<1>13. Working(me)' <=> pc[me] \in {"again", "first"}
  <2>1. pc[me] \in {"again", "first"} => at[me] \in {"vaddr_scan", "mark"}
    BY <1>1, <1>10, <1>12 DEF LockingInv
  <2>2. pc[me] \in ReleasePC => at[me] = "return"
    BY <1>1, <1>12 DEF LockingInv
  <2> QED BY <1>4, <1>9, <1>10, <1>12, <2>1, <2>2 DEF Working
<1>14. \A t \in Threads : t # me => (Working(t)' <=> Working(t))
  BY <1>4, <1>9, <1>12 DEF Working
<1>15. LockingInv'
  <2>1. ASSUME NEW t \in Threads
        PROVE  /\ depth'[t][kernel_lock] = 0
               /\ pc'[t] # "run" => plock'[t] = user_lock
               /\ pc'[t] \in AcquirePC => at'[t] \in {"vaddr_scan", "mark"}
               /\ pc'[t] \in ReleasePC => at'[t] = "return"
               /\ t \in Processes /\ Working(t)' => depth'[t][user_lock] > 0
               /\ t \notin Processes => depth'[t][user_lock] = 0
    <3>1. CASE t = me
      <4>1. Working(t)' => depth'[t][user_lock] > 0
        BY <1>9, <1>11, <1>12, <1>13, <3>1
      <4>2. pc[me] \in {"again", "first"} => me \in Processes
        BY <1>1, <1>2, <1>10, <1>12 DEF LockingInv, BootInv
      <4>3. t \notin Processes => depth'[t][user_lock] = 0
        BY <1>1, <1>9, <1>12, <3>1, <4>2 DEF LockingInv
      <4> QED BY <1>1, <1>2, <1>4, <1>8, <1>9, <1>10, <1>12, <3>1, <4>1, <4>3 DEF LockingInv
    <3>2. CASE t # me
      BY <1>1, <1>2, <1>4, <1>9, <1>12, <1>14, <3>2 DEF LockingInv
    <3> QED BY <3>1, <3>2
  <2>2. ASSUME ~Full(PF_USER)', NEW t \in Processes
        PROVE  depth'[t][user_lock] = IF Working(t)' THEN 1 ELSE 0
    <3>1. depth[t][user_lock] = IF Working(t) THEN 1 ELSE 0
      BY <1>1, <1>6, <2>2 DEF LockingInv
    <3>2. CASE t = me
      <4>1. depth[t][user_lock] = 0
        BY <1>11, <1>12, <3>1, <3>2
      <4>2. pc[cur] # "again"
        <5>1. pc[cur] = "again" => depth[cur][plock[cur]] > 0
          BY <1>1, <1>2 DEF SyncInv, LockInv, DepthAtPC
        <5> QED BY <1>8, <1>12, <3>2, <4>1, <5>1
      <4> QED BY <1>9, <1>12, <1>13, <3>2, <4>1, <4>2
    <3>3. CASE t # me
      BY <1>9, <1>12, <1>14, <3>1, <3>3
    <3> QED BY <3>2, <3>3
  <2> QED BY <2>1, <2>2 DEF LockingInv
<1>16. pgdir' \in [Processes -> Frames \cup {ABSENT}]
  BY <1>4 DEF Live, MemTypeOK
<1> QED BY <1>4, <1>5, <1>6, <1>7, <1>12, <1>15, <1>16, QuietStep

(* A timer interrupt may fall anywhere once main() is done. *)
LEMMA PreemptInv == ASSUME Live, Preempt, UNCHANGED memVars PROVE Live'
<1> USE ThreadKinds
<1>1. SyncInv /\ BootInv /\ LocalTypes /\ LockingInv /\ ThreadInv
  BY DEF Live, SyncInv
<1>2. /\ UNCHANGED <<pool_bitmap, vaddr_bitmap, pte, pde, at, call, making, pgdir, granted>>
      /\ UNCHANGED <<pc, plock, depth>>
  BY DEF memVars, Preempt, syncVars, callVars
<1>3. /\ intr = INTR_ON /\ \A t \in Threads : status'[t] = NO_TASK <=> status[t] = NO_TASK
  BY <1>1, TickEffects DEF Preempt
<1>4. SyncInv'
  <2>1. SyncNext
    BY DEF SyncNext
  <2> QED BY <1>1, <2>1, SyncStep
<1>5. LocalTypes' /\ Mapped' = Mapped /\ (\A pf : Full(pf)' <=> Full(pf)) /\ Started' = Started
  BY <1>1, <1>2, <1>3 DEF LocalTypes, Mapped, Full, Started
<1>6. BootInv'
  <2>1. MainIdle \/ Clients = {}
    BY <1>1, <1>3 DEF BootInv, INTR_ON, INTR_OFF
  <2>2. MainIdle => MainIdle'
    BY <1>2, <1>5 DEF MainIdle
  <2> QED BY <1>1, <1>2, <1>5, <2>1, <2>2 DEF BootInv
<1>7. LockingInv'
  BY <1>1, <1>2, <1>5 DEF LockingInv, Working
<1>8. pgdir' \in [Processes -> Frames \cup {ABSENT}]
  BY <1>2 DEF Live, MemTypeOK
<1> QED BY <1>2, <1>4, <1>5, <1>6, <1>7, <1>8, QuietStep

-----------------------------------------------------------------------------
(* The steps that panic, and what follows. *)

(* Before a panic the properties follow from the invariant. *)
LEMMA LiveSafe == Live => Safe
<1> SUFFICES ASSUME Live PROVE Safe
  OBVIOUS
<1> USE ThreadKinds
<1>1. MemTypeOK /\ OneUse /\ ~panicked /\ BooksInv /\ ShareInv
  BY DEF Live, TableInv, SyncInv, ThreadInv, NoPanic
<1>2. BooksExact
  <2>1. ASSUME Quiet
        PROVE  \A pf \in pool_flags : \A i \in pool_bitmap[pf] : <<pf, i>> \in Used
    <3>1. \A t \in Threads : at[t] \notin {"map", "table_map"} \cup TableAt
      BY <2>1 DEF Quiet, TableAt
    <3> QED BY <1>1, <3>1 DEF BooksInv, InFlight
  <2> QED BY <1>1, <2>1 DEF BooksExact, BooksInv
<1>3. LockKeptOnlyIfEmpty
  <2> SUFFICES ASSUME NEW t \in Threads, at[t] = "out"
               PROVE  depth[t][user_lock] > 0 => pool_bitmap[PF_USER] = 0..(UserFrames - 1)
    BY DEF LockKeptOnlyIfEmpty
  <2>1. ~Working(t)
    BY DEF Working
  <2>2. ~Full(PF_USER) => depth[t][user_lock] = 0
    <3>1. CASE t \in Processes
      BY <2>1, <3>1 DEF Live, LockingInv
    <3>2. CASE t \notin Processes
      BY <3>2 DEF Live, LockingInv
    <3> QED BY <3>1, <3>2
  <2> QED BY <2>1, <2>2, Sizes DEF Full
<1>4. FramesOwned
  <2> SUFFICES ASSUME NEW g \in granted, NEW h \in granted, AddressOf(g) = AddressOf(h)
               PROVE  g = h
    BY <1>1 DEF FramesOwned
  <2>1. g = <<g[1], g[2]>> /\ h = <<h[1], h[2]>> /\ g[1] \in Spaces /\ h[1] \in Spaces
    BY <1>1 DEF MemTypeOK
  <2>2. Half(g[1]) = Half(h[1]) /\ g[2] = h[2]
    BY DEF AddressOf
  <2>3. Claims(g[1], g[2]) /\ Claims(h[1], g[2])
    BY <2>1, <2>2 DEF Claims
  <2>4. g[1] = h[1]
    BY <1>1, <2>1, <2>2, <2>3 DEF ShareInv
  <2> QED BY <2>1, <2>2, <2>4
<1> QED BY <1>1, <1>2, <1>3, <1>4 DEF Safe, PanicCauses

(* Why the kernel panics. *)
Cause == NoVirtualPages \/ NoKernelFrames \/ AddressTaken

(* A pool that is full has no run of pages. *)
LEMMA NoRun ==
  ASSUME Live, Full(PF_KERNEL)
  PROVE  bitmap_scan(pool_bitmap[PF_KERNEL], KernelFrames, BitmapPages) = -1
<1>1. PICK size \in Nat : size = KernelFrames
  BY Sizes
<1>2. PICK cnt \in Nat \ {0} : cnt = BitmapPages
  BY Sizes
<1>3. PICK taken \in SUBSET (0..(size - 1)) : taken = pool_bitmap[PF_KERNEL]
  BY <1>1, Sizes DEF Live, MemTypeOK
<1>4. taken = 0..(size - 1)
  BY <1>1, <1>3, Sizes DEF Full
<1>5. LET r == bitmap_scan(taken, size, cnt)
      IN  \/ r = -1 /\ \A i \in 0..(size - cnt) : \E j \in i..(i + cnt - 1) : j \in taken
          \/ r \in 0..(size - cnt) /\ \A j \in r..(r + cnt - 1) : j \notin taken
  BY ScanFacts
<1>6. bitmap_scan(taken, size, cnt) = -1
  <2> SUFFICES ASSUME NEW r \in 0..(size - cnt), \A j \in r..(r + cnt - 1) : j \notin taken
               PROVE  FALSE
    BY <1>5
  <2>1. r \in r..(r + cnt - 1) /\ r \in 0..(size - 1)
    OBVIOUS
  <2> QED BY <1>4, <2>1
<1> QED BY <1>1, <1>2, <1>3, <1>6

(* A failed ASSERT changes nothing but the CPU's state. *)
LEMMA PanicSafe == ASSUME Live, Cause, MemPanic PROVE MemInv'
<1>1. /\ panicked' = TRUE /\ cur' = cur
      /\ UNCHANGED <<pool_bitmap, vaddr_bitmap, pte, pde, at, call, making, pgdir, granted, pc, depth>>
  BY DEF MemPanic, Panic, syncVars, callVars, memVars
<1>2. Safe
  BY LiveSafe
<1>3. Mapped' = Mapped /\ Made' = Made /\ Used' = Used
  BY <1>1 DEF Mapped, Made, Used
<1>4. MemTypeOK' /\ FramesOwned'
  BY <1>1, <1>2, <1>3 DEF Safe, MemTypeOK, FramesOwned, OneUse
<1>5. BooksExact' /\ LockKeptOnlyIfEmpty'
  BY <1>1, <1>2, <1>3 DEF Safe, BooksExact, Quiet, LockKeptOnlyIfEmpty
<1>6. Cause'
  BY <1>1, <1>3 DEF Cause, NoVirtualPages, NoKernelFrames, AddressTaken, my, Space, Page, HasPgdir
<1>7. PanicCauses'
  BY <1>6 DEF PanicCauses, Cause
<1> QED BY <1>1, <1>4, <1>5, <1>7 DEF MemInv, Safe

(* The memory of a page table that palloc did not find: the kernel's       *)
(* frames are all taken.                                                   *)
LEMMA TableLostSafe == ASSUME Live, TableLost PROVE MemInv'
<1>0. "table_map" \in Places \ {"out", "return"} /\ In("table_map")
  BY DEF Places, LoopAt, TableAt, TableLost
<1>1. /\ Working(cur) /\ cur \in Threads /\ at[cur] = "table_map" /\ call[cur] = my
  BY <1>0, InFacts
<1>2. /\ panicked' = TRUE /\ cur' = cur /\ my.table = -1
      /\ pde' = [pde EXCEPT ![Table] = FRAME_0]
      /\ UNCHANGED <<pool_bitmap, vaddr_bitmap, pte, at, call, making, pgdir, granted, pc, depth>>
  BY DEF TableLost, Panic, syncVars, callVars, makeVars
<1>3. Safe /\ TableInv /\ MemTypeOK
  BY LiveSafe DEF Live
<1>4. Cause
  <2>1. FrameOK(cur)
    BY <1>1, WorkFacts DEF CallOK
  <2>2. -1 \notin pool_bitmap[PF_KERNEL]
    BY <1>3, Sizes DEF MemTypeOK
  <2>3. Full(PF_KERNEL)
    BY <1>1, <1>2, <2>1, <2>2 DEF FrameOK
  <2> QED BY <1>1, <2>3, NoRun DEF Cause, NoKernelFrames
<1>5. Cause'
  <2>1. at'[cur'] = "table_map"
    BY <1>1, <1>2
  <2>2. bitmap_scan(pool_bitmap[PF_KERNEL], KernelFrames, BitmapPages)' = -1
    BY <1>1, <1>2, <1>4 DEF Cause, NoVirtualPages, NoKernelFrames, AddressTaken
  <2> QED BY <2>1, <2>2 DEF Cause, NoKernelFrames
<1>6. /\ pde \in [Tables -> Frames \cup {ABSENT, FRAME_0}]
      /\ pde' \in [Tables -> Frames \cup {ABSENT, FRAME_0}]
      /\ Mapped' = Mapped
      /\ \A d \in Tables : d # Table => pde'[d] = pde[d]
      /\ \A d \in Tables : d = Table => pde'[d] = FRAME_0
  BY <1>2, <1>3 DEF MemTypeOK, Mapped
<1>7. MemTypeOK'
  BY <1>2, <1>3, <1>6 DEF MemTypeOK
<1>8. FramesOwned'
  <2>1. \A d \in Made' : d # Table => d \in Made /\ pde'[d] = pde[d] /\ pde[d] # FRAME_0
    BY <1>3, <1>6 DEF Made, TableInv
  <2>2. \A d \in Made' : d = Table => pde'[d] = FRAME_0
    BY <1>6 DEF Made
  <2>3. \A p \in Mapped : pte[p] # FRAME_0
    BY <1>3, FramesAre DEF MemTypeOK, Mapped
  <2>4. Used' \subseteq Used \cup {FRAME_0}
    BY <1>2, <1>6, <2>1, <2>2 DEF Used
  <2>5. \A p, q \in Mapped' : pte'[p] = pte'[q] => p = q
    BY <1>2, <1>3, <1>6 DEF TableInv, OneUse
  <2>6. \A d, e \in Made' : pde'[d] = pde'[e] => d = e
    BY <1>3, <2>1, <2>2 DEF TableInv, OneUse
  <2>7. \A p \in Mapped', d \in Made' : pte'[p] # pde'[d]
    BY <1>2, <1>3, <1>6, <2>1, <2>2, <2>3 DEF TableInv, OneUse
  <2>8. \A f \in Used' \ {FRAME_0} : f[2] \in pool_bitmap'[f[1]]
    BY <1>2, <1>3, <2>4 DEF TableInv, OneUse
  <2>9. OneUse'
    BY <2>5, <2>6, <2>7, <2>8 DEF OneUse
  <2> QED BY <1>2, <1>3, <2>9 DEF Safe, FramesOwned
<1>9. BooksExact' /\ LockKeptOnlyIfEmpty'
  BY <1>2, <1>3, <1>6 DEF Safe, BooksExact, Quiet, LockKeptOnlyIfEmpty
<1>10. PanicCauses'
  BY <1>5 DEF PanicCauses, Cause
<1> QED BY <1>2, <1>7, <1>8, <1>9, <1>10 DEF MemInv, Safe

(* page_table_add's first ASSERT fails for a page vaddr_get did not find. *)
LEMMA NoPageSafe == ASSUME Live, PageTableAdd, my.page = -1 PROVE MemInv'
<1>0. "map" \in Places \ {"out", "return"} /\ In("map")
  BY DEF Places, LoopAt, PageTableAdd
<1>1. /\ Working(cur) /\ cur \in Threads /\ at[cur] = "map" /\ call[cur] = my /\ my \in Calls
      /\ Space = SpaceOf(cur) /\ my.total \in Nat /\ my.cnt \in Nat
  BY <1>0, InFacts
<1>2. LoopOK(cur) /\ RequestOK(cur)
  BY <1>1, WorkFacts DEF CallOK
<1>3. ~(my.start >= 0 /\ my.page = my.start + (my.total - my.cnt))
  BY <1>1, <1>2 DEF RequestOK, Calls
<1>4. Cause
  BY <1>1, <1>2, <1>3 DEF LoopOK, LoopAt, Cause, NoVirtualPages
<1>5. MemPanic
  BY DEF PageTableAdd
<1> QED BY <1>4, <1>5, PanicSafe

(* page_table_add's second ASSERT fails for another process's page. *)
LEMMA MappedSafe ==
  ASSUME Live, PageTableAdd, my.page # -1, ~NoTable, pte[Page] # ABSENT
  PROVE  MemInv'
<1>0. "map" \in Places \ {"out", "return"} /\ In("map")
  BY DEF Places, LoopAt, PageTableAdd
<1>1. MemPanic
  BY DEF PageTableAdd
<1>2. Page \in Mapped
  <2>1. /\ Working(cur) /\ cur \in Threads /\ at[cur] = "map" /\ call[cur] = my /\ my \in Calls
        /\ my.pf = PoolOf(cur) /\ my.total \in Nat /\ my.cnt \in Nat /\ PoolOf(cur) \in pool_flags
        /\ SpaceSize(SpaceOf(cur)) \in Nat /\ SpaceSize(SpaceOf(cur)) = HalfSize[PoolOf(cur)]
    BY <1>0, InFacts, SpaceFacts DEF SpaceSize
  <2>2. LoopOK(cur) /\ RequestOK(cur)
    BY <2>1, WorkFacts DEF CallOK
  <2>3. /\ my.start >= 0 /\ my.page = my.start + (my.total - my.cnt)
        /\ my.start + my.total <= SpaceSize(SpaceOf(cur))
        /\ my.cnt >= 1 /\ my.cnt <= my.total /\ my.start \in Int
    BY <2>1, <2>2 DEF LoopOK, LoopAt, RequestOK, Calls
  <2>4. my.page \in 0..(SpaceSize(SpaceOf(cur)) - 1)
    BY <2>1, <2>3
  <2> QED BY <2>1, <2>4, PagesAre DEF Page, Mapped
<1>3. Cause
  BY <1>0, <1>2, AddressTakenHolds DEF Cause
<1> QED BY <1>1, <1>3, PanicSafe

(* get_a_page's ASSERT fails only for a process without a page directory. *)
LEMMA NoPgdirSafe == ASSUME Live, MarkPage, ~HasPgdir(cur) PROVE MemInv'
<1>0. "mark" \in Places \ {"out", "return"} /\ In("mark")
  BY DEF Places, MarkPage
<1>1. /\ Working(cur) /\ cur \in Threads /\ at[cur] = "mark" /\ my.pf = PoolOf(cur)
  BY <1>0, InFacts
<1>2. cur \in Processes
  <2>1. AskingOK(cur) /\ RequestOK(cur)
    BY <1>1, WorkFacts DEF CallOK
  <2> QED BY <1>1, <2>1 DEF AskingOK, RequestOK
<1>3. cur \in Started /\ pgdir[cur] = ABSENT
  <2>1. status[cur] = TASK_RUNNING
    BY AssertsHold DEF Live
  <2> QED BY <1>2, <2>1, ThreadKinds DEF Started, HasPgdir, TASK_RUNNING, NO_TASK
<1>4. Full(PF_KERNEL)
  BY <1>2, <1>3 DEF Live, BootInv
<1>5. Cause
  BY <1>1, <1>4, NoRun DEF Cause, NoKernelFrames
<1>6. MemPanic
  BY <1>1, <1>2, Sizes DEF MarkPage, PoolOf
<1> QED BY <1>5, <1>6, PanicSafe

(* memset's ASSERT fails only when main() got no page. *)
LEMMA NoMemSafe ==
  ASSUME Live, BootStep, making.step \in {"pcb", "bitmap"}, ~MemsetOK
  PROVE  MemInv'
<1>1. cur = main_thread /\ at[main_thread] = "out" /\ MemPanic
  BY DEF BootStep, MainRequest, AskPCB, InitThread, CreatePageDir, SetPgdir, Sti, Asked, In
<1>2. Full(PF_KERNEL)
  BY <1>1 DEF Live, BootInv, MemsetOK
<1>3. Cause
  BY <1>1, <1>2, NoRun DEF Cause, NoKernelFrames
<1> QED BY <1>1, <1>3, PanicSafe

-----------------------------------------------------------------------------
(* The invariant and what follows from it. *)

(* mem_pool_init leaves empty pools and tables. *)
LEMMA MemInitInv == MemInit => MemInv
<1> SUFFICES ASSUME MemInit PROVE MemInv
  OBVIOUS
<1> USE ThreadKinds, Sizes DEF MemInit
<1>1. SyncInv
  BY SyncInitInv
<1>2. /\ cur = main_thread /\ intr = INTR_OFF /\ Started = {} /\ ~panicked
      /\ pc = [t \in Threads |-> "run"] /\ depth = [t \in Threads |-> [l \in Locks |-> 0]]
  BY DEF SyncInit, Init, Started, TASK_RUNNING, NO_TASK
<1>3. Mapped = {} /\ Made = {} /\ Used = {}
  BY DEF Mapped, Made, Used
<1>4. MemTypeOK
  BY DEF MemTypeOK, Spaces
<1>5. LocalTypes
  <2>1. "out" \in Places /\ NoCall \in Calls
    BY DEF Places, NoCall, Calls
  <2>2. NoThread \in [who : Clients \cup {NULL}, step : {"none", "pcb", "bitmap", "pgdir"}, ret : Int]
    BY DEF NoThread
  <2> QED BY <2>1, <2>2 DEF LocalTypes
<1>6. BootInv
  BY <1>2 DEF BootInv, NoThread
<1>7. LockingInv
  BY <1>2 DEF LockingInv, Working, AcquirePC, ReleasePC
<1>8. TableInv
  BY <1>3, FramesAre DEF TableInv, OneUse
<1>9. CallsOK
  BY DEF CallsOK
<1>10. BooksInv
  BY <1>3 DEF BooksInv
<1>11. ShareInv
  BY <1>3 DEF ShareInv, Claims, Claim, LoopAt, TableAt
<1>12. Live
  BY <1>1, <1>4, <1>5, <1>6, <1>7, <1>8, <1>9, <1>10, <1>11 DEF Live
<1> QED BY <1>12, LiveSafe DEF MemInv

(* Every step of memory.c. *)
LEMMA MemStepInv ==
  ASSUME Live, MemStep
  PROVE  MemInv' /\ \A p \in Mapped : pte'[p] = pte[p]
<1>1. Live' => MemInv'
  <2>1. (Live => Safe)'
    BY LiveSafe, PTL
  <2> QED BY <2>1 DEF MemInv
<1>2. CASE PageTableAdd
  <2>1. CASE my.page = -1
    <3>1. pte' = pte
      BY <1>2, <2>1 DEF PageTableAdd, MemPanic, memVars
    <3> QED BY <1>2, <2>1, <3>1, NoPageSafe
  <2>2. CASE my.page # -1 /\ ~NoTable /\ pte[Page] # ABSENT
    <3>1. pte' = pte
      BY <1>2, <2>2 DEF PageTableAdd, MemPanic, memVars
    <3> QED BY <1>2, <2>2, <3>1, MappedSafe
  <2>3. CASE my.page # -1 /\ (NoTable \/ pte[Page] = ABSENT)
    BY <1>1, <1>2, <2>3, PageTableAddInv
  <2> QED BY <2>1, <2>2, <2>3
<1>3. CASE TableMap
  BY <1>1, <1>3, TableMapInv
<1>4. CASE TableLost
  <2>1. pte' = pte
    BY <1>4 DEF TableLost
  <2> QED BY <1>4, <2>1, TableLostSafe
<1>5. CASE MarkPage
  <2>1. pte' = pte
    BY <1>5 DEF MarkPage, MemPanic, memVars
  <2>2. CASE HasPgdir(cur)
    BY <1>1, <1>5, <2>1, <2>2, MarkPageInv
  <2>3. CASE ~HasPgdir(cur)
    BY <1>5, <2>1, <2>3, NoPgdirSafe
  <2> QED BY <2>2, <2>3
<1>6. CASE VaddrScan \/ VaddrSet \/ PallocScan \/ PallocFail \/ PallocSet \/ TableScan
  <2>1. pte' = pte
    BY <1>6 DEF VaddrScan, VaddrSet, PallocScan, PallocFail, PallocSet, TableScan, MemPanic, memVars
  <2> QED BY <1>1, <1>6, <2>1, VaddrScanInv, VaddrSetInv, PallocScanInv, PallocFailInv,
             PallocSetInv, TableScanInv
<1>7. CASE TableSet \/ Unlock \/ Return
  <2>1. pte' = pte
    BY <1>7 DEF TableSet, Unlock, Return
  <2> QED BY <1>1, <1>7, <2>1, TableSetInv, UnlockInv, ReturnInv
<1> QED BY <1>2, <1>3, <1>4, <1>5, <1>6, <1>7 DEF MemStep

(* Every step: the invariant is kept, and so is every mapping. *)
LEMMA MemNextInv ==
  ASSUME MemInv, [MemNext]_memAllVars
  PROVE  MemInv' /\ (~UNCHANGED memAllVars => \A p \in Mapped : pte'[p] = pte[p])
<1>1. CASE UNCHANGED memAllVars
  <2>1. /\ UNCHANGED allVars /\ UNCHANGED <<cur, intr, status, panicked, pc, plock, depth>>
        /\ UNCHANGED <<pool_bitmap, vaddr_bitmap, pte, pde, at, call, making, pgdir, granted>>
    BY <1>1 DEF memAllVars, allVars, vars, syncVars, callVars, memVars
  <2>2. Mapped' = Mapped /\ Made' = Made /\ Used' = Used
    BY <2>1 DEF Mapped, Made, Used
  <2>3. Safe'
    <3>1. MemTypeOK' /\ FramesOwned' /\ BooksExact' /\ LockKeptOnlyIfEmpty'
      BY <2>1, <2>2 DEF MemInv, Safe, MemTypeOK, FramesOwned, OneUse, BooksExact, Quiet,
                             LockKeptOnlyIfEmpty
    <3>2. PanicCauses'
      BY <2>1, <2>2 DEF MemInv, Safe, PanicCauses, NoVirtualPages, NoKernelFrames, AddressTaken,
                        my, Space, Page, HasPgdir
    <3> QED BY <3>1, <3>2 DEF Safe
  <2>4. Live => Live'
    <3> SUFFICES ASSUME Live PROVE Live'
      OBVIOUS
    <3>1. SyncInv'
      BY <2>1, SyncStep DEF Live
    <3>2. (\A pf : Full(pf)' <=> Full(pf)) /\ Started' = Started
      BY <2>1 DEF Full, Started
    <3>3. LocalTypes' /\ LockingInv'
      BY <2>1, <3>2 DEF Live, LocalTypes, LockingInv, Working
    <3>4. MainIdle' <=> MainIdle
      BY <2>1, <3>2 DEF MainIdle
    <3>5. BootInv'
      BY <2>1, <2>2, <3>2, <3>4 DEF Live, BootInv
    <3>6. pgdir' \in [Processes -> Frames \cup {ABSENT}]
      BY <2>1 DEF Live, MemTypeOK
    <3>7. main_thread \in Threads
      BY ThreadKinds
    <3> QED BY <2>1, <3>1, <3>3, <3>5, <3>6, <3>7, QuietStep
  <2> QED BY <1>1, <2>1, <2>3, <2>4 DEF MemInv
<1>2. CASE MemNext
  <2>1. ~panicked
    BY <1>2 DEF MemNext, BootStep, MainRequest, AskPCB, InitThread, CreatePageDir, SetPgdir, Sti,
      Asked, ClientCall, get_user_pages, get_a_page, MemStep, VaddrScan, VaddrSet, PallocScan,
      PallocFail, PallocSet, PageTableAdd, TableScan, TableSet, TableMap, TableLost, MarkPage,
      Unlock, Return, In, At, CallStep, AcquireAgain, SemaDown, SemaDownBlock, SemaDownTake,
      SetHolder, SetRepeat, ReleaseOnce, ClearHolder, ClearRepeat, SemaUp, SemaUpWake,
      SemaUpReturn, IntrDisable, Preempt, TimerTick
  <2>2. Live
    BY <2>1 DEF MemInv
  <2>3. Live' => MemInv'
    <3>1. (Live => Safe)'
      BY LiveSafe, PTL
    <3> QED BY <3>1 DEF MemInv
  <2>4. CASE MemStep
    BY <2>2, <2>4, MemStepInv
  <2>5. CASE BootStep
    <3>1. pte' = pte
      BY <2>5 DEF BootStep, MainRequest, AskPCB, InitThread, CreatePageDir, SetPgdir, Sti, Ask,
                  get_kernel_pages, Ready, MemPanic, memVars
    <3>2. MemInv'
      BY <2>2, <2>3, <2>5, BootStepInv, NoMemSafe
    <3> QED BY <3>1, <3>2
  <2>6. CASE ClientCall
    <3>1. pte' = pte
      BY <2>6 DEF ClientCall, get_user_pages, get_a_page
    <3> QED BY <2>2, <2>3, <2>6, <3>1, ClientCallInv
  <2>7. CASE CallStep /\ UNCHANGED memVars
    <3>1. pte' = pte
      BY <2>7 DEF memVars
    <3> QED BY <2>2, <2>3, <2>7, <3>1, CallStepInv
  <2>8. CASE Preempt /\ UNCHANGED memVars
    <3>1. pte' = pte
      BY <2>8 DEF memVars
    <3> QED BY <2>2, <2>3, <2>8, <3>1, PreemptInv
  <2> QED BY <1>2, <2>4, <2>5, <2>6, <2>7, <2>8 DEF MemNext
<1> QED BY <1>1, <1>2

(* The invariant of the memory manager holds in every reachable state. *)
THEOREM MemInvariance == MemSpec => []MemInv
<1>1. MemInv /\ [MemNext]_memAllVars => MemInv'
  BY MemNextInv
<1> QED BY <1>1, MemInitInv, PTL DEF MemSpec

(* bitmap_scan and bitmap_set stay inside the bitmaps, and page_table_add  *)
(* writes frames of the two pools.                                         *)
THEOREM MemTypes == MemSpec => []MemTypeOK
<1>1. MemInv => MemTypeOK
  BY DEF MemInv, Safe
<1> QED BY <1>1, MemInvariance, PTL

(* No frame is given away twice, and no address: the locks of palloc's     *)
(* callers, and main()'s disabled interrupts, are enough, although a       *)
(* process takes frames for page tables from the kernel pool with the lock *)
(* of its own, and although all processes share one page directory.        *)
THEOREM MemFramesOwned == MemSpec => []FramesOwned
<1>1. MemInv => FramesOwned
  BY DEF MemInv, Safe
<1> QED BY <1>1, MemInvariance, PTL

(* Every page a caller got is mapped, and with no call under way every     *)
(* frame that is taken is in use, after a malloc_page that failed too.     *)
THEOREM MemBooks == MemSpec => []BooksExact
<1>1. MemInv => BooksExact
  BY DEF MemInv, Safe
<1> QED BY <1>1, MemInvariance, PTL

(* get_a_page's return without lock_release is the only way to keep a      *)
(* lock, and then the pool is empty.                                       *)
THEOREM MemLockKept == MemSpec => []LockKeptOnlyIfEmpty
<1>1. MemInv => LockKeptOnlyIfEmpty
  BY DEF MemInv, Safe
<1> QED BY <1>1, MemInvariance, PTL

(* The ASSERTs of memory.c, and of memset, fail when pages or frames have  *)
(* run out, or when two processes ask for one address of the directory     *)
(* they share; never for a page of the kernel, or of the caller itself.    *)
THEOREM MemPanics == MemSpec => []PanicCauses
<1>1. MemInv => PanicCauses
  BY DEF MemInv, Safe
<1> QED BY <1>1, MemInvariance, PTL

(* No step changes or clears the entry of a page that is mapped, the       *)
(* clearing of a new page table included.                                  *)
THEOREM MemMappingsStable == MemSpec => MappingsStable
<1>1. MemInv /\ [MemNext]_memAllVars => [\A p \in Mapped : pte'[p] = pte[p]]_memAllVars
  BY MemNextInv
<1> QED BY <1>1, MemInvariance, PTL DEF MemSpec, MappingsStable
=============================================================================
