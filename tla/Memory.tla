------------------------------- MODULE Memory -------------------------------
(***************************************************************************)
(* The memory manager, kernel/memory.c: two pools of physical frames, a    *)
(* bitmap of virtual pages for the kernel and one for each process, and    *)
(* the page tables that connect them.  Threads call it concurrently; its   *)
(* locks are those of Sync.                                                *)
(*                                                                         *)
(* A bitmap is the set of positions whose bit is 1.  bitmap_scan and the   *)
(* bitmap_set that follows are two steps: nothing but a lock or interrupts *)
(* that are off keeps them together.  The kernel's page tables exist since *)
(* boot (setup_page of boot/loader.S), those of the user's addresses are   *)
(* made on demand.  schedule() does not call process_activate, so cr3      *)
(* keeps the page directory of boot: every process has a bitmap of its own *)
(* but they all map their pages in that one directory.  main() starts      *)
(* kernel threads with thread_start and processes with process_execute of  *)
(* userprog/process.c.                                                     *)
(***************************************************************************)
EXTENDS Sync, Integers, FiniteSets

CONSTANTS
  kernel_lock, user_lock,   \* kernel_pool.lock and user_pool.lock
  Processes,                \* the threads with a pgdir
  KernelFrames, UserFrames, \* sizes of the two pools, in pages
  UserPages,                \* virtual pages of a process, the last its stack
  TablePages,               \* virtual pages one page table maps: 1024
  BitmapPages,              \* pages of a process's bitmap: 24
  MaxPages,                 \* bound: pg_cnt of a request of a process
  MainRequests              \* what main() may ask for before it starts threads

ASSUME MemoryAssumption ==
  /\ {kernel_lock, user_lock} \subseteq Locks /\ kernel_lock # user_lock
  /\ Processes \subseteq Clients
  /\ {KernelFrames, UserFrames, UserPages, TablePages, BitmapPages, MaxPages}
       \cup MainRequests \subseteq Nat \ {0}
  /\ UserPages > 1                  \* the stack is not all a process has

PF_KERNEL == "PF_KERNEL"
PF_USER   == "PF_USER"
pool_flags == {PF_KERNEL, PF_USER}
PoolSize == [pf \in pool_flags |-> IF pf = PF_KERNEL THEN KernelFrames ELSE UserFrames]
PoolLock(pf) == IF pf = PF_KERNEL THEN kernel_lock ELSE user_lock

(* Whose virtual pages: the kernel's, or those of one process.  kernel_vaddr *)
(* has as many pages as kernel_pool has frames (kbm_length).                 *)
Spaces == {PF_KERNEL} \cup Processes
ASSUME SpacesAssumption == PF_KERNEL \notin Processes
HalfSize == [pf \in pool_flags |-> IF pf = PF_KERNEL THEN KernelFrames ELSE UserPages]
Half(s) == IF s = PF_KERNEL THEN PF_KERNEL ELSE PF_USER
SpaceSize(s) == HalfSize[Half(s)]

(* The addresses of the one page directory: the kernel's half, and the     *)
(* user's with its tables.                                                 *)
Pages == UNION {{pf} \X (0..(HalfSize[pf] - 1)) : pf \in pool_flags}
Tables == 0..(UserPages \div TablePages)

FRAME_0 == <<"physical", 0>>   \* what NULL is as a physical address
ABSENT  == <<"absent", 0>>     \* an entry whose P bit is 0

VARIABLES
  pool_bitmap,    \* of both pools: frames that are taken
  vaddr_bitmap,   \* of every space: pages that are taken
  pte, pde,       \* the frame of a page and of a page table, or ABSENT
  at, call,       \* where a thread is in memory.c, and its local variables
  making, pgdir,  \* the thread main() is making, and of every process its
                  \* page directory, or ABSENT for NULL
  granted         \* history: pages returned to callers, each with its space

memVars == <<pool_bitmap, vaddr_bitmap, pte, pde, at, call, making, pgdir, granted>>
makeVars == <<making, pgdir>>
memAllVars == <<allVars, memVars>>

NoCall == [fn |-> NULL, pf |-> PF_KERNEL, start |-> -1, page |-> -1, cnt |-> 0,
           total |-> 0, bit |-> -1, table |-> -1]

(* step: what main() has asked for; ret: the page it got, -1 for NULL. *)
NoThread == [who |-> NULL, step |-> "none", ret |-> -1]

(* mem_pool_init.  plock has no meaning outside a call: one value is enough. *)
MemInit ==
  /\ SyncInit
  /\ plock = [t \in Threads |-> kernel_lock]
  /\ pool_bitmap = [pf \in pool_flags |-> {}]
  /\ vaddr_bitmap = [s \in Spaces |-> {}]
  /\ pte = [p \in Pages |-> ABSENT]
  /\ pde = [d \in Tables |-> ABSENT]
  /\ at = [t \in Threads |-> "out"]
  /\ call = [t \in Threads |-> NoCall]
  /\ making = NoThread
  /\ pgdir = [t \in Processes |-> ABSENT]
  /\ granted = {}

-----------------------------------------------------------------------------

(* Mutant of bitmap_scan: the run may end one bit behind the bitmap. *)
BitmapScanTooFar(taken, size, cnt) ==
  LET fits == {i \in 0..(size - cnt + 1) : \A j \in i..(i + cnt - 1) : j \notin taken}
  IN  IF fits = {} THEN -1 ELSE CHOOSE i \in fits : \A j \in fits : i <= j

(* The first run of cnt free bits, or -1: theorem ScanFirstFit. *)
bitmap_scan(taken, size, cnt) ==
  LET fits == {i \in 0..(size - cnt) : \A j \in i..(i + cnt - 1) : j \notin taken}
  IN  IF fits = {} THEN -1 ELSE CHOOSE i \in fits : \A j \in fits : i <= j

my == call[cur]
Space == IF my.pf = PF_KERNEL THEN PF_KERNEL ELSE cur
Page == <<my.pf, my.page>>                \* pte_ptr
Table == my.page \div TablePages          \* pde_ptr
NoTable == my.pf = PF_USER /\ pde[Table] = ABSENT

In(label) == At("run") /\ at[cur] = label
GoTo(label) == at' = [at EXCEPT ![cur] = label]
SetCall(c) == call' = [call EXCEPT ![cur] = c]
HasPgdir(t) == t \in Processes /\ pgdir[t] # ABSENT
MemPanic == Panic /\ UNCHANGED <<syncVars, memVars>>

(* vaddr_get, to bitmap_scan.  malloc_page goes on with NULL (page -1). *)
VaddrScan ==
  /\ In("vaddr_scan")
  /\ LET bit == bitmap_scan(vaddr_bitmap[Space], SpaceSize(Space), my.total)
     IN  /\ SetCall([my EXCEPT !.bit = bit])
         /\ GoTo(IF bit = -1 THEN "palloc_scan" ELSE "vaddr_set")
  /\ UNCHANGED <<allVars, pool_bitmap, vaddr_bitmap, pte, pde, makeVars, granted>>

(* vaddr_get, its loop of bitmap_set.  Then the ASSERT that a process does *)
(* not start in the page of its stack.                                     *)
VaddrSet ==
  /\ In("vaddr_set")
  /\ vaddr_bitmap' = [vaddr_bitmap EXCEPT ![Space] = @ \cup (my.bit..(my.bit + my.total - 1))]
  /\ IF my.pf = PF_USER /\ my.bit >= UserPages - 1
       THEN Panic /\ UNCHANGED <<syncVars, at, call>>
       ELSE /\ SetCall([my EXCEPT !.start = my.bit, !.page = my.bit])
            /\ GoTo("palloc_scan")
            /\ UNCHANGED allVars
  /\ UNCHANGED <<pool_bitmap, pte, pde, makeVars, granted>>

(* palloc(mem_pool), to its bitmap_scan. *)
PallocScan ==
  /\ In("palloc_scan")
  /\ LET bit == bitmap_scan(pool_bitmap[my.pf], PoolSize[my.pf], 1)
     IN  bit # -1 /\ SetCall([my EXCEPT !.bit = bit])
  /\ GoTo("palloc_set")
  /\ UNCHANGED <<allVars, pool_bitmap, vaddr_bitmap, pte, pde, makeVars, granted>>

(* Mutant of PallocFail: malloc_page returns addr_start, not NULL. *)
PallocFailKeepsStart ==
  /\ In("palloc_scan")
  /\ bitmap_scan(pool_bitmap[my.pf], PoolSize[my.pf], 1) = -1
  /\ GoTo(IF my.fn = "get_user_pages" THEN "unlock" ELSE "return")
  /\ UNCHANGED <<allVars, pool_bitmap, vaddr_bitmap, pte, pde, call, makeVars, granted>>

(* palloc returns NULL: malloc_page returns NULL, get_a_page returns NULL  *)
(* without lock_release.                                                   *)
PallocFail ==
  /\ In("palloc_scan")
  /\ bitmap_scan(pool_bitmap[my.pf], PoolSize[my.pf], 1) = -1
  /\ SetCall([my EXCEPT !.start = -1])
  /\ GoTo(IF my.fn = "get_user_pages" THEN "unlock" ELSE "return")
  /\ UNCHANGED <<allVars, pool_bitmap, vaddr_bitmap, pte, pde, makeVars, granted>>

PallocSet ==
  /\ In("palloc_set")
  /\ pool_bitmap' = [pool_bitmap EXCEPT ![my.pf] = @ \cup {my.bit}]
  /\ GoTo("map")
  /\ UNCHANGED <<allVars, vaddr_bitmap, pte, pde, call, makeVars, granted>>

(* Mutant of NextPage: get_user_pages returns without lock_release. *)
NextPageLocked ==
  IF my.cnt > 1
    THEN SetCall([my EXCEPT !.cnt = @ - 1, !.page = @ + 1]) /\ GoTo("palloc_scan")
    ELSE SetCall(my) /\ GoTo(IF my.fn = "get_a_page" THEN "unlock" ELSE "return")

(* The end of a round of the loop of malloc_page. *)
NextPage ==
  IF my.cnt > 1
    THEN SetCall([my EXCEPT !.cnt = @ - 1, !.page = @ + 1]) /\ GoTo("palloc_scan")
    ELSE SetCall(my) /\ GoTo(IF my.fn = "get_kernel_pages" THEN "return" ELSE "unlock")

(* Mutant of PageTableAdd: *pde is not tested, every page of a process gets *)
(* a new table.                                                             *)
PageTableAddUntested ==
  /\ In("map") /\ my.page # -1
  /\ IF my.pf = PF_USER
       THEN GoTo("table_scan") /\ UNCHANGED <<pte, call>>
       ELSE pte' = [pte EXCEPT ![Page] = <<my.pf, my.bit>>] /\ NextPage
  /\ UNCHANGED <<allVars, pool_bitmap, vaddr_bitmap, pde, makeVars, granted>>

(* Mutant of PageTableAdd: no ASSERT that the entry is free. *)
PageTableAddUnasserted ==
  /\ In("map") /\ my.page # -1
  /\ IF NoTable
       THEN GoTo("table_scan") /\ UNCHANGED <<pte, call>>
       ELSE pte' = [pte EXCEPT ![Page] = <<my.pf, my.bit>>] /\ NextPage
  /\ UNCHANGED <<allVars, pool_bitmap, vaddr_bitmap, pde, makeVars, granted>>

(* page_table_add: its ASSERTs, its test of *pde, and the new entry if the *)
(* page table exists.                                                      *)
PageTableAdd ==
  /\ In("map")
  /\ \/ /\ my.page = -1
        /\ MemPanic
     \/ /\ my.page # -1 /\ NoTable
        /\ GoTo("table_scan")
        /\ UNCHANGED <<allVars, pool_bitmap, vaddr_bitmap, pte, pde, call, makeVars, granted>>
     \/ /\ my.page # -1 /\ ~NoTable
        /\ IF pte[Page] # ABSENT THEN MemPanic
           ELSE /\ pte' = [pte EXCEPT ![Page] = <<my.pf, my.bit>>]
                /\ NextPage
                /\ UNCHANGED <<allVars, pool_bitmap, vaddr_bitmap, pde, makeVars, granted>>

(* page_table_add makes a page table: palloc(&kernel_pool), whatever lock  *)
(* the caller holds, and whether it finds a frame or not.                  *)
TableScan ==
  /\ In("table_scan")
  /\ LET bit == bitmap_scan(pool_bitmap[PF_KERNEL], KernelFrames, 1)
     IN  /\ SetCall([my EXCEPT !.table = bit])
         /\ GoTo(IF bit = -1 THEN "table_map" ELSE "table_set")
  /\ UNCHANGED <<allVars, pool_bitmap, vaddr_bitmap, pte, pde, makeVars, granted>>

TableSet ==
  /\ In("table_set")
  /\ pool_bitmap' = [pool_bitmap EXCEPT ![PF_KERNEL] = @ \cup {my.table}]
  /\ GoTo("table_map")
  /\ UNCHANGED <<allVars, vaddr_bitmap, pte, pde, call, makeVars, granted>>

(* The new table is installed and cleared, then the entry is written. *)
TableMap ==
  /\ In("table_map")
  /\ my.table # -1
  /\ pde' = [pde EXCEPT ![Table] = <<PF_KERNEL, my.table>>]
  /\ pte' = [p \in Pages |->
               IF p = Page THEN <<my.pf, my.bit>>
               ELSE IF p[1] = PF_USER /\ p[2] \div TablePages = Table
                 THEN ABSENT ELSE pte[p]]
  /\ NextPage
  /\ UNCHANGED <<allVars, pool_bitmap, vaddr_bitmap, makeVars, granted>>

(* palloc's NULL is not tested: frame 0 is installed and cleared.  It holds *)
(* the GDT, so the next interrupt resets the machine: no more steps.        *)
TableLost ==
  /\ In("table_map")
  /\ my.table = -1
  /\ pde' = [pde EXCEPT ![Table] = FRAME_0]
  /\ Panic
  /\ UNCHANGED <<syncVars, pool_bitmap, vaddr_bitmap, pte, at, call, makeVars, granted>>

(* Mutant of MarkPage: the bitmap is not changed. *)
MarkPageNot ==
  /\ In("mark")
  /\ GoTo("palloc_scan")
  /\ UNCHANGED <<allVars, pool_bitmap, vaddr_bitmap, pte, pde, call, makeVars, granted>>

(* get_a_page, after lock_acquire: the virtual page is marked as taken. *)
MarkPage ==
  /\ In("mark")
  /\ IF /\ my.pf = (IF HasPgdir(cur) THEN PF_USER ELSE PF_KERNEL)
        /\ my.page > 0
       THEN /\ vaddr_bitmap' = [vaddr_bitmap EXCEPT ![Space] = @ \cup {my.page}]
            /\ GoTo("palloc_scan")
            /\ UNCHANGED <<allVars, pool_bitmap, pte, pde, call, makeVars, granted>>
       ELSE MemPanic

(* lock_release of get_user_pages and get_a_page. *)
Unlock ==
  /\ In("unlock")
  /\ LockRelease(PoolLock(my.pf))
  /\ GoTo("return")
  /\ UNCHANGED <<pool_bitmap, vaddr_bitmap, pte, pde, call, makeVars, granted>>

Return ==
  /\ In("return")
  /\ granted' = granted \cup
       (IF my.start = -1 THEN {} ELSE {Space} \X (my.start..(my.start + my.total - 1)))
  /\ making' = IF cur = main_thread THEN [making EXCEPT !.ret = my.start] ELSE making
  /\ SetCall(NoCall)
  /\ GoTo("out")
  /\ UNCHANGED <<allVars, pool_bitmap, vaddr_bitmap, pte, pde, pgdir>>

MemStep ==
  \/ VaddrScan \/ VaddrSet
  \/ PallocScan \/ PallocFail \/ PallocSet
  \/ PageTableAdd \/ TableScan \/ TableSet \/ TableMap \/ TableLost
  \/ MarkPage \/ Unlock \/ Return

-----------------------------------------------------------------------------
(* The calls. *)

Request(fn, pf, n) == [NoCall EXCEPT !.fn = fn, !.pf = pf, !.cnt = n, !.total = n]

get_kernel_pages(n) ==
  /\ In("out")
  /\ SetCall(Request("get_kernel_pages", PF_KERNEL, n))
  /\ GoTo("vaddr_scan")
  /\ UNCHANGED <<allVars, pool_bitmap, vaddr_bitmap, pte, pde, pgdir, granted>>

get_user_pages(n) ==
  /\ In("out")
  /\ LockAcquire(user_lock)
  /\ SetCall(Request("get_user_pages", PF_USER, n))
  /\ GoTo("vaddr_scan")
  /\ UNCHANGED <<pool_bitmap, vaddr_bitmap, pte, pde, makeVars, granted>>

get_a_page(pf, page) ==
  /\ In("out")
  /\ LockAcquire(PoolLock(pf))
  /\ SetCall([Request("get_a_page", pf, 1) EXCEPT !.start = page, !.page = page])
  /\ GoTo("mark")
  /\ UNCHANGED <<pool_bitmap, vaddr_bitmap, pte, pde, makeVars, granted>>

-----------------------------------------------------------------------------
(* main() makes the threads, one after the other; interrupts are off. *)

Started == {t \in Clients : status[t] # NO_TASK}
Asked(step) == cur = main_thread /\ In("out") /\ making.step = step
Ask(t, step, n) ==
  /\ making' = [who |-> t, step |-> step, ret |-> -1]
  /\ get_kernel_pages(n)

(* main() takes kernel pages for itself. *)
MainRequest ==
  /\ Asked("none")
  /\ vaddr_bitmap[PF_KERNEL] = {}
  /\ \E n \in MainRequests : Ask(NULL, "none", n)

(* thread_start and process_execute: the page for the PCB. *)
AskPCB ==
  /\ Asked("none")
  /\ \E t \in Clients \ Started : Ask(t, "pcb", 1)

(* The thread is ready: list_append to both lists, in process_execute      *)
(* between intr_disable and intr_set_status.                               *)
Ready ==
  /\ MainStart(making.who)
  /\ making' = NoThread
  /\ UNCHANGED <<pool_bitmap, vaddr_bitmap, pte, pde, at, call, granted>>

(* The ASSERT of memset: main() uses what it got without a test. *)
MemsetOK == making.ret # -1

(* init_thread clears the PCB; then thread_start is done, process_execute  *)
(* calls create_user_vaddr_bitmap.                                         *)
InitThread ==
  /\ Asked("pcb")
  /\ IF ~MemsetOK THEN MemPanic
     ELSE IF making.who \in Processes
       THEN Ask(making.who, "bitmap", BitmapPages)
       ELSE Ready /\ UNCHANGED pgdir

(* bitmap_init clears the bitmap, create_page_dir asks for a page. *)
CreatePageDir ==
  /\ Asked("bitmap")
  /\ IF MemsetOK THEN Ask(making.who, "pgdir", 1) ELSE MemPanic

(* The physical address in the page table's entry. *)
addr_v2p(page) == pte[<<PF_KERNEL, page>>]

(* pgdir is NULL when create_page_dir got no page; the process is made all *)
(* the same.                                                               *)
SetPgdir ==
  /\ Asked("pgdir")
  /\ pgdir' = [pgdir EXCEPT ![making.who] =
                 IF making.ret = -1 THEN ABSENT ELSE addr_v2p(making.ret)]
  /\ Ready

Sti ==
  /\ Asked("none")
  /\ Started = Clients
  /\ OwnIntr(INTR_ON)
  /\ UNCHANGED memVars

BootStep == MainRequest \/ AskPCB \/ InitThread \/ CreatePageDir \/ SetPgdir \/ Sti

(* A process first asks for its stack, as start_process does, then for     *)
(* memory.                                                                 *)
ClientCall ==
  /\ cur \in Processes
  /\ IF UserPages - 1 \in vaddr_bitmap[cur]
       THEN \E n \in 1..MaxPages : get_user_pages(n)
       ELSE get_a_page(PF_USER, UserPages - 1)

MemNext ==
  \/ BootStep
  \/ ClientCall
  \/ MemStep
  \/ CallStep /\ UNCHANGED memVars
  \/ Preempt /\ UNCHANGED memVars

MemSpec == MemInit /\ [][MemNext]_memAllVars

(* With kernel threads, which ask for kernel pages that are free. *)
KernelCall ==
  /\ cur \in Clients \ Processes
  /\ \E page \in 1..(KernelFrames - 1) :
       page \notin vaddr_bitmap[PF_KERNEL] /\ get_a_page(PF_KERNEL, page)

MixedSpec == MemInit /\ [][MemNext \/ KernelCall]_memAllVars

-----------------------------------------------------------------------------

Frames == UNION {{pf} \X (0..(PoolSize[pf] - 1)) : pf \in pool_flags}

(* No bit behind the end of a bitmap is ever set, and the page tables name *)
(* frames of the two pools.                                                *)
MemTypeOK ==
  /\ \A pf \in pool_flags : pool_bitmap[pf] \subseteq 0..(PoolSize[pf] - 1)
  /\ \A s \in Spaces : vaddr_bitmap[s] \subseteq 0..(SpaceSize(s) - 1)
  /\ pte \in [Pages -> Frames \cup {ABSENT}]
  /\ pde \in [Tables -> Frames \cup {ABSENT, FRAME_0}]
  /\ pgdir \in [Processes -> Frames \cup {ABSENT}]
  /\ granted \subseteq UNION {{s} \X (0..(SpaceSize(s) - 1)) : s \in Spaces}

(* The entries that say that a frame is in use. *)
Mapped == {p \in Pages : pte[p] # ABSENT}
Made == {d \in Tables : pde[d] # ABSENT}
Used == {pte[p] : p \in Mapped} \cup {pde[d] : d \in Made}

(* The address of a page that was given to a caller. *)
AddressOf(g) == <<Half(g[1]), g[2]>>

(* A frame has one use: no two pages share it, no page reaches a page      *)
(* table, and the pools know it.                                           *)
OneUse ==
  /\ \A p, q \in Mapped : pte[p] = pte[q] => p = q
  /\ \A d, e \in Made : pde[d] = pde[e] => d = e
  /\ \A p \in Mapped, d \in Made : pte[p] # pde[d]
  /\ \A f \in Used \ {FRAME_0} : f[2] \in pool_bitmap[f[1]]

(* No frame has two owners: it has one use, and although the processes     *)
(* share the page directory no address of it is given to two callers.      *)
FramesOwned ==
  /\ OneUse
  /\ \A g, h \in granted : AddressOf(g) = AddressOf(h) => g = h

(* A page that is mapped keeps its frame: making a page table, or another  *)
(* process's call, never clears or changes an entry in use.                *)
MappingsStable ==
  [][\A p \in Mapped : pte'[p] = pte[p]]_memAllVars

(* No call is under way, and the kernel has not stopped. *)
Quiet == ~panicked /\ \A t \in Threads : at[t] = "out"

(* With no call under way the books are exact: a frame that is taken is in *)
(* use, even after calls of malloc_page that failed half-way.  Every page  *)
(* of an address a caller got is mapped.                                   *)
BooksExact ==
  /\ \A g \in granted : AddressOf(g) \in Mapped
  /\ Quiet => \A pf \in pool_flags : \A i \in pool_bitmap[pf] : <<pf, i>> \in Used

(* A call returns with the lock of its pool held only from get_a_page, and *)
(* only when the pool is empty: no other path through memory.c forgets     *)
(* lock_release.                                                           *)
LockKeptOnlyIfEmpty ==
  \A t \in Threads :
    at[t] = "out" /\ pc[t] = "run" /\ depth[t][user_lock] > 0 =>
      pool_bitmap[PF_USER] = 0..(UserFrames - 1)

(* The virtual pages have run out: vaddr_get returned NULL, with which     *)
(* malloc_page goes on, to the ASSERT of page_table_add.                   *)
NoVirtualPages ==
  /\ at[cur] = "map" /\ my.page = -1
  /\ bitmap_scan(vaddr_bitmap[Space], SpaceSize(Space), my.total) = -1

(* The kernel's frames have run out: there was no page for a PCB, for a    *)
(* bitmap, for a page table, or for the page directory of a process that   *)
(* asks for its stack.                                                     *)
NoKernelFrames ==
  /\ \/ cur = main_thread /\ making.step \in {"pcb", "bitmap"}
     \/ at[cur] = "mark" /\ ~HasPgdir(cur)
     \/ at[cur] = "table_map"
  /\ bitmap_scan(pool_bitmap[PF_KERNEL], KernelFrames, BitmapPages) = -1

(* The address a process asks for is another process's. *)
AddressTaken ==
  /\ at[cur] = "map" /\ Page \in Mapped
  /\ cur \in Processes /\ <<cur, my.page>> \notin granted
  /\ \E t \in Processes \ {cur} : my.page \in vaddr_bitmap[t]

(* The kernel panics for one of three reasons: a request never meets an    *)
(* entry its caller made itself, a process is never given the page of its  *)
(* stack, and no page of the kernel is mapped twice.  That the first and   *)
(* the third are reasons at all is against the comments: FailsCleanly.     *)
PanicCauses == panicked => NoVirtualPages \/ NoKernelFrames \/ AddressTaken

(* What the comments of malloc_page and its callers promise: a request     *)
(* that cannot be met returns NULL, so none stops the kernel in            *)
(* page_table_add, and gives back the virtual pages and the frames it had, *)
(* so with no call under way what is reserved or mapped is a caller's.     *)
FailsCleanly ==
  /\ panicked => at[cur] # "map"
  /\ Quiet =>
       /\ \A s \in Spaces : \A i \in vaddr_bitmap[s] : <<s, i>> \in granted
       /\ \A p \in Mapped : \E g \in granted : AddressOf(g) = p
=============================================================================
