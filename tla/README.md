# Verification of the OS-Learning-Project kernel

TLA+ models of the kernel in `src/osproject`, checked with TLC on small
instances, and proofs checked by TLAPS for every instance. The kernel runs on
one 32-bit x86 CPU: a boot loader, preemptive kernel threads, recursive locks, a
keyboard driver that feeds two consumer threads through a ring buffer, a console
on the VGA text screen, and a memory manager with physical pools, virtual
addresses and page tables.

`PROJECT.json` lists components, runs, mutants, findings, hazards and theorems,
and maps every definition to the lines it models. Paths below are relative to
`src/osproject`.

## 1. Inventory

| component | state | operations | who uses it |
|---|---|---|---|
| threads and scheduler (`thread/`) | a `task_struct` per thread (status, ticks, priority, saved stack), `thread_ready_list`, `thread_all_list`, the running thread | `thread_start`, `thread_block`, `thread_unblock`, `schedule`, `switch_to` | locks, I/O queue, timer interrupt, `main` |
| timer (`device/timer.c`) | `ticks` of the running thread | `intr_timer_handler` at every IRQ0: count down, or `schedule` | the CPU |
| interrupts (`kernel/interrupt.c`, `kernel.S`) | IF of the CPU, and the one saved with each thread; the handler table, the 8259A | `intr_disable`, `intr_enable`, `intr_set_status`, `register_handler`, `idt_init`, entry and exit of handlers | everybody: the flag is the kernel's only primitive for atomicity |
| locks (`thread/sync.c`) | semaphore value and waiters, holder, nesting count | `lock_acquire`, `lock_release`, `sema_down`, `sema_up` | console, memory, I/O queue |
| I/O queue (`device/ioqueue.c`) | ring of 64 bytes, head, tail, a slot for a waiting producer and one for a waiting consumer | `ioq_getchar`, `ioq_putchar`, `ioq_full`, `ioq_empty` | keyboard interrupt, consumers |
| console (`device/console.c`) | one lock | `console_put_str`, `console_put_char`, `console_put_int` | consumers |
| keyboard (`device/keyboard.c`) | four modifier flags, the e0 flag | `intr_keyboard_handler`, one byte per interrupt | the CPU |
| `main` (`kernel/main.c`) | program counters of `main`, `k_thread_a`, `k_thread_b` | start the threads, `sti`; consumers: test, prefix, take, show | - |
| lists (`lib/kernel/list.c`) | prev and next of every node | insert, remove, push, append, pop, find, traverse, length | scheduler, locks |
| bitmaps (`lib/kernel/bitmap.c`) | bits | `bitmap_scan`, `bitmap_set`, `bitmap_init` | memory manager |
| memory manager (`kernel/memory.c`) | two frame pools with locks, virtual pages of the kernel and of each process, page tables | `get_kernel_pages`, `get_user_pages`, `get_a_page` | `thread_start`, processes |
| processes and TSS (`userprog/`) | page directories, the TSS | `process_execute`, `start_process`, `tss_init` | `init_all` calls `tss_init`; `process.c` is not in the build |
| strings (`lib/string.c`) | - | `memset`, `strcpy`, ... | everywhere |
| screen and ports (`lib/kernel/print.S`, `io.h`) | video memory, the cursor in two registers behind one index port | `put_char`, `put_str`, `put_int`, `set_cursor`, `inb`, `outb` | console, exception handler, boot |
| boot (`boot/`, `kernel/init.c`) | low memory, `total_mem_bytes` | MBR, loader, protected mode, first page tables, `init_all` | once |

What is hard in this code, and what makes each part correct:

* **Preemption.** A timer interrupt can fall between any two statements that run
  with interrupts on, also inside `lock_acquire` and `lock_release`. A lock has
  to exclude, count its holder and wake its waiters for every such place.
* **Sections that switch.** `sema_down` blocks, and so runs other threads,
  inside a section with interrupts off. The flag has to come back as it was.
* **One list node per thread.** `general_tag` is in the ready list or in one
  list of waiters, never in two.
* **Overtaking.** Woken threads go to the *front* of the ready list, and a
  thread that is woken for a lock can find it taken again.
* **Tests that grow old.** A consumer tests the queue, then takes and releases
  a lock, then reads.
* **Failure half-way.** The memory manager runs out of frames in the middle of
  a request, with a lock held and pages mapped.
* **One page directory.** Every process has a bitmap of its own for virtual
  addresses, but no switch loads a page directory: all of them map their pages
  in the one the loader made.
* **Bytes in pieces.** Scan codes of several bytes arrive in separate
  interrupts, mixed with those of other keys; the cursor is read and written one
  byte at a time, through a register that every thread sets.
* **Memory in layers.** The loader, its stack, its tables, the kernel's image and
  the bitmaps are written one after the other into the same megabyte, by code
  that depends on what the BIOS left in registers, and nothing before the `sti`
  of `main` decides whether interrupts are on meanwhile.

## 2. Modules

```
Thread ── ThreadWait                       scheduler, and how long threads wait
  └─ Sync ──────── refines Mutex           locks
       ├─ Ioqueue ── Kbd                   ring buffer; the running system
       │        └── IoqueueWait            a consumer that waits in ioq_getchar
       ├─ Screen ── refines Terminal       console, put_char, the VGA cursor
       └─ Memory                           frames, pages, page tables, new processes
Keyboard                                   scan codes to characters
Bitmap                                     bitmap_scan
List ────────────── refines SeqList        linked lists
Layout ── Boot                             sizes and places of memory; boot, interrupts
SyncProofs ──┬─ KbdProofs                  theorems about Thread and Sync, Kbd,
             ├─ ScreenProofs                                   Screen,
             └─ MemoryProofs                                   Memory,
KeyboardProofs, ListProofs, BitmapProofs, BootProofs           the modules of these names
MC*                                        constants for TLC
```

**Thread.** `status`, `ticks`, `thread_ready_list`, `thread_all_list` are the
fields and lists of `thread.c`; `cur` is the running thread, `intr` the CPU's
interrupt flag, `saved[t]` the flag thread `t` gets back when it is switched in
(on for a new thread, because `kernel_thread` calls `intr_enable`). `TimerTick`
is `intr_timer_handler`; `ThreadStart`, `ThreadBlock` and `ThreadUnblock` are
the functions with these names, each with the whole of the `schedule` and
`switch_to` it leads to. A failed `ASSERT` sets `panicked`, after which nothing
happens. The clients of this module may do anything the contracts allow: `main`
does not block, only blocked threads are unblocked. Module Sync is shown to
respect the contracts.

**Sync.** `pc[t]` is the next statement of `sync.c` for thread `t`. Code with
interrupts on has one step per access to shared memory; code between
`intr_disable` and the next switch or `intr_set_status` is one step, because
nothing can come between. `depth` is a history variable: the acquisitions a
thread has been granted and not begun to give back. `Mutex` is what a lock
promises: grants to one thread at a time, nested, and to somebody whenever the
lock is free and wanted.

**Ioqueue, Kbd.** The ring, and the running system of `main.c`: `loc[t]` is the
statement of a consumer, `KeyInterrupt` the part of the keyboard handler that
uses `kbd_buf`. `accepted` and `screen` are histories of the characters put
into the queue and written, `shown` of the characters among the latter that are
no prefixes and no messages. Characters are numbers: the k-th one typed is k.
`UnknownKey` is the handler's message, printed without the console lock.
The wait branch of `ioq_getchar` is not a step of `KbdNext`: a consumer that
would take it is stopped at `"wait"`, and `ConsumersNeverWait` shows that none
gets there. `IoqueueWait` has a consumer that does wait.

**Keyboard.** The handler's control over scan codes. `port` holds the bytes the
controller has not delivered, so the handler runs behind the user. A character
is its place in `keymap`. The keyboard itself (`Press`, `Repeat`, `Release`) is
environment, with the real codes of twelve keys, among them a cursor key that
the keyboard wraps in fake shifts. `Repeat` leaves out Caps Lock (section 6).

**Bitmap.** The two nested loops of `bitmap_scan`, one action per branch.

**List.** `prev` and `next` of every node, every function of `list.c`. `where`
is a history: the list into which the callers have put a node. Functions that
only read are operators over the walk from `head.next`; a walk that does not
end has length `MaxSteps + 1`. `SeqList` is the list as a sequence, which is
how `Thread` and `Sync` use it.

**Memory.** The three entry points of `memory.c` and all they call. `at[t]` is
the place of a thread in `memory.c` and `call[t]` its local variables. A bitmap
is the set of its 1 bits. `bitmap_scan` and the `bitmap_set` after it are two
steps, with all of Sync's preemption between; locks are taken and given back by
the actions of Sync. `bitmap_scan` here is the definition that `ScanFirstFit`
proves of the loops. `granted` is a history of the pages returned. Callers are
`main` (interrupts off) and processes that ask for their stack and then for
memory (the order of `start_process`); with `MixedSpec` also kernel threads that
ask for a free page. A process has its own `vaddr_bitmap`, but `pte` and `pde`
are the one page directory in cr3: `process_activate` would load another one, and
nothing calls it. `main` makes its threads as `thread_start` and
`process_execute` do: a page for the PCB, pages for the bitmap, a page directory,
each from `get_kernel_pages` and some of them used untested. `MainRequests` are
pages that `main` takes before, so that the pool can run out at any of these.

**Screen.** `console.c` and `print.S`. `ip[t]` is the place of a thread in
`put_char`; `index`, `high` and `low` are the controller's registers, `bx` is the
cursor in the thread's own register, of 16 bits (`BYTE * BYTE` values). Every
port access is a step and a switch can fall between any two. A glyph is the
thread that wrote it. `Terminal` is what the console promises: one writer at a
time, whose text appears character by character at the cursor, with wrap,
scroll and backspace, on a grid of rows and columns. In the refinement the
terminal's cursor is `bx` of the thread that has drawn a character and not yet
finished writing the cursor back. The message that the keyboard handler prints
without the lock (`keyboard.c:216`) is not among the writers; it is in Kbd.

**Boot, Layout.** One action for each stretch of `mbr.S`, `loader.S` and
`init_all`. `live` are the regions of memory whose contents are still needed,
`clobbered` those that a step has overwritten while they were. `bios` is the
machine: its memory, how many areas e820 reports and whether their list ends
with `ebx = 0` or with a carry, which functions of int 0x15 it has, and the
interrupt flag with which it enters `mbr.S`. That flag stays as it is until
`sti`: `BiosServes` is an interrupt in real mode, `Reset` one in protected mode
before `lidt`, and from `lidt` on interrupts go through the kernel's table. `pc`
is `"halted"` when the loader or the kernel has stopped, `"reset"` when the CPU
has, and `"lost"` when a twelfth descriptor of e820 has overwritten `ards_nr` and
the loop that reads them: Boot says nothing of what the loader does then. The
loader is entered at one of two places: `LOADER_START`, the
label, and `LOADER_ENTRY`, the address `mbr.S` really jumps to. They differ by 20
bytes since `ards_buf` has 224 bytes instead of 244, so that at the second one the
CPU executes the rest of `mov ecx, 20`, and int 0x15 with a function that does
not exist: the loader goes on with e801. Both are checked, since a rebuilt loader
may have either. In the running kernel `irr`, `isr` and `imr` are the 8259A's
registers, `vector` and `frame` the interrupt or exception being handled and the
words it has on the stack, the error code of the CPU included. `Sti` has the two
`thread_start` of `main`, which stop the kernel if its pool has no two pages.
`Layout` has the arithmetic in KiB, with the widths of the code's
variables.

## 3. Runs

| run | question | instance | distinct states |
|---|---|---|---|
| `thread` | do the lists agree with the states, does no ASSERT fail, does every ready thread run, and how long does it wait? | main and 2 threads with slices of 3, 2 and 4 ticks | 18 k |
| `sync` | exclusion, exact ownership, no lost wake-up, one list per node, contracts of the thread layer, steps of `Mutex` | main and 3 threads, 1 lock, nesting 2 | 451 k |
| `kbd` | do characters reach the screen once, in order, with the right prefix, and always? | main and 2 consumers, ring of 3, 4 keys, known or unknown | 93 k |
| `units` | `bitmap_scan`: is the result the first run that fits? | every bitmap of 3 bytes of 3 bits, every request up to 10 | 67 k |
|  | `list.c`: are linked lists sequences? | 2 lists, 3 nodes | 1.6 k |
|  | keyboard: are characters and modifiers those the user meant? | 9 keys, 4 presses, 5 pending bytes | 1.0 M |
| `memory` | one use per frame and address, no frame lost, stable mappings; what exactly happens when a resource runs out or an address is taken? | 2 processes, 9 kernel and 3 user frames, 4 pages, tables of 2 pages | 11 k |
| `screen` | is the console a terminal? Is the lock given back, and `sync.c` the mutex with its liveness? | main and 2 threads, 2 rows of 3 columns, texts with every kind of character | 103 k |
| `boot` | is anything needed overwritten, is the memory found, where can an interrupt stop the kernel, does every machine that can start do so? | 5 sizes of memory, 5 sets of BIOS functions, 5 or 11 areas, 2 ends of their list, interrupts on or off, 2 entries, 3 devices, 2 exceptions | 93 k |

Five more runs show disagreements with what the code's comments say; see
section 5.

`units` explores three modules that share no state, each alone: `unit` says
which, and the variables of the two others stay as they are.

*Why the bounds are enough.* With priority 0 every tick is a switch, so `sync`,
`kbd`, `memory` and `screen` contain preemption at every statement; `thread` is
the run with real time slices. Three contenders for a lock give a holder, a
woken waiter and one that overtakes it, the case that makes lost wake-ups
possible. A nesting of 2 tells a counted release from a final one. More locks
are in `kbd` and `memory`, and the proofs are for any number of them. A
ring of 3 wraps around with 4 characters. Nine keys include one of each kind of
scan code; four presses are two modifiers, a prefix code and a character. Three
bytes give a run that begins, crosses and ends in different bytes; bits per byte
do not matter beyond crossing. Three nodes give the middle, the ends and an
empty list, and with two lists a node carries old links from one into the other
(four nodes also pass). In `memory` a process has two page tables, a request of
two pages crosses them, user frames run out while requests are half-way, both
processes want the same addresses, and kernel frames run out at a PCB, a bitmap,
a page directory or a page table. The screen is small enough to scroll, to wrap at the end of a line and at the end of
the screen, and to have its upper left corner reached by a backspace; its cursor
has two digits, as in the machine. The sizes of memory in `boot` are the
smallest for which `mem_pool_init` does not underflow, which leaves no page for
the threads of `main`; one that is no multiple of 64 KiB; the border of e801's two
counts; one above it; and the largest the bitmaps allow. 11 areas are as many as
`ards_buf` holds. Of the devices two have a handler and one is masked; of the
exceptions one brings an error code of the CPU.

*Deadlock* is checked except in `units` (the user stops typing, `bitmap_scan`
returns), the `memory` runs (everybody may wait for a lock that
was left locked; memory is never freed), `screen` (an exception stops the
kernel) and `boot` (without a BIOS function the loader halts, and exceptions
stop the kernel).

*Fairness.* `ThreadFairness`: the 8253 raises IRQ0 for ever and the PIC
keeps a request until it is taken, so a tick is taken if interrupts are on again
and again (strong fairness of `TimerTick`), and every `intr_disable` is followed
by an `intr_set_status`. Kbd and Screen add that a thread that is given the CPU
again and again gets on with its code: a slice is many instructions. Nobody has
to type or to print, and nobody has to release a lock except by finishing a call
it is in. In Boot the CPU executes its code (weak fairness), and takes a pending
interrupt although spurious ones come between (strong fairness): a spurious
interrupt is rare.
Locks are not fair in the code - a woken waiter can be overtaken for ever - so
no property promises a lock to a particular thread; `Mutex` promises a grant to
*some* thread.

Every property of every passing run has a mutant: a changed definition, kept
beside the original, with which TLC finds the property violated.

## 4. Proofs

All proofs are for every value of the constants: any set of threads, locks,
consumers, processes, lists, nodes, keys and devices, any priorities, any sizes of
rings, pools and bitmaps, and every amount of memory in the stated range. The assumptions on
the constants, which TLC evaluates in its runs:

* `MainAssumption` (main is a thread), `PriorityAssumption` (priorities are
  `uint8_t`), `MaxDepthAssumption`, `NullAssumption` (NULL is no thread), and the
  sizes of Bitmap;
* `BufsizeAssumption` (a ring has at least two places), `IoqLockAssumption`,
  `ConsoleLockAssumption`, `MaxKeysAssumption` of Kbd;
* `MemoryAssumption`: the pools and tables have a size, the two pools have
  different locks, a process has room for more than its stack; and
  `SpacesAssumption`: the kernel's address space is none of a process;
* `ElemsAssumption` (there are finitely many nodes), `NodesAssumption`
  (sentinels are nodes of their own, and none is NULL) of List;
* `KeysAssumption` (the keys are ones whose codes the model has) of Keyboard,
  `BootAssumption` (1 MB to 4 GB, the three BIOS functions, 16 IRQs, 32
  exceptions) of Boot;
* `ScreenAssumption`: the screen has two lines and columns or more, its cells fit
  the video segment, and that segment ends two bytes before 64 KiB or earlier, so
  that the offset 0xfffe is outside it.

* `SyncProofs`, on the scheduler: it begins with what append, push and pop do to the range and the
  injectivity of a sequence, and `Least`, a set of numbers has a smallest one,
  which is how the other modules do induction. `ThreadTypes`, `ThreadConsistency`, `ThreadSafety`. The
  inductive invariant `ThreadInv` is the type invariant, the exact bookkeeping
  `SchedulerConsistent`, `MainRunnable` (so `schedule` always finds somebody)
  and `NoPanic`. None of the last three is inductive without the others: the
  assertions that keep the list free of duplicates hold because the list is
  exact, and the list stays exact because they hold.
* `SyncProofs`, on the locks: `SyncUsesThreads` (each step of the locks is a step of the
  thread layer, so `ThreadInv` comes for free), `SyncPanicFree`,
  `SyncTypes`, `SyncExclusion`, `SyncHolder`, `SyncWaiters`, `SyncWakeups`,
  `SyncAtomicity`, `SyncImplementsMutex` (the safety part of `Mutex`). The inductive invariant `SyncInv` adds: one owner per lock,
  where the owner is defined by the statement a thread is at and not by
  `holder`, because `holder` lags behind; `value` is 0 exactly while there is an
  owner; `holder` and the count agree with the owner once it has set them; the
  waiters are exactly the blocked threads; threads at the protected statements
  come back with interrupts off; and a free lock with waiters has a runnable
  thread at the test of the loop.
* `KbdProofs`: `KbdUsesLocks` (every step of `main.c` and of the handlers is a
  step of the locks, so `SyncInv` comes for free, and no ASSERT fails),
  `KbdNeverWaits`, `KbdInOrder`, `KbdPrefix`, `KbdLostBehindOne`. The last one is
  what the code does where `kbd_full` (section 5) refutes what its comments say:
  for every size of the ring a key is lost exactly when one byte waits. None of
  these is inductive. `KbdInv` adds who is *on duty*: from `intr_disable` to
  `intr_set_status` only a contended console lock could take the CPU from a
  consumer, but its holder would have lost the CPU in the same section; so one
  thread is on duty at a time, it is the running one, and all others are at the
  start of their loops. With that the ring has at most one byte and the test of
  `ioq_empty` is still true at `ioq_getchar`. `TakenValue` (a semaphore is 0
  only while somebody owns its lock) is added to `SyncInv` to see that
  `lock_acquire` of the console does not block.
* `MemoryProofs`: `MemTypes`, `MemFramesOwned`, `MemBooks`, `MemLockKept`,
  `MemPanics`, `MemMappingsStable`, all of `MemSpec`. The inductive invariant
  `MemInv` says that one thread at a time works on bitmaps and tables: `main`
  with interrupts off until its threads exist (`BootInv`), then the process that
  has the user pool's lock (`LockingInv`), which protects the kernel pool too,
  since page tables are all that is taken from it by then. The lock protects the
  shared page directory too: an address that another process has mapped stops the
  kernel at the ASSERT of `page_table_add`, before anything is changed
  (`AddressTaken`, the third cause in `MemPanics`). `CallsOK` says for
  every place in `memory.c` what its local variables mean - which bit was found
  and is still free, which pages of the request are mapped -, `TableInv` and
  `BooksInv` what the bitmaps and tables are outside of that one call. A panic
  stops everything, also half-way, so the invariant is about states before it
  (`Live`) and the properties are shown of the step that panics (`Safe`). With
  clients of both pools (`MixedSpec`) the invariant fails at `LockingInv`, which
  is the race of section 5.
* `ListProofs`: `ListLinksMatch`, `ListReadersAgree`, `ListImplementsSequences`,
  and `ListRefinesSequences`: `ListSpec` implements the specification of
  `SeqList`. The inductive invariant `ListInv` is that *some* sequences are
  spelled out by the links of both directions, without duplicates and with
  exactly the nodes of `where`; `LinksMatch` alone says too little, because links
  could agree and still form a ring beside the list. All functions are then an
  insertion at a place or a removal from a place (`InsertSpells`,
  `RemoveSpells`). That the walk from `head.next` finds the sequence
  (`WalkSpelled`) is an induction on its steps: a function with the sequence's
  values satisfies the recursion, and there is no least step where another one
  differs.
* `BitmapProofs`: `ScanTypes`, `ScanInvariance`, `ScanFirstFit`. The loop invariant says that
  `unused_cnt` is the length of the longest free run that ends at the current
  position and that no run that fits ends before it.

* `KeyboardProofs`: `StatusTracksKeysHolds`, `TypedAsMeantHolds`. Both compare the
  driver with a user who is ahead of it by the bytes in `port`, so neither is
  inductive: they say nothing while a byte waits. The invariant is about the
  future: *reading* `port` byte by byte would take the driver from its present
  flags and characters to the user's (`Follows`). What a byte does is a function
  of flags and characters (`NextFlags`, `NextTyped`); the states in between are a
  function over the positions of `port`, which stands for the recursion the
  prover cannot do. `ReadsOne` takes a byte from the front of such a run, when the
  handler reads it (`HandlerReads`: the handler does what the function says);
  `ReadsMore` adds one at the end, when the keyboard sends it; `MakeReads` and
  `BreakReads` add the code of each of the twelve keys. The hypothesis
  `OneOfEach` is that `Keys` has not both keys of a kind: without it the property
  is false (section 5).
* `ScreenProofs`: `ScreenInvariance`, `ScreenImplementsTerminal`. The invariant
  `ScreenInv` holds until the kernel halts, since the fault of a backspace is no
  step of the locks: `SyncInv`, and every thread is either *outside* (idle, waiting
  in `console_acquire`, or giving the lock back) or *inside* `put_char` with the
  lock taken once. For the one inside it says, place by place, which half the index
  port selects, what the register has of the cursor and when the ports have it; this
  is not inductive without the lock, because the ports are shared. The refinement
  mapping takes the cursor from the register from the moment a character is drawn
  until both halves are written, and the scrolled screen from the moment `roll` is
  decided (`Shows`, `ShowsNobody`). Then getting the lock is `Start`,
  `console_release` is `Finish`, each draw is `PutChar`, `PutLine`, `PutBackspace` or
  `Stop`, and every port access stutters. `PlaceCell`, `CellPlace`, `NextPlace`,
  `BackPlace`, `GridPut` and `GridRoll` turn cells of the video memory into lines and
  columns for any size of the screen.
* `BootProofs`: `E801Exact`, `PoolsFitBelowLimit` and `BitmapsFitBelowLimit` are
  the arithmetic of Layout: up to 514 MB nothing is cut to 16 bits (`PageCounts`),
  so that the two counts are halves of the free pages; the rest is linear
  arithmetic on whole bytes and blocks. `BootInvariant` is the boot: `BootInv` says
  for each stage which regions are live (`LiveInv`), what was found and how
  (`DetectInv`), which handlers and structures are there (`TablesInv`), that the
  interrupt flag is the BIOS's until `sti` and one interrupt is handled at a time,
  behind `lidt`, with the frame its entry pushed and after its EOI
  (`InterruptInv`), and where the kernel has stopped (`HandlersReady`, which is not
  inductive without the rest). `HandlersReadyHolds` and `BootTypesCorrect` follow,
  for every machine and flag; and with the arithmetic `DetectedMemoryHolds`,
  `PoolsInRamHolds` and `NothingClobberedHolds`. Their hypotheses are the limits of
  the code: less than 2 GB for the signed comparison of areas; 2 MB, below which
  `mem_pool_init` underflows, to 514 MB for the 16-bit counts; 343 MB for the
  bitmaps, and at most 11 areas, the size of `ards_buf`. `boot_limit` (section 5)
  is what happens above. The theorems without these hypotheses are about the
  control: that code goes on as written although something has been overwritten is
  the model's reading of it above 343 MB.

Only model-checked: liveness (`NoStarvation`, the fairness of `ImplementsMutex`,
`AllShown`, `ConsoleGivenBack`, `Booted`, `TicksTaken`), which is
beyond this prover; and `BoundedWait`, whose sum over a set of threads is a
recursive definition that the prover's induction theorems do not reach.

## 5. Findings

Runs that are expected to fail, each against a comment of the code:

| run | the code | line |
|---|---|---|
| `ioqueue_wait` | `ioq_wait` asserts that its slot is *not* NULL, so whoever has to wait panics | `device/ioqueue.c:36` |
| `memory_race` | page tables of processes come from the kernel pool under the *user* pool's lock: with a kernel thread that holds the kernel pool's lock, one frame gets two owners | `kernel/memory.c:119` |
| `boot_limit` | with 512 MB, which a comment allows, the third bitmap overwrites the PCB and the stack of `main`; the limit is about 343 MB | `kernel/memory.c:294` |
| `memory_rollback` | a request that fails half-way keeps its virtual pages, its frames and their mappings, although a comment says that it has to roll back | `kernel/memory.c:146` |
| `kbd_full` | `ioq_full` compares `next_pos(tail)` with `head`, but the producer writes at `head`: a ring of any size is full with one byte, and a key that comes while one waits is lost | `device/ioqueue.c:25` |

`FramesOwned` holds in the run `memory`, where all clients are processes and use
one lock (`MemSpec`), and fails with clients of both kinds (`MixedSpec`).

What the code does at its limits is stated exactly by properties of the passing
runs:

* because the ring is full with one byte, `InOrder` is about one character in the
  queue and one on its way;
* after requests that failed half-way every frame that is taken is still in use,
  and every page a caller got is mapped (`BooksExact`);
* a backspace in the upper left corner stops the kernel with an exception, and
  nothing else printed does (`ImplementsTerminal`, `print.S:134`);
* after e801, `rd_disk_m_32` writes 228 KiB instead of 100, which falls on nothing
  that is needed at that time (`NothingClobbered`, `loader.S:297`);
* `get_a_page` returns NULL with the user pool's lock held when the pool is
  empty, and on no other path (`LockKeptOnlyIfEmpty`, `memory.c:212`);
* the kernel stops in `memory.c` or `process.c` for three reasons only: a request
  finds no virtual pages, the kernel's frames have run out for a PCB, a bitmap, a
  page directory or a page table, or an address is another process's
  (`PanicCauses`, `memory.c:138`, `thread.c:73`, `memory.c:111`). The first and
  the last are disagreements too, and the other half of `FailsCleanly`: a comment
  promises NULL on failure (`memory.c:156`), another one that a process has a page
  directory of its own (`process.c:44`), which nothing loads;
* physical frame 0 becomes a page table, and with it the GDT is cleared, when
  the kernel pool is empty, and only then: one of the cases of
  `PanicCauses` (`memory.c:119`);
* with interrupts off at the start, no interrupt ever stops the kernel or the CPU;
  with interrupts on, none does once `keyboard_init` is done, but each stage from
  protected mode to there can be stopped by one (`HandlersReady`, `main.c:23`). A
  tick between `timer_init` and `thread_init` fails the check for a stack overflow
  (`timer.c:46`), though none has happened;
* the entries of exceptions 0x08, 0x0a to 0x0e and 0x11 push a zero although the
  CPU has pushed an error code, and the one of 0x1e pushes none, against the
  comments at `kernel.S:2`: their frames have 18 and 16 words where `intr_exit`
  takes off 17. `BootTypeOK` holds because those handlers never return;
* with 2 MB there is no page for the threads of `main`, and `memset`'s ASSERT stops
  the kernel before `sti` (`HandlersReady`, `thread.c:73`); `Booted` is for 2176 KiB
  and more, interrupts off, at most 11 areas, and a function the loader gets to
  use.

A BIOS that only has function 0x88 gets an amount that has little to do with its
memory: `ax` is in KiB and is added in bytes to what `dx` happened to hold
(`loader.S:90`), about 32 MB at the entry `mbr.S` uses. `DetectedMemory` and
`PoolsInRam` leave that function out. The half of `DetectedMemory` about e820 is
about a loader entered at `loader_start`, which the `mbr.S` of this commit misses
by 20 bytes.

`StatusTracksKeys` holds for a keyboard with one Shift key. With both of them in
`Keys` it fails: they share one flag, and releasing one clears it
(`keyboard.c:147`; the same for Ctrl and Alt).

## 6. Not modelled, and why

* `process_activate` and `page_dir_activate`: nothing calls them, so Memory has one
  page directory for everybody. What `start_process` writes on its stack is data
  here.
* The keyboard handler's unlocked `put_str` in Screen: threads there print with
  interrupts on, and the message could cut into a `put_char` between two accesses
  of the ports. The consumers of this commit print with interrupts off, and Kbd
  has the message among their steps.
* Stack overflow: `TimerTick` of Thread leaves out the ASSERT of `stack_magic`.
  Boot has it, since there it can fail before the magic number is written.
* String functions other than `memset`: `memcpy` and `strcpy` are used for data
  the models do not have, the others have no caller. `kernel/timer.c` is an older
  copy of the timer driver and is not in the build.
* A Caps Lock key that repeats its make code toggles `caps_lock_status` each
  time (`keyboard.c:213`). Whether it repeats depends on the keyboard.
* `ioq_putchar`'s wait loop: its only caller is an interrupt handler that tests
  `ioq_full` first.
* The period of the timer: `uint16_t` truncates the counter value, but no state
  depends on durations.
* In Boot: the entries of the page tables and of the ELF headers, the
  registers and flags of descriptors. Threads and their switches are in the
  other modules: a handler in Boot returns or stops the kernel.
* What the loader does after a BIOS has reported a twelfth area, and memory above
  2 GB: `ards_buf` and the signed comparison do not allow for them.
* Memory ordering: there is one CPU, and what a thread reads is what was written
  last. Compiler reordering around `intr_disable` is not modelled.

## 7. Plan

Done, in this order: Thread and its proofs; Sync, Mutex and their proofs;
Ioqueue, Kbd, IoqueueWait; Keyboard; Bitmap and its proofs; List, SeqList;
Memory; Screen and Terminal; `process_execute` in Memory; Layout with its proofs,
Boot; the proofs of Kbd, Memory and List; those of Boot and Keyboard; that Screen
implements Terminal.

Open: a proof of `BoundedWait`, if its sum can be stated without recursion.
