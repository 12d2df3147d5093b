-------------------------------- MODULE Boot --------------------------------
(***************************************************************************)
(* From the boot sector to the kernel that takes interrupts: boot/mbr.S,   *)
(* boot/loader.S, init_all of kernel/init.c and what it calls, and the     *)
(* interrupt entry of kernel/kernel.S with the 8259A.                      *)
(*                                                                         *)
(* The BIOS, the amount of memory and the devices are the environment.     *)
(* Memory is a set of named regions: live are those whose contents are     *)
(* still needed, clobbered those that were overwritten while live.         *)
(*                                                                         *)
(* No instruction between the first of mbr.S and the sti of main() writes  *)
(* the interrupt flag: until then it is what the BIOS left.                *)
(***************************************************************************)
EXTENDS Layout, SequencesExt

CONSTANTS
  RamSizes,     \* KiB of memory the machine may have
  ExtraAreas,   \* how many areas more than the usual five e820 reports
  Supports,     \* which functions of int 0x15 a BIOS may have
  Ends,         \* how e820 tells its last area: ebx = 0, or a carry after it
  BiosFlags,    \* the interrupt flag with which the BIOS may enter mbr.S
  Devices,      \* the interrupt lines that are ever raised
  Exceptions    \* the exceptions the threads ever cause

ASSUME BootAssumption ==
  /\ RamSizes \subseteq 1024..(WORD - 1)
  /\ ExtraAreas \subseteq Nat
  /\ Supports \subseteq SUBSET {"e820", "e801", "88"}
  /\ Ends \subseteq {"ebx", "carry"}
  /\ BiosFlags \subseteq BOOLEAN
  /\ Devices \subseteq 0..15
  /\ Exceptions \subseteq 0..31

(* mbr.S jumps to LOADER_BASE_ADDR + 0x300, 20 bytes behind loader_start:  *)
(* ards_buf has 224 bytes, not 244.                                        *)
LOADER_START == \hbec
LOADER_ENTRY == \hc00
ARDS_BUF == \hb0a

Region ==
  [bios_data    |-> <<0, \h500>>,
   loader_stack |-> <<\h800, \h900>>,
   gdt          |-> <<\h900, \h920>>,
   total_mem    |-> <<\hb00, \hb04>>,   \* where mem_init reads it
   gdt_ptr      |-> <<\hb04, \hb0a>>,
   loader       |-> <<\hbea, \h1000>>,  \* ards_nr and the code
   kernel       |-> <<\h1000, \h1000 + 200 * 512>>,
   mbr_stack    |-> <<\h7a00, \h7c00>>,
   mbr          |-> <<\h7c00, \h7e00>>,
   image        |-> <<\h70000, \h70000 + 200 * 512>>,
   main_thread  |-> <<\h9e000, \h9f000>>,
   video        |-> <<\hb8000, \hc0000>>,
   page_tables  |-> <<\h100000, \h200000>>]

VARIABLES
  pc,           \* what comes next
  bios, entry,  \* the environment, and where the loader is entered
  ards_nr, ecx_high,
  total, method,      \* total_mem_bytes, and the function that gave it
  live, clobbered,
  gdt_limit, handlers, ready,
  irr, isr, imr,      \* 8259A: lines requested, in service, masked
  intr_on, vector,    \* the CPU's flag, and the interrupt it handles, or -1
  frame               \* words on the stack for the interrupt

loaderVars == <<bios, entry, ards_nr, ecx_high, total, method>>
memoryVars == <<live, clobbered>>
tableVars == <<gdt_limit, handlers, ready>>
intrVars == <<irr, isr, imr, intr_on, vector, frame>>
bootVars == <<pc, loaderVars, memoryVars, tableVars, intrVars>>

Vectors == 0..\h2f

RealMode == {"mbr", "loader", "e820", "find_max", "e801", "88", "protected"}
Stopped == {"halted", "reset", "lost"}

BootInit ==
  /\ pc = "mbr"
  /\ bios \in [ram : RamSizes, extra : ExtraAreas, supports : Supports, ends : Ends,
              intr : BiosFlags]
  /\ entry \in {LOADER_START, LOADER_ENTRY}
  /\ ards_nr = 0 /\ ecx_high = 0
  /\ total = 0 /\ method = "none"
  /\ live = {"bios_data", "mbr", "mbr_stack", "video"}
  /\ clobbered = {}
  /\ gdt_limit = 0 /\ handlers = [v \in Vectors |-> "none"] /\ ready = {}
  /\ irr = {} /\ isr = {} /\ imr = {}
  /\ intr_on = bios.intr /\ vector = -1 /\ frame = 0

-----------------------------------------------------------------------------

(* No interrupt is being handled. *)
Step(from, to) == vector = -1 /\ pc = from /\ pc' = to

(* The bytes from lo to hi - 1 are overwritten. *)
Write(lo, hi) ==
  clobbered' = clobbered \cup {r \in live : Region[r][1] < hi /\ lo < Region[r][2]}
Live(begin, end) == live' = (live \ end) \cup begin

(* mbr.S: four sectors are read to LOADER_BASE_ADDR.  At the real entry    *)
(* the rest of an instruction is executed: add [bx+si], al.                *)
LoadLoader ==
  /\ Step("mbr", "loader")
  /\ Write(\h900, \h1100)
  /\ Live({"gdt", "total_mem", "gdt_ptr", "loader"}, {})
  /\ UNCHANGED <<loaderVars, tableVars, intrVars>>

EnterLoader ==
  /\ Step("loader", IF entry = LOADER_START THEN "e820" ELSE "e801")
  /\ IF entry = LOADER_START THEN UNCHANGED clobbered ELSE Write(\h1102, \h1103)
  /\ Live({}, {"mbr"})
  /\ UNCHANGED <<loaderVars, tableVars, intrVars>>

Answers(fn) == fn \in bios.supports

IO_APIC == 4173824    \* 0xfec00000

(* The areas e820 reports, <<base, length>>, whatever their type: the last *)
(* is the BIOS ROM, at the end of the address space.                       *)
UsualAreas ==
  << <<0, 639>>, <<639, 1>>, <<1024, bios.ram - 1024>>, <<IO_APIC, 4>>, <<WORD - 256, 256>> >>
MoreAreas == [i \in 1..bios.extra |-> <<960, 1>>]
Areas == MoreAreas \o UsualAreas

ArdsEnd(n) == ARDS_BUF + 20 * n

(* The twelfth descriptor falls on ards_nr and the loop itself: what the   *)
(* loader does then is not known.                                          *)
E820Answer ==
  /\ Answers("e820") /\ ards_nr < Len(Areas)
  /\ Step("e820", IF ArdsEnd(ards_nr + 1) > Region.loader[1] THEN "lost"
                  ELSE IF ards_nr + 1 = Len(Areas) /\ bios.ends = "ebx" THEN "find_max"
                  ELSE "e820")
  /\ Write(ArdsEnd(ards_nr), ArdsEnd(ards_nr + 1))
  /\ ards_nr' = ards_nr + 1
  /\ ecx_high' = 0
  /\ UNCHANGED <<bios, entry, total, method, live, tableVars, intrVars>>

(* The carry of the first call, or the one that follows the last area. *)
E820Fail ==
  /\ Step("e820", "e801")
  /\ ~Answers("e820") \/ ards_nr = Len(Areas)
  /\ UNCHANGED <<loaderVars, memoryVars, tableVars, intrVars>>

(* .mem_get_ok *)
Total(fn, kb) == total' = kb /\ method' = fn

AreaEnd(i) == (Areas[i][1] + Areas[i][2]) % WORD

(* Mutant of FindMax: jae for jge. *)
FindMaxUnsigned ==
  /\ Step("find_max", "protected")
  /\ Total("e820", Max({0} \cup {AreaEnd(i) : i \in 1..ards_nr}))
  /\ UNCHANGED <<bios, entry, ards_nr, ecx_high, memoryVars, tableVars, intrVars>>

(* .find_max_mem_area: jge compares signed numbers, so an area that ends   *)
(* above 2 GB counts as less than 0.                                       *)
FindMax ==
  /\ Step("find_max", "protected")
  /\ Total("e820", Max({0} \cup {x \in {AreaEnd(i) : i \in 1..ards_nr} : x < WORD \div 2}))
  /\ UNCHANGED <<bios, entry, ards_nr, ecx_high, memoryVars, tableVars, intrVars>>

(* ecx is set to 0x10000 and not cleared again. *)
E801Answer ==
  /\ Step("e801", "protected") /\ Answers("e801")
  /\ Total("e801", E801Total(bios.ram))
  /\ ecx_high' = 1
  /\ UNCHANGED <<bios, entry, ards_nr, memoryVars, tableVars, intrVars>>

(* Mutant of E801Fail: the last function is not tried. *)
E801FailStops ==
  /\ Step("e801", "halted") /\ ~Answers("e801")
  /\ UNCHANGED <<loaderVars, memoryVars, tableVars, intrVars>>

E801Fail ==
  /\ Step("e801", "88") /\ ~Answers("e801")
  /\ UNCHANGED <<loaderVars, memoryVars, tableVars, intrVars>>

(* What dx held before: of 'SMAP' for e820, or the data port of the disk. *)
OldDx == IF entry = LOADER_START THEN \h4150 ELSE \h1f0

(* 0x88 reports 63 MB at most. *)
Ax88 == IF bios.ram < 65536 THEN bios.ram - 1024 ELSE 64512

Answer88 ==
  /\ Step("88", "protected") /\ Answers("88")
  /\ Total("88", Total88(OldDx, Ax88))
  /\ UNCHANGED <<bios, entry, ards_nr, ecx_high, memoryVars, tableVars, intrVars>>

ErrorHlt ==
  /\ Step("88", "halted") /\ ~Answers("88")
  /\ UNCHANGED <<loaderVars, memoryVars, tableVars, intrVars>>

Detect ==
  \/ E820Answer \/ E820Fail \/ FindMax
  \/ E801Answer \/ E801Fail
  \/ Answer88 \/ ErrorHlt

-----------------------------------------------------------------------------

(* p_mode_start and p_mode_test: the GDT is loaded, the BIOS is left. *)
ProtectedMode ==
  /\ Step("protected", "read_kernel")
  /\ gdt_limit' = 31
  /\ Live({"loader_stack"}, {"bios_data", "mbr_stack"})
  /\ UNCHANGED <<loaderVars, clobbered, handlers, ready, intrVars>>

(* rd_disk_m_32: mov cx, ax leaves the upper half of ecx, loop counts ecx. *)
ReadKernel ==
  /\ Step("read_kernel", "setup_page")
  /\ Write(\h70000, \h70000 + 2 * (ecx_high * UINT16 + 200 * 256))
  /\ Live({"image"}, {})
  /\ UNCHANGED <<loaderVars, tableVars, intrVars>>

(* The page directory and 256 entries of the first table are written; the  *)
(* directory points to 254 tables that follow.  Then paging is on, and the *)
(* GDT is loaded at its new address.                                       *)
setup_page ==
  /\ Step("setup_page", "kernel_init")
  /\ Write(\h100000, \h101000 + 256 * 4)
  /\ Live({"page_tables"}, {})
  /\ UNCHANGED <<loaderVars, tableVars, intrVars>>

(* Mutant of init_all: the timer's handler is registered before idt_init. *)
InitAllTimerFirst == <<"timer", "idt", "mem", "thread", "console", "keyboard", "tss">>

(* The parts of the kernel in the order they are initialised. *)
init_all == <<"idt", "timer", "mem", "thread", "console", "keyboard", "tss">>

(* The segments are copied out of the image, main() gets its stack. *)
kernel_init ==
  /\ Step("kernel_init", Head(init_all))
  /\ Write(Region.kernel[1], Region.kernel[2])
  /\ Live({"kernel", "main_thread"}, {"loader", "loader_stack", "gdt_ptr", "image"})
  /\ UNCHANGED <<loaderVars, tableVars, intrVars>>

-----------------------------------------------------------------------------

Initialise(part) ==
  \E i \in DOMAIN init_all :
    init_all[i] = part /\ Step(part, IF i < Len(init_all) THEN init_all[i + 1] ELSE "sti")

register_handler(v, function) == handlers' = [handlers EXCEPT ![v] = function]

exception_init == handlers' = [v \in Vectors |-> "general"]

(* Line 0 has the vector 0x20, and two lines are not masked. *)
pic_init == imr' = (0..15) \ {0, 1}

idt_init ==
  /\ Initialise("idt")
  /\ exception_init /\ pic_init
  /\ ready' = ready \cup {"idt"}
  /\ UNCHANGED <<loaderVars, memoryVars, gdt_limit, irr, isr, intr_on, vector, frame>>

timer_init ==
  /\ Initialise("timer")
  /\ register_handler(\h20, "timer")
  /\ UNCHANGED <<loaderVars, memoryVars, gdt_limit, ready, intrVars>>

(* Mutant of mem_init: the bitmaps are placed behind the main thread's PCB. *)
mem_init_higher ==
  /\ Initialise("mem")
  /\ Write(MAIN_PCB, MAIN_PCB + bitmaps_end(total) - MEM_BITMAP_BASE)
  /\ Live({}, {"total_mem"})
  /\ UNCHANGED <<loaderVars, tableVars, intrVars>>

(* mem_pool_init clears the three bitmaps. *)
mem_init ==
  /\ Initialise("mem")
  /\ Write(MEM_BITMAP_BASE, bitmaps_end(total))
  /\ Live({}, {"total_mem"})
  /\ UNCHANGED <<loaderVars, tableVars, intrVars>>

(* The PCB of main() is made, with its stack_magic. *)
thread_init ==
  /\ Initialise("thread")
  /\ ready' = ready \cup {"pcb"}
  /\ UNCHANGED <<loaderVars, memoryVars, gdt_limit, handlers, intrVars>>

console_init ==
  /\ Initialise("console")
  /\ ready' = ready \cup {"console_lock"}
  /\ UNCHANGED <<loaderVars, memoryVars, gdt_limit, handlers, intrVars>>

keyboard_init ==
  /\ Initialise("keyboard")
  /\ ready' = ready \cup {"kbd_buf"}
  /\ register_handler(\h21, "keyboard")
  /\ UNCHANGED <<loaderVars, memoryVars, gdt_limit, intrVars>>

(* Three descriptors behind the loader's, lgdt, and ltr of the first. *)
tss_init ==
  /\ Initialise("tss")
  /\ Write(\h920, \h938)
  /\ gdt_limit' = 8 * 7 - 1
  /\ UNCHANGED <<loaderVars, live, handlers, ready, intrVars>>

(* Whether the bitmap of the kernel's pool has a page for the PCB of each  *)
(* of the two threads of main().                                           *)
PagesForThreads(all_mem) == 8 * kbm_length(all_mem) >= 2

(* main() starts its threads, then sti.  Without a page get_kernel_pages   *)
(* returns NULL, which thread_start does not test: the ASSERT of memset,   *)
(* called by init_thread, stops the kernel.                                *)
Sti ==
  /\ Step("sti", IF PagesForThreads(total) THEN "running" ELSE "halted")
  /\ intr_on' = PagesForThreads(total)
  /\ UNCHANGED <<loaderVars, memoryVars, tableVars, irr, isr, imr, vector, frame>>

Kernel ==
  \/ idt_init \/ timer_init \/ mem_init \/ thread_init
  \/ console_init \/ keyboard_init \/ tss_init \/ Sti

-----------------------------------------------------------------------------

(* A device raises its line, or the 8259A gives vector 7 for a line that   *)
(* went down again.                                                        *)
Raise(i) ==
  /\ i \in Devices \ irr
  /\ irr' = irr \cup {i}
  /\ UNCHANGED <<pc, loaderVars, memoryVars, tableVars, isr, imr, intr_on, vector, frame>>

Eligible ==
  {i \in irr \ imr : /\ i > 7 => 2 \notin imr
                     /\ \A j \in isr : i < j}

(* In real mode the BIOS has a handler for every line. *)
BiosServes(i) ==
  /\ pc \in RealMode /\ intr_on
  /\ i \in irr
  /\ irr' = irr \ {i}
  /\ UNCHANGED <<pc, loaderVars, memoryVars, tableVars, isr, imr, intr_on, vector, frame>>

(* In protected mode, before lidt, the CPU finds no gate. *)
Reset ==
  /\ pc \notin RealMode \cup Stopped /\ "idt" \notin ready
  /\ intr_on
  /\ pc' = "reset"
  /\ UNCHANGED <<loaderVars, memoryVars, tableVars, intrVars>>

(* The exceptions for which the CPU pushes an error code itself. *)
CpuErrorCodes == {8, 10, 11, 12, 13, 14, 17}

CpuWords(v) == 3 + (IF v \in CpuErrorCodes THEN 1 ELSE 0)

(* Mutant of FrameWords: ERROR_CODE for ZERO at the keyboard's entry. *)
FrameWordsKeyboard(v) == CpuWords(v) + (IF v = \h21 THEN 0 ELSE 1) + 4 + 8 + 1

(* The CPU's words, the zero of VECTOR, which all but 0x1e push, the       *)
(* registers, and the number of the vector.                                *)
FrameWords(v) == CpuWords(v) + (IF v = \h1e THEN 0 ELSE 1) + 4 + 8 + 1

(* Mutant of EOI: it is not sent. *)
EOINot(service) == service

(* The entry of every vector sends the EOI before it calls the handler:    *)
(* the first line in service is done, if there is one.                     *)
EOI(service) == {j \in service : \E k \in service : k < j}

Enter(v, service) ==
  /\ pc \notin Stopped /\ "idt" \in ready /\ vector = -1
  /\ intr_on' = FALSE
  /\ vector' = v
  /\ frame' = frame + FrameWords(v)
  /\ isr' = EOI(service)
  /\ UNCHANGED <<pc, loaderVars, memoryVars, tableVars, imr>>

Interrupt ==
  /\ intr_on /\ Eligible # {}
  /\ LET i == Min(Eligible)
     IN  /\ irr' = irr \ {i}
         /\ Enter(\h20 + i, isr \cup {i})

Spurious == intr_on /\ Enter(\h27, isr) /\ UNCHANGED irr

Exception(v) == pc = "running" /\ Enter(v, isr) /\ UNCHANGED irr

(* Whether the C handler returns: the timer's ASSERT needs the PCB, and    *)
(* general_intr_handler stops at everything but IRQ 7 and IRQ 15.          *)
HandlerReturns(v) ==
  \/ handlers[v] = "timer" /\ "pcb" \in ready
  \/ handlers[v] = "keyboard" /\ "kbd_buf" \in ready
  \/ handlers[v] \notin {"timer", "keyboard"} /\ v \in {\h27, \h2f}

(* The handler returns to intr_exit, or the kernel stops. *)
CallHandler ==
  /\ pc \notin Stopped /\ vector # -1
  /\ IF HandlerReturns(vector)
       THEN /\ frame' = frame - (1 + 8 + 4 + 1 + 3)
            /\ vector' = -1
            /\ intr_on' = TRUE
            /\ UNCHANGED pc
       ELSE pc' = "halted" /\ UNCHANGED <<frame, vector, intr_on>>
  /\ UNCHANGED <<loaderVars, memoryVars, tableVars, irr, isr, imr>>

CPU ==
  \/ LoadLoader \/ EnterLoader \/ Detect
  \/ ProtectedMode \/ ReadKernel \/ setup_page \/ kernel_init
  \/ Kernel
  \/ Interrupt \/ CallHandler

BootNext ==
  \/ CPU
  \/ Spurious \/ Reset
  \/ \E i \in Devices : Raise(i) \/ BiosServes(i)
  \/ \E v \in Exceptions : Exception(v)

BootSpec == BootInit /\ [][BootNext]_bootVars

(* The CPU executes its code, and takes an interrupt that is pending: a    *)
(* spurious one does not come every time.                                  *)
BootFairSpec == BootSpec /\ WF_bootVars(CPU) /\ SF_bootVars(Interrupt)

-----------------------------------------------------------------------------

(* The stack has the frame of at most one interrupt, and what the entry of *)
(* a vector pushed whose handler returns, intr_exit has taken off to the   *)
(* word.  Exceptions have another word on the stack where kernel.S pushes  *)
(* a zero behind the error code of the CPU, but they never return.         *)
BootTypeOK ==
  /\ pc \in RealMode \cup Stopped \cup Range(init_all)
           \cup {"read_kernel", "setup_page", "kernel_init", "sti", "running"}
  /\ total \in 0..(WORD - 1)
  /\ live \cup clobbered \subseteq DOMAIN Region
  /\ isr \subseteq 0..15 /\ irr \subseteq 0..15
  /\ vector \in Vectors \cup {-1}
  /\ frame \in 0..18 /\ (vector = -1 => frame = 0)

(* No write of the boot code, from the loader to the bitmaps of mem_init,  *)
(* falls on memory whose contents are still needed, although rd_disk_m_32  *)
(* writes more than twice the kernel after e801, e820 fills a buffer that  *)
(* lies before the code, and the bitmaps end below main()'s stack.         *)
NothingClobbered == clobbered = {}

(* What the loader leaves for mem_init is the memory of the machine: e820  *)
(* reports it among areas whose type is not looked at, e801 loses less     *)
(* than 64 KiB.  Nothing is said of 0x88, and e820 is asked only if the    *)
(* loader is entered at loader_start, which mbr.S misses.                  *)
DetectedMemory ==
  /\ method = "e820" => total = bios.ram
  /\ method = "e801" => total <= bios.ram /\ bios.ram - total < 64

(* After mem_init the frames of the two pools are disjoint and exist; the  *)
(* page tables lie below them.  A size that 0x88 told is exempt: it may be *)
(* more than the machine has.                                              *)
PoolsInRam ==
  "total_mem" \notin live /\ method \in {"e820", "e801"} =>
    /\ PoolsFit(total) /\ total <= bios.ram
    /\ Region.page_tables[2] <= 1024 * kp_start

(* Where the kernel may stop or the CPU reset.  With interrupts off when   *)
(* mbr.S is entered: if the BIOS does not tell the memory, if there is no  *)
(* page for the threads, or at an exception, but at no interrupt.  With    *)
(* interrupts on no interrupt stops it either once keyboard_init is done.  *)
HandlersReady ==
  /\ pc = "halted" /\ vector = -1 => method = "none" \/ ~PagesForThreads(total)
  /\ pc = "halted" /\ vector >= \h20 => bios.intr /\ "kbd_buf" \notin ready
  /\ pc = "reset" => bios.intr

(* The functions the loader gets to use.  At the address mbr.S jumps to,   *)
(* e820 is not asked, and a carry at the end of its list is taken for its  *)
(* failure.                                                                *)
Usable ==
  bios.supports \ (IF entry = LOADER_START /\ bios.ends = "ebx" THEN {} ELSE {"e820"})

(* A machine with interrupts off, at least 2176 KiB and at most eleven     *)
(* areas, whose BIOS answers a function the loader uses, starts the        *)
(* kernel.                                                                 *)
Booted ==
  /\ pc = "mbr" /\ Usable # {}
  /\ ~bios.intr /\ bios.ram >= 2176 /\ bios.extra <= 6
  ~> pc = "running"

(* A tick that is raised is taken, whatever the keyboard and spurious      *)
(* interrupts do, unless an exception stops the kernel.                    *)
TicksTaken == 0 \in irr /\ pc = "running" ~> 0 \notin irr \/ pc = "halted"
=============================================================================
