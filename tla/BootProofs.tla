----------------------------- MODULE BootProofs -----------------------------
(***************************************************************************)
(* The boot path for every machine: what the loader and init_all have done *)
(* at each stage, whatever the BIOS reports and whether or not it leaves   *)
(* interrupts on, and the arithmetic of Layout for every amount of memory. *)
(***************************************************************************)
EXTENDS Boot, TLAPS

(* Of a number of KiB the blocks of 64 are kept: less than 64 is lost. *)
LEMMA WholeBlocks ==
  ASSUME NEW x \in Nat
  PROVE  (x \div 64) * 64 \in Nat /\ (x \div 64) * 64 <= x /\ x - (x \div 64) * 64 < 64
  BY SMT

(* What e801 reports, multiplied and shifted as loader.S does it, is never *)
(* more than the machine has, and less than 64 KiB short of it.            *)
THEOREM E801Exact ==
  \A ram \in Nat : ram >= 1024 =>
    E801Total(ram) <= ram /\ ram - E801Total(ram) < 64
<1> SUFFICES ASSUME NEW ram \in Nat, ram >= 1024
             PROVE  E801Total(ram) <= ram /\ ram - E801Total(ram) < 64
  BY SMT
<1>0. ram \in Int /\ ram >= 1024
  BY SMT
<1>1. CASE ram < 16384
  <2>1. E801Total(ram) = 1024 + ((ram - 1024) \div 64) * 64
    BY <1>0, <1>1, SMT DEF E801Total, E801Ax, E801Bx
  <2> QED  BY <1>0, <2>1, WholeBlocks, SMT
<1>2. CASE ~(ram < 16384)
  <2>1. E801Total(ram) = 16384 + ((ram - 16384) \div 64) * 64
    BY <1>0, <1>2, SMT DEF E801Total, E801Ax, E801Bx
  <2> QED  BY <1>0, <1>2, <2>1, WholeBlocks, SMT
<1> QED  BY <1>1, <1>2, SMT

-----------------------------------------------------------------------------

(* Below 514 MB no page count of mem_pool_init is cut to 16 bits: the two  *)
(* pools share the free pages.                                             *)
LEMMA PageCounts ==
  ASSUME NEW kb \in Nat, 2048 <= kb, kb <= 514 * 1024 - 8
  PROVE  \E free, k, u \in Nat :
           /\ 4 * free <= kb - 2048
           /\ kernel_free_pages(kb) = k /\ user_free_pages(kb) = u
           /\ k + u = free /\ k <= u /\ u <= k + 1
           /\ kb - 2048 < 4 * free + 4
<1> DEFINE x == kb - 2048
           free == x \div 4
           k == free \div 2
           u == free - k
<1>1. x \in Nat /\ x <= 512 * 1024 - 8 /\ used_mem = 2048
  BY SMT DEF used_mem, PG_SIZE
<1>2. (kb + WORD - used_mem) % WORD = x
  BY <1>1, SMT DEF WORD
<1>3. all_free_pages(kb) = free
  BY <1>2, SMT DEF all_free_pages, PG_SIZE
<1>4. free \in Nat /\ free <= 128 * 1024 - 2 /\ 4 * free <= x /\ x < 4 * free + 4
  BY <1>1, SMT
<1> HIDE DEF free
<1>5. /\ k \in Nat /\ k < 64 * 1024 /\ u \in Nat /\ u < 64 * 1024
      /\ k + u = free /\ k <= u /\ u <= k + 1
  BY <1>4, SMT
<1>6. kernel_free_pages(kb) = k
  <2> HIDE DEF k
  <2>1. k % (64 * 1024) = k
    BY <1>5, SMT
  <2>2. kernel_free_pages(kb) = k % (64 * 1024)
    BY <1>3 DEF kernel_free_pages, UINT16, k
  <2> QED  BY <2>1, <2>2
<1> HIDE DEF k
<1>7. user_free_pages(kb) = u
  BY <1>3, <1>4, <1>5, <1>6, SMT DEF user_free_pages, UINT16
<1> QED
  <2> HIDE DEF u
  <2>1. free \in Nat /\ k \in Nat /\ u \in Nat
    BY <1>4, <1>5, SMT
  <2>2. 4 * free <= kb - 2048 /\ kb - 2048 < 4 * free + 4
    BY <1>4, SMT
  <2> QED  BY <1>5, <1>6, <1>7, <2>1, <2>2, SMT

(* The bits of whole bytes are at most the pages. *)
LEMMA WholeBytes ==
  ASSUME NEW x \in Nat
  PROVE  x \div 8 \in Nat /\ 8 * (x \div 8) <= x
  BY SMT

(* Below 514 MB the two pools do not overlap and end inside the memory. *)
THEOREM PoolsFitBelowLimit ==
  \A kb \in Nat : 2048 <= kb /\ kb <= 514 * 1024 - 8 => PoolsFit(kb)
<1> SUFFICES ASSUME NEW kb \in Nat, 2048 <= kb, kb <= 514 * 1024 - 8
             PROVE  PoolsFit(kb)
  BY SMT
<1>1. PICK free, k, u \in Nat :
        /\ 4 * free <= kb - 2048
        /\ kernel_free_pages(kb) = k /\ user_free_pages(kb) = u
        /\ k + u = free /\ k <= u /\ u <= k + 1
        /\ kb - 2048 < 4 * free + 4
  BY PageCounts, SMT
<1> DEFINE kl == k \div 8
           ul == u \div 8
<1>2. kl \in Nat /\ 8 * kl <= k /\ ul \in Nat /\ 8 * ul <= u
  BY WholeBytes, SMT
<1>3. /\ kbm_length(kb) = kl /\ ubm_length(kb) = ul
      /\ kp_start = 2048 /\ up_start(kb) = 2048 + 4 * k
  BY <1>1, SMT DEF kbm_length, ubm_length, kp_start, up_start, used_mem, PG_SIZE
<1> HIDE DEF kl, ul
<1>4. 2048 + 8 * kl * 4 <= 2048 + 4 * k /\ 2048 + 4 * k + 8 * ul * 4 <= kb
  BY <1>1, <1>2, SMT
<1> QED  BY <1>3, <1>4, SMT DEF PoolsFit, PoolEnd, PG_SIZE

(* Up to 343 MB the three bitmaps, with the one of the kernel's virtual    *)
(* addresses behind those of the pools, end below the main thread's PCB.   *)
THEOREM BitmapsFitBelowLimit ==
  \A kb \in Nat : 2048 <= kb /\ kb <= 343 * 1024 => bitmaps_end(kb) <= MAIN_PCB
<1> SUFFICES ASSUME NEW kb \in Nat, 2048 <= kb, kb <= 343 * 1024
             PROVE  bitmaps_end(kb) <= MAIN_PCB
  BY SMT
<1>0. kb <= 514 * 1024 - 8
  BY SMT
<1>1. PICK free, k, u \in Nat :
        /\ 4 * free <= kb - 2048
        /\ kernel_free_pages(kb) = k /\ user_free_pages(kb) = u
        /\ k + u = free /\ k <= u /\ u <= k + 1
        /\ kb - 2048 < 4 * free + 4
  BY <1>0, PageCounts, SMT
<1> DEFINE kl == k \div 8
           ul == u \div 8
<1>2. kl \in Nat /\ 8 * kl <= k /\ ul \in Nat /\ 8 * ul <= u
  BY WholeBytes, SMT
<1>3. kbm_length(kb) = kl /\ ubm_length(kb) = ul
  BY <1>1, SMT DEF kbm_length, ubm_length
<1> HIDE DEF kl, ul
<1>4. 2 * kl + ul <= 16384
  BY <1>0, <1>1, <1>2, SMT
<1>5. 616 * 1024 + 2 * kl + ul <= 632 * 1024
  BY <1>2, <1>4, SMT
<1> QED  BY <1>3, <1>5, SMT DEF bitmaps_end, MEM_BITMAP_BASE, MAIN_PCB

-----------------------------------------------------------------------------
(* The stages of the boot path. *)

LoaderStages == {"mbr", "loader", "e820", "find_max", "e801", "88"}
KernelStages == {"idt", "timer", "mem", "thread", "console", "keyboard", "tss"}
LateStages == (KernelStages \ {"idt"}) \cup {"sti", "running"}
Stages == LoaderStages \cup {"protected", "read_kernel", "setup_page", "kernel_init"}
            \cup KernelStages \cup {"sti", "running", "halted", "reset", "lost"}

TypesInv ==
  /\ pc \in Stages
  /\ bios \in [ram : RamSizes, extra : ExtraAreas, supports : Supports, ends : Ends,
              intr : BiosFlags]
  /\ entry \in {LOADER_START, LOADER_ENTRY}
  /\ ards_nr \in Nat /\ ecx_high \in {0, 1}
  /\ total \in Nat /\ total < WORD
  /\ irr \subseteq Devices

(* Which regions are needed, stage by stage. *)
LiveInv ==
  /\ pc = "mbr" => live = {"bios_data", "mbr", "mbr_stack", "video"}
  /\ pc = "loader" => live = {"bios_data", "mbr", "mbr_stack", "video",
                              "gdt", "total_mem", "gdt_ptr", "loader"}
  /\ pc \in {"e820", "find_max", "e801", "88", "protected"} =>
       live = {"bios_data", "mbr_stack", "video", "gdt", "total_mem", "gdt_ptr", "loader"}
  /\ pc = "read_kernel" =>
       live = {"loader_stack", "video", "gdt", "total_mem", "gdt_ptr", "loader"}
  /\ pc = "setup_page" =>
       live = {"loader_stack", "video", "gdt", "total_mem", "gdt_ptr", "loader", "image"}
  /\ pc = "kernel_init" =>
       live = {"loader_stack", "video", "gdt", "total_mem", "gdt_ptr", "loader", "image",
               "page_tables"}
  /\ pc \in {"idt", "timer", "mem"} =>
       live = {"video", "gdt", "total_mem", "page_tables", "kernel", "main_thread"}
  /\ pc \in {"thread", "console", "keyboard", "tss", "sti", "running"} =>
       live = {"video", "gdt", "page_tables", "kernel", "main_thread"}

(* What 0x88 gives, as the entry left dx. *)
From88(kb) ==
  \/ 1071104 <= kb /\ kb <= 1071167
  \/ 32768 <= kb /\ kb <= 32831

(* What the memory is known to be, by the function that told it.  No more  *)
(* than eleven areas are read before the loader is lost.                   *)
DetectInv ==
  /\ pc \in LoaderStages => method = "none"
  /\ pc \notin LoaderStages \cup Stopped => method # "none"
  /\ method \in {"none", "e820", "e801", "88"}
  /\ pc \in {"mbr", "loader"} => ards_nr = 0
  /\ pc = "e820" => ards_nr <= bios.extra + 5 /\ ards_nr <= 11
  /\ pc = "find_max" => ards_nr = bios.extra + 5
  /\ method = "e820" /\ bios.ram < WORD \div 2 => total = bios.ram
  /\ method = "e801" => total = E801Total(bios.ram)
  /\ method = "88" => From88(total)

(* Which handlers and structures are there, stage by stage. *)
TablesInv ==
  /\ "idt" \in ready => pc \in LateStages \cup {"halted"}
  /\ "kbd_buf" \in ready => pc \in {"tss", "sti", "running", "halted"}
  /\ pc \in LateStages =>
       /\ "idt" \in ready
       /\ DOMAIN handlers = Vectors
       /\ \A v \in Vectors \ {\h20, \h21} : handlers[v] = "general"
       /\ imr = (0..15) \ {0, 1}
  /\ pc \in LateStages \ {"timer"} => handlers[\h20] = "timer"
  /\ pc \in {"console", "keyboard", "tss", "sti", "running"} => "pcb" \in ready
  /\ pc \in {"tss", "sti", "running"} => handlers[\h21] = "keyboard" /\ "kbd_buf" \in ready

(* The interrupt flag is the BIOS's until sti.  One interrupt is handled   *)
(* at a time, behind lidt, and its EOI is sent before its handler runs.    *)
InterruptInv ==
  /\ isr = {}
  /\ vector = -1 =>
       /\ frame = 0
       /\ pc = "running" => intr_on = TRUE
       /\ pc \notin Stopped \cup {"running"} => intr_on = bios.intr
  /\ vector # -1 =>
       /\ vector \in (0..31) \cup {\h20, \h21, \h27}
       /\ frame \in 16..18 /\ (vector >= \h20 => frame = 17)
       /\ pc \in LateStages \cup {"halted"}
       /\ pc \notin {"running", "halted"} => vector >= \h20 /\ bios.intr = TRUE

BootInv ==
  TypesInv /\ LiveInv /\ DetectInv /\ TablesInv /\ InterruptInv /\ HandlersReady

-----------------------------------------------------------------------------
(* The constants of the boot path. *)

(* The parts of the kernel follow one another as init_all has them. *)
LEMMA InitOrder ==
  /\ Head(init_all) = "idt"
  /\ Range(init_all) = KernelStages
  /\ Initialise("idt") => Step("idt", "timer")
  /\ Initialise("timer") => Step("timer", "mem")
  /\ Initialise("mem") => Step("mem", "thread")
  /\ Initialise("thread") => Step("thread", "console")
  /\ Initialise("console") => Step("console", "keyboard")
  /\ Initialise("keyboard") => Step("keyboard", "tss")
  /\ Initialise("tss") => Step("tss", "sti")
<1>1. /\ DOMAIN init_all = 1..7 /\ Len(init_all) = 7
      /\ init_all[1] = "idt" /\ init_all[2] = "timer" /\ init_all[3] = "mem"
      /\ init_all[4] = "thread" /\ init_all[5] = "console"
      /\ init_all[6] = "keyboard" /\ init_all[7] = "tss"
  BY DEF init_all
<1>2. Head(init_all) = "idt"
  BY DEF init_all
<1>3. \A i \in 1..7 : i = 1 \/ i = 2 \/ i = 3 \/ i = 4 \/ i = 5 \/ i = 6 \/ i = 7
  OBVIOUS
<1>4. Range(init_all) = KernelStages
  <2>1. \A x : x \in KernelStages => \E i \in 1..7 : init_all[i] = x
    BY <1>1 DEF KernelStages
  <2>2. \A i \in 1..7 : init_all[i] \in KernelStages
    BY <1>1, <1>3 DEF KernelStages
  <2> QED  BY <1>1, <2>1, <2>2 DEF Range
<1> QED  BY <1>1, <1>2, <1>3, <1>4 DEF Initialise

(* Where the regions are. *)
LEMMA RegionBounds ==
  /\ DOMAIN Region = {"bios_data", "loader_stack", "gdt", "total_mem", "gdt_ptr", "loader",
                      "kernel", "mbr_stack", "mbr", "image", "main_thread", "video",
                      "page_tables"}
  /\ Region["bios_data"][1] = 0 /\ Region["bios_data"][2] = 1280
  /\ Region["loader_stack"][1] = 2048 /\ Region["loader_stack"][2] = 2304
  /\ Region["gdt"][1] = 2304 /\ Region["gdt"][2] = 2336
  /\ Region["total_mem"][1] = 2816 /\ Region["total_mem"][2] = 2820
  /\ Region["gdt_ptr"][1] = 2820 /\ Region["gdt_ptr"][2] = 2826
  /\ Region["loader"][1] = 3050 /\ Region["loader"][2] = 4096
  /\ Region["kernel"][1] = 4096 /\ Region["kernel"][2] = 106496
  /\ Region["mbr_stack"][1] = 31232 /\ Region["mbr_stack"][2] = 31744
  /\ Region["mbr"][1] = 31744 /\ Region["mbr"][2] = 32256
  /\ Region["image"][1] = 458752 /\ Region["image"][2] = 561152
  /\ Region["main_thread"][1] = 647168 /\ Region["main_thread"][2] = 651264
  /\ Region["video"][1] = 753664 /\ Region["video"][2] = 786432
  /\ Region["page_tables"][1] = 1048576 /\ Region["page_tables"][2] = 2097152
  BY DEF Region
-----------------------------------------------------------------------------
(* What e820 reports. *)

(* The greatest element of a set of numbers is its Max. *)
LEMMA MaxIs ==
  ASSUME NEW S, S \subseteq Int, NEW m \in S, \A y \in S : m >= y
  PROVE  Max(S) = m
<1>1. \A x \in S : (\A y \in S : x >= y) => x = m
  BY SMT
<1>2. Max(S) \in S /\ \A y \in S : Max(S) >= y
  BY Zenon DEF Max
<1> QED  BY <1>1, <1>2, Zenon

(* The least element likewise. *)
LEMMA MinIs ==
  ASSUME NEW S, S \subseteq Int, NEW m \in S, \A y \in S : m <= y
  PROVE  Min(S) = m
<1>1. \A x \in S : (\A y \in S : x =< y) => x = m
  BY SMT
<1>2. Min(S) \in S /\ \A y \in S : Min(S) =< y
  BY Zenon DEF Min
<1> QED  BY <1>1, <1>2, Zenon

(* The interrupt lines are those of the 8259A. *)
LEMMA Lines == Devices \subseteq 0..15
  BY BootAssumption, Zenon

(* What a machine may be. *)
LEMMA Machine ==
  ASSUME TypesInv
  PROVE  /\ bios.extra \in Nat /\ bios.extra \in ExtraAreas
         /\ bios.ram \in Nat /\ bios.ram \in RamSizes
         /\ bios.ram >= 1024 /\ bios.ram < WORD
<1>1. bios.ram \in RamSizes /\ bios.extra \in ExtraAreas
  BY DEF TypesInv
<1>2. WORD \in Int
  BY DEF WORD
<1>3. RamSizes \subseteq 1024..(WORD - 1)
  BY BootAssumption, Zenon
<1>4. ExtraAreas \subseteq Nat
  BY BootAssumption, Zenon
<1>5. bios.ram \in Nat /\ bios.ram >= 1024 /\ bios.ram < WORD
  <2>1. PICK r : r = bios.ram
    OBVIOUS
  <2>2. r \in 1024..(WORD - 1)
    BY <1>1, <1>3, <2>1, Zenon
  <2>3. r \in Nat /\ r >= 1024 /\ r < WORD
    BY <1>2, <2>2, SMT
  <2> QED  BY <2>1, <2>3, Zenon
<1> QED  BY <1>1, <1>4, <1>5

(* A sequence behind n times the same entry. *)
LEMMA BehindSame ==
  ASSUME NEW T, NEW n \in Nat, NEW a \in T, NEW t \in Seq(T), NEW s, s = [i \in 1..n |-> a]
  PROVE  /\ Len(s \o t) = n + Len(t)
         /\ \A i \in 1..n : (s \o t)[i] = a
         /\ \A i \in 1..Len(t) : (s \o t)[n + i] = t[i]
<1>1. s \in Seq(T) /\ Len(s) = n /\ \A i \in 1..n : s[i] = a
  BY SMT
<1>2. Len(s \o t) = n + Len(t)
  BY <1>1, SMT
<1>3. \A i \in 1..n : (s \o t)[i] = a
  BY <1>1, SMT
<1>4. \A i \in 1..Len(t) : (s \o t)[n + i] = t[i]
  BY <1>1, SMT
<1> QED  BY <1>2, <1>3, <1>4

(* There are five areas behind the extra ones. *)
LEMMA AreaList ==
  ASSUME bios.extra \in Nat, bios.ram \in Nat, bios.ram >= 1024
  PROVE  /\ Len(Areas) = bios.extra + 5
         /\ \A i \in 1..bios.extra : Areas[i][1] = 960 /\ Areas[i][2] = 1
         /\ \A i \in 1..5 : Areas[bios.extra + i] = UsualAreas[i]
<1>1. WORD - 256 \in Nat /\ IO_APIC \in Nat
  BY SMT DEF WORD, IO_APIC
<1>2. UsualAreas \in Seq(Nat \X Nat) /\ Len(UsualAreas) = 5
  BY <1>1, SMT DEF UsualAreas
<1>4. PICK T : T = Nat \X Nat
  OBVIOUS
<1>5. <<960, 1>> \in Nat \X Nat
  BY SMT
<1>6. PICK a : a = <<960, 1>>
  OBVIOUS
<1>7. a \in T /\ UsualAreas \in Seq(T)
  BY <1>2, <1>4, <1>5, <1>6, SMT
<1>8. PICK n \in Nat : n = bios.extra
  OBVIOUS
<1>9. MoreAreas = [i \in 1..n |-> a]
  BY <1>6, <1>8, SMT DEF MoreAreas
<1>10. /\ Len(Areas) = n + Len(UsualAreas)
       /\ \A i \in 1..n : Areas[i] = a
       /\ \A i \in 1..Len(UsualAreas) : Areas[n + i] = UsualAreas[i]
  <2>1. PICK s, t : s = MoreAreas /\ t = UsualAreas
    BY Zenon
  <2>2. t \in Seq(T) /\ s = [i \in 1..n |-> a] /\ Areas = s \o t
    BY <1>7, <1>9, <2>1, Zenon DEF Areas
  <2>3. /\ Len(s \o t) = n + Len(t)
        /\ \A i \in 1..n : (s \o t)[i] = a
        /\ \A i \in 1..Len(t) : (s \o t)[n + i] = t[i]
    BY <1>7, <2>2, BehindSame
  <2> QED  BY <2>1, <2>2, <2>3, Zenon
<1>11. a[1] = 960 /\ a[2] = 1
  BY <1>6
<1>12. \A i \in 1..n : Areas[i][1] = 960 /\ Areas[i][2] = 1
  BY <1>10, <1>11
<1>13. \A i \in 1..5 : Areas[n + i] = UsualAreas[i]
  BY <1>2, <1>10, Zenon
<1>14. Len(Areas) = n + 5
  BY <1>2, <1>10
<1> QED
  <2>1. Len(Areas) = bios.extra + 5
    BY <1>8, <1>14
  <2>2. \A i \in 1..bios.extra : Areas[i][1] = 960 /\ Areas[i][2] = 1
    BY <1>8, <1>12
  <2>3. \A i \in 1..5 : Areas[bios.extra + i] = UsualAreas[i]
    BY <1>8, <1>13
  <2> QED  BY <2>1, <2>2, <2>3, Zenon

(* Where the areas end, as 32-bit numbers. *)
LEMMA AreaEnds ==
  ASSUME bios.extra \in Nat, bios.ram \in Nat, bios.ram >= 1024, bios.ram < WORD
  PROVE  /\ \A i \in 1..bios.extra : AreaEnd(i) = 961
         /\ AreaEnd(bios.extra + 1) = 639
         /\ AreaEnd(bios.extra + 2) = 640
         /\ AreaEnd(bios.extra + 3) = bios.ram
         /\ AreaEnd(bios.extra + 4) = 4173828
         /\ AreaEnd(bios.extra + 5) = 0
<1>1. WORD = 4194304
  BY SMT DEF WORD
<1>2. /\ \A i \in 1..bios.extra : Areas[i][1] = 960 /\ Areas[i][2] = 1
      /\ \A i \in 1..5 : Areas[bios.extra + i] = UsualAreas[i]
  BY AreaList
<1>3. (960 + 1) % WORD = 961
  BY <1>1, SMT
<1>4. \A i \in 1..bios.extra : AreaEnd(i) = 961
  BY <1>2, <1>3 DEF AreaEnd
<1>5. 1 \in 1..5 /\ 2 \in 1..5 /\ 3 \in 1..5 /\ 4 \in 1..5 /\ 5 \in 1..5
  OBVIOUS
<1>6. /\ AreaEnd(bios.extra + 1) = (UsualAreas[1][1] + UsualAreas[1][2]) % WORD
      /\ AreaEnd(bios.extra + 2) = (UsualAreas[2][1] + UsualAreas[2][2]) % WORD
      /\ AreaEnd(bios.extra + 3) = (UsualAreas[3][1] + UsualAreas[3][2]) % WORD
      /\ AreaEnd(bios.extra + 4) = (UsualAreas[4][1] + UsualAreas[4][2]) % WORD
      /\ AreaEnd(bios.extra + 5) = (UsualAreas[5][1] + UsualAreas[5][2]) % WORD
  <2>1. ASSUME NEW i \in 1..5
        PROVE  AreaEnd(bios.extra + i) = (UsualAreas[i][1] + UsualAreas[i][2]) % WORD
    BY <1>2 DEF AreaEnd
  <2> QED  BY <1>5, <2>1
<1>7. /\ UsualAreas[1][1] + UsualAreas[1][2] = 639
      /\ UsualAreas[2][1] + UsualAreas[2][2] = 640
      /\ UsualAreas[3][1] + UsualAreas[3][2] = bios.ram
      /\ UsualAreas[4][1] + UsualAreas[4][2] = 4173828
      /\ UsualAreas[5][1] + UsualAreas[5][2] = WORD
  BY <1>1, SMT DEF UsualAreas, IO_APIC
<1>8. 639 % WORD = 639 /\ 640 % WORD = 640 /\ 4173828 % WORD = 4173828 /\ WORD % WORD = 0
  BY <1>1, SMT
<1>9. bios.ram % WORD = bios.ram
  BY <1>1, SMT
<1> QED  BY <1>4, <1>6, <1>7, <1>8, <1>9, SMT

(* The loader takes the greatest end below 2 GB: all memory if there is    *)
(* less than 2 GB of it, and never more than a register holds.             *)
LEMMA FoundMax ==
  ASSUME TypesInv, ards_nr = bios.extra + 5,
         NEW S, S = {0} \cup {x \in {AreaEnd(i) : i \in 1..ards_nr} : x < WORD \div 2}
  PROVE  /\ Max(S) \in Nat /\ Max(S) < WORD
         /\ bios.ram < WORD \div 2 => Max(S) = bios.ram
<1>1. PICK e \in Nat, r \in Nat : e = bios.extra /\ r = bios.ram /\ r >= 1024 /\ r < WORD
  BY Machine
<1>2. /\ \A i \in 1..e : AreaEnd(i) = 961
      /\ AreaEnd(e + 1) = 639 /\ AreaEnd(e + 2) = 640 /\ AreaEnd(e + 3) = r
      /\ AreaEnd(e + 4) = 4173828 /\ AreaEnd(e + 5) = 0
  BY <1>1, AreaEnds, SMT
<1>3. WORD \div 2 = 2097152 /\ WORD = 4194304
  BY SMT DEF WORD
<1>4. ASSUME NEW x \in S
      PROVE  x = 0 \/ x = 961 \/ x = 639 \/ x = 640 \/ (x = r /\ r < WORD \div 2)
  <2>1. CASE x # 0
    <3>1. PICK i \in 1..ards_nr : x = AreaEnd(i) /\ x < WORD \div 2
      BY <2>1
    <3>2. i \in 1..e \/ i = e + 1 \/ i = e + 2 \/ i = e + 3 \/ i = e + 4 \/ i = e + 5
      BY <1>1, SMT
    <3> QED  BY <1>2, <1>3, <3>1, <3>2, SMT
  <2> QED  BY <2>1
<1>5. S \subseteq Int
  <2>1. ASSUME NEW x \in S
        PROVE  x \in Int
    BY <1>1, <1>4, SMT
  <2> QED  BY <2>1
<1>6. CASE r < WORD \div 2
  <2>1. e + 3 \in 1..ards_nr
    BY <1>1, SMT
  <2>2. r \in S
    BY <1>2, <1>6, <2>1
  <2>3. \A y \in S : r >= y
    BY <1>1, <1>4, SMT
  <2>4. Max(S) = r
    BY <1>5, <2>2, <2>3, MaxIs
  <2> QED  BY <1>1, <2>4
<1>7. CASE ~(r < WORD \div 2) /\ e # 0
  <2>1. 1 \in 1..ards_nr /\ 1 \in 1..e
    BY <1>1, <1>7, SMT
  <2>2. 961 \in S
    BY <1>2, <1>3, <2>1, SMT
  <2>3. \A y \in S : 961 >= y
    BY <1>4, <1>7, SMT
  <2>4. PICK m \in S : m = 961
    BY <2>2
  <2>5. Max(S) = m
    BY <1>5, <2>3, <2>4, MaxIs
  <2> QED  BY <1>1, <1>3, <1>7, <2>4, <2>5, SMT
<1>8. CASE ~(r < WORD \div 2) /\ e = 0
  <2>1. e + 2 \in 1..ards_nr
    BY <1>1, SMT
  <2>2. 640 \in S
    BY <1>2, <1>3, <2>1, SMT
  <2>3. ASSUME NEW y \in S
        PROVE  640 >= y
    <3>1. CASE y # 0
      <4>1. PICK i \in 1..ards_nr : y = AreaEnd(i) /\ y < WORD \div 2
        BY <3>1
      <4>2. i = e + 1 \/ i = e + 2 \/ i = e + 3 \/ i = e + 4 \/ i = e + 5
        BY <1>1, <1>8, SMT
      <4> QED  BY <1>2, <1>3, <1>8, <4>1, <4>2, SMT
    <3> QED  BY <3>1, SMT
  <2>4. PICK m \in S : m = 640
    BY <2>2
  <2>5. Max(S) = m
    BY <1>5, <2>3, <2>4, MaxIs
  <2> QED  BY <1>1, <1>3, <1>8, <2>4, <2>5, SMT
<1> QED  BY <1>6, <1>7, <1>8

-----------------------------------------------------------------------------
(* The inductive invariant. *)

(* It holds when the machine is switched on. *)
LEMMA BootInitInv == BootInit => BootInv
<1> SUFFICES ASSUME BootInit
             PROVE  BootInv
  OBVIOUS
<1>1. TypesInv
  BY DEF BootInit, TypesInv, Stages, LoaderStages, WORD
<1>2. LiveInv
  BY DEF BootInit, LiveInv
<1>3. DetectInv
  BY DEF BootInit, DetectInv, LoaderStages
<1>4. TablesInv
  BY DEF BootInit, TablesInv, KernelStages, LateStages
<1>5. InterruptInv
  BY DEF BootInit, InterruptInv
<1>6. HandlersReady
  BY DEF BootInit, HandlersReady
<1> QED  BY <1>1, <1>2, <1>3, <1>4, <1>5, <1>6 DEF BootInv

(* Nothing of it is about the memory that is overwritten. *)
LEMMA BootStutter ==
  ASSUME BootInv, UNCHANGED bootVars
  PROVE  BootInv'
  BY DEF BootInv, TypesInv, LiveInv, DetectInv, TablesInv, InterruptInv, bootVars, loaderVars,
         memoryVars, tableVars, intrVars, AreaEnd, HandlersReady

(* mbr.S, and the first instructions of the loader. *)
LEMMA LoadInv ==
  ASSUME BootInv, LoadLoader \/ EnterLoader
  PROVE  BootInv'
<1> USE DEF BootInv, LateStages, Stopped, loaderVars, tableVars, intrVars, LoaderStages,
            KernelStages, Stages
<1>1. CASE LoadLoader
  <2>1. TypesInv'
    BY <1>1 DEF LoadLoader, Step, TypesInv
  <2>2. LiveInv'
    BY <1>1 DEF LoadLoader, Step, Live, LiveInv
  <2>3. DetectInv'
    BY <1>1 DEF LoadLoader, Step, DetectInv
  <2>4. TablesInv'
    BY <1>1 DEF LoadLoader, Step, TablesInv
  <2>5. InterruptInv'
    BY <1>1 DEF LoadLoader, Step, InterruptInv
  <2>6. HandlersReady'
    BY <1>1 DEF LoadLoader, Step, HandlersReady
  <2> QED  BY <2>1, <2>2, <2>3, <2>4, <2>5, <2>6
<1>2. CASE EnterLoader
  <2>0. /\ pc = "loader" /\ pc' \in {"e820", "e801"}
        /\ pc' = "e820" => entry = LOADER_START
    <3>1. Step("loader", IF entry = LOADER_START THEN "e820" ELSE "e801")
      BY <1>2, SMT DEF EnterLoader
    <3> QED  BY <3>1, Zenon DEF Step
  <2>1. TypesInv'
    BY <1>2, <2>0 DEF EnterLoader, TypesInv
  <2>2. LiveInv'
    BY <1>2, <2>0 DEF EnterLoader, Live, LiveInv
  <2>3. DetectInv'
    <3>1. bios.extra \in Nat
      BY Machine
    <3> QED  BY <1>2, <2>0, <3>1 DEF EnterLoader, DetectInv
  <2>4. TablesInv'
    BY <1>2, <2>0 DEF EnterLoader, TablesInv
  <2>5. InterruptInv'
    BY <1>2, <2>0 DEF EnterLoader, InterruptInv
  <2>6. HandlersReady'
    BY <1>2, <2>0 DEF EnterLoader, HandlersReady
  <2> QED  BY <2>1, <2>2, <2>3, <2>4, <2>5, <2>6
<1> QED  BY <1>1, <1>2

(* The three functions of int 0x15. *)
LEMMA E820Inv ==
  ASSUME BootInv, E820Answer \/ E820Fail \/ FindMax
  PROVE  BootInv'
<1> USE DEF BootInv, LateStages, Stopped, loaderVars, memoryVars, tableVars, intrVars,
            LoaderStages, KernelStages, Stages
<1>0. /\ bios.extra \in Nat /\ bios.ram \in Nat /\ bios.ram >= 1024
      /\ Len(Areas) = bios.extra + 5
  BY Machine, AreaList
<1>1. CASE E820Answer
  <2>0. /\ vector = -1 /\ pc = "e820" /\ pc' \in {"e820", "find_max", "lost"}
        /\ ards_nr \in Nat /\ ards_nr < bios.extra + 5 /\ ards_nr' = ards_nr + 1
        /\ pc' # "lost" => ards_nr' <= 11
        /\ pc' = "find_max" => ards_nr' = bios.extra + 5
        /\ bios' = bios /\ entry' = entry /\ total' = total /\ method' = method
        /\ live' = live /\ ecx_high' = 0
        /\ UNCHANGED <<tableVars, intrVars>>
    <3>1. ards_nr \in Nat /\ ards_nr < bios.extra + 5
      BY <1>0, <1>1 DEF E820Answer, TypesInv
    <3>2. Region.loader[1] = 3050
      BY RegionBounds
    <3>3. ArdsEnd(ards_nr + 1) > 3050 <=> ards_nr + 1 > 11
      BY <3>1, SMT DEF ArdsEnd, ARDS_BUF
    <3>4. /\ vector = -1 /\ pc = "e820" /\ pc' \in {"e820", "find_max", "lost"}
          /\ pc' # "lost" => ~(ArdsEnd(ards_nr + 1) > 3050)
          /\ pc' = "find_max" => ards_nr + 1 = Len(Areas)
      BY <1>1, <3>2 DEF E820Answer, Step
    <3>5. /\ ards_nr' = ards_nr + 1
          /\ bios' = bios /\ entry' = entry /\ total' = total /\ method' = method
          /\ live' = live /\ ecx_high' = 0
          /\ UNCHANGED <<tableVars, intrVars>>
      BY <1>1 DEF E820Answer
    <3> QED  BY <1>0, <3>1, <3>3, <3>4, <3>5
  <2>1. TypesInv'
    BY <2>0 DEF TypesInv
  <2>2. LiveInv'
    BY <2>0 DEF LiveInv
  <2>3. DetectInv'
    BY <1>0, <2>0 DEF DetectInv, TypesInv
  <2>4. TablesInv'
    BY <2>0 DEF TablesInv
  <2>5. InterruptInv'
    BY <2>0 DEF InterruptInv
  <2>6. HandlersReady'
    BY <2>0 DEF HandlersReady
  <2> QED  BY <2>1, <2>2, <2>3, <2>4, <2>5, <2>6
<1>2. CASE E820Fail
  <2>1. TypesInv'
    BY <1>2 DEF E820Fail, Step, TypesInv
  <2>2. LiveInv'
    BY <1>2 DEF E820Fail, Step, LiveInv
  <2>3. DetectInv'
    BY <1>2 DEF E820Fail, Step, DetectInv
  <2>4. TablesInv'
    BY <1>2 DEF E820Fail, Step, TablesInv
  <2>5. InterruptInv'
    BY <1>2 DEF E820Fail, Step, InterruptInv
  <2>6. HandlersReady'
    BY <1>2 DEF E820Fail, Step, HandlersReady
  <2> QED  BY <2>1, <2>2, <2>3, <2>4, <2>5, <2>6
<1>3. CASE FindMax
  <2>0. /\ pc = "find_max" /\ pc' = "protected" /\ method' = "e820"
        /\ total' \in Nat /\ total' < WORD /\ (bios.ram < WORD \div 2 => total' = bios.ram)
        /\ UNCHANGED <<bios, entry, ards_nr, ecx_high, memoryVars, tableVars, intrVars>>
    <3>1. PICK S : S = {0} \cup {x \in {AreaEnd(i) : i \in 1..ards_nr} : x < WORD \div 2}
      BY Zenon
    <3>2. pc = "find_max" /\ total' = Max(S)
      BY <1>3, <3>1, Zenon DEF FindMax, Step, Total
    <3>3. ards_nr = bios.extra + 5
      BY <3>2 DEF DetectInv
    <3> QED  BY <1>3, <3>1, <3>2, <3>3, FoundMax DEF FindMax, Step, Total
  <2>1. TypesInv'
    BY <2>0 DEF TypesInv
  <2>2. LiveInv'
    BY <2>0 DEF LiveInv
  <2>3. DetectInv'
    BY <2>0 DEF DetectInv
  <2>4. TablesInv'
    BY <2>0 DEF TablesInv
  <2>5. InterruptInv'
    BY <2>0 DEF InterruptInv
  <2>6. HandlersReady'
    BY <2>0 DEF HandlersReady
  <2> QED  BY <2>1, <2>2, <2>3, <2>4, <2>5, <2>6
<1> QED  BY <1>1, <1>2, <1>3

LEMMA E801Inv ==
  ASSUME BootInv, E801Answer \/ E801Fail \/ Answer88 \/ ErrorHlt
  PROVE  BootInv'
<1> USE DEF BootInv, LateStages, Stopped, loaderVars, memoryVars, tableVars, intrVars,
            LoaderStages, KernelStages, Stages
<1>1. CASE E801Answer
  <2>0. /\ pc = "e801" /\ pc' = "protected" /\ method' = "e801" /\ ecx_high' = 1
        /\ total' = E801Total(bios.ram) /\ total' \in Nat /\ total' < WORD
        /\ UNCHANGED <<bios, entry, ards_nr, memoryVars, tableVars, intrVars>>
    <3>1. total' = E801Total(bios.ram)
      BY <1>1 DEF E801Answer, Total
    <3>2. bios.ram \in Nat /\ bios.ram >= 1024 /\ bios.ram < WORD
      BY Machine
    <3>3. E801Total(bios.ram) <= bios.ram /\ bios.ram - E801Total(bios.ram) < 64
      BY <3>2, E801Exact
    <3>4. E801Total(bios.ram) \in Int
      BY <3>2, SMT DEF E801Total, E801Ax, E801Bx
    <3>5. WORD \in Int
      BY DEF WORD
    <3> QED  BY <1>1, <3>1, <3>2, <3>3, <3>4, <3>5 DEF E801Answer, Step, Total
  <2>1. TypesInv'
    BY <2>0 DEF TypesInv
  <2>2. LiveInv'
    BY <2>0 DEF LiveInv
  <2>3. DetectInv'
    BY <2>0 DEF DetectInv
  <2>4. TablesInv'
    BY <2>0 DEF TablesInv
  <2>5. InterruptInv'
    BY <2>0 DEF InterruptInv
  <2>6. HandlersReady'
    BY <2>0 DEF HandlersReady
  <2> QED  BY <2>1, <2>2, <2>3, <2>4, <2>5, <2>6
<1>2. CASE E801Fail
  <2>1. TypesInv'
    BY <1>2 DEF E801Fail, Step, TypesInv
  <2>2. LiveInv'
    BY <1>2 DEF E801Fail, Step, LiveInv
  <2>3. DetectInv'
    BY <1>2 DEF E801Fail, Step, DetectInv
  <2>4. TablesInv'
    BY <1>2 DEF E801Fail, Step, TablesInv
  <2>5. InterruptInv'
    BY <1>2 DEF E801Fail, Step, InterruptInv
  <2>6. HandlersReady'
    BY <1>2 DEF E801Fail, Step, HandlersReady
  <2> QED  BY <2>1, <2>2, <2>3, <2>4, <2>5, <2>6
<1>3. CASE Answer88
  <2>0. /\ pc = "88" /\ pc' = "protected" /\ method' = "88"
        /\ total' \in Nat /\ total' < WORD /\ From88(total')
        /\ UNCHANGED <<bios, entry, ards_nr, ecx_high, memoryVars, tableVars, intrVars>>
    <3>1. bios.ram \in Nat /\ bios.ram >= 1024
      BY Machine
    <3>2. PICK k \in Nat : k = Ax88 \div 1024 /\ k <= 63
      <4>1. Ax88 \in Nat /\ Ax88 <= 64512
        BY <3>1, SMT DEF Ax88
      <4> QED  BY <4>1, SMT
    <3>3. OldDx * 64 = 1070080 \/ OldDx * 64 = 31744
      BY SMT DEF OldDx
    <3>4. PICK x \in Nat : x = OldDx * 64 + k + 1024
      BY <3>3, SMT
    <3>5. x < WORD /\ From88(x)
      BY <3>2, <3>3, <3>4, SMT DEF From88, WORD
    <3>6. x % WORD = x
      BY <3>5, SMT DEF WORD
    <3>7. total' = x
      BY <1>3, <3>2, <3>4, <3>6, SMT DEF Answer88, Total, Total88
    <3> QED  BY <1>3, <3>5, <3>7 DEF Answer88, Step, Total
  <2>1. TypesInv'
    BY <2>0 DEF TypesInv
  <2>2. LiveInv'
    BY <2>0 DEF LiveInv
  <2>3. DetectInv'
    BY <2>0 DEF DetectInv
  <2>4. TablesInv'
    BY <2>0 DEF TablesInv
  <2>5. InterruptInv'
    BY <2>0 DEF InterruptInv
  <2>6. HandlersReady'
    BY <2>0 DEF HandlersReady
  <2> QED  BY <2>1, <2>2, <2>3, <2>4, <2>5, <2>6
<1>4. CASE ErrorHlt
  <2>1. TypesInv'
    BY <1>4 DEF ErrorHlt, Step, TypesInv
  <2>2. LiveInv'
    BY <1>4 DEF ErrorHlt, Step, LiveInv
  <2>3. DetectInv'
    BY <1>4 DEF ErrorHlt, Step, DetectInv
  <2>4. TablesInv'
    BY <1>4 DEF ErrorHlt, Step, TablesInv
  <2>5. InterruptInv'
    BY <1>4 DEF ErrorHlt, Step, InterruptInv
  <2>6. HandlersReady'
    BY <1>4 DEF ErrorHlt, Step, HandlersReady, DetectInv
  <2> QED  BY <2>1, <2>2, <2>3, <2>4, <2>5, <2>6
<1> QED  BY <1>1, <1>2, <1>3, <1>4

(* From the loader to main(). *)
LEMMA ProtectedInv ==
  ASSUME BootInv, ProtectedMode \/ ReadKernel \/ setup_page \/ kernel_init
  PROVE  BootInv'
<1> USE DEF BootInv, LateStages, Stopped, loaderVars, memoryVars, tableVars, intrVars,
            LoaderStages, KernelStages, Stages
<1>1. CASE ProtectedMode
  <2>1. TypesInv'
    BY <1>1 DEF ProtectedMode, Step, Live, TypesInv
  <2>2. LiveInv'
    BY <1>1 DEF ProtectedMode, Step, Live, LiveInv
  <2>3. DetectInv'
    BY <1>1 DEF ProtectedMode, Step, Live, DetectInv
  <2>4. TablesInv'
    BY <1>1 DEF ProtectedMode, Step, Live, TablesInv
  <2>5. InterruptInv'
    BY <1>1 DEF ProtectedMode, Step, Live, InterruptInv
  <2>6. HandlersReady'
    BY <1>1 DEF ProtectedMode, Step, Live, HandlersReady
  <2> QED  BY <2>1, <2>2, <2>3, <2>4, <2>5, <2>6
<1>2. CASE ReadKernel
  <2>1. TypesInv'
    BY <1>2 DEF ReadKernel, Step, Live, TypesInv
  <2>2. LiveInv'
    BY <1>2 DEF ReadKernel, Step, Live, LiveInv
  <2>3. DetectInv'
    BY <1>2 DEF ReadKernel, Step, Live, DetectInv
  <2>4. TablesInv'
    BY <1>2 DEF ReadKernel, Step, Live, TablesInv
  <2>5. InterruptInv'
    BY <1>2 DEF ReadKernel, Step, Live, InterruptInv
  <2>6. HandlersReady'
    BY <1>2 DEF ReadKernel, Step, Live, HandlersReady
  <2> QED  BY <2>1, <2>2, <2>3, <2>4, <2>5, <2>6
<1>3. CASE setup_page
  <2>1. TypesInv'
    BY <1>3 DEF setup_page, Step, Live, TypesInv
  <2>2. LiveInv'
    BY <1>3 DEF setup_page, Step, Live, LiveInv
  <2>3. DetectInv'
    BY <1>3 DEF setup_page, Step, Live, DetectInv
  <2>4. TablesInv'
    BY <1>3 DEF setup_page, Step, Live, TablesInv
  <2>5. InterruptInv'
    BY <1>3 DEF setup_page, Step, Live, InterruptInv
  <2>6. HandlersReady'
    BY <1>3 DEF setup_page, Step, Live, HandlersReady
  <2> QED  BY <2>1, <2>2, <2>3, <2>4, <2>5, <2>6
<1>4. CASE kernel_init
  <2>0. pc = "kernel_init" /\ pc' = "idt"
    BY <1>4, InitOrder DEF kernel_init, Step
  <2>1. TypesInv'
    BY <1>4, <2>0 DEF kernel_init, Live, TypesInv
  <2>2. LiveInv'
    BY <1>4, <2>0 DEF kernel_init, Live, LiveInv
  <2>3. DetectInv'
    BY <1>4, <2>0 DEF kernel_init, Live, DetectInv
  <2>4. TablesInv'
    BY <1>4, <2>0 DEF kernel_init, Live, TablesInv
  <2>5. InterruptInv'
    BY <1>4, <2>0 DEF kernel_init, Live, InterruptInv
  <2>6. HandlersReady'
    BY <1>4, <2>0 DEF kernel_init, Live, HandlersReady
  <2> QED  BY <2>1, <2>2, <2>3, <2>4, <2>5, <2>6
<1> QED  BY <1>1, <1>2, <1>3, <1>4

(* init_all, and sti. *)
LEMMA KernelInv ==
  ASSUME BootInv, Kernel
  PROVE  BootInv'
<1> USE DEF BootInv, LateStages, Stopped, loaderVars, memoryVars, tableVars, intrVars,
            LoaderStages, KernelStages, Stages
<1>1. CASE idt_init
  <2>0. pc = "idt" /\ pc' = "timer"
    BY <1>1, InitOrder DEF idt_init, Step
  <2>1. TypesInv'
    BY <1>1, <2>0 DEF idt_init, exception_init, pic_init, Vectors, TypesInv
  <2>2. LiveInv'
    BY <1>1, <2>0 DEF idt_init, exception_init, pic_init, Vectors, LiveInv
  <2>3. DetectInv'
    BY <1>1, <2>0 DEF idt_init, exception_init, pic_init, Vectors, DetectInv
  <2>4. TablesInv'
    BY <1>1, <2>0 DEF idt_init, exception_init, pic_init, Vectors, TablesInv
  <2>5. InterruptInv'
    BY <1>1, <2>0 DEF idt_init, exception_init, pic_init, Vectors, InterruptInv
  <2>6. HandlersReady'
    BY <1>1, <2>0 DEF idt_init, exception_init, pic_init, Vectors, HandlersReady
  <2> QED  BY <2>1, <2>2, <2>3, <2>4, <2>5, <2>6
<1>2. CASE timer_init
  <2>0. pc = "timer" /\ pc' = "mem"
    BY <1>2, InitOrder DEF timer_init, Step
  <2>1. TypesInv'
    BY <1>2, <2>0 DEF timer_init, register_handler, Vectors, TypesInv
  <2>2. LiveInv'
    BY <1>2, <2>0 DEF timer_init, register_handler, Vectors, LiveInv
  <2>3. DetectInv'
    BY <1>2, <2>0 DEF timer_init, register_handler, Vectors, DetectInv
  <2>4. TablesInv'
    BY <1>2, <2>0 DEF timer_init, register_handler, Vectors, TablesInv
  <2>5. InterruptInv'
    BY <1>2, <2>0 DEF timer_init, register_handler, Vectors, InterruptInv
  <2>6. HandlersReady'
    BY <1>2, <2>0 DEF timer_init, register_handler, Vectors, HandlersReady
  <2> QED  BY <2>1, <2>2, <2>3, <2>4, <2>5, <2>6
<1>3. CASE mem_init
  <2>0. pc = "mem" /\ pc' = "thread"
    BY <1>3, InitOrder DEF mem_init, Step
  <2>1. TypesInv'
    BY <1>3, <2>0 DEF mem_init, Live, TypesInv
  <2>2. LiveInv'
    BY <1>3, <2>0 DEF mem_init, Live, LiveInv
  <2>3. DetectInv'
    BY <1>3, <2>0 DEF mem_init, Live, DetectInv
  <2>4. TablesInv'
    BY <1>3, <2>0 DEF mem_init, Live, TablesInv
  <2>5. InterruptInv'
    BY <1>3, <2>0 DEF mem_init, Live, InterruptInv
  <2>6. HandlersReady'
    BY <1>3, <2>0 DEF mem_init, Live, HandlersReady
  <2> QED  BY <2>1, <2>2, <2>3, <2>4, <2>5, <2>6
<1>4. CASE thread_init
  <2>0. pc = "thread" /\ pc' = "console"
    BY <1>4, InitOrder DEF thread_init, Step
  <2>1. TypesInv'
    BY <1>4, <2>0 DEF thread_init, TypesInv
  <2>2. LiveInv'
    BY <1>4, <2>0 DEF thread_init, LiveInv
  <2>3. DetectInv'
    BY <1>4, <2>0 DEF thread_init, DetectInv
  <2>4. TablesInv'
    BY <1>4, <2>0 DEF thread_init, TablesInv
  <2>5. InterruptInv'
    BY <1>4, <2>0 DEF thread_init, InterruptInv
  <2>6. HandlersReady'
    BY <1>4, <2>0 DEF thread_init, HandlersReady
  <2> QED  BY <2>1, <2>2, <2>3, <2>4, <2>5, <2>6
<1>5. CASE console_init
  <2>0. pc = "console" /\ pc' = "keyboard"
    BY <1>5, InitOrder DEF console_init, Step
  <2>1. TypesInv'
    BY <1>5, <2>0 DEF console_init, TypesInv
  <2>2. LiveInv'
    BY <1>5, <2>0 DEF console_init, LiveInv
  <2>3. DetectInv'
    BY <1>5, <2>0 DEF console_init, DetectInv
  <2>4. TablesInv'
    BY <1>5, <2>0 DEF console_init, TablesInv
  <2>5. InterruptInv'
    BY <1>5, <2>0 DEF console_init, InterruptInv
  <2>6. HandlersReady'
    BY <1>5, <2>0 DEF console_init, HandlersReady
  <2> QED  BY <2>1, <2>2, <2>3, <2>4, <2>5, <2>6
<1>6. CASE keyboard_init
  <2>0. pc = "keyboard" /\ pc' = "tss"
    BY <1>6, InitOrder DEF keyboard_init, Step
  <2>1. TypesInv'
    BY <1>6, <2>0 DEF keyboard_init, register_handler, Vectors, TypesInv
  <2>2. LiveInv'
    BY <1>6, <2>0 DEF keyboard_init, register_handler, Vectors, LiveInv
  <2>3. DetectInv'
    BY <1>6, <2>0 DEF keyboard_init, register_handler, Vectors, DetectInv
  <2>4. TablesInv'
    BY <1>6, <2>0 DEF keyboard_init, register_handler, Vectors, TablesInv
  <2>5. InterruptInv'
    BY <1>6, <2>0 DEF keyboard_init, register_handler, Vectors, InterruptInv
  <2>6. HandlersReady'
    BY <1>6, <2>0 DEF keyboard_init, register_handler, Vectors, HandlersReady
  <2> QED  BY <2>1, <2>2, <2>3, <2>4, <2>5, <2>6
<1>7. CASE tss_init
  <2>0. pc = "tss" /\ pc' = "sti"
    BY <1>7, InitOrder DEF tss_init, Step
  <2>1. TypesInv'
    BY <1>7, <2>0 DEF tss_init, TypesInv
  <2>2. LiveInv'
    BY <1>7, <2>0 DEF tss_init, LiveInv
  <2>3. DetectInv'
    BY <1>7, <2>0 DEF tss_init, DetectInv
  <2>4. TablesInv'
    BY <1>7, <2>0 DEF tss_init, TablesInv
  <2>5. InterruptInv'
    BY <1>7, <2>0 DEF tss_init, InterruptInv
  <2>6. HandlersReady'
    BY <1>7, <2>0 DEF tss_init, HandlersReady
  <2> QED  BY <2>1, <2>2, <2>3, <2>4, <2>5, <2>6
<1>8. CASE Sti
  <2>0. /\ vector = -1 /\ pc = "sti"
        /\ \/ pc' = "running" /\ intr_on' = TRUE
           \/ pc' = "halted" /\ ~PagesForThreads(total)
        /\ UNCHANGED <<loaderVars, memoryVars, tableVars, irr, isr, imr, vector, frame>>
    <3>1. CASE PagesForThreads(total)
      <4>1. PagesForThreads(total) = TRUE
        BY <3>1 DEF PagesForThreads
      <4> QED  BY <1>8, <3>1, <4>1 DEF Sti, Step
    <3>2. CASE ~PagesForThreads(total)
      BY <1>8, <3>2 DEF Sti, Step
    <3> QED  BY <3>1, <3>2
  <2>1. TypesInv'
    BY <2>0 DEF TypesInv
  <2>2. LiveInv'
    BY <2>0 DEF LiveInv
  <2>3. DetectInv'
    BY <2>0 DEF DetectInv
  <2>4. TablesInv'
    BY <2>0 DEF TablesInv
  <2>5. InterruptInv'
    BY <2>0 DEF InterruptInv
  <2>6. HandlersReady'
    BY <2>0 DEF HandlersReady
  <2> QED  BY <2>1, <2>2, <2>3, <2>4, <2>5, <2>6
<1> QED  BY <1>1, <1>2, <1>3, <1>4, <1>5, <1>6, <1>7, <1>8 DEF Kernel

(* The entries of the vectors that are unmasked, or spurious, push as many *)
(* words as intr_exit takes off; those of the exceptions one more or less. *)
LEMMA FrameSize ==
  /\ \A v \in {\h20, \h21, \h27} : FrameWords(v) = 17
  /\ \A v \in 0..31 : FrameWords(v) \in 16..18
<1>1. \A v \in Int : CpuWords(v) = 3 \/ CpuWords(v) = 4
  BY SMT DEF CpuWords
<1>2. \A v \in {\h20, \h21, \h27} : CpuWords(v) = 3
  BY SMT DEF CpuWords, CpuErrorCodes
<1> QED  BY <1>1, <1>2, SMT DEF FrameWords

(* The entry of an interrupt or an exception. *)
LEMMA EnterInv ==
  ASSUME BootInv, NEW v, NEW service, Enter(v, service), EOI(service) = {}, irr' \subseteq irr,
         \/ v \in {\h20, \h21, \h27} /\ intr_on
         \/ v \in 0..31 /\ pc = "running"
  PROVE  BootInv'
<1> USE DEF BootInv, LateStages, Stopped, loaderVars, memoryVars, tableVars, LoaderStages,
            KernelStages, Stages
<1>0. /\ pc \in LateStages /\ vector = -1 /\ vector' = v /\ isr' = {}
      /\ frame' = FrameWords(v)
      /\ UNCHANGED <<pc, loaderVars, memoryVars, tableVars, imr>>
  <2>1. pc \in LateStages /\ vector = -1 /\ frame = 0
    BY DEF Enter, TablesInv, InterruptInv
  <2>2. FrameWords(v) \in Int
    BY FrameSize, SMT
  <2>3. 0 + FrameWords(v) = FrameWords(v)
    BY <2>2, SMT
  <2> QED  BY <2>1, <2>3 DEF Enter
<1>1. TypesInv'
  BY <1>0 DEF TypesInv
<1>2. LiveInv'
  BY <1>0 DEF LiveInv
<1>3. DetectInv'
  BY <1>0 DEF DetectInv
<1>4. TablesInv'
  BY <1>0 DEF TablesInv
<1>5. InterruptInv'
  <2>1. /\ v \in (0..31) \cup {\h20, \h21, \h27} /\ v # -1
        /\ frame' \in 16..18 /\ (v >= \h20 => frame' = 17)
    BY <1>0, FrameSize, SMT
  <2>2. pc # "running" => v >= \h20 /\ bios.intr = TRUE
    <3>1. ASSUME pc # "running"
          PROVE  v >= \h20 /\ intr_on /\ intr_on = bios.intr
      BY <1>0, <3>1 DEF InterruptInv
    <3>2. bios.intr \in BOOLEAN
      BY BootAssumption DEF TypesInv
    <3> QED  BY <3>1, <3>2, Zenon
  <2> QED  BY <1>0, <2>1, <2>2 DEF InterruptInv
<1>6. HandlersReady'
  BY <1>0 DEF HandlersReady
<1> QED  BY <1>1, <1>2, <1>3, <1>4, <1>5, <1>6

(* Nothing is in service after an EOI if nothing, or one line, was before. *)
LEMMA EOIClears ==
  /\ EOI({}) = {}
  /\ \A i \in Int : EOI({i}) = {}
<1>1. \A i \in Int : ~(i < i)
  BY SMT
<1> QED  BY <1>1 DEF EOI

(* An interrupt, its handler, and the devices. *)
LEMMA InterruptsInv ==
  ASSUME BootInv,
         \/ Interrupt \/ Spurious \/ CallHandler \/ Reset
         \/ \E i \in Devices : Raise(i) \/ BiosServes(i)
         \/ \E v \in Exceptions : Exception(v)
  PROVE  BootInv'
<1> USE DEF BootInv, LateStages, Stopped, loaderVars, memoryVars, tableVars, intrVars,
            LoaderStages, KernelStages, Stages
<1>1. isr = {}
  BY DEF InterruptInv
<1>2. CASE Interrupt
  <2>1. pc \in LateStages
    <3>1. pc \notin Stopped /\ "idt" \in ready
      BY <1>2, Zenon DEF Interrupt, Enter
    <3> QED  BY <3>1 DEF TablesInv
  <2>2. Eligible \subseteq {0, 1}
    <3>1. imr = (0..15) \ {0, 1} /\ irr \subseteq 0..15
      BY <2>1, Lines DEF TablesInv, TypesInv
    <3> QED  BY <3>1 DEF Eligible
  <2>3. PICK i \in {0, 1} : i = Min(Eligible)
    <3>1. Eligible # {}
      BY <1>2 DEF Interrupt
    <3>2. Eligible = {0} \/ Eligible = {1} \/ Eligible = {0, 1}
      BY <2>2, <3>1
    <3>3. PICK m \in Eligible : \A y \in Eligible : m <= y
      BY <3>2
    <3>4. Eligible \subseteq Int
      BY <2>2
    <3>5. Min(Eligible) = m
      BY <3>3, <3>4, MinIs
    <3> QED  BY <2>2, <3>5
  <2>4. PICK service : service = isr \cup {i} /\ EOI(service) = {}
    <3>1. isr \cup {i} = {i} /\ i \in Int
      BY <1>1
    <3> QED  BY <3>1, EOIClears, Zenon
  <2>5. irr' = irr \ {i} /\ intr_on /\ Enter(\h20 + i, service)
    BY <1>2, <2>3, <2>4, Zenon DEF Interrupt
  <2>6. PICK v \in {\h20, \h21, \h27} : v = \h20 + i
    BY <2>3
  <2>7. Enter(v, service) /\ irr' \subseteq irr
    BY <2>5, <2>6
  <2> HIDE DEF BootInv
  <2> QED  BY <2>4, <2>5, <2>6, <2>7, EnterInv
<1>3. CASE Spurious
  <2>1. PICK v \in {\h20, \h21, \h27} : v = \h27
    BY SMT
  <2>2. Enter(v, isr) /\ intr_on /\ irr' \subseteq irr
    BY <1>3, <2>1 DEF Spurious
  <2>3. EOI(isr) = {}
    BY <1>1, EOIClears
  <2> HIDE DEF BootInv
  <2> QED  BY <2>1, <2>2, <2>3, EnterInv
<1>4. ASSUME NEW v \in Exceptions, Exception(v)
      PROVE  BootInv'
  <2>1. v \in 0..31
    BY BootAssumption
  <2>2. pc = "running" /\ Enter(v, isr) /\ irr' \subseteq irr
    BY <1>4 DEF Exception
  <2>3. EOI(isr) = {}
    BY <1>1, EOIClears
  <2> HIDE DEF BootInv
  <2> QED  BY <2>1, <2>2, <2>3, EnterInv
<1>5. CASE CallHandler
  <2>0. /\ pc \in LateStages /\ vector # -1
        /\ vector \in (0..31) \cup {\h20, \h21, \h27}
        /\ UNCHANGED <<loaderVars, memoryVars, tableVars, irr, isr, imr>>
    BY <1>5 DEF CallHandler, InterruptInv
  <2>1. /\ DOMAIN handlers = Vectors /\ \A v \in Vectors \ {\h20, \h21} : handlers[v] = "general"
    BY <2>0 DEF TablesInv
  <2>2. vector < \h20 => ~HandlerReturns(vector)
    <3>1. ASSUME vector < \h20
          PROVE  vector \in Vectors \ {\h20, \h21} /\ vector \notin {\h27, \h2f}
      BY <2>0, <3>1, SMT DEF Vectors
    <3> QED  BY <2>1, <3>1 DEF HandlerReturns
  <2>3. CASE HandlerReturns(vector)
    <3>1. vector >= \h20
      BY <2>0, <2>2, <2>3, SMT
    <3>2. /\ pc' = pc /\ vector' = -1 /\ intr_on' = TRUE /\ frame' = 0
      <4>1. frame = 17
        BY <2>0, <3>1 DEF InterruptInv
      <4> QED  BY <1>5, <2>3, <4>1 DEF CallHandler
    <3>3. pc # "running" => bios.intr = TRUE
      BY <2>0 DEF InterruptInv
    <3>4. TypesInv'
      BY <2>0, <3>2 DEF TypesInv
    <3>5. LiveInv'
      BY <2>0, <3>2 DEF LiveInv
    <3>6. DetectInv'
      BY <2>0, <3>2 DEF DetectInv
    <3>7. TablesInv'
      BY <2>0, <3>2 DEF TablesInv
    <3>8. InterruptInv'
      BY <1>1, <2>0, <3>2, <3>3 DEF InterruptInv
    <3>9. HandlersReady'
      BY <2>0, <3>2 DEF HandlersReady
    <3> QED  BY <3>4, <3>5, <3>6, <3>7, <3>8, <3>9
  <2>4. CASE ~HandlerReturns(vector)
    <3>1. pc' = "halted" /\ UNCHANGED <<frame, vector, intr_on>>
      BY <1>5, <2>4 DEF CallHandler
    <3>2. vector >= \h20 => pc \notin {"tss", "sti", "running"}
      <4>1. ASSUME vector >= \h20, pc \in {"tss", "sti", "running"}
            PROVE  FALSE
        <5>1. vector \in {\h20, \h21, \h27} /\ \h27 \in Vectors \ {\h20, \h21}
          BY <2>0, <4>1, SMT DEF Vectors
        <5>2. /\ handlers[\h20] = "timer" /\ "pcb" \in ready
              /\ handlers[\h21] = "keyboard" /\ "kbd_buf" \in ready
              /\ handlers[\h27] = "general"
          BY <2>1, <4>1, <5>1 DEF TablesInv
        <5> QED  BY <2>4, <5>1, <5>2 DEF HandlerReturns
      <4> QED  BY <4>1
    <3>3. vector >= \h20 => bios.intr /\ "kbd_buf" \notin ready
      BY <2>0, <3>2 DEF InterruptInv, TablesInv
    <3>4. TypesInv'
      BY <2>0, <3>1 DEF TypesInv
    <3>5. LiveInv'
      BY <2>0, <3>1 DEF LiveInv
    <3>6. DetectInv'
      BY <2>0, <3>1 DEF DetectInv
    <3>7. TablesInv'
      BY <2>0, <3>1 DEF TablesInv
    <3>8. InterruptInv'
      BY <1>1, <2>0, <3>1 DEF InterruptInv
    <3>9. HandlersReady'
      BY <2>0, <3>1, <3>3 DEF HandlersReady
    <3> QED  BY <3>4, <3>5, <3>6, <3>7, <3>8, <3>9
  <2> QED  BY <2>3, <2>4
<1>6. CASE Reset
  <2>0. /\ pc \notin Stopped \cup RealMode /\ "idt" \notin ready /\ intr_on
        /\ pc' = "reset"
        /\ UNCHANGED <<loaderVars, memoryVars, tableVars, intrVars>>
    BY <1>6 DEF Reset
  <2>1. vector = -1 /\ pc # "running" /\ "kbd_buf" \notin ready
    BY <2>0 DEF InterruptInv, TablesInv
  <2>2. bios.intr
    BY <2>0, <2>1 DEF InterruptInv
  <2>3. TypesInv'
    BY <2>0 DEF TypesInv
  <2>4. LiveInv'
    BY <2>0 DEF LiveInv
  <2>5. DetectInv'
    BY <2>0 DEF DetectInv
  <2>6. TablesInv'
    BY <2>0, <2>1 DEF TablesInv
  <2>7. InterruptInv'
    BY <2>0, <2>1 DEF InterruptInv
  <2>8. HandlersReady'
    BY <2>0, <2>2 DEF HandlersReady
  <2> QED  BY <2>3, <2>4, <2>5, <2>6, <2>7, <2>8
<1>7. ASSUME NEW i \in Devices, Raise(i) \/ BiosServes(i)
      PROVE  BootInv'
  <2>0. /\ irr' \subseteq irr \cup Devices
        /\ UNCHANGED <<pc, loaderVars, memoryVars, tableVars, isr, imr, intr_on, vector, frame>>
    BY <1>7 DEF Raise, BiosServes
  <2>1. TypesInv'
    BY <2>0 DEF TypesInv
  <2>2. LiveInv'
    BY <2>0 DEF LiveInv
  <2>3. DetectInv'
    BY <2>0 DEF DetectInv
  <2>4. TablesInv'
    BY <2>0 DEF TablesInv
  <2>5. InterruptInv'
    BY <2>0 DEF InterruptInv
  <2>6. HandlersReady'
    BY <2>0 DEF HandlersReady
  <2> QED  BY <2>1, <2>2, <2>3, <2>4, <2>5, <2>6
<1> QED  BY <1>2, <1>3, <1>4, <1>5, <1>6, <1>7

(* Every step keeps it. *)
LEMMA BootNextInv == BootInv /\ [BootNext]_bootVars => BootInv'
  BY BootStutter, LoadInv, E820Inv, E801Inv, ProtectedInv, KernelInv, InterruptsInv
     DEF BootNext, CPU, Detect

(* What the machine, the loader and the kernel are in at each stage, for   *)
(* every amount of memory, list of areas and interrupt flag of the BIOS:   *)
(* the invariant of BootSpec.                                              *)
THEOREM BootInvariant == BootSpec => []BootInv
  BY BootInitInv, BootNextInv, PTL DEF BootSpec

(* If the BIOS leaves interrupts off no interrupt meets a handler or a     *)
(* structure that is not there; if it leaves them on, none does once       *)
(* keyboard_init is done.  Apart from that and from exceptions the kernel  *)
(* stops only without a known memory or without a page for its threads.    *)
THEOREM HandlersReadyHolds == BootSpec => []HandlersReady
<1>1. BootInv => HandlersReady
  BY DEF BootInv
<1> QED  BY <1>1, BootInvariant, PTL

-----------------------------------------------------------------------------
(* The memory. *)

(* A step overwrites only regions that exist. *)
LEMMA ClobbersLive ==
  ASSUME [BootNext]_bootVars
  PROVE  clobbered' \subseteq clobbered \cup live
<1> USE DEF bootVars, loaderVars, memoryVars, tableVars, intrVars
<1>1. CASE UNCHANGED bootVars
  BY <1>1
<1>2. CASE LoadLoader \/ EnterLoader
  BY <1>2 DEF LoadLoader, EnterLoader, Write
<1>3. CASE Detect
  BY <1>3 DEF Detect, E820Answer, E820Fail, FindMax, E801Answer, E801Fail, Answer88, ErrorHlt,
              Write
<1>4. CASE ProtectedMode \/ ReadKernel \/ setup_page \/ kernel_init
  BY <1>4 DEF ProtectedMode, ReadKernel, setup_page, kernel_init, Write
<1>5. CASE Kernel
  BY <1>5 DEF Kernel, idt_init, timer_init, mem_init, thread_init, console_init, keyboard_init,
              tss_init, Sti, Write
<1>6. CASE \/ Interrupt \/ Spurious \/ CallHandler \/ Reset
           \/ \E i \in Devices : Raise(i) \/ BiosServes(i)
           \/ \E v \in Exceptions : Exception(v)
  BY <1>6 DEF Interrupt, Spurious, Exception, Enter, CallHandler, Raise, BiosServes, Reset
<1> QED  BY <1>1, <1>2, <1>3, <1>4, <1>5, <1>6 DEF BootNext, CPU

(* Only regions that exist become needed. *)
LEMMA LiveExists ==
  ASSUME [BootNext]_bootVars
  PROVE  live' \subseteq live \cup DOMAIN Region
<1> USE RegionBounds DEF bootVars, loaderVars, memoryVars, tableVars, intrVars
<1>1. CASE UNCHANGED bootVars
  BY <1>1
<1>2. CASE LoadLoader \/ EnterLoader
  BY <1>2 DEF LoadLoader, EnterLoader, Live
<1>3. CASE Detect
  BY <1>3 DEF Detect, E820Answer, E820Fail, FindMax, E801Answer, E801Fail, Answer88, ErrorHlt
<1>4. CASE ProtectedMode \/ ReadKernel \/ setup_page \/ kernel_init
  BY <1>4 DEF ProtectedMode, ReadKernel, setup_page, kernel_init, Live
<1>5. CASE Kernel
  BY <1>5 DEF Kernel, idt_init, timer_init, mem_init, thread_init, console_init, keyboard_init,
              tss_init, Sti, Live
<1>6. CASE \/ Interrupt \/ Spurious \/ CallHandler \/ Reset
           \/ \E i \in Devices : Raise(i) \/ BiosServes(i)
           \/ \E v \in Exceptions : Exception(v)
  BY <1>6 DEF Interrupt, Spurious, Exception, Enter, CallHandler, Raise, BiosServes, Reset
<1> QED  BY <1>1, <1>2, <1>3, <1>4, <1>5, <1>6 DEF BootNext, CPU

(* What is overwritten are regions, the size of the memory fits a          *)
(* register, and of every interrupt whose handler returns intr_exit takes  *)
(* off to the word what the entry pushed.                                  *)
THEOREM BootTypesCorrect == BootSpec => []BootTypeOK
<1> DEFINE Regions == live \cup clobbered \subseteq DOMAIN Region
<1>1. BootInit => Regions
  BY RegionBounds DEF BootInit
<1>2. Regions /\ [BootNext]_bootVars => Regions'
  <2>1. ASSUME Regions, [BootNext]_bootVars
        PROVE  Regions'
    <3>1. clobbered' \subseteq clobbered \cup live
      BY <2>1, ClobbersLive
    <3>2. live' \subseteq live \cup DOMAIN Region
      BY <2>1, LiveExists
    <3>3. DOMAIN Region' = DOMAIN Region
      BY DEF Region
    <3> QED  BY <2>1, <3>1, <3>2, <3>3
  <2> QED  BY <2>1
<1>3. Regions /\ BootInv => BootTypeOK
  <2> SUFFICES ASSUME Regions, BootInv
               PROVE  BootTypeOK
    OBVIOUS
  <2>1. Range(init_all) = KernelStages
    BY InitOrder
  <2>2. pc \in RealMode \cup Stopped \cup Range(init_all)
               \cup {"read_kernel", "setup_page", "kernel_init", "sti", "running"}
    BY <2>1 DEF BootInv, TypesInv, Stages, LoaderStages, RealMode, Stopped
  <2>3. total \in 0..(WORD - 1)
    <3>1. WORD \in Int /\ total \in Nat /\ total < WORD
      BY DEF BootInv, TypesInv, WORD
    <3> QED  BY <3>1
  <2>4. isr \subseteq 0..15 /\ irr \subseteq 0..15
    BY Lines DEF BootInv, TypesInv, InterruptInv
  <2>5. vector \in Vectors \cup {-1}
    BY DEF BootInv, InterruptInv, Vectors
  <2>6. frame \in 0..18 /\ (vector = -1 => frame = 0)
    BY DEF BootInv, InterruptInv
  <2> QED  BY <2>2, <2>3, <2>4, <2>5, <2>6, Zenon DEF BootTypeOK
<1> HIDE DEF Regions
<1> QED  BY <1>1, <1>2, <1>3, BootInvariant, PTL DEF BootSpec

(* On a machine with less than 2 GB a loader that gets to the kernel has   *)
(* found the memory: all of it with e820, among areas whose type it does   *)
(* not look at, and all but 64 KiB with e801.  With more than eleven areas *)
(* e820 does not get that far.                                             *)
THEOREM DetectedMemoryHolds ==
  ASSUME \A r \in RamSizes : r < WORD \div 2
  PROVE  BootSpec => []DetectedMemory
<1>1. BootInv => DetectedMemory
  <2> SUFFICES ASSUME BootInv
               PROVE  DetectedMemory
    OBVIOUS
  <2>1. bios.ram \in Nat /\ bios.ram >= 1024 /\ bios.ram < WORD \div 2
    BY Machine DEF BootInv
  <2>2. E801Total(bios.ram) <= bios.ram /\ bios.ram - E801Total(bios.ram) < 64
    BY <2>1, E801Exact
  <2> QED  BY <2>1, <2>2, Zenon DEF BootInv, DetectInv, DetectedMemory
<1> QED  BY <1>1, BootInvariant, PTL

(* On a machine with 2 MB or more e801 does not report less than 2 MB. *)
LEMMA E801AtLeast ==
  ASSUME NEW ram \in Nat, ram >= 2048
  PROVE  E801Total(ram) \in Nat /\ E801Total(ram) >= 2048
<1>1. CASE ram < 16384
  <2>1. E801Total(ram) = 1024 + ((ram - 1024) \div 64) * 64
    BY <1>1, SMT DEF E801Total, E801Ax, E801Bx
  <2> QED  BY <1>1, <2>1, SMT
<1>2. CASE ~(ram < 16384)
  <2>1. E801Total(ram) = 16384 + ((ram - 16384) \div 64) * 64
    BY <1>2, SMT DEF E801Total, E801Ax, E801Bx
  <2> QED  BY <1>2, <2>1, SMT
<1> QED  BY <1>1, <1>2

(* What e820 and e801 leave is between 2 MB and the machine's memory. *)
LEMMA TotalBounds ==
  ASSUME BootInv, method \in {"e820", "e801"},
         \A r \in RamSizes : 2048 <= r /\ r < WORD \div 2
  PROVE  total \in Nat /\ 2048 <= total /\ total <= bios.ram
<1>1. bios.ram \in Nat /\ bios.ram >= 2048 /\ bios.ram >= 1024 /\ bios.ram < WORD \div 2
  BY Machine, SMT DEF BootInv
<1>2. CASE method = "e820"
  <2>1. total = bios.ram
    BY <1>1, <1>2 DEF BootInv, DetectInv
  <2> QED  BY <1>1, <2>1, SMT
<1>3. CASE method = "e801"
  <2>1. total = E801Total(bios.ram)
    BY <1>3, Zenon DEF BootInv, DetectInv
  <2>2. E801Total(bios.ram) \in Nat /\ E801Total(bios.ram) >= 2048
    BY <1>1, E801AtLeast
  <2>3. E801Total(bios.ram) <= bios.ram
    BY <1>1, E801Exact
  <2> QED  BY <2>1, <2>2, <2>3, SMT
<1> QED  BY <1>2, <1>3

(* On a machine with 2 MB or more and less than 514 MB the frames of the   *)
(* two pools mem_init makes are disjoint and exist, above the page tables. *)
THEOREM PoolsInRamHolds ==
  ASSUME \A r \in RamSizes : 2048 <= r /\ r <= 514 * 1024 - 8
  PROVE  BootSpec => []PoolsInRam
<1>1. BootInv => PoolsInRam
  <2> SUFFICES ASSUME BootInv, method \in {"e820", "e801"}
               PROVE  /\ PoolsFit(total) /\ total <= bios.ram
                      /\ Region.page_tables[2] <= 1024 * kp_start
    BY Zenon DEF PoolsInRam
  <2>2. WORD \div 2 = 2097152
    BY SMT DEF WORD
  <2>3. \A r \in RamSizes : 2048 <= r /\ r < WORD \div 2
    <3>1. ASSUME NEW r \in RamSizes
          PROVE  2048 <= r /\ r < WORD \div 2
      <4>1. RamSizes \subseteq 1024..(WORD - 1)
        BY BootAssumption, Zenon
      <4>2. r \in Int
        BY <4>1
      <4> QED  BY <2>2, <3>1, <4>2, SMT
    <3> QED  BY <3>1
  <2>4. total \in Nat /\ 2048 <= total /\ total <= bios.ram
    BY <2>3, TotalBounds
  <2>5. bios.ram \in Nat /\ bios.ram <= 514 * 1024 - 8
    BY Machine, SMT DEF BootInv
  <2>6. PoolsFit(total)
    BY <2>4, <2>5, PoolsFitBelowLimit, SMT
  <2>7. Region.page_tables[2] <= 1024 * kp_start
    BY SMT DEF Region, kp_start, used_mem, PG_SIZE
  <2> QED  BY <2>4, <2>6, <2>7
<1> QED  BY <1>1, BootInvariant, PTL

(* What 0x88 finds is wrong, but the page counts of it are cut to 16 bits: *)
(* the bitmaps are small.                                                  *)
LEMMA BitmapsAfter88 ==
  ASSUME NEW kb \in Nat, 1071104 <= kb, kb <= 1071167
  PROVE  bitmaps_end(kb) <= MAIN_PCB
<1>1. (kb + WORD - used_mem) % WORD = kb - 2048
  BY SMT DEF WORD, used_mem, PG_SIZE
<1>2. PICK free \in Nat : free = all_free_pages(kb) /\ 267264 <= free /\ free <= 267279
  BY <1>1, SMT DEF all_free_pages, PG_SIZE
<1>3. PICK half \in Nat : half = free \div 2 /\ 133632 <= half /\ half <= 133639
  BY <1>2, SMT
<1>4. half % 65536 = half - 131072
  BY <1>3, SMT
<1>5. PICK k \in Nat : k = kernel_free_pages(kb) /\ 2560 <= k /\ k <= 2567
  BY <1>2, <1>3, <1>4, SMT DEF kernel_free_pages, UINT16
<1>6. PICK rest \in Nat : rest = free - k /\ 264697 <= rest /\ rest <= 264719
  BY <1>2, <1>5, SMT
<1>7. rest % 65536 = rest - 262144
  BY <1>6, SMT
<1>8. PICK u \in Nat : u = user_free_pages(kb) /\ u <= 2575
  BY <1>2, <1>5, <1>6, <1>7, SMT DEF user_free_pages, UINT16
<1>9. kbm_length(kb) \in Nat /\ kbm_length(kb) <= 2567 /\ ubm_length(kb) \in Nat
      /\ ubm_length(kb) <= 2575
  BY <1>5, <1>8, SMT DEF kbm_length, ubm_length
<1> QED  BY <1>9, SMT DEF bitmaps_end, MEM_BITMAP_BASE, MAIN_PCB

(* Up to 343 MB the bitmaps end below main()'s PCB, whichever function     *)
(* told the size.                                                          *)
LEMMA BitmapsFit ==
  ASSUME BootInv, method # "none", \A r \in RamSizes : 2048 <= r /\ r <= 343 * 1024
  PROVE  bitmaps_end(total) <= 647168
<1>0. MAIN_PCB = 647168
  BY SMT DEF MAIN_PCB
<1>1. total \in Nat /\ method \in {"e820", "e801", "88"}
  BY Zenon DEF BootInv, TypesInv, DetectInv
<1>2. CASE method \in {"e820", "e801"}
  <2>1. WORD \div 2 = 2097152
    BY SMT DEF WORD
  <2>2. \A r \in RamSizes : 2048 <= r /\ r < WORD \div 2
    <3>1. ASSUME NEW r \in RamSizes
          PROVE  2048 <= r /\ r < WORD \div 2
      <4>1. RamSizes \subseteq 1024..(WORD - 1)
        BY BootAssumption, Zenon
      <4>2. r \in Int /\ 2048 <= r /\ r <= 343 * 1024
        BY <4>1
      <4> QED  BY <2>1, <4>2, SMT
    <3> QED  BY <3>1
  <2>3. 2048 <= total /\ total <= bios.ram
    BY <1>2, <2>2, TotalBounds
  <2>4. bios.ram \in Nat /\ bios.ram <= 343 * 1024
    BY Machine, SMT DEF BootInv
  <2> QED  BY <1>0, <1>1, <2>3, <2>4, BitmapsFitBelowLimit, SMT
<1>3. CASE method = "88"
  <2>1. From88(total)
    BY <1>3, Zenon DEF BootInv, DetectInv
  <2> QED  BY <1>0, <1>1, <2>1, BitmapsAfter88, BitmapsFitBelowLimit, SMT DEF From88
<1> QED  BY <1>1, <1>2, <1>3

(* A write that ends before, or begins behind, every region that is needed *)
(* clobbers nothing.                                                       *)
LEMMA WriteFree ==
  ASSUME clobbered = {}, NEW lo \in Int, NEW hi \in Int, Write(lo, hi),
         \A r \in live : /\ Region[r][1] \in Int /\ Region[r][2] \in Int
                         /\ hi <= Region[r][1] \/ Region[r][2] <= lo
  PROVE  clobbered' = {}
  BY DEF Write

(* No step of the loader, up to main(), writes on what is needed. *)
LEMMA LoaderWrites ==
  ASSUME BootInv, clobbered = {}, \A n \in ExtraAreas : n <= 6,
         \/ LoadLoader \/ EnterLoader \/ E820Answer
         \/ ReadKernel \/ setup_page \/ kernel_init
  PROVE  clobbered' = {}
<1>1. CASE LoadLoader
  <2>1. Write(2304, 4352) /\ live = {"bios_data", "mbr", "mbr_stack", "video"}
    BY <1>1 DEF LoadLoader, Step, BootInv, LiveInv
  <2> QED  BY <2>1, RegionBounds, WriteFree, SMT
<1>2. CASE EnterLoader
  <2>1. live = {"bios_data", "mbr", "mbr_stack", "video", "gdt", "total_mem", "gdt_ptr", "loader"}
    BY <1>2 DEF EnterLoader, Step, BootInv, LiveInv
  <2>2. CASE clobbered' = clobbered
    BY <2>2
  <2>3. CASE Write(4354, 4355)
    BY <2>1, <2>3, RegionBounds, WriteFree, SMT
  <2> QED  BY <1>2, <2>2, <2>3 DEF EnterLoader
<1>3. CASE E820Answer
  <2>1. live = {"bios_data", "mbr_stack", "video", "gdt", "total_mem", "gdt_ptr", "loader"}
    BY <1>3 DEF E820Answer, Step, BootInv, LiveInv
  <2>2. ards_nr \in Nat /\ ards_nr <= 10
    <3>1. bios.extra \in Nat /\ bios.extra <= 6 /\ bios.ram \in Nat /\ bios.ram >= 1024
      BY Machine, SMT DEF BootInv
    <3>2. Len(Areas) = bios.extra + 5
      BY <3>1, AreaList
    <3>3. ards_nr \in Nat /\ ards_nr < Len(Areas)
      BY <1>3 DEF E820Answer, BootInv, TypesInv
    <3> QED  BY <3>1, <3>2, <3>3, SMT
  <2>3. PICK lo \in Int, hi \in Int : /\ Write(lo, hi)
                                      /\ lo = 2826 + 20 * ards_nr /\ hi = lo + 20
    BY <1>3, <2>2, SMT DEF E820Answer, ArdsEnd, ARDS_BUF
  <2>4. 2826 <= lo /\ hi <= 3046
    BY <2>2, <2>3, SMT
  <2> QED  BY <2>1, <2>3, <2>4, RegionBounds, WriteFree, SMT
<1>4. CASE ReadKernel
  <2>1. live = {"loader_stack", "video", "gdt", "total_mem", "gdt_ptr", "loader"}
    BY <1>4 DEF ReadKernel, Step, BootInv, LiveInv
  <2>2. PICK hi \in Int : Write(458752, hi) /\ hi <= 692224
    BY <1>4, SMT DEF ReadKernel, UINT16, BootInv, TypesInv
  <2> QED  BY <2>1, <2>2, RegionBounds, WriteFree, SMT
<1>5. CASE setup_page
  <2>1. live = {"loader_stack", "video", "gdt", "total_mem", "gdt_ptr", "loader", "image"}
    BY <1>5 DEF setup_page, Step, BootInv, LiveInv
  <2>2. PICK hi \in Int : Write(1048576, hi)
    BY <1>5, SMT DEF setup_page
  <2> QED  BY <2>1, <2>2, RegionBounds, WriteFree, SMT
<1>6. CASE kernel_init
  <2>1. live = {"loader_stack", "video", "gdt", "total_mem", "gdt_ptr", "loader", "image",
                "page_tables"}
    BY <1>6 DEF kernel_init, Step, BootInv, LiveInv
  <2>2. Write(Region["kernel"][1], Region["kernel"][2])
    BY <1>6 DEF kernel_init
  <2>3. Write(4096, 106496)
    BY <2>2, RegionBounds, SMT
  <2> QED  BY <2>1, <2>3, RegionBounds, WriteFree, SMT
<1> QED  BY <1>1, <1>2, <1>3, <1>4, <1>5, <1>6

(* No step of init_all either. *)
LEMMA KernelWrites ==
  ASSUME BootInv, clobbered = {}, mem_init \/ tss_init,
         \A r \in RamSizes : 2048 <= r /\ r <= 343 * 1024
  PROVE  clobbered' = {}
<1>1. CASE mem_init
  <2>1. pc = "mem"
    BY <1>1, InitOrder DEF mem_init, Step
  <2>2. live = {"video", "gdt", "total_mem", "page_tables", "kernel", "main_thread"}
    BY <2>1 DEF BootInv, LiveInv
  <2>3. method # "none"
    BY <2>1, SMT DEF BootInv, DetectInv, LoaderStages, Stopped
  <2>4. bitmaps_end(total) <= 647168
    BY <2>3, BitmapsFit
  <2>5. bitmaps_end(total) \in Int
    BY SMT DEF BootInv, TypesInv, bitmaps_end, MEM_BITMAP_BASE, kbm_length, ubm_length,
               kernel_free_pages, user_free_pages, all_free_pages, used_mem, PG_SIZE, UINT16, WORD
  <2>6. PICK hi \in Int : Write(630784, hi) /\ hi <= 647168
    BY <1>1, <2>4, <2>5, SMT DEF mem_init, MEM_BITMAP_BASE
  <2> QED  BY <2>2, <2>6, RegionBounds, WriteFree, SMT
<1>2. CASE tss_init
  <2>1. pc = "tss"
    BY <1>2, InitOrder DEF tss_init, Step
  <2>2. live = {"video", "gdt", "page_tables", "kernel", "main_thread"}
    BY <2>1 DEF BootInv, LiveInv
  <2>3. Write(2336, 2360)
    BY <1>2 DEF tss_init
  <2> QED  BY <2>2, <2>3, RegionBounds, WriteFree, SMT
<1> QED  BY <1>1, <1>2

(* On a machine with 2 MB to 343 MB whose BIOS reports at most eleven      *)
(* areas nothing that is needed is overwritten, from the boot sector to    *)
(* the running kernel, whichever function of int 0x15 told the memory.     *)
THEOREM NothingClobberedHolds ==
  ASSUME \A r \in RamSizes : 2048 <= r /\ r <= 343 * 1024,
         \A n \in ExtraAreas : n <= 6
  PROVE  BootSpec => []NothingClobbered
<1>1. BootInit => NothingClobbered
  BY DEF BootInit, NothingClobbered
<1>2. BootInv /\ NothingClobbered /\ [BootNext]_bootVars => NothingClobbered'
  <2> SUFFICES ASSUME BootInv, clobbered = {}, [BootNext]_bootVars
               PROVE  clobbered' = {}
    BY DEF NothingClobbered
  <2> USE DEF memoryVars
  <2>1. CASE LoadLoader \/ EnterLoader \/ E820Answer \/ ReadKernel \/ setup_page \/ kernel_init
    BY <2>1, LoaderWrites
  <2>2. CASE mem_init \/ tss_init
    BY <2>2, KernelWrites
  <2>3. CASE E820Fail \/ FindMax \/ E801Answer \/ E801Fail \/ Answer88 \/ ErrorHlt
    BY <2>3 DEF E820Fail, FindMax, E801Answer, E801Fail, Answer88, ErrorHlt
  <2>4. CASE ProtectedMode \/ idt_init \/ timer_init \/ thread_init \/ console_init
             \/ keyboard_init \/ Sti
    BY <2>4 DEF ProtectedMode, idt_init, timer_init, thread_init, console_init, keyboard_init, Sti
  <2>5. CASE \/ Interrupt \/ Spurious \/ CallHandler \/ Reset
             \/ \E i \in Devices : Raise(i) \/ BiosServes(i)
             \/ \E v \in Exceptions : Exception(v)
    BY <2>5 DEF Interrupt, Spurious, Exception, Enter, CallHandler, Raise, BiosServes, Reset
  <2>6. CASE UNCHANGED bootVars
    BY <2>6 DEF bootVars
  <2> QED  BY <2>1, <2>2, <2>3, <2>4, <2>5, <2>6 DEF BootNext, CPU, Detect, Kernel
<1> QED  BY <1>1, <1>2, BootInvariant, PTL DEF BootSpec
=============================================================================
