------------------------------- MODULE Layout -------------------------------
(***************************************************************************)
(* What the kernel computes about memory while it boots: the amount the    *)
(* BIOS reports (boot/loader.S) and how mem_pool_init of kernel/memory.c   *)
(* divides it.  Amounts of memory are in KiB, so that a 32-bit register    *)
(* holds values below WORD; positions of bitmaps are in bytes.             *)
(***************************************************************************)
EXTENDS Integers

WORD == 4096 * 1024    \* 2^32 bytes
UINT16 == 64 * 1024
PG_SIZE == 4
MEM_BITMAP_BASE == 616 * 1024 \* 0x9a000
MAIN_PCB == 632 * 1024       \* 0x9e000

(* e801: ax is in KiB, at most 15 MB, bx in blocks of 64 KiB above 16 MB.  *)
(* Of the product ax * 1024 only the upper 16 bits are kept.               *)
E801Ax(ram) == IF ram < 16384 THEN ram - 1024 ELSE 15360
E801Bx(ram) == IF ram < 16384 THEN 0 ELSE (ram - 16384) \div 64
E801Total(ram) == 1024 + (E801Ax(ram) \div 64) * 64 + E801Bx(ram) * 64

(* 0x88: ax, in KiB, is added as bytes to what dx happens to hold. *)
Total88(dx, ax) == (dx * 64 + (ax \div 1024) + 1024) % WORD

(* mem_pool_init.  The page counts are uint16_t; what does not fill a byte *)
(* of a bitmap is given up.  used_mem: 1 MB and 256 page tables.           *)
used_mem == 1024 + 256 * PG_SIZE
all_free_pages(all_mem) == ((all_mem + WORD - used_mem) % WORD) \div PG_SIZE
kernel_free_pages(all_mem) == (all_free_pages(all_mem) \div 2) % UINT16
user_free_pages_all(all_mem) == all_free_pages(all_mem) % UINT16  \* mutant of the next
user_free_pages(all_mem) == (all_free_pages(all_mem) - kernel_free_pages(all_mem)) % UINT16
kbm_length(all_mem) == kernel_free_pages(all_mem) \div 8
ubm_length(all_mem) == user_free_pages(all_mem) \div 8
kp_start == used_mem
up_start(all_mem) == kp_start + kernel_free_pages(all_mem) * PG_SIZE

(* The bitmaps of the two pools and of the kernel's virtual addresses. *)
bitmaps_end(all_mem) == MEM_BITMAP_BASE + 2 * kbm_length(all_mem) + ubm_length(all_mem)

(* Where the last frame of a bitmap of the given length ends. *)
PoolEnd(start, length) == start + 8 * length * PG_SIZE

(* The frames the bitmaps stand for: the kernel's end where the user's     *)
(* begin, and those end inside the memory.                                 *)
PoolsFit(all_mem) ==
  /\ PoolEnd(kp_start, kbm_length(all_mem)) <= up_start(all_mem)
  /\ PoolEnd(up_start(all_mem), ubm_length(all_mem)) <= all_mem
=============================================================================
