------------------------------- MODULE Bitmap -------------------------------
(***************************************************************************)
(* The bitmaps of lib/kernel/bitmap.c, which say which pages of a pool are *)
(* taken, and bitmap_scan, which looks for free ones.                      *)
(*                                                                         *)
(* A bitmap is a function on bit positions; position p is bit p % BITS of  *)
(* byte p \div BITS, as in bitmap_set.                                     *)
(***************************************************************************)
EXTENDS Integers

CONSTANTS
  BITS,            \* bits of a byte: 8
  btmp_bytes_len,  \* bytes of the bitmap
  Requests         \* the values of cnt bitmap_scan is called with

ASSUME BitsAssumption == BITS \in Nat \ {0}
ASSUME LengthAssumption == btmp_bytes_len \in Nat
(* palloc asks for 1 page, malloc_page asserts pg_cnt > 0. *)
ASSUME RequestsAssumption == Requests \subseteq Nat \ {0}

VARIABLES
  bits, cnt,                  \* the arguments of bitmap_scan
  byte_index, bits_index, unused_cnt,
  pc,                         \* "byte": at the test of the while loop,
                              \* "bit": at the test of the for loop
  result

scanVars == <<bits, cnt, byte_index, bits_index, unused_cnt, pc, result>>

Size == BITS * btmp_bytes_len
Position == BITS * byte_index + bits_index

ScanInit ==
  /\ bits \in [0..(Size - 1) -> {0, 1}]
  /\ cnt \in Requests
  /\ byte_index = 0 /\ bits_index = 0 /\ unused_cnt = 0
  /\ pc = "byte"
  /\ result = -1

(* bits[byte_index] == 0xff *)
ByteFull == \A k \in 0..(BITS - 1) : bits[BITS * byte_index + k] = 1

(* Mutant of FullByte: the free bits before it still count. *)
FullByteKeepsCount ==
  /\ pc = "byte" /\ byte_index < btmp_bytes_len
  /\ ByteFull
  /\ byte_index' = byte_index + 1
  /\ UNCHANGED <<bits, cnt, bits_index, unused_cnt, pc, result>>

(* A byte without a free bit is passed over. *)
FullByte ==
  /\ pc = "byte" /\ byte_index < btmp_bytes_len
  /\ ByteFull
  /\ unused_cnt' = 0
  /\ byte_index' = byte_index + 1
  /\ UNCHANGED <<bits, cnt, bits_index, pc, result>>

(* A byte with free bits is looked at bit by bit. *)
OpenByte ==
  /\ pc = "byte" /\ byte_index < btmp_bytes_len
  /\ ~ByteFull
  /\ bits_index' = 0
  /\ pc' = "bit"
  /\ UNCHANGED <<bits, cnt, byte_index, unused_cnt, result>>

UsedBit ==
  /\ pc = "bit" /\ bits_index < BITS
  /\ bits[Position] = 1
  /\ unused_cnt' = 0
  /\ bits_index' = bits_index + 1
  /\ UNCHANGED <<bits, cnt, byte_index, pc, result>>

FreeBit ==
  /\ pc = "bit" /\ bits_index < BITS
  /\ bits[Position] = 0
  /\ unused_cnt' = unused_cnt + 1
  /\ IF unused_cnt + 1 = cnt
       THEN /\ pc' = "done"
            /\ result' = Position - cnt + 1
            /\ UNCHANGED bits_index
       ELSE /\ bits_index' = bits_index + 1
            /\ UNCHANGED <<pc, result>>
  /\ UNCHANGED <<bits, cnt, byte_index>>

(* The for loop ends, byte_index++. *)
NextByte ==
  /\ pc = "bit" /\ bits_index = BITS
  /\ byte_index' = byte_index + 1
  /\ pc' = "byte"
  /\ UNCHANGED <<bits, cnt, bits_index, unused_cnt, result>>

(* Mutant of NotFound: the while loop runs once too often. *)
NotFoundLate ==
  /\ pc = "byte" /\ byte_index = btmp_bytes_len
  /\ byte_index' = byte_index + 1
  /\ UNCHANGED <<bits, cnt, bits_index, unused_cnt, pc, result>>

(* return -1 *)
NotFound ==
  /\ pc = "byte" /\ ~(byte_index < btmp_bytes_len)
  /\ pc' = "done"
  /\ result' = -1
  /\ UNCHANGED <<bits, cnt, byte_index, bits_index, unused_cnt>>

ScanNext == FullByte \/ OpenByte \/ UsedBit \/ FreeBit \/ NextByte \/ NotFound

ScanSpec == ScanInit /\ [][ScanNext]_scanVars /\ WF_scanVars(ScanNext)

-----------------------------------------------------------------------------

(* The two loops of bitmap_scan stay inside the bitmap.                    *)
ScanTypeOK ==
  /\ bits \in [0..(Size - 1) -> {0, 1}]
  /\ cnt \in Requests
  /\ byte_index \in 0..btmp_bytes_len
  /\ bits_index \in 0..BITS
  /\ unused_cnt \in Nat
  /\ pc \in {"byte", "bit", "done"}
  /\ result \in Int

(* The n bits from position i are free. *)
FreeRun(i, n) == \A p \in i..(i + n - 1) : bits[p] = 0

(* bitmap_scan returns the first run of cnt free bits, inside the bitmap   *)
(* and also when it crosses bytes, and -1 only when there is none.         *)
FirstFit ==
  pc = "done" =>
    \/ /\ result \in 0..(Size - cnt)
       /\ FreeRun(result, cnt)
       /\ \A i \in 0..(result - 1) : ~FreeRun(i, cnt)
    \/ /\ result = -1
       /\ \A i \in 0..(Size - cnt) : ~FreeRun(i, cnt)

(* The inductive invariant.  Where is the position the loops have reached; *)
(* unused_cnt is the length of the longest run of free bits that ends      *)
(* there, it is shorter than cnt, and no run of cnt bits lies before.      *)
Where == IF pc = "bit" THEN Position ELSE BITS * byte_index
LongestRun ==
  /\ unused_cnt < cnt
  /\ unused_cnt <= Where
  /\ FreeRun(Where - unused_cnt, unused_cnt)
  /\ unused_cnt < Where => bits[Where - unused_cnt - 1] = 1
NoneBefore == \A i \in 0..(Where - cnt) : ~FreeRun(i, cnt)
ScanInv ==
  /\ ScanTypeOK
  /\ pc = "bit" => byte_index < btmp_bytes_len
  /\ pc # "done" => LongestRun /\ NoneBefore
  /\ FirstFit

=============================================================================
