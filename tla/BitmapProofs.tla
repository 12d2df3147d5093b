---------------------------- MODULE BitmapProofs ----------------------------
(***************************************************************************)
(* bitmap_scan is correct for bitmaps of every length, every request and   *)
(* every width of a byte.                                                  *)
(***************************************************************************)
EXTENDS Bitmap, TLAPS

(* A byte that is left has its bits inside the bitmap. *)
LEMMA InBitmap ==
  ASSUME NEW b \in Nat, NEW k \in Nat, b < btmp_bytes_len, k < BITS
  PROVE  /\ BITS * b \in Nat
         /\ BITS * (b + 1) = BITS * b + BITS
         /\ BITS * b + k \in 0..(Size - 1)
<1>1. BITS * b \in Nat /\ BITS * (b + 1) = BITS * b + BITS
  BY BitsAssumption
<1>2. BITS * (b + 1) <= BITS * btmp_bytes_len
  <2>1. PICK d \in Nat : btmp_bytes_len = b + 1 + d
    <3>1. btmp_bytes_len - (b + 1) \in Nat
      BY LengthAssumption
    <3>2. btmp_bytes_len = b + 1 + (btmp_bytes_len - (b + 1))
      BY LengthAssumption
    <3> QED
      BY <3>1, <3>2
  <2>2. BITS * (b + 1 + d) = BITS * (b + 1) + BITS * d
    BY BitsAssumption
  <2>3. BITS * d \in Nat
    BY BitsAssumption
  <2>4. BITS * (b + 1) \in Nat
    BY BitsAssumption
  <2> QED
    BY <2>1, <2>2, <2>3, <2>4
<1>3. Size \in Nat
  BY BitsAssumption, LengthAssumption DEF Size
<1> QED
  BY <1>1, <1>2, <1>3, BitsAssumption DEF Size

(* A bit that is read extends the runs by one position. *)
LEMMA NextBit ==
  ASSUME NEW w \in Nat, NEW n \in Nat \ {0}, NEW u \in Nat,
         u < n, u <= w,
         FreeRun(w - u, u),
         u < w => bits[w - u - 1] = 1,
         \A i \in 0..(w - n) : ~FreeRun(i, n)
  PROVE  /\ bits[w] = 1 => \A i \in 0..(w + 1 - n) : ~FreeRun(i, n)
         /\ bits[w] = 0 /\ u + 1 # n =>
              /\ u + 1 < n
              /\ FreeRun(w + 1 - (u + 1), u + 1)
              /\ \A i \in 0..(w + 1 - n) : ~FreeRun(i, n)
         /\ bits[w] = 0 /\ u + 1 = n =>
              /\ w - n + 1 \in 0..w
              /\ FreeRun(w - n + 1, n)
              /\ \A i \in 0..(w - n) : ~FreeRun(i, n)
<1>1. ASSUME bits[w] = 1, NEW i \in 0..(w + 1 - n)
      PROVE  ~FreeRun(i, n)
  <2>1. CASE i \in 0..(w - n)
    BY <2>1
  <2>2. CASE i = w + 1 - n
    <3>1. w \in i..(i + n - 1)
      BY <2>2
    <3> QED
      BY <3>1, <1>1 DEF FreeRun
  <2> QED
    BY <2>1, <2>2
<1>2. ASSUME bits[w] = 0
      PROVE  FreeRun(w - u, u + 1)
  <2>1. \A p \in (w - u)..(w - u + (u + 1) - 1) :
          p \in (w - u)..(w - u + u - 1) \/ p = w
    OBVIOUS
  <2> QED
    BY <2>1, <1>2 DEF FreeRun
<1>3. ASSUME bits[w] = 0, u + 1 # n, NEW i \in 0..(w + 1 - n)
      PROVE  ~FreeRun(i, n)
  <2>1. CASE i \in 0..(w - n)
    BY <2>1
  <2>2. CASE i = w + 1 - n
    <3>1. u < w /\ w - u - 1 \in i..(i + n - 1)
      BY <2>2, <1>3
    <3> QED
      BY <3>1 DEF FreeRun
  <2> QED
    BY <2>1, <2>2
<1>4. w + 1 - (u + 1) = w - u /\ (u + 1 = n => w - n + 1 = w - u)
  OBVIOUS
<1>5. u + 1 = n => w - n + 1 \in 0..w
  OBVIOUS
<1> QED
  BY <1>1, <1>2, <1>3, <1>4, <1>5

(* The six steps of the loops keep the invariant. *)
LEMMA ScanStep == ScanInv /\ [ScanNext]_scanVars => ScanInv'
<1> SUFFICES ASSUME ScanInv, [ScanNext]_scanVars
             PROVE  ScanInv'
  OBVIOUS
<1> USE BitsAssumption, LengthAssumption, RequestsAssumption
<1>a. /\ byte_index \in Nat /\ bits_index \in Nat /\ cnt \in Nat \ {0}
      /\ unused_cnt \in Nat /\ Size \in Nat
  BY DEF ScanInv, ScanTypeOK, Size
<1>1. CASE FullByte
  <2>1. /\ BITS * byte_index \in Nat
        /\ BITS * (byte_index + 1) = BITS * byte_index + BITS
    BY <1>1, <1>a DEF FullByte
  <2>2. \A p \in (BITS * byte_index)..(BITS * byte_index + BITS - 1) : bits[p] = 1
    <3> SUFFICES ASSUME NEW p \in (BITS * byte_index)..(BITS * byte_index + BITS - 1)
                 PROVE  bits[p] = 1
      OBVIOUS
    <3>1. /\ p - BITS * byte_index \in 0..(BITS - 1)
          /\ BITS * byte_index + (p - BITS * byte_index) = p
      BY <2>1
    <3> QED
      BY <3>1, <1>1 DEF FullByte, ByteFull
  <2>3. ScanTypeOK'
    BY <1>1 DEF FullByte, ScanInv, ScanTypeOK
  <2>4. LongestRun'
    <3>1. Where' = BITS * byte_index + BITS /\ unused_cnt' = 0 /\ bits' = bits
      BY <1>1, <2>1 DEF FullByte, Where
    <3>2. \A p \in (Where' - 0)..(Where' - 0 + 0 - 1) : FALSE
      BY <3>1, <2>1
    <3>3. bits[Where' - 0 - 1] = 1
      <4>1. Where' - 0 - 1 \in (BITS * byte_index)..(BITS * byte_index + BITS - 1)
        BY <3>1, <2>1
      <4> QED
        BY <4>1, <2>2
    <3>4. cnt' = cnt /\ Where' \in Nat
      BY <1>1, <3>1, <2>1 DEF FullByte
    <3> QED
      BY <3>1, <3>2, <3>3, <3>4, <1>a DEF LongestRun, FreeRun
  <2>5. NoneBefore'
    <3> SUFFICES ASSUME NEW i \in 0..(Where' - cnt'),
                        \A p \in i..(i + cnt' - 1) : bits'[p] = 0
                 PROVE  FALSE
      BY DEF NoneBefore, FreeRun
    <3>a. Where' = BITS * byte_index + BITS /\ bits' = bits /\ cnt' = cnt
      BY <1>1, <2>1 DEF FullByte, Where
    <3>b. i \in 0..(BITS * byte_index + BITS - cnt) /\ FreeRun(i, cnt)
      <4>1. \A p \in i..(i + cnt - 1) : bits[p] = 0
        BY <3>a
      <4>2. FreeRun(i, cnt)
        BY <4>1, Zenon DEF FreeRun
      <4>3. i \in 0..(BITS * byte_index + BITS - cnt)
        BY <3>a, <2>1, <1>a DEF Where
      <4> QED
        BY <4>2, <4>3
    <3>1. CASE i \in 0..(BITS * byte_index - cnt)
      BY <3>1, <3>b, <1>1 DEF FullByte, ScanInv, NoneBefore, Where
    <3>2. CASE i > BITS * byte_index - cnt
      <4>1. /\ i + cnt - 1 \in i..(i + cnt - 1)
            /\ i + cnt - 1 \in (BITS * byte_index)..(BITS * byte_index + BITS - 1)
        BY <3>2, <3>b, <1>a, <2>1
      <4> QED
        BY <4>1, <3>b, <2>2 DEF FreeRun
    <3> QED
      BY <3>1, <3>2, <3>b, <1>a, <2>1
  <2> QED
    BY <2>3, <2>4, <2>5, <1>1 DEF FullByte, ScanInv, FirstFit
<1>2. CASE OpenByte
  <2>1. Where' = Where
    BY <1>2, <1>a DEF OpenByte, Where, Position
  <2>2. ScanTypeOK'
    BY <1>2 DEF OpenByte, ScanInv, ScanTypeOK
  <2>3. LongestRun' /\ NoneBefore'
    <3>1. bits' = bits /\ cnt' = cnt /\ unused_cnt' = unused_cnt /\ pc # "done"
      BY <1>2 DEF OpenByte
    <3> QED
      BY <2>1, <3>1 DEF ScanInv, LongestRun, NoneBefore, FreeRun
  <2> QED
    BY <2>2, <2>3, <1>2 DEF OpenByte, ScanInv, FirstFit
<1>b. ASSUME pc = "bit", bits_index < BITS
      PROVE  /\ Position \in 0..(Size - 1)
             /\ Where = Position
             /\ Position \in Nat
             /\ BITS * byte_index + (bits_index + 1) = Position + 1
  BY <1>a, <1>b, InBitmap DEF ScanInv, Position, Where
<1>c. ASSUME pc = "bit", bits_index < BITS
      PROVE  /\ bits[Position] = 1 =>
                  \A i \in 0..(Position + 1 - cnt) : ~FreeRun(i, cnt)
             /\ bits[Position] = 0 /\ unused_cnt + 1 # cnt =>
                  /\ unused_cnt + 1 < cnt
                  /\ FreeRun(Position + 1 - (unused_cnt + 1), unused_cnt + 1)
                  /\ \A i \in 0..(Position + 1 - cnt) : ~FreeRun(i, cnt)
             /\ bits[Position] = 0 /\ unused_cnt + 1 = cnt =>
                  /\ Position - cnt + 1 \in 0..Position
                  /\ FreeRun(Position - cnt + 1, cnt)
                  /\ \A i \in 0..(Position - cnt) : ~FreeRun(i, cnt)
  <2>1. LongestRun /\ NoneBefore
    BY <1>c DEF ScanInv
  <2>2. /\ unused_cnt < cnt /\ unused_cnt <= Position
        /\ FreeRun(Position - unused_cnt, unused_cnt)
        /\ unused_cnt < Position => bits[Position - unused_cnt - 1] = 1
        /\ \A i \in 0..(Position - cnt) : ~FreeRun(i, cnt)
    BY <2>1, <1>c, <1>b DEF LongestRun, NoneBefore
  <2>3. Position \in Nat
    BY <1>c, <1>b
  <2> HIDE DEF Position
  <2> QED
    BY <2>2, <2>3, <1>a, NextBit
<1>3. CASE UsedBit
  <2>1. ScanTypeOK'
    BY <1>3 DEF UsedBit, ScanInv, ScanTypeOK
  <2>2. /\ Where' = Position + 1 /\ Position \in Nat
        /\ unused_cnt' = 0 /\ bits' = bits /\ cnt' = cnt
    BY <1>3, <1>b DEF UsedBit, Where, Position
  <2>3. LongestRun'
    <3>1. \A p \in (Where' - 0)..(Where' - 0 + 0 - 1) : FALSE
      BY <2>2
    <3>2. Where' - 0 - 1 = Position /\ bits[Position] = 1
      BY <2>2, <1>3 DEF UsedBit
    <3> QED
      BY <2>2, <3>1, <3>2, <1>a DEF LongestRun, FreeRun
  <2>4. NoneBefore'
    <3> SUFFICES ASSUME NEW i \in 0..(Where' - cnt'),
                        \A p \in i..(i + cnt' - 1) : bits'[p] = 0
                 PROVE  FALSE
      BY DEF NoneBefore, FreeRun
    <3>1. i \in 0..(Position + 1 - cnt) /\ FreeRun(i, cnt)
      <4>1. \A p \in i..(i + cnt - 1) : bits[p] = 0
        BY <2>2
      <4>2. FreeRun(i, cnt)
        BY <4>1, Zenon DEF FreeRun
      <4>3. i \in 0..(Position + 1 - cnt)
        BY <2>2, <1>a DEF Where
      <4> QED
        BY <4>2, <4>3
    <3> QED
      BY <3>1, <1>3, <1>c DEF UsedBit
  <2> QED
    BY <2>1, <2>3, <2>4, <1>3 DEF UsedBit, ScanInv, FirstFit
<1>4. CASE FreeBit /\ unused_cnt + 1 # cnt
  <2>1. ScanTypeOK'
    BY <1>4 DEF FreeBit, ScanInv, ScanTypeOK
  <2>2. /\ Where' = Position + 1 /\ Position \in Nat
        /\ unused_cnt' = unused_cnt + 1 /\ bits' = bits /\ cnt' = cnt
    BY <1>4, <1>b DEF FreeBit, Where, Position
  <2>3. LongestRun'
    <3>1. /\ unused_cnt <= Position
          /\ unused_cnt < Position => bits[Position - unused_cnt - 1] = 1
      BY <1>4, <1>b DEF FreeBit, ScanInv, LongestRun
    <3>2. Where' - unused_cnt' - 1 = Position - unused_cnt - 1
      BY <2>2, <1>a
    <3>3. /\ unused_cnt' < cnt'
          /\ \A p \in (Where' - unused_cnt')..(Where' - unused_cnt' + unused_cnt' - 1) : bits'[p] = 0
      BY <2>2, <1>4, <1>c DEF FreeBit, FreeRun
    <3>4. unused_cnt' <= Where' /\ (unused_cnt' < Where' => unused_cnt < Position)
      BY <2>2, <3>1, <1>a
    <3> QED
      BY <3>1, <3>2, <3>3, <3>4, <2>2 DEF LongestRun, FreeRun
  <2>4. NoneBefore'
    <3> SUFFICES ASSUME NEW i \in 0..(Where' - cnt'),
                        \A p \in i..(i + cnt' - 1) : bits'[p] = 0
                 PROVE  FALSE
      BY DEF NoneBefore, FreeRun
    <3>1. i \in 0..(Position + 1 - cnt) /\ FreeRun(i, cnt)
      <4>1. \A p \in i..(i + cnt - 1) : bits[p] = 0
        BY <2>2
      <4>2. FreeRun(i, cnt)
        BY <4>1, Zenon DEF FreeRun
      <4>3. i \in 0..(Position + 1 - cnt)
        BY <2>2, <1>a DEF Where
      <4> QED
        BY <4>2, <4>3
    <3> QED
      BY <3>1, <1>4, <1>c DEF FreeBit
  <2> QED
    BY <2>1, <2>3, <2>4, <1>4 DEF FreeBit, ScanInv, FirstFit
<1>5. CASE FreeBit /\ unused_cnt + 1 = cnt
  <2>0. /\ pc' = "done" /\ result' = Position - cnt + 1 /\ bits' = bits /\ cnt' = cnt
    BY <1>5 DEF FreeBit
  <2>1. ScanTypeOK'
    <3>1. Position - cnt + 1 \in Int
      BY <1>5, <1>b, <1>a DEF FreeBit
    <3> QED
      BY <3>1, <1>5 DEF FreeBit, ScanInv, ScanTypeOK
  <2>2. /\ Position - cnt + 1 \in 0..Position
        /\ FreeRun(Position - cnt + 1, cnt)
        /\ \A i \in 0..(Position - cnt) : ~FreeRun(i, cnt)
    BY <1>5, <1>c DEF FreeBit
  <2>3. result' \in 0..(Size - cnt) /\ result' - 1 = Position - cnt
    <3>1. Position \in 0..(Size - 1)
      BY <1>5, <1>b DEF FreeBit
    <3> QED
      BY <3>1, <2>0, <2>2, <1>a
  <2>4. FirstFit'
    BY <2>0, <2>2, <2>3 DEF FirstFit, FreeRun
  <2> QED
    BY <2>0, <2>1, <2>4 DEF ScanInv
<1>6. CASE NextByte
  <2>1. byte_index < btmp_bytes_len
    BY <1>6 DEF NextByte, ScanInv
  <2>2. Where' = Where
    <3>1. BITS * (byte_index + 1) = BITS * byte_index + BITS
      BY <1>a
    <3> QED
      BY <1>6, <3>1 DEF NextByte, Where, Position
  <2>3. ScanTypeOK'
    BY <1>6, <2>1 DEF NextByte, ScanInv, ScanTypeOK
  <2>4. LongestRun' /\ NoneBefore'
    <3>1. bits' = bits /\ cnt' = cnt /\ unused_cnt' = unused_cnt /\ pc # "done"
      BY <1>6 DEF NextByte
    <3> QED
      BY <2>2, <3>1 DEF ScanInv, LongestRun, NoneBefore, FreeRun
  <2> QED
    BY <2>3, <2>4, <1>6 DEF NextByte, ScanInv, FirstFit
<1>7. CASE NotFound
  <2>1. Where = Size
    <3>1. byte_index = btmp_bytes_len
      BY <1>7 DEF NotFound, ScanInv, ScanTypeOK
    <3> QED
      BY <3>1, <1>7 DEF NotFound, Where, Size
  <2>2. ScanTypeOK'
    BY <1>7 DEF NotFound, ScanInv, ScanTypeOK
  <2>3. FirstFit'
    BY <1>7, <2>1 DEF NotFound, ScanInv, NoneBefore, FirstFit, FreeRun
  <2> QED
    BY <2>2, <2>3, <1>7 DEF NotFound, ScanInv
<1>8. CASE UNCHANGED scanVars
  BY <1>8 DEF scanVars, ScanInv, ScanTypeOK, LongestRun, NoneBefore, FirstFit,
             FreeRun, Where, Position
<1> QED
  BY <1>1, <1>2, <1>3, <1>4, <1>5, <1>6, <1>7, <1>8 DEF ScanNext

(* The invariant of the two loops of bitmap_scan. *)
THEOREM ScanInvariance == ScanSpec => []ScanInv
<1>1. ScanInit => ScanInv
  <2> SUFFICES ASSUME ScanInit PROVE ScanInv
    OBVIOUS
  <2> USE BitsAssumption, LengthAssumption, RequestsAssumption
  <2>1. ScanTypeOK
    BY DEF ScanInit, ScanTypeOK
  <2>2. Where = 0 /\ cnt \in Nat \ {0} /\ unused_cnt = 0
    BY DEF ScanInit, Where
  <2>3. LongestRun
    BY <2>2 DEF LongestRun, FreeRun
  <2>4. NoneBefore
    BY <2>2 DEF NoneBefore
  <2> QED
    BY <2>1, <2>3, <2>4 DEF ScanInit, ScanInv, FirstFit
<1> QED
  BY <1>1, ScanStep, PTL DEF ScanSpec

(* bitmap_scan returns the first run of free bits that is long enough, and *)
(* -1 only if there is none: for every bitmap and every request.           *)
THEOREM ScanFirstFit == ScanSpec => []FirstFit
<1>1. ScanInv => FirstFit
  BY DEF ScanInv
<1> QED
  BY <1>1, ScanInvariance, PTL

(* The indices of the two loops stay inside the bitmap, for every bitmap  *)
(* and every request.                                                      *)
THEOREM ScanTypes == ScanSpec => []ScanTypeOK
<1>1. ScanInv => ScanTypeOK
  BY DEF ScanInv
<1> QED
  BY <1>1, ScanInvariance, PTL
=============================================================================
