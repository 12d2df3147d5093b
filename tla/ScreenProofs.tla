---------------------------- MODULE ScreenProofs ----------------------------
(***************************************************************************)
(* console.c and print.S implement the terminal, for any number of         *)
(* threads, any size of the screen and any texts.                          *)
(*                                                                         *)
(* The argument is that the thread that has the console lock is alone past *)
(* console_acquire: what it has read from the cursor ports stays true, and *)
(* what it has drawn but not written back is the cursor nobody else reads. *)
(***************************************************************************)
EXTENDS Screen, SyncProofs

Chars == {CHAR, LF, BS}

(* Where put_char reads the cursor, and where it writes it back. *)
Reading == {"read_high", "in_high", "read_low", "in_low", "draw"}
Writing == {"set_cursor", "out_high", "set_low", "out_low"}
Places  == Reading \cup Writing \cup {"idle", "roll", "done", "release"}

(* t makes no call, or waits in console_acquire, or gives the lock back. *)
Outside(t) ==
  /\ depth[t][console_lock] = 0
  /\ \/ ip[t] = "idle" /\ pc[t] \in ReleasePC \cup {"run"}
     \/ /\ ip[t] = Goon(text[t])
        /\ pc[t] \in AcquirePC /\ plock[t] = console_lock

(* t prints: what it still has to print fits its place, and the ports and  *)
(* its register agree about the cursor.                                    *)
Inside(t) ==
  /\ depth[t][console_lock] = 1 /\ pc[t] = "run"
  /\ ip[t] \in Places \ {"idle"}
  /\ ip[t] \in Reading => text[t] # << >>
  /\ ip[t] = "release" => text[t] = << >>
  /\ ip[t] \in {"in_high", "out_high"} => index = HIGH
  /\ ip[t] \in {"in_low", "out_low"} => index = LOW
  /\ ip[t] \in {"read_low", "in_low"} => bx[t] = high * BYTE
  /\ ip[t] = "draw" => bx[t] = high * BYTE + low
  /\ ip[t] \in Writing => bx[t] \in Cells
  /\ ip[t] \in {"set_low", "out_low"} => high = bx[t] \div BYTE

ScreenTypes ==
  /\ vram = [p \in Cells |-> vram[p]]
  /\ high \in Nat /\ low \in Nat
  /\ ip \in [Clients -> Places]
  /\ text \in [Clients -> Seq(Chars)]
  /\ bx \in [Clients -> Nat]

(* The ports hold a cell of the screen, unless put_char is about to write  *)
(* one there.                                                              *)
CursorOnScreen == Drawn = {} => high * BYTE + low \in Cells

(* The console while the kernel runs. *)
ConsoleInv ==
  /\ ScreenTypes
  /\ CursorOnScreen
  /\ \A t \in Clients : Outside(t) \/ Inside(t)

KernelInv == SyncInv /\ ConsoleInv

(* A kernel that has halted stays as it is. *)
ScreenInv == ~panicked => KernelInv

-----------------------------------------------------------------------------
(* Who prints, and what the screen shows. *)

(* What ScreenAssumption says of the sizes, in the form the proofs use. *)
LEMMA Constants ==
  /\ console_lock \in Locks
  /\ ROWS \in Nat /\ ROWS > 1 /\ COLUMNS \in Nat /\ COLUMNS > 1
  /\ BYTE \in Nat /\ BYTE > 0 /\ VIDEO_BYTES \in Nat
  /\ CELLS \in Nat /\ CELLS = ROWS * COLUMNS /\ CELLS > 0
  /\ Texts \subseteq Seq(Chars)
BY ScreenAssumption DEF CELLS, Chars

(* The one thread past console_acquire has all the others outside. *)
LEMMA Alone ==
  ASSUME KernelInv, NEW t \in Clients, depth[t][console_lock] > 0
  PROVE  Inside(t) /\ \A u \in Clients : u # t => Outside(u)
<1>1. OneOwner /\ \A u \in Clients : u \in Threads
  BY DEF KernelInv, SyncInv, LockInv, Clients
<1>2. Inside(t)
  BY DEF KernelInv, ConsoleInv, Outside
<1>3. ASSUME NEW u \in Clients, u # t PROVE Outside(u)
  <2> SUFFICES ASSUME Inside(u) PROVE FALSE
    BY DEF KernelInv, ConsoleInv
  <2>1. Owns(t, console_lock) /\ Owns(u, console_lock)
    BY DEF Owns, Inside
  <2> QED BY <1>1, <1>3, <2>1, Constants DEF OneOwner
<1> QED BY <1>2, <1>3

(* A thread in put_char or at console_release has the lock. *)
LEMMA FromInside ==
  ASSUME KernelInv, NEW label, label # "idle", From(label)
  PROVE  /\ cur \in Clients /\ cur \in Threads /\ ip[cur] = label
         /\ Inside(cur) /\ \A u \in Clients : u # cur => Outside(u)
<1>1. cur \in Clients /\ pc[cur] = "run" /\ ip[cur] = label
  BY DEF From, At
<1>2. Inside(cur)
  BY <1>1 DEF KernelInv, ConsoleInv, Outside, AcquirePC
<1>3. depth[cur][console_lock] > 0
  BY <1>2 DEF Inside
<1> QED BY <1>1, <1>2, <1>3, Alone DEF Clients

(* The screen as t, which has the console, leaves it: the cursor is in its *)
(* register until the ports have it, and a line that must scroll has       *)
(* scrolled.                                                               *)
ShownBy(t) ==
  /\ owner = t /\ todo = text[t]
  /\ ip[t] = "roll" => cursor = CELLS - COLUMNS /\ screen = Rolled
  /\ ip[t] # "roll" => screen = vram
  /\ ip[t] \in Writing => cursor = bx[t]
  /\ ip[t] \notin Writing \cup {"roll"} =>
       cursor = high * BYTE + low /\ cursor \in Cells

(* The mapping to the terminal, while somebody has the console. *)
LEMMA Shows == KernelInv => \A t \in Clients : depth[t][console_lock] > 0 => ShownBy(t)
<1> SUFFICES ASSUME KernelInv, NEW t \in Clients, depth[t][console_lock] > 0
             PROVE  ShownBy(t)
  OBVIOUS
<1> USE DEF ShownBy
<1>1. Inside(t) /\ \A u \in Clients : u # t => Outside(u)
  BY Alone
<1>2. \A u \in Clients : u # t => depth[u][console_lock] = 0 /\ ip[u] \notin Writing \cup {"roll"}
  BY <1>1 DEF Outside, Goon, Writing
<1>3. Owners = {t}
  BY <1>2 DEF Owners
<1>4. owner = t
  BY <1>3 DEF owner
<1>5. todo = text[t]
  BY <1>4, NullAssumption DEF todo, Clients
<1>6. Rolling = IF ip[t] = "roll" THEN {t} ELSE {}
  BY <1>2 DEF Rolling
<1>7. Drawn = IF ip[t] \in Writing \cup {"roll"} THEN {t} ELSE {}
  BY <1>2 DEF Drawn, Writing
<1>8. CASE ip[t] = "roll"
  BY <1>4, <1>5, <1>6, <1>8 DEF cursor, screen, Writing
<1>9. CASE ip[t] \in Writing
  <2>1. Rolling = {} /\ Drawn = {t} /\ ip[t] # "roll"
    BY <1>6, <1>7, <1>9 DEF Writing
  <2> QED BY <1>4, <1>5, <1>9, <2>1 DEF cursor, screen
<1>10. CASE ip[t] \notin Writing \cup {"roll"}
  <2>1. Rolling = {} /\ Drawn = {} /\ ip[t] # "roll"
    BY <1>6, <1>7, <1>10
  <2> QED BY <1>4, <1>5, <1>10, <2>1 DEF cursor, screen, KernelInv, ConsoleInv, CursorOnScreen
<1> QED BY <1>8, <1>9, <1>10

(* The screen while nobody prints. *)
LEMMA ShowsNobody ==
  KernelInv /\ (\A t \in Clients : depth[t][console_lock] = 0) =>
    /\ owner = NULL /\ todo = << >> /\ screen = vram
    /\ cursor = high * BYTE + low /\ cursor \in Cells
<1> SUFFICES ASSUME KernelInv, \A t \in Clients : depth[t][console_lock] = 0
             PROVE  /\ owner = NULL /\ todo = << >> /\ screen = vram
                    /\ cursor = high * BYTE + low /\ cursor \in Cells
  OBVIOUS
<1>1. \A u \in Clients : ip[u] \notin Writing \cup {"roll"}
  BY DEF KernelInv, ConsoleInv, Outside, Inside, Goon, Writing
<1>2. Owners = {} /\ Rolling = {} /\ Drawn = {}
  BY <1>1 DEF Owners, Rolling, Drawn, Writing
<1> QED BY <1>2 DEF owner, todo, screen, cursor, KernelInv, ConsoleInv, CursorOnScreen

-----------------------------------------------------------------------------
(* Cells and their lines and columns. *)

(* Line r and column c make a cell, and the cell has them again. *)
LEMMA PlaceCell ==
  ASSUME NEW r \in 0..(ROWS - 1), NEW c \in 0..(COLUMNS - 1)
  PROVE  /\ r * COLUMNS + c \in Cells
         /\ (r * COLUMNS + c) \div COLUMNS = r
         /\ (r * COLUMNS + c) % COLUMNS = c
         /\ r + 1 < ROWS <=> r * COLUMNS + c + COLUMNS < CELLS
<1>1. /\ ROWS \in Nat /\ COLUMNS \in Nat /\ ROWS > 1 /\ COLUMNS > 1
      /\ CELLS = ROWS * COLUMNS /\ CELLS \in Nat
  BY Constants
<1>2. r \in Nat /\ c \in Nat /\ c < COLUMNS /\ r <= ROWS - 1
  BY <1>1
<1>3. (r + 1) * COLUMNS <= ROWS * COLUMNS
  BY <1>1, <1>2
<1>4. (r + 1) * COLUMNS = r * COLUMNS + COLUMNS
  BY <1>1, <1>2
<1>5. r * COLUMNS \in Nat
  BY <1>1, <1>2
<1>6. r * COLUMNS + c < CELLS /\ r * COLUMNS + c \in Nat
  BY <1>1, <1>2, <1>3, <1>4, <1>5
<1>7. r + 1 < ROWS => (r + 1) * COLUMNS + COLUMNS <= ROWS * COLUMNS
  <2> SUFFICES ASSUME r + 1 < ROWS PROVE (r + 1) * COLUMNS + COLUMNS <= ROWS * COLUMNS
    OBVIOUS
  <2>1. r + 2 <= ROWS
    BY <1>1, <1>2
  <2>2. (r + 2) * COLUMNS <= ROWS * COLUMNS
    BY <1>1, <1>2, <2>1
  <2>3. (r + 2) * COLUMNS = (r + 1) * COLUMNS + COLUMNS
    BY <1>1, <1>2
  <2> QED BY <2>2, <2>3
<1>8. r + 1 < ROWS => r * COLUMNS + c + COLUMNS < CELLS
  BY <1>1, <1>2, <1>4, <1>5, <1>7
<1>9. ~(r + 1 < ROWS) => ~(r * COLUMNS + c + COLUMNS < CELLS)
  <2> SUFFICES ASSUME ~(r + 1 < ROWS) PROVE ~(r * COLUMNS + c + COLUMNS < CELLS)
    OBVIOUS
  <2>1. r + 1 = ROWS
    BY <1>1, <1>2
  <2>2. r * COLUMNS + COLUMNS = CELLS
    BY <1>1, <1>4, <2>1
  <2> QED BY <1>1, <1>2, <1>5, <2>2
<1>10. (r * COLUMNS + c) \div COLUMNS = r /\ (r * COLUMNS + c) % COLUMNS = c
  BY <1>1, <1>2
<1>11. r * COLUMNS + c \in Cells
  BY <1>1, <1>6 DEF Cells
<1> QED BY <1>8, <1>9, <1>10, <1>11

(* Every cell has a line and a column of the screen. *)
LEMMA CellPlace ==
  ASSUME NEW q \in Cells
  PROVE  /\ q \in Nat /\ q < CELLS
         /\ q \div COLUMNS \in 0..(ROWS - 1)
         /\ q % COLUMNS \in 0..(COLUMNS - 1)
         /\ (q \div COLUMNS) * COLUMNS + (q % COLUMNS) = q
<1>1. /\ ROWS \in Nat /\ COLUMNS \in Nat /\ ROWS > 1 /\ COLUMNS > 1
      /\ CELLS = ROWS * COLUMNS /\ CELLS \in Nat
      /\ q \in Nat /\ q < CELLS
  BY Constants DEF Cells
<1>2. PICK r \in Nat : r = q \div COLUMNS
  BY <1>1
<1>3. PICK c \in Nat : c = q % COLUMNS /\ c < COLUMNS
  BY <1>1
<1>4. r * COLUMNS + c = q
  BY <1>1, <1>2, <1>3
<1>5. r < ROWS
  <2> SUFFICES ASSUME r >= ROWS PROVE FALSE
    BY <1>1
  <2>1. r * COLUMNS >= ROWS * COLUMNS
    BY <1>1
  <2> QED BY <1>1, <1>4, <2>1
<1>6. r \in 0..(ROWS - 1) /\ c \in 0..(COLUMNS - 1)
  BY <1>1, <1>3, <1>5
<1> QED BY <1>1, <1>2, <1>3, <1>4, <1>6

(* A cell further on: in the same line, or at the start of the next one. *)
LEMMA NextPlace ==
  ASSUME NEW q \in Cells
  PROVE  /\ (q % COLUMNS) + 1 < COLUMNS =>
              /\ (q + 1) \div COLUMNS = q \div COLUMNS
              /\ (q + 1) % COLUMNS = (q % COLUMNS) + 1
              /\ q + 1 < CELLS
         /\ ~((q % COLUMNS) + 1 < COLUMNS) => q + 1 = LineFeed(q)
         /\ LineFeed(q) \in Nat
         /\ LineFeed(q) \div COLUMNS = (q \div COLUMNS) + 1
         /\ LineFeed(q) % COLUMNS = 0
         /\ LineFeed(q) < CELLS <=> (q \div COLUMNS) + 1 < ROWS
<1>1. /\ ROWS \in Nat /\ COLUMNS \in Nat /\ ROWS > 1 /\ COLUMNS > 1
      /\ CELLS = ROWS * COLUMNS /\ CELLS \in Nat
  BY Constants
<1>2. PICK r \in 0..(ROWS - 1) : r = q \div COLUMNS
  BY CellPlace
<1>3. PICK c \in 0..(COLUMNS - 1) : c = q % COLUMNS
  BY CellPlace
<1>4. q = r * COLUMNS + c /\ r * COLUMNS \in Nat /\ r \in Nat /\ c \in Nat
  <2>1. q = r * COLUMNS + c
    BY <1>2, <1>3, CellPlace
  <2>2. r \in Nat /\ c \in Nat
    BY <1>1
  <2>3. r * COLUMNS \in Nat
    BY <1>1, <2>2
  <2> QED BY <2>1, <2>2, <2>3
<1>5. LineFeed(q) = (r + 1) * COLUMNS /\ LineFeed(q) = r * COLUMNS + COLUMNS
  <2>1. LineFeed(q) = q - c + COLUMNS
    BY <1>3 DEF LineFeed
  <2>2. (r + 1) * COLUMNS = r * COLUMNS + COLUMNS
    BY <1>1, <1>4
  <2> QED BY <1>1, <1>4, <2>1, <2>2
<1>6. c + 1 < COLUMNS => /\ (q + 1) \div COLUMNS = r /\ (q + 1) % COLUMNS = c + 1
                         /\ q + 1 < CELLS
  <2> SUFFICES ASSUME c + 1 < COLUMNS
               PROVE  /\ (q + 1) \div COLUMNS = r /\ (q + 1) % COLUMNS = c + 1
                      /\ q + 1 < CELLS
    OBVIOUS
  <2>1. PICK d \in 0..(COLUMNS - 1) : d = c + 1
    BY <1>1
  <2>2. q + 1 = r * COLUMNS + d
    BY <1>1, <1>4, <2>1
  <2>3. r * COLUMNS + d \in Cells
    BY PlaceCell
  <2> QED BY <1>1, <2>1, <2>2, <2>3, PlaceCell DEF Cells
<1>7. ~(c + 1 < COLUMNS) => q + 1 = LineFeed(q)
  BY <1>1, <1>4, <1>5
<1>8. LineFeed(q) \div COLUMNS = r + 1 /\ LineFeed(q) % COLUMNS = 0 /\ LineFeed(q) \in Nat
  BY <1>1, <1>4, <1>5
<1>9. LineFeed(q) < CELLS <=> r + 1 < ROWS
  <2>1. 0 \in 0..(COLUMNS - 1)
    BY <1>1
  <2>2. r + 1 < ROWS <=> r * COLUMNS + 0 + COLUMNS < CELLS
    BY <2>1, PlaceCell
  <2> QED BY <1>1, <1>4, <1>5, <2>2
<1> QED BY <1>2, <1>3, <1>6, <1>7, <1>8, <1>9

(* The last line. *)
LEMMA LastLine ==
  /\ CELLS - COLUMNS \in Cells
  /\ (CELLS - COLUMNS) \div COLUMNS = ROWS - 1
  /\ (CELLS - COLUMNS) % COLUMNS = 0
<1>1. /\ ROWS \in Nat /\ COLUMNS \in Nat /\ ROWS > 1 /\ COLUMNS > 1
      /\ CELLS = ROWS * COLUMNS
  BY Constants
<1>2. (ROWS - 1) * COLUMNS = CELLS - COLUMNS
  BY <1>1
<1>3. PICK r \in 0..(ROWS - 1) : r = ROWS - 1
  BY <1>1
<1>4. PICK c \in 0..(COLUMNS - 1) : c = 0
  BY <1>1
<1>5. r * COLUMNS + c = CELLS - COLUMNS
  BY <1>1, <1>2, <1>3, <1>4
<1> QED BY <1>3, <1>4, <1>5, PlaceCell

-----------------------------------------------------------------------------
(* Steps that leave the screen alone. *)

mapped == <<grid, row, col, owner, todo, panicked>>

(* The boot messages leave an empty terminal with a cursor somewhere. *)
LEMMA ScreenInitInv == ScreenInit => KernelInv /\ T!Init
<1> SUFFICES ASSUME ScreenInit PROVE KernelInv /\ T!Init
  OBVIOUS
<1>1. SyncInv
  BY SyncInitInv DEF ScreenInit
<1>2. PICK p \in Cells : high = p \div BYTE /\ low = p % BYTE
  BY DEF ScreenInit
<1>3. p \in Nat /\ high \in Nat /\ low \in Nat /\ high * BYTE + low = p
  BY <1>2, Constants DEF Cells
<1>4. \A t \in Clients : Outside(t) /\ depth[t][console_lock] = 0
  BY Constants DEF ScreenInit, SyncInit, Outside, Clients
<1>5. ScreenTypes
  <2>1. << >> \in Seq(Chars)
    OBVIOUS
  <2> QED BY <1>3, <2>1 DEF ScreenInit, ScreenTypes, Places
<1>6. KernelInv
  BY <1>1, <1>3, <1>4, <1>5 DEF KernelInv, ConsoleInv, CursorOnScreen
<1>7. owner = NULL /\ todo = << >> /\ screen = vram /\ cursor \in Cells
  BY <1>4, <1>6, ShowsNobody
<1>8. row \in 0..(ROWS - 1) /\ col \in 0..(COLUMNS - 1)
  BY <1>7, CellPlace DEF row, col
<1>9. grid = [r \in 0..(ROWS - 1) |-> T!EmptyLine]
  <2>1. \A r \in 0..(ROWS - 1) : \A c \in 0..(COLUMNS - 1) : screen[r * COLUMNS + c] = BLANK
    BY <1>7, PlaceCell DEF ScreenInit
  <2> QED BY <2>1 DEF grid, T!EmptyLine
<1>10. panicked = FALSE
  BY DEF ScreenInit, SyncInit, Init
<1> QED BY <1>6, <1>7, <1>8, <1>9, <1>10 DEF T!Init

(* What the terminal shows depends on these variables only. *)
LEMMA SameScreen == UNCHANGED <<depth, panicked, vram, high, low, ip, text, bx>> => UNCHANGED mapped
<1> SUFFICES ASSUME UNCHANGED <<depth, panicked, vram, high, low, ip, text, bx>>
             PROVE  UNCHANGED mapped
  OBVIOUS
<1>1. Drawn' = Drawn /\ Rolling' = Rolling /\ Owners' = Owners
  BY DEF Drawn, Rolling, Owners
<1>2. cursor' = cursor /\ screen' = screen /\ owner' = owner
  BY <1>1 DEF cursor, screen, Rolled, owner
<1> QED BY <1>2 DEF mapped, grid, row, col, todo

(* What main() does, and a switch of threads, is not seen. *)
LEMMA FrameStep ==
  ASSUME KernelInv, SyncInv', UNCHANGED <<syncVars, screenVars, panicked>>
  PROVE  KernelInv' /\ UNCHANGED mapped
<1>1. /\ UNCHANGED <<pc, plock, depth, vram, index, high, low, ip, text, bx>>
  BY DEF syncVars, callVars, screenVars, deviceVars, printVars
<1>2. ConsoleInv'
  BY <1>1 DEF KernelInv, ConsoleInv, ScreenTypes, CursorOnScreen, Drawn, Outside, Inside, Goon
<1> QED BY <1>1, <1>2, SameScreen DEF KernelInv

(* The locks keep every ASSERT, so only the screen can halt the kernel. *)
LEMMA NotPanicked == SyncInv => panicked = FALSE
BY DEF SyncInv, ThreadInv, NoPanic, TypeOK

(* A halted kernel makes no step. *)
LEMMA Halted == panicked => ~ScreenNext
BY DEF ScreenNext, PrintStep, Select, ReadHigh, ReadLow, PutOther, PutLineFeed, PutBackspace,
       RollScreen, Write, PutCharDone, ConsoleRelease, ConsolePut, ScreenCall, ScreenPreempt,
       From, At, CallStep, AcquireAgain, SemaDown, SemaUp, IntrDisable, SemaDownBlock,
       SemaDownTake, SetHolder, SetRepeat, ReleaseOnce, ClearHolder, ClearRepeat, SemaUpWake,
       SemaUpReturn, Preempt, TimerTick, MainStart, ThreadStart, OwnIntr

-----------------------------------------------------------------------------
(* The video memory as lines of glyphs. *)

GridOf(s) == [r \in 0..(ROWS - 1) |-> [c \in 0..(COLUMNS - 1) |-> s[r * COLUMNS + c]]]

(* One cell of the memory is one place of the grid. *)
LEMMA GridPut ==
  ASSUME NEW s, s = [p \in Cells |-> s[p]], NEW q \in Cells, NEW g
  PROVE  GridOf([s EXCEPT ![q] = g]) =
           [GridOf(s) EXCEPT ![q \div COLUMNS][q % COLUMNS] = g]
<1>1. PICK a \in 0..(ROWS - 1) : a = q \div COLUMNS
  BY CellPlace
<1>2. PICK b \in 0..(COLUMNS - 1) : b = q % COLUMNS
  BY CellPlace
<1>3. q = a * COLUMNS + b
  BY <1>1, <1>2, CellPlace
<1>4. PICK w : w = [s EXCEPT ![q] = g]
  OBVIOUS
<1>5. ASSUME NEW r \in 0..(ROWS - 1), NEW c \in 0..(COLUMNS - 1)
      PROVE  w[r * COLUMNS + c] = IF r = a /\ c = b THEN g ELSE s[r * COLUMNS + c]
  <2>1. PICK p \in Cells : p = r * COLUMNS + c
    BY PlaceCell
  <2>2. p = q <=> r = a /\ c = b
    BY <1>1, <1>2, <1>3, <2>1, PlaceCell
  <2>3. w[p] = IF p = q THEN g ELSE s[p]
    BY <1>4
  <2> QED BY <2>1, <2>2, <2>3
<1>6. GridOf(w) = [GridOf(s) EXCEPT ![a][b] = g]
  <2>1. PICK old : old = GridOf(s)
    OBVIOUS
  <2>2. PICK new : new = [old EXCEPT ![a][b] = g]
    OBVIOUS
  <2>3. ASSUME NEW r \in 0..(ROWS - 1) PROVE GridOf(w)[r] = new[r]
    <3>1. old[r] = [c \in 0..(COLUMNS - 1) |-> s[r * COLUMNS + c]]
      BY <2>1 DEF GridOf
    <3>2. GridOf(w)[r] = [c \in 0..(COLUMNS - 1) |-> w[r * COLUMNS + c]]
      BY DEF GridOf
    <3>3. new[r] = IF r = a THEN [old[r] EXCEPT ![b] = g] ELSE old[r]
      BY <2>1, <2>2 DEF GridOf
    <3>4. CASE r = a
      <4>1. new[r] = [c \in 0..(COLUMNS - 1) |-> IF c = b THEN g ELSE s[r * COLUMNS + c]]
        BY <3>1, <3>3, <3>4
      <4>2. \A c \in 0..(COLUMNS - 1) : w[r * COLUMNS + c] = IF c = b THEN g ELSE s[r * COLUMNS + c]
        BY <1>5, <3>4
      <4> QED BY <3>2, <4>1, <4>2
    <3>5. CASE r # a
      <4>1. \A c \in 0..(COLUMNS - 1) : w[r * COLUMNS + c] = s[r * COLUMNS + c]
        BY <1>5, <3>5
      <4> QED BY <3>1, <3>2, <3>3, <3>5, <4>1
    <3> QED BY <3>4, <3>5
  <2>4. new = [r \in 0..(ROWS - 1) |-> new[r]]
    BY <2>1, <2>2 DEF GridOf
  <2> QED BY <2>1, <2>2, <2>3, <2>4 DEF GridOf
<1> QED BY <1>1, <1>2, <1>4, <1>6

(* Moving every cell back by the length of a line moves every line up. *)
LEMMA GridRoll ==
  ASSUME NEW s
  PROVE  GridOf([p \in Cells |-> IF p + COLUMNS < CELLS THEN s[p + COLUMNS] ELSE BLANK]) =
           [r \in 0..(ROWS - 1) |-> IF r + 1 < ROWS THEN GridOf(s)[r + 1] ELSE T!EmptyLine]
<1>0. ROWS \in Nat /\ COLUMNS \in Nat /\ CELLS \in Nat /\ CELLS = ROWS * COLUMNS
  BY Constants
<1>1. PICK w : w = [p \in Cells |-> IF p + COLUMNS < CELLS THEN s[p + COLUMNS] ELSE BLANK]
  OBVIOUS
<1>2. ASSUME NEW r \in 0..(ROWS - 1), NEW c \in 0..(COLUMNS - 1)
      PROVE  w[r * COLUMNS + c] = IF r + 1 < ROWS THEN s[(r + 1) * COLUMNS + c] ELSE BLANK
  <2>1. PICK p \in Cells : p = r * COLUMNS + c
    BY PlaceCell
  <2>2. p + COLUMNS < CELLS <=> r + 1 < ROWS
    BY <2>1, PlaceCell
  <2>3. p + COLUMNS = (r + 1) * COLUMNS + c
    <3>1. (r + 1) * COLUMNS = r * COLUMNS + COLUMNS /\ r * COLUMNS \in Nat
      BY <1>0
    <3> QED BY <1>0, <2>1, <3>1
  <2>4. w[p] = IF p + COLUMNS < CELLS THEN s[p + COLUMNS] ELSE BLANK
    BY <1>1
  <2> QED BY <2>1, <2>2, <2>3, <2>4
<1>3. ASSUME NEW r \in 0..(ROWS - 1)
      PROVE  GridOf(w)[r] = IF r + 1 < ROWS THEN GridOf(s)[r + 1] ELSE T!EmptyLine
  <2>1. CASE r + 1 < ROWS
    <3>1. r + 1 \in 0..(ROWS - 1)
      BY <1>0, <2>1
    <3> QED BY <1>2, <2>1, <3>1 DEF GridOf
  <2>2. CASE ~(r + 1 < ROWS)
    BY <1>2, <2>2 DEF GridOf, T!EmptyLine
  <2> QED BY <2>1, <2>2
<1>4. GridOf(w) = [r \in 0..(ROWS - 1) |-> IF r + 1 < ROWS THEN GridOf(s)[r + 1] ELSE T!EmptyLine]
  BY <1>3 DEF GridOf
<1> QED BY <1>1, <1>4

-----------------------------------------------------------------------------
(* The steps of put_char. *)

(* The printing thread moves on in put_char. *)
LEMMA PrintFrame ==
  ASSUME KernelInv, NEW label, label # "idle", From(label), UNCHANGED allVars,
         NEW x \in Places \ {"idle"}, ip' = [ip EXCEPT ![cur] = x],
         \A u \in Clients : u # cur => text'[u] = text[u],
         ScreenTypes', Inside(cur)',
         x \notin Writing \cup {"roll"} => high' * BYTE + low' \in Cells
  PROVE  KernelInv' /\ ShownBy(cur) /\ ShownBy(cur)' /\ ip'[cur] = x /\ cur' = cur
<1>1. /\ cur \in Clients /\ cur \in Threads /\ ip[cur] = label
      /\ Inside(cur) /\ \A u \in Clients : u # cur => Outside(u)
  BY FromInside
<1>2. /\ UNCHANGED <<cur, pc, plock, depth>> /\ UNCHANGED <<vars, syncVars>>
  BY DEF allVars, vars, syncVars, callVars
<1>3. SyncInv'
  <2>1. [SyncNext]_allVars
    OBVIOUS
  <2> QED BY <2>1, SyncStep DEF KernelInv
<1>4. ip'[cur] = x /\ \A u \in Clients : u # cur => ip'[u] = ip[u]
  BY <1>1 DEF KernelInv, ConsoleInv, ScreenTypes
<1>5. \A u \in Clients : u # cur => Outside(u)'
  BY <1>1, <1>2, <1>4 DEF Outside, Goon
<1>6. CursorOnScreen'
  BY <1>1, <1>4 DEF CursorOnScreen, Drawn, Writing
<1>7. ConsoleInv'
  <2>1. \A t \in Clients : (Outside(t) \/ Inside(t))'
    <3> SUFFICES ASSUME NEW t \in Clients PROVE Outside(t)' \/ Inside(t)'
      OBVIOUS
    <3>1. CASE t = cur
      <4>1. t = cur'
        BY <1>2, <3>1
      <4> QED BY <4>1 DEF Inside
    <3> QED BY <1>5, <3>1
  <2> QED BY <1>6, <2>1 DEF ConsoleInv
<1>8. KernelInv'
  BY <1>3, <1>7 DEF KernelInv
<1>9. ShownBy(cur)
  BY <1>1, Shows DEF Inside
<1>10. (KernelInv => \A t \in Clients : depth[t][console_lock] > 0 => ShownBy(t))'
  BY Shows, PTL
<1>11. ShownBy(cur)'
  <2>1. cur' \in Clients /\ depth'[cur'][console_lock] > 0
    BY <1>1, <1>2 DEF Inside
  <2> QED BY <1>8, <1>10, <2>1 DEF ShownBy
<1> QED BY <1>2, <1>4, <1>8, <1>9, <1>11

(* The steps that only move the cursor between ports and registers. *)
LEMMA QuietPrint ==
  ASSUME KernelInv, NEW label, label # "idle", From(label), UNCHANGED allVars,
         NEW x \in Places \ {"idle"}, ip' = [ip EXCEPT ![cur] = x],
         UNCHANGED text, ScreenTypes', Inside(cur)',
         x \notin Writing \cup {"roll"} => high' * BYTE + low' \in Cells,
         ShownBy(cur) /\ ShownBy(cur)' => cursor' = cursor /\ screen' = screen
  PROVE  KernelInv' /\ UNCHANGED mapped
<1>1. KernelInv' /\ ShownBy(cur) /\ ShownBy(cur)' /\ cur' = cur
  BY PrintFrame
<1>2. cursor' = cursor /\ screen' = screen
  BY <1>1
<1>3. grid' = grid /\ row' = row /\ col' = col
  BY <1>2 DEF grid, row, col
<1>4. owner' = owner /\ todo' = todo
  BY <1>1 DEF ShownBy
<1>5. UNCHANGED panicked
  BY DEF allVars, vars
<1> QED BY <1>1, <1>3, <1>4, <1>5 DEF mapped

(* out 0x3d4: the index is where the access that follows wants it. *)
LEMMA SelectStep ==
  ASSUME KernelInv, NEW from, NEW reg, NEW to,
         <<from, reg, to>> \in {<<"read_high", HIGH, "in_high">>, <<"read_low", LOW, "in_low">>,
                                <<"set_cursor", HIGH, "out_high">>, <<"set_low", LOW, "out_low">>},
         Select(from, reg, to)
  PROVE  KernelInv' /\ UNCHANGED mapped
<1>0. /\ from # "idle" /\ from # "roll" /\ to # "roll" /\ to \in Places \ {"idle"}
      /\ from \in Writing <=> to \in Writing
      /\ from \in Reading <=> to \in Reading
  BY DEF Writing, Reading, Places
<1>1. /\ From(from) /\ ip' = [ip EXCEPT ![cur] = to] /\ index' = reg
      /\ UNCHANGED <<allVars, vram, high, low, text, bx>>
  BY DEF Select, To
<1>2. /\ cur \in Clients /\ cur \in Threads /\ ip[cur] = from /\ Inside(cur)
  BY <1>0, <1>1, FromInside
<1>3. UNCHANGED <<cur, pc, depth>>
  BY <1>1 DEF allVars, vars, syncVars, callVars
<1>4. ScreenTypes /\ ScreenTypes' /\ ip'[cur] = to
  BY <1>0, <1>1, <1>2 DEF KernelInv, ConsoleInv, ScreenTypes
<1>5. Inside(cur)'
  BY <1>0, <1>1, <1>2, <1>3, <1>4 DEF Inside, HIGH, LOW, Reading, Writing
<1>6. to \notin Writing \cup {"roll"} => high' * BYTE + low' \in Cells
  <2>1. ShownBy(cur)
    BY <1>2, Shows DEF Inside
  <2> QED BY <1>0, <1>1, <1>2, <2>1 DEF ShownBy
<1>7. ShownBy(cur) /\ ShownBy(cur)' => cursor' = cursor /\ screen' = screen
  BY <1>0, <1>1, <1>2, <1>3, <1>4 DEF ShownBy
<1> QED BY <1>0, <1>1, <1>4, <1>5, <1>6, <1>7, QuietPrint

(* in 0x3d5 reads what nobody has changed since the index was selected. *)
LEMMA ReadStep == ASSUME KernelInv, ReadHigh \/ ReadLow PROVE KernelInv' /\ UNCHANGED mapped
<1>1. PICK from \in {"in_high", "in_low"} :
        /\ From(from)
        /\ ip' = [ip EXCEPT ![cur] = IF from = "in_high" THEN "read_low" ELSE "draw"]
        /\ bx' = [bx EXCEPT ![cur] = IF from = "in_high" THEN Data * BYTE ELSE bx[cur] + Data]
        /\ UNCHANGED <<allVars, vram, index, high, low, text>>
  BY DEF ReadHigh, ReadLow, To, SetBx, deviceVars
<1>2. PICK to \in {"read_low", "draw"} : to = IF from = "in_high" THEN "read_low" ELSE "draw"
  OBVIOUS
<1>3. /\ from # "idle" /\ to \in Places \ {"idle"} /\ to \in Reading
      /\ to \notin Writing \cup {"roll"} /\ from \notin Writing \cup {"roll"}
      /\ from \in Reading
  BY DEF Writing, Reading, Places
<1>4. /\ cur \in Clients /\ cur \in Threads /\ ip[cur] = from /\ Inside(cur)
  BY <1>1, <1>3, FromInside
<1>5. UNCHANGED <<cur, pc, depth>>
  BY <1>1 DEF allVars, vars, syncVars, callVars
<1>6. high \in Nat /\ low \in Nat /\ BYTE \in Nat /\ high * BYTE \in Nat /\ bx \in [Clients -> Nat]
  BY Constants DEF KernelInv, ConsoleInv, ScreenTypes
<1>7. /\ from = "in_high" => bx' = [bx EXCEPT ![cur] = high * BYTE]
      /\ from = "in_low" => bx' = [bx EXCEPT ![cur] = high * BYTE + low]
  <2>1. /\ from = "in_high" => Data = high
        /\ from = "in_low" => Data = low /\ bx[cur] = high * BYTE
    BY <1>4 DEF Inside, Data, HIGH, LOW
  <2>2. CASE from = "in_high"
    BY <1>1, <2>1, <2>2
  <2>3. CASE from = "in_low"
    BY <1>1, <2>1, <2>3
  <2> QED BY <2>2, <2>3
<1>8. /\ bx' \in [Clients -> Nat]
      /\ from = "in_high" => bx'[cur] = high * BYTE
      /\ from = "in_low" => bx'[cur] = high * BYTE + low
  BY <1>4, <1>6, <1>7
<1>9. ScreenTypes' /\ ip'[cur] = to
  BY <1>1, <1>2, <1>3, <1>4, <1>8 DEF KernelInv, ConsoleInv, ScreenTypes
<1>10. Inside(cur)'
  BY <1>1, <1>2, <1>3, <1>4, <1>5, <1>8, <1>9 DEF Inside
<1>11. high' * BYTE + low' \in Cells
  <2>1. ShownBy(cur)
    BY <1>4, Shows DEF Inside
  <2> QED BY <1>1, <1>3, <1>4, <2>1 DEF ShownBy
<1>12. ShownBy(cur) /\ ShownBy(cur)' => cursor' = cursor /\ screen' = screen
  BY <1>1, <1>3, <1>4, <1>5, <1>9 DEF ShownBy
<1> QED BY <1>1, <1>2, <1>3, <1>9, <1>10, <1>11, <1>12, QuietPrint

(* The two halves of a register make it up again. *)
LEMMA Halves ==
  ASSUME NEW q \in Nat
  PROVE  /\ q \div BYTE \in Nat /\ q % BYTE \in Nat
         /\ (q \div BYTE) * BYTE + (q % BYTE) = q
<1>1. BYTE \in Nat /\ BYTE > 0
  BY Constants
<1> QED BY <1>1

(* out 0x3d5: with the second half the ports have what the register has. *)
LEMMA WriteHighStep ==
  ASSUME KernelInv, Write("out_high", bx[cur] \div BYTE, "set_low")
  PROVE  KernelInv' /\ UNCHANGED mapped
<1>0. "set_low" \in Places \ {"idle"} /\ {"out_high", "set_low"} \subseteq Writing
  BY DEF Writing, Reading, Places
<1>1. From("out_high") /\ ip' = [ip EXCEPT ![cur] = "set_low"]
      /\ UNCHANGED <<allVars, vram, index, text, bx>>
  BY DEF Write, To
<1>2. /\ cur \in Clients /\ cur \in Threads /\ ip[cur] = "out_high" /\ Inside(cur)
  BY <1>1, FromInside
<1>3. high' = bx[cur] \div BYTE /\ low' = low
  BY <1>2 DEF Write, Inside
<1>4. UNCHANGED <<cur, pc, depth>>
  BY <1>1 DEF allVars, vars, syncVars, callVars
<1>5. high' \in Nat
  <2>1. PICK q \in Nat : q = bx[cur]
    BY <1>2 DEF KernelInv, ConsoleInv, ScreenTypes
  <2> QED BY <1>3, <2>1, Halves
<1>6. ScreenTypes' /\ ip'[cur] = "set_low"
  BY <1>0, <1>1, <1>2, <1>3, <1>5 DEF KernelInv, ConsoleInv, ScreenTypes
<1>7. Inside(cur)'
  BY <1>0, <1>1, <1>2, <1>3, <1>4, <1>6 DEF Inside, Reading
<1>8. ShownBy(cur) /\ ShownBy(cur)' => cursor' = cursor /\ screen' = screen
  BY <1>0, <1>1, <1>2, <1>4, <1>6 DEF ShownBy
<1> QED BY <1>0, <1>1, <1>6, <1>7, <1>8, QuietPrint

(* The second half: the ports take over the cursor from the register. *)
LEMMA WriteLowStep ==
  ASSUME KernelInv, Write("out_low", bx[cur] % BYTE, "done")
  PROVE  KernelInv' /\ UNCHANGED mapped
<1>0. "done" \in Places \ {"idle"} /\ "out_low" \in Writing /\ "done" \notin Writing \cup {"roll"}
  BY DEF Writing, Reading, Places
<1>1. From("out_low") /\ ip' = [ip EXCEPT ![cur] = "done"]
      /\ UNCHANGED <<allVars, vram, index, text, bx>>
  BY DEF Write, To
<1>2. /\ cur \in Clients /\ cur \in Threads /\ ip[cur] = "out_low" /\ Inside(cur)
  BY <1>1, FromInside
<1>3. low' = bx[cur] % BYTE /\ high' = high /\ high = bx[cur] \div BYTE /\ bx[cur] \in Cells
  BY <1>0, <1>2 DEF Write, Inside, HIGH, LOW
<1>4. UNCHANGED <<cur, pc, depth>>
  BY <1>1 DEF allVars, vars, syncVars, callVars
<1>5. low' \in Nat /\ high' * BYTE + low' = bx[cur]
  <2>1. PICK q \in Nat : q = bx[cur]
    BY <1>2 DEF KernelInv, ConsoleInv, ScreenTypes
  <2> QED BY <1>3, <2>1, Halves
<1>6. ScreenTypes' /\ ip'[cur] = "done"
  BY <1>0, <1>1, <1>2, <1>3, <1>5 DEF KernelInv, ConsoleInv, ScreenTypes
<1>7. Inside(cur)'
  BY <1>0, <1>1, <1>2, <1>3, <1>4, <1>6 DEF Inside, Reading
<1>8. ShownBy(cur) /\ ShownBy(cur)' => cursor' = cursor /\ screen' = screen
  BY <1>0, <1>1, <1>2, <1>4, <1>5, <1>6 DEF ShownBy
<1>9. high' * BYTE + low' \in Cells
  BY <1>3, <1>5
<1> QED BY <1>0, <1>1, <1>6, <1>7, <1>8, <1>9, QuietPrint

(* The lines move up; the terminal had scrolled with the character. *)
LEMMA RollStep == ASSUME KernelInv, RollScreen PROVE KernelInv' /\ UNCHANGED mapped
<1>0. "set_cursor" \in Places \ {"idle"} /\ "set_cursor" \in Writing
  BY DEF Writing, Reading, Places
<1>1. From("roll") /\ ip' = [ip EXCEPT ![cur] = "set_cursor"] /\ vram' = Rolled
      /\ bx' = [bx EXCEPT ![cur] = CELLS - COLUMNS]
      /\ UNCHANGED <<allVars, index, high, low, text>>
  BY DEF RollScreen, To, SetBx
<1>2. /\ cur \in Clients /\ cur \in Threads /\ ip[cur] = "roll" /\ Inside(cur)
  BY <1>1, FromInside
<1>4. UNCHANGED <<cur, pc, depth>>
  BY <1>1 DEF allVars, vars, syncVars, callVars
<1>5. CELLS - COLUMNS \in Cells /\ CELLS - COLUMNS \in Nat
  BY LastLine DEF Cells
<1>6. ScreenTypes' /\ ip'[cur] = "set_cursor" /\ bx'[cur] = CELLS - COLUMNS
  BY <1>0, <1>1, <1>2, <1>5 DEF KernelInv, ConsoleInv, ScreenTypes, Rolled
<1>7. Inside(cur)'
  BY <1>0, <1>1, <1>2, <1>4, <1>5, <1>6 DEF Inside, Reading
<1>8. ShownBy(cur) /\ ShownBy(cur)' => cursor' = cursor /\ screen' = screen
  BY <1>0, <1>1, <1>2, <1>4, <1>6 DEF ShownBy
<1> QED BY <1>0, <1>1, <1>6, <1>7, <1>8, QuietPrint

(* put_char returns to put_str: the next character, or the lock. *)
LEMMA DoneStep == ASSUME KernelInv, PutCharDone PROVE KernelInv' /\ UNCHANGED mapped
<1>1. PICK to \in {"read_high", "release"} :
        /\ to = Goon(text[cur]) /\ From("done") /\ ip' = [ip EXCEPT ![cur] = to]
        /\ bx' = [bx EXCEPT ![cur] = 0]
        /\ UNCHANGED <<allVars, vram, index, high, low, text>>
  BY DEF PutCharDone, To, SetBx, Goon, deviceVars
<1>0. /\ to \in Places \ {"idle"} /\ to \notin Writing \cup {"roll"}
      /\ "done" \notin Writing \cup {"roll"}
  BY DEF Writing, Reading, Places
<1>2. /\ cur \in Clients /\ cur \in Threads /\ ip[cur] = "done" /\ Inside(cur)
  BY <1>1, FromInside
<1>4. UNCHANGED <<cur, pc, depth>>
  BY <1>1 DEF allVars, vars, syncVars, callVars
<1>6. ScreenTypes' /\ ip'[cur] = to
  BY <1>0, <1>1, <1>2 DEF KernelInv, ConsoleInv, ScreenTypes
<1>7. Inside(cur)'
  BY <1>0, <1>1, <1>2, <1>4, <1>6 DEF Inside, Reading, Goon
<1>8. ShownBy(cur) /\ ShownBy(cur)' => cursor' = cursor /\ screen' = screen
  BY <1>0, <1>1, <1>2, <1>4, <1>6 DEF ShownBy
<1>9. high' * BYTE + low' \in Cells
  <2>1. ShownBy(cur)
    BY <1>2, Shows DEF Inside
  <2> QED BY <1>0, <1>1, <1>2, <2>1 DEF ShownBy
<1> QED BY <1>0, <1>1, <1>6, <1>7, <1>8, <1>9, QuietPrint

-----------------------------------------------------------------------------
(* The steps that draw: each is one character of the terminal. *)

(* A character is drawn and the cursor goes to pos: on the terminal the    *)
(* scrolling that follows has happened with it.                            *)
LEMMA DrawStep ==
  ASSUME KernelInv, From("draw"), NEW pos \in Nat, Advance(pos),
         vram' = [p \in Cells |-> vram'[p]]
  PROVE  /\ KernelInv'
         /\ bx[cur] \in Cells /\ owner = cur
         /\ T!Next1(Head(text[cur])) /\ T!Consume
         /\ row = bx[cur] \div COLUMNS /\ col = bx[cur] % COLUMNS
         /\ grid = GridOf(vram)
         /\ pos < CELLS => /\ row' = pos \div COLUMNS /\ col' = pos % COLUMNS
                           /\ grid' = GridOf(vram')
         /\ ~(pos < CELLS) =>
              /\ row' = ROWS - 1 /\ col' = 0
              /\ grid' = [r \in 0..(ROWS - 1) |->
                            IF r + 1 < ROWS THEN GridOf(vram')[r + 1] ELSE T!EmptyLine]
<1>0. /\ {"set_cursor", "roll"} \subseteq Places \ {"idle"}
      /\ "set_cursor" \in Writing /\ "roll" \notin Writing
      /\ "draw" \notin Writing \cup {"roll"} /\ "draw" \in Reading
  BY DEF Writing, Reading, Places
<1>1. PICK to : to = IF pos < CELLS THEN "set_cursor" ELSE "roll"
  OBVIOUS
<1>2. /\ ip' = [ip EXCEPT ![cur] = to]
      /\ bx' = [bx EXCEPT ![cur] = pos]
      /\ text' = [text EXCEPT ![cur] = Tail(text[cur])]
      /\ UNCHANGED <<allVars, index, high, low>>
  BY <1>1 DEF Advance, SetBx, To
<1>3. /\ cur \in Clients /\ cur \in Threads /\ ip[cur] = "draw" /\ Inside(cur)
  BY FromInside
<1>4. UNCHANGED <<cur, pc, depth, panicked>>
  BY <1>2 DEF allVars, vars, syncVars, callVars
<1>5. text[cur] # << >> /\ bx[cur] = high * BYTE + low
  BY <1>0, <1>3 DEF Inside
<1>6. /\ ScreenTypes' /\ ip'[cur] = to /\ bx'[cur] = pos
      /\ text'[cur] = Tail(text[cur]) /\ \A u \in Clients : u # cur => text'[u] = text[u]
  <2>1. text[cur] \in Seq(Chars) /\ text \in [Clients -> Seq(Chars)]
    BY <1>3 DEF KernelInv, ConsoleInv, ScreenTypes
  <2>2. Tail(text[cur]) \in Seq(Chars)
    BY <1>5, <2>1
  <2>3. text' \in [Clients -> Seq(Chars)]
    BY <1>2, <2>1, <2>2
  <2>4. to \in Places
    BY <1>0, <1>1
  <2> QED BY <1>2, <1>3, <2>1, <2>3, <2>4 DEF KernelInv, ConsoleInv, ScreenTypes
<1>7. Inside(cur)'
  BY <1>0, <1>1, <1>2, <1>3, <1>4, <1>6, Constants DEF Inside, Cells, Reading
<1>8. to \in Places \ {"idle"} /\ to \in Writing \cup {"roll"}
  BY <1>0, <1>1
<1>9. KernelInv' /\ ShownBy(cur) /\ ShownBy(cur)'
  BY <1>2, <1>6, <1>7, <1>8, PrintFrame
<1>10. /\ owner = cur /\ owner' = cur /\ todo = text[cur] /\ todo' = text'[cur]
       /\ cursor = bx[cur] /\ cursor \in Cells /\ screen = vram
  BY <1>0, <1>3, <1>4, <1>5, <1>9 DEF ShownBy
<1>11. T!Next1(Head(text[cur])) /\ T!Consume
  BY <1>4, <1>5, <1>6, <1>10 DEF T!Next1, T!Consume, From, At
<1>12. row = bx[cur] \div COLUMNS /\ col = bx[cur] % COLUMNS /\ grid = GridOf(vram)
  BY <1>10 DEF row, col, grid, GridOf
<1>13. ASSUME pos < CELLS
       PROVE  row' = pos \div COLUMNS /\ col' = pos % COLUMNS /\ grid' = GridOf(vram')
  <2>1. cursor' = pos /\ screen' = vram'
    BY <1>0, <1>1, <1>4, <1>6, <1>9, <1>13 DEF ShownBy
  <2> QED BY <2>1 DEF row, col, grid, GridOf
<1>14. ASSUME ~(pos < CELLS)
       PROVE  /\ row' = ROWS - 1 /\ col' = 0
              /\ grid' = [r \in 0..(ROWS - 1) |->
                            IF r + 1 < ROWS THEN GridOf(vram')[r + 1] ELSE T!EmptyLine]
  <2>1. cursor' = CELLS - COLUMNS /\ screen' = Rolled'
    BY <1>0, <1>1, <1>4, <1>6, <1>9, <1>14 DEF ShownBy
  <2>2. PICK s : s = vram'
    OBVIOUS
  <2>3. screen' = [p \in Cells |-> IF p + COLUMNS < CELLS THEN s[p + COLUMNS] ELSE BLANK]
    BY <2>1, <2>2 DEF Rolled
  <2>4. grid' = GridOf(screen')
    BY DEF grid, GridOf
  <2>5. GridOf(screen') = [r \in 0..(ROWS - 1) |->
                             IF r + 1 < ROWS THEN GridOf(s)[r + 1] ELSE T!EmptyLine]
    BY <2>3, GridRoll
  <2> QED BY <2>1, <2>2, <2>4, <2>5, LastLine DEF row, col
<1> QED BY <1>9, <1>10, <1>11, <1>12, <1>13, <1>14

(* Line feed, and the character in the last column. *)
LEMMA NewLineStep ==
  ASSUME NEW q \in Cells, NEW pos \in Nat, NEW g,
         row = q \div COLUMNS, col = q % COLUMNS,
         pos < CELLS => pos = LineFeed(q),
         ~(pos < CELLS) => ~(LineFeed(q) < CELLS),
         pos < CELLS => row' = pos \div COLUMNS /\ col' = pos % COLUMNS /\ grid' = g,
         ~(pos < CELLS) =>
              /\ row' = ROWS - 1 /\ col' = 0
              /\ grid' = [r \in 0..(ROWS - 1) |->
                            IF r + 1 < ROWS THEN g[r + 1] ELSE T!EmptyLine]
  PROVE  T!NewLine(g)
<1>0. ROWS \in Nat /\ q \div COLUMNS \in 0..(ROWS - 1)
  BY CellPlace, Constants
<1>1. CASE pos < CELLS
  <2>1. row' = row + 1 /\ col' = 0 /\ row + 1 < ROWS
    BY <1>1, NextPlace
  <2> QED BY <1>1, <2>1 DEF T!NewLine
<1>2. CASE ~(pos < CELLS)
  <2>1. ~(row + 1 < ROWS)
    BY <1>2, NextPlace
  <2>2. row' = row
    BY <1>0, <1>2, <2>1
  <2> QED BY <1>2, <2>1, <2>2 DEF T!NewLine
<1> QED BY <1>1, <1>2

(* Where put_char draws it has the cursor of the terminal. *)
LEMMA DrawAt ==
  ASSUME KernelInv, From("draw")
  PROVE  /\ bx[cur] \in Cells /\ cursor = bx[cur]
         /\ text[cur] # << >> /\ todo = text[cur] /\ ~panicked
<1>1. cur \in Clients /\ ip[cur] = "draw" /\ Inside(cur)
  BY FromInside
<1>2. ShownBy(cur)
  BY <1>1, Shows DEF Inside
<1> QED BY <1>1, <1>2 DEF ShownBy, Inside, Writing, Reading, From, At

(* .is_line_feed and .is_carriage_return. *)
LEMMA LineFeedStep == ASSUME KernelInv, PutLineFeed PROVE KernelInv' /\ T!PutLine
<1>1. From("draw") /\ Head(text[cur]) = LF /\ Advance(LineFeed(bx[cur])) /\ vram' = vram
  BY DEF PutLineFeed
<1>2. bx[cur] \in Cells
  BY <1>1, DrawAt
<1>3. PICK q \in Cells : q = bx[cur]
  BY <1>2
<1>4. PICK pos \in Nat : pos = LineFeed(q)
  BY NextPlace
<1>5. Advance(pos)
  BY <1>1, <1>3, <1>4
<1>6. vram' = [p \in Cells |-> vram'[p]]
  BY <1>1 DEF KernelInv, ConsoleInv, ScreenTypes
<1>7. /\ KernelInv'
      /\ T!Next1(Head(text[cur])) /\ T!Consume
      /\ row = bx[cur] \div COLUMNS /\ col = bx[cur] % COLUMNS
      /\ grid = GridOf(vram)
      /\ pos < CELLS => /\ row' = pos \div COLUMNS /\ col' = pos % COLUMNS
                        /\ grid' = GridOf(vram')
      /\ ~(pos < CELLS) =>
           /\ row' = ROWS - 1 /\ col' = 0
           /\ grid' = [r \in 0..(ROWS - 1) |->
                         IF r + 1 < ROWS THEN GridOf(vram')[r + 1] ELSE T!EmptyLine]
  BY <1>1, <1>5, <1>6, DrawStep
<1>8. PICK g : g = GridOf(vram)
  OBVIOUS
<1>9. GridOf(vram') = g
  BY <1>1, <1>8
<1>10. T!NewLine(g)
  BY <1>3, <1>4, <1>7, <1>9, NewLineStep
<1> QED BY <1>1, <1>7, <1>8, <1>10 DEF T!PutLine

(* A cell of the screen lies inside the video segment. *)
LEMMA OffsetFits ==
  ASSUME NEW q \in Cells
  PROVE  Offset(q) < VIDEO_BYTES /\ Offset(q) = 2 * q
<1>1. /\ CELLS \in Nat /\ BYTE \in Nat /\ VIDEO_BYTES \in Nat /\ BYTE * BYTE \in Nat
      /\ CELLS * 2 <= VIDEO_BYTES /\ VIDEO_BYTES <= BYTE * BYTE - 2
      /\ q \in Nat /\ q < CELLS
  BY Constants, ScreenAssumption DEF Cells
<1>2. PICK W \in Nat : W = BYTE * BYTE
  BY <1>1
<1>3. PICK d \in Nat : d = 2 * q /\ d < W /\ d < VIDEO_BYTES
  BY <1>1, <1>2
<1>4. d % W = d
  BY <1>3
<1> QED BY <1>2, <1>3, <1>4 DEF Offset

(* .put_other: the glyph and the next place, the next line behind the last *)
(* column, a scrolled screen behind the last cell.                         *)
LEMMA OtherStep == ASSUME KernelInv, PutOther PROVE KernelInv' /\ T!PutChar
<1>0. /\ ROWS \in Nat /\ ROWS > 1 /\ COLUMNS \in Nat /\ COLUMNS > 1
      /\ CELLS \in Nat /\ CELLS = ROWS * COLUMNS
  BY Constants
<1>1. From("draw") /\ Head(text[cur]) = CHAR
  BY DEF PutOther
<1>2. PICK q \in Cells : q = bx[cur]
  BY <1>1, DrawAt
<1>3. PICK pos : pos = IF q + 1 < CELLS THEN q + 1 ELSE LineFeed(q + 1)
  OBVIOUS
<1>4. vram' = [vram EXCEPT ![q] = cur] /\ Advance(pos)
  <2>1. Store(q, cur, pos)
    BY <1>2, <1>3 DEF PutOther
  <2> QED BY <2>1, OffsetFits DEF Store
<1>5. q \in Nat /\ q < CELLS
  BY CellPlace
<1>6. ~(q + 1 < CELLS) => /\ q + 1 = CELLS /\ pos = CELLS + COLUMNS
                          /\ ~((q % COLUMNS) + 1 < COLUMNS) /\ ~(LineFeed(q) < CELLS)
  <2> SUFFICES ASSUME ~(q + 1 < CELLS)
               PROVE  /\ q + 1 = CELLS /\ pos = CELLS + COLUMNS
                      /\ ~((q % COLUMNS) + 1 < COLUMNS) /\ ~(LineFeed(q) < CELLS)
    OBVIOUS
  <2>1. q + 1 = CELLS
    BY <1>0, <1>5
  <2>2. ~((q % COLUMNS) + 1 < COLUMNS) /\ q + 1 = LineFeed(q)
    BY NextPlace
  <2>3. CELLS % COLUMNS = 0
    BY <1>0
  <2>4. LineFeed(CELLS) = CELLS + COLUMNS
    BY <1>0, <2>3 DEF LineFeed
  <2> QED BY <1>0, <1>3, <2>1, <2>2, <2>4
<1>7. pos \in Nat /\ (pos < CELLS <=> q + 1 < CELLS)
  <2>1. CASE q + 1 < CELLS
    BY <1>3, <1>5, <2>1
  <2>2. CASE ~(q + 1 < CELLS)
    BY <1>0, <1>6, <2>2
  <2> QED BY <2>1, <2>2
<1>8. vram' = [p \in Cells |-> vram'[p]] /\ vram = [p \in Cells |-> vram[p]]
  BY <1>4 DEF KernelInv, ConsoleInv, ScreenTypes
<1>9. /\ KernelInv'
      /\ owner = cur
      /\ T!Next1(Head(text[cur])) /\ T!Consume
      /\ row = bx[cur] \div COLUMNS /\ col = bx[cur] % COLUMNS
      /\ grid = GridOf(vram)
      /\ pos < CELLS => /\ row' = pos \div COLUMNS /\ col' = pos % COLUMNS
                        /\ grid' = GridOf(vram')
      /\ ~(pos < CELLS) =>
           /\ row' = ROWS - 1 /\ col' = 0
           /\ grid' = [r \in 0..(ROWS - 1) |->
                         IF r + 1 < ROWS THEN GridOf(vram')[r + 1] ELSE T!EmptyLine]
  BY <1>1, <1>4, <1>7, <1>8, DrawStep
<1>10. PICK g : g = [grid EXCEPT ![row][col] = owner]
  OBVIOUS
<1>11. GridOf(vram') = g
  <2>1. PICK s : s = vram
    OBVIOUS
  <2>2. GridOf([s EXCEPT ![q] = cur]) = [GridOf(s) EXCEPT ![q \div COLUMNS][q % COLUMNS] = cur]
    BY <1>8, <2>1, GridPut
  <2> QED BY <1>2, <1>4, <1>9, <1>10, <2>1, <2>2
<1>12. CASE col + 1 < COLUMNS
  <2>1. pos = q + 1 /\ pos < CELLS
    BY <1>2, <1>3, <1>9, <1>12, NextPlace
  <2>2. grid' = g /\ col' = col + 1 /\ row' = row
    BY <1>2, <1>9, <1>11, <1>12, <2>1, NextPlace
  <2> QED BY <1>1, <1>9, <1>10, <1>12, <2>2 DEF T!PutChar
<1>13. CASE ~(col + 1 < COLUMNS)
  <2>1. q + 1 = LineFeed(q)
    BY <1>2, <1>9, <1>13, NextPlace
  <2>2. (pos < CELLS => pos = LineFeed(q)) /\ (~(pos < CELLS) => ~(LineFeed(q) < CELLS))
    BY <1>3, <1>6, <1>7, <2>1
  <2>3. T!NewLine(g)
    BY <1>2, <1>7, <1>9, <1>11, <2>2, NewLineStep
  <2> QED BY <1>1, <1>9, <1>10, <1>13, <2>3 DEF T!PutChar
<1> QED BY <1>9, <1>12, <1>13

(* One place back: in the same line, or at the end of the line before. *)
LEMMA BackPlace ==
  ASSUME NEW q \in Cells, q # 0
  PROVE  /\ q - 1 \in Cells
         /\ \/ /\ q % COLUMNS > 0
               /\ (q - 1) % COLUMNS = (q % COLUMNS) - 1
               /\ (q - 1) \div COLUMNS = q \div COLUMNS
            \/ /\ q % COLUMNS = 0 /\ q \div COLUMNS > 0
               /\ (q - 1) \div COLUMNS = (q \div COLUMNS) - 1
               /\ (q - 1) % COLUMNS = COLUMNS - 1
<1>0. ROWS \in Nat /\ COLUMNS \in Nat /\ COLUMNS > 1 /\ CELLS \in Nat
  BY Constants
<1>1. PICK r \in 0..(ROWS - 1) : r = q \div COLUMNS
  BY CellPlace
<1>2. PICK c \in 0..(COLUMNS - 1) : c = q % COLUMNS
  BY CellPlace
<1>3. q = r * COLUMNS + c
  BY <1>1, <1>2, CellPlace
<1>4. r \in Nat /\ c \in Nat /\ r * COLUMNS \in Nat
  BY <1>0
<1>5. q - 1 \in Cells
  BY <1>0 DEF Cells
<1>6. CASE c > 0
  <2>1. PICK d \in 0..(COLUMNS - 1) : d = c - 1
    BY <1>0, <1>6
  <2>2. q - 1 = r * COLUMNS + d
    BY <1>0, <1>3, <1>4, <2>1
  <2>3. (q - 1) % COLUMNS = d /\ (q - 1) \div COLUMNS = r
    BY <2>2, PlaceCell
  <2> QED BY <1>1, <1>2, <1>5, <1>6, <2>1, <2>3
<1>7. CASE c = 0
  <2>1. r # 0
    BY <1>0, <1>3, <1>4, <1>7
  <2>2. PICK u \in 0..(ROWS - 1) : u = r - 1
    BY <1>0, <1>4, <2>1
  <2>3. PICK d \in 0..(COLUMNS - 1) : d = COLUMNS - 1
    BY <1>0
  <2>4. q - 1 = u * COLUMNS + d
    <3>1. u * COLUMNS = r * COLUMNS - COLUMNS
      BY <1>0, <1>4, <2>2
    <3> QED BY <1>0, <1>3, <1>4, <1>7, <2>3, <3>1
  <2>5. (q - 1) % COLUMNS = d /\ (q - 1) \div COLUMNS = u
    BY <2>4, PlaceCell
  <2>6. r > 0
    BY <1>4, <2>1
  <2> QED BY <1>1, <1>2, <1>5, <1>7, <2>2, <2>3, <2>5, <2>6
<1> QED BY <1>4, <1>6, <1>7

(* .is_backspace: the cell before, or, from the first cell, an offset that *)
(* the 16-bit register wraps around to, behind the end of the segment.     *)
LEMMA BackspaceStep ==
  ASSUME KernelInv, PutBackspace
  PROVE  (KernelInv' /\ T!PutBackspace) \/ (panicked' /\ T!Stop)
<1>0. /\ CELLS \in Nat /\ BYTE \in Nat /\ VIDEO_BYTES \in Nat /\ CELLS > 0
      /\ CELLS * 2 <= VIDEO_BYTES /\ VIDEO_BYTES <= BYTE * BYTE - 2
  BY Constants, ScreenAssumption
<1>1. From("draw") /\ Head(text[cur]) = BS
  BY DEF PutBackspace
<1>2. PICK q \in Cells : q = bx[cur]
  BY <1>1, DrawAt
<1>3. PICK W \in Nat : W = BYTE * BYTE
  BY <1>0
<1>4. PICK pos : pos = (q + W - 1) % W
  OBVIOUS
<1>5. Store(pos, BLANK, pos)
  BY <1>2, <1>3, <1>4 DEF PutBackspace
<1>6. q \in Nat /\ q < CELLS /\ q < W /\ W > 2
  BY <1>0, <1>3, CellPlace
<1>7. CASE q # 0
  <2>1. pos = q - 1 /\ pos \in Nat
    <3>1. PICK p \in Nat : p = q - 1 /\ p < W
      BY <1>6, <1>7
    <3>2. q + W - 1 = W + p
      BY <1>3, <1>6, <3>1
    <3>3. (W + p) % W = p
      BY <1>6, <3>1
    <3> QED BY <1>4, <3>1, <3>2, <3>3
  <2>2. pos \in Cells /\ pos < CELLS
    BY <1>0, <1>6, <1>7, <2>1, BackPlace
  <2>3. vram' = [vram EXCEPT ![pos] = BLANK] /\ Advance(pos)
    BY <1>5, <2>2, OffsetFits DEF Store
  <2>4. vram' = [p \in Cells |-> vram'[p]] /\ vram = [p \in Cells |-> vram[p]]
    BY <2>3 DEF KernelInv, ConsoleInv, ScreenTypes
  <2>5. /\ KernelInv'
        /\ T!Next1(Head(text[cur])) /\ T!Consume
        /\ row = bx[cur] \div COLUMNS /\ col = bx[cur] % COLUMNS
        /\ grid = GridOf(vram)
        /\ row' = pos \div COLUMNS /\ col' = pos % COLUMNS
        /\ grid' = GridOf(vram')
    BY <1>1, <2>1, <2>2, <2>3, <2>4, DrawStep
  <2>6. grid' = [grid EXCEPT ![row'][col'] = BLANK]
    <3>1. PICK s : s = vram
      OBVIOUS
    <3>2. GridOf([s EXCEPT ![pos] = BLANK]) =
            [GridOf(s) EXCEPT ![pos \div COLUMNS][pos % COLUMNS] = BLANK]
      BY <2>2, <2>4, <3>1, GridPut
    <3> QED BY <2>3, <2>5, <3>1, <3>2
  <2>7. \/ col > 0 /\ col' = col - 1 /\ UNCHANGED row
        \/ col = 0 /\ row > 0 /\ row' = row - 1 /\ col' = COLUMNS - 1
    <3>1. row = q \div COLUMNS /\ col = q % COLUMNS
      BY <1>2, <2>5
    <3> QED BY <1>7, <2>1, <2>5, <3>1, BackPlace
  <2> QED BY <1>1, <2>5, <2>6, <2>7 DEF T!PutBackspace
<1>8. CASE q = 0
  <2>1. pos = W - 1
    <3>1. PICK p \in Nat : p = W - 1 /\ p < W
      BY <1>6
    <3>2. p % W = p
      BY <3>1
    <3> QED BY <1>3, <1>4, <1>8, <3>1, <3>2
  <2>2. Offset(pos) = W - 2
    <3>1. PICK p \in Nat : p = W - 2 /\ p < W
      BY <1>6
    <3>2. 2 * pos = W + p
      BY <1>3, <2>1, <3>1
    <3>3. (W + p) % W = p
      BY <1>6, <3>1
    <3> QED BY <1>3, <3>1, <3>2, <3>3 DEF Offset
  <2>3. general_intr_handler
    BY <1>0, <1>3, <1>5, <2>2 DEF Store
  <2>4. panicked' = TRUE
    BY <2>3 DEF general_intr_handler, Panic
  <2>5. row = 0 /\ col = 0
    <3>1. cursor = 0
      BY <1>1, <1>2, <1>8, DrawAt
    <3> QED BY <3>1, Constants DEF row, col
  <2>6. T!Next1(BS)
    BY <1>1, DrawAt DEF T!Next1
  <2> QED BY <2>4, <2>5, <2>6 DEF T!Stop
<1> QED BY <1>7, <1>8

-----------------------------------------------------------------------------
(* The console lock. *)

(* A thread asks for the console: nothing is shown yet. *)
LEMMA PutStep ==
  ASSUME KernelInv, NEW s \in Texts \cup {IntText}, ConsolePut(s)
  PROVE  KernelInv' /\ UNCHANGED mapped
<1>1. /\ From("idle") /\ LockAcquire(console_lock)
      /\ text' = [text EXCEPT ![cur] = s]
      /\ ip' = [ip EXCEPT ![cur] = Goon(s)]
      /\ UNCHANGED <<vram, index, high, low, bx>>
  BY DEF ConsolePut, To, deviceVars
<1>2. cur \in Clients /\ cur \in Threads /\ ip[cur] = "idle" /\ ~panicked
  BY <1>1 DEF From, At, Clients
<1>3. SyncInv'
  <2>1. SyncNext
    BY <1>1, Constants DEF SyncNext
  <2> QED BY <2>1, SyncStep DEF KernelInv
<1>4. /\ plock' = [plock EXCEPT ![cur] = console_lock]
      /\ pc' = [pc EXCEPT ![cur] = IF holder[console_lock] = cur THEN "again" ELSE "down"]
      /\ UNCHANGED <<cur, depth, panicked>>
  BY <1>1 DEF LockAcquire, Goto, vars
<1>5. /\ pc \in [Threads -> PC] /\ plock \in [Threads -> Locks]
      /\ ip \in [Clients -> Places] /\ text \in [Clients -> Seq(Chars)]
  BY DEF KernelInv, SyncInv, SyncTypeOK, ConsoleInv, ScreenTypes
<1>6. s \in Seq(Chars)
  <2>1. IntText \in Seq(Chars)
    <3>1. INT_DIGITS \in Nat /\ CHAR \in Chars
      BY ScreenAssumption DEF Chars
    <3> QED BY <3>1 DEF IntText
  <2> QED BY <2>1, Constants
<1>7. /\ ip'[cur] = Goon(s) /\ text'[cur] = s
      /\ pc'[cur] \in AcquirePC /\ plock'[cur] = console_lock
      /\ \A u \in Clients : u # cur =>
           /\ u \in Threads /\ ip'[u] = ip[u] /\ text'[u] = text[u]
           /\ pc'[u] = pc[u] /\ plock'[u] = plock[u]
  BY <1>1, <1>2, <1>4, <1>5 DEF AcquirePC, Clients
<1>8. Goon(s) \in Places /\ Goon(s) \notin Writing \cup {"roll"}
  BY DEF Goon, Places, Reading, Writing
<1>9. Outside(cur)
  BY <1>2 DEF KernelInv, ConsoleInv, Inside
<1>10. /\ Drawn' = Drawn /\ Rolling' = Rolling /\ Owners' = Owners
       /\ cur \notin Drawn /\ cur \notin Owners
  BY <1>2, <1>4, <1>7, <1>8, <1>9 DEF Drawn, Rolling, Owners, Writing, Outside
<1>11. ScreenTypes'
  BY <1>1, <1>5, <1>6, <1>8 DEF KernelInv, ConsoleInv, ScreenTypes
<1>12. ASSUME NEW t \in Clients PROVE Outside(t)' \/ Inside(t)'
  <2>1. CASE t = cur
    BY <1>4, <1>7, <1>9, <2>1 DEF Outside
  <2>2. CASE t # cur
    BY <1>1, <1>4, <1>7, <2>2 DEF KernelInv, ConsoleInv, Outside, Inside, Goon
  <2> QED BY <2>1, <2>2
<1>13. KernelInv'
  BY <1>1, <1>3, <1>10, <1>11, <1>12 DEF KernelInv, ConsoleInv, CursorOnScreen
<1>14. UNCHANGED <<cursor, screen, owner>>
  <2>1. Drawn # {} => (CHOOSE t \in Drawn : TRUE) \in Clients /\ (CHOOSE t \in Drawn : TRUE) # cur
    BY <1>10 DEF Drawn
  <2> QED BY <1>1, <1>10, <2>1 DEF cursor, screen, owner, Rolled
<1>15. UNCHANGED todo
  <2>1. owner # NULL => owner \in Clients /\ owner # cur
    BY <1>10 DEF owner, Owners
  <2> QED BY <1>7, <1>14, <2>1 DEF todo
<1> QED BY <1>4, <1>13, <1>14, <1>15 DEF mapped, grid, row, col

(* console_release: the text is on the screen, the terminal is free. *)
LEMMA ReleaseStep == ASSUME KernelInv, ConsoleRelease PROVE KernelInv' /\ T!Finish
<1>1. /\ From("release") /\ LockRelease(console_lock)
      /\ ip' = [ip EXCEPT ![cur] = "idle"]
      /\ UNCHANGED <<vram, index, high, low, text, bx>>
  BY DEF ConsoleRelease, To, deviceVars
<1>2. /\ cur \in Clients /\ cur \in Threads /\ ip[cur] = "release"
      /\ Inside(cur) /\ \A u \in Clients : u # cur => Outside(u)
  BY <1>1, FromInside
<1>3. SyncInv'
  <2>1. SyncNext
    BY <1>1, Constants DEF SyncNext
  <2> QED BY <2>1, SyncStep DEF KernelInv
<1>4. depth[cur][console_lock] = 1 /\ pc[cur] = "run" /\ text[cur] = << >>
  BY <1>2 DEF Inside
<1>5. /\ plock' = [plock EXCEPT ![cur] = console_lock]
      /\ depth' = [depth EXCEPT ![cur][console_lock] = @ - 1]
      /\ pc' = [pc EXCEPT ![cur] = IF holder_repeat_nr[console_lock] > 1 THEN "less" ELSE "clear"]
      /\ UNCHANGED <<cur, panicked>>
  <2>1. holder[console_lock] = cur /\ holder_repeat_nr[console_lock] >= 1
    BY <1>4, AssertsHold, Constants DEF KernelInv
  <2> QED BY <1>1, <2>1 DEF LockRelease, ASSERT, Goto, vars
<1>6. /\ pc \in [Threads -> PC] /\ plock \in [Threads -> Locks] /\ console_lock \in Locks
      /\ depth \in [Threads -> [Locks -> 0..MaxDepth]]
      /\ ip \in [Clients -> Places]
  BY Constants DEF KernelInv, SyncInv, SyncTypeOK, ConsoleInv, ScreenTypes
<1>7. /\ ip'[cur] = "idle" /\ pc'[cur] \in ReleasePC /\ depth'[cur][console_lock] = 0
      /\ \A u \in Clients : u # cur =>
           /\ ip'[u] = ip[u] /\ pc'[u] = pc[u] /\ plock'[u] = plock[u] /\ depth'[u] = depth[u]
  BY <1>1, <1>2, <1>4, <1>5, <1>6 DEF ReleasePC, Clients
<1>8. \A t \in Clients : Outside(t)' /\ depth'[t][console_lock] = 0
  <2> SUFFICES ASSUME NEW t \in Clients PROVE Outside(t)' /\ depth'[t][console_lock] = 0
    OBVIOUS
  <2>1. CASE t = cur
    BY <1>7, <2>1 DEF Outside
  <2>2. CASE t # cur
    BY <1>1, <1>2, <1>7, <2>2 DEF Outside, Goon
  <2> QED BY <2>1, <2>2
<1>9. ShownBy(cur)
  BY <1>2, <1>4, Shows
<1>10. /\ owner = cur /\ todo = << >> /\ screen = vram
       /\ cursor = high * BYTE + low /\ cursor \in Cells
  BY <1>2, <1>4, <1>9 DEF ShownBy, Writing
<1>11. ScreenTypes'
  <2>1. "idle" \in Places
    BY DEF Places
  <2> QED BY <1>1, <1>6, <2>1 DEF KernelInv, ConsoleInv, ScreenTypes
<1>12. KernelInv'
  BY <1>1, <1>3, <1>8, <1>10, <1>11 DEF KernelInv, ConsoleInv, CursorOnScreen
<1>13. (KernelInv /\ (\A t \in Clients : depth[t][console_lock] = 0) =>
          /\ owner = NULL /\ todo = << >> /\ screen = vram
          /\ cursor = high * BYTE + low /\ cursor \in Cells)'
  BY ShowsNobody, PTL
<1>14. owner' = NULL /\ todo' = << >> /\ screen' = screen /\ cursor' = cursor
  BY <1>1, <1>8, <1>10, <1>12, <1>13
<1>15. UNCHANGED <<grid, row, col>>
  BY <1>14 DEF grid, row, col
<1>16. owner # NULL
  BY <1>2, <1>10, NullAssumption
<1> QED BY <1>5, <1>10, <1>12, <1>14, <1>15, <1>16 DEF T!Finish

(* Inside sync.c: the thread that gets the lock starts to print. *)
LEMMA InCall ==
  ASSUME KernelInv, CallStep, UNCHANGED screenVars
  PROVE  KernelInv' /\ (UNCHANGED mapped \/ \E t \in Clients : T!Start(t))
<1>1. SyncInv' /\ SyncInv
  <2>1. SyncNext
    BY DEF SyncNext
  <2> QED BY <2>1, SyncStep DEF KernelInv
<1>2. panicked' = panicked /\ panicked = FALSE
  <2>1. (SyncInv => panicked = FALSE)'
    BY NotPanicked, PTL
  <2> QED BY <1>1, <2>1, NotPanicked
<1>3. /\ cur \in Clients /\ cur \in Threads /\ lock \in Locks
      /\ pc[cur] # "run" /\ plock' = plock
      /\ depth' = IF pc[cur] = "again" THEN [depth EXCEPT ![cur][lock] = @ + 1]
                  ELSE IF pc[cur] = "first" THEN [depth EXCEPT ![cur][lock] = 1]
                  ELSE depth
  BY <1>1, CallStepEffects
<1>4. PICK x \in PC : pc' = [pc EXCEPT ![cur] = x] /\ <<pc[cur], x>> \in CallMoves
  BY <1>1, CallStepEffects
<1>5. UNCHANGED <<vram, index, high, low, ip, text, bx>>
  BY DEF screenVars, deviceVars, printVars
<1>6. Outside(cur)
  BY <1>3 DEF KernelInv, ConsoleInv, Inside
<1>7. pc[cur] # "again"
  <2>1. pc[cur] = "again" => depth[cur][plock[cur]] > 0
    BY <1>1, <1>3 DEF SyncInv, LockInv, DepthAtPC
  <2>2. pc[cur] = "again" => plock[cur] = console_lock
    BY <1>6 DEF Outside, ReleasePC
  <2> QED BY <1>6, <2>1, <2>2 DEF Outside
<1>8. /\ pc \in [Threads -> PC] /\ depth \in [Threads -> [Locks -> 0..MaxDepth]]
      /\ console_lock \in Locks
  BY <1>1, Constants DEF SyncInv, SyncTypeOK
<1>9. pc'[cur] = x /\ \A u \in Clients : u # cur => pc'[u] = pc[u] /\ depth'[u] = depth[u]
  BY <1>3, <1>4, <1>7, <1>8 DEF Clients
<1>10. ScreenTypes' /\ CursorOnScreen'
  BY <1>5 DEF KernelInv, ConsoleInv, ScreenTypes, CursorOnScreen, Drawn
<1>11. ASSUME NEW u \in Clients, u # cur PROVE Outside(u)' \/ Inside(u)'
  BY <1>3, <1>5, <1>9, <1>11 DEF KernelInv, ConsoleInv, Outside, Inside, Goon
<1>12. CASE pc[cur] # "first"
  <2>1. depth' = depth
    BY <1>3, <1>7, <1>12
  <2>2. /\ pc[cur] \in AcquirePC => x \in AcquirePC
        /\ pc[cur] \in ReleasePC => x \in ReleasePC \cup {"run"}
    BY <1>4, <1>7, <1>12 DEF CallMoves, AcquirePC, ReleasePC
  <2>3. ASSUME NEW u \in Clients PROVE Outside(u)' \/ Inside(u)'
    <3>1. CASE u = cur
      BY <1>3, <1>5, <1>6, <1>9, <2>1, <2>2, <3>1 DEF Outside, Goon
    <3> QED BY <1>11, <3>1
  <2> QED BY <1>1, <1>2, <1>5, <1>10, <2>1, <2>3, SameScreen DEF KernelInv, ConsoleInv
<1>13. CASE pc[cur] = "first"
  <2>1. ip[cur] = Goon(text[cur]) /\ plock[cur] = console_lock
    BY <1>6, <1>13 DEF Outside, ReleasePC
  <2>2. x = "run"
    BY <1>4, <1>13 DEF CallMoves
  <2>3. depth'[cur][console_lock] = 1
    BY <1>3, <1>8, <1>13, <2>1 DEF lock
  <2>4. \A u \in Clients : depth[u][console_lock] = 0
    <3> SUFFICES ASSUME NEW u \in Clients, depth[u][console_lock] # 0 PROVE FALSE
      OBVIOUS
    <3>1. Inside(u) /\ u \in Threads
      BY DEF KernelInv, ConsoleInv, Outside, Clients
    <3>2. u # cur
      BY <1>6 DEF Outside
    <3>3. Owns(u, console_lock) /\ Owns(cur, console_lock)
      BY <1>13, <2>1, <3>1 DEF Owns, Inside
    <3> QED BY <1>1, <1>3, <1>8, <3>1, <3>2, <3>3 DEF SyncInv, LockInv, OneOwner
  <2>5. ASSUME NEW u \in Clients PROVE Outside(u)' \/ Inside(u)'
    <3>1. CASE u = cur
      <4>1. ip'[u] = Goon(text'[u]) /\ depth'[u][console_lock] = 1 /\ pc'[u] = "run"
        BY <1>5, <1>9, <2>1, <2>2, <2>3, <3>1 DEF Goon
      <4> QED BY <4>1 DEF Inside, Goon, Places, Reading, Writing
    <3> QED BY <1>11, <3>1
  <2>6. KernelInv'
    BY <1>1, <1>10, <2>5 DEF KernelInv, ConsoleInv
  <2>7. owner = NULL /\ screen = vram /\ cursor = high * BYTE + low
    BY <2>4, ShowsNobody
  <2>8. (KernelInv => \A t \in Clients : depth[t][console_lock] > 0 => ShownBy(t))'
    BY Shows, PTL
  <2>9. PICK t \in Clients : t = cur
    BY <1>3
  <2>10. ShownBy(t)'
    BY <2>3, <2>6, <2>8, <2>9
  <2>11. ip'[t] \notin Writing \cup {"roll"}
    BY <1>5, <2>1, <2>9 DEF Goon, Writing
  <2>12. owner' = t /\ todo' = text[t] /\ screen' = screen /\ cursor' = cursor
    BY <1>5, <2>7, <2>10, <2>11 DEF ShownBy
  <2>13. UNCHANGED <<grid, row, col>>
    BY <2>12 DEF grid, row, col
  <2>14. text[t] \in Seq({CHAR, LF, BS})
    BY DEF KernelInv, ConsoleInv, ScreenTypes, Chars
  <2>15. T!Start(t)
    BY <1>2, <2>7, <2>12, <2>13, <2>14 DEF T!Start
  <2> QED BY <2>6, <2>15
<1> QED BY <1>12, <1>13

-----------------------------------------------------------------------------

(* One lemma for every step of the kernel: it keeps the invariant or is    *)
(* the fault that halts it, and the terminal makes a step or stutters.     *)
LEMMA ScreenStep ==
  ScreenInv /\ [ScreenNext]_screenAllVars => ScreenInv' /\ [T!Next]_(T!terminalVars)
<1> SUFFICES ASSUME ScreenInv, [ScreenNext]_screenAllVars
             PROVE  ScreenInv' /\ [T!Next]_(T!terminalVars)
  OBVIOUS
<1>0. /\ KernelInv' => ScreenInv'
      /\ panicked' => ScreenInv'
      /\ UNCHANGED mapped => [T!Next]_(T!terminalVars)
  BY DEF ScreenInv, mapped, T!terminalVars
<1>1. CASE UNCHANGED screenAllVars
  <2>1. UNCHANGED <<depth, panicked, vram, high, low, ip, text, bx>>
        /\ UNCHANGED <<syncVars, screenVars, allVars>>
    BY <1>1 DEF screenAllVars, allVars, vars, syncVars, callVars, screenVars, deviceVars, printVars
  <2>2. CASE panicked
    BY <1>0, <2>1, <2>2, SameScreen
  <2>3. CASE ~panicked
    <3>1. KernelInv
      BY <2>3 DEF ScreenInv
    <3>2. SyncInv'
      BY <2>1, <3>1, SyncStep DEF KernelInv
    <3> QED BY <1>0, <2>1, <3>1, <3>2, FrameStep
  <2> QED BY <2>2, <2>3
<1>2. CASE ScreenNext
  <2>0. ~panicked /\ KernelInv
    BY <1>2, Halted DEF ScreenInv
  <2>1. CASE \/ Select("read_high", HIGH, "in_high") \/ Select("read_low", LOW, "in_low")
             \/ Select("set_cursor", HIGH, "out_high") \/ Select("set_low", LOW, "out_low")
    BY <1>0, <2>0, <2>1, SelectStep
  <2>2. CASE ReadHigh \/ ReadLow
    BY <1>0, <2>0, <2>2, ReadStep
  <2>3. CASE Write("out_high", bx[cur] \div BYTE, "set_low")
    BY <1>0, <2>0, <2>3, WriteHighStep
  <2>4. CASE Write("out_low", bx[cur] % BYTE, "done")
    BY <1>0, <2>0, <2>4, WriteLowStep
  <2>5. CASE RollScreen
    BY <1>0, <2>0, <2>5, RollStep
  <2>6. CASE PutCharDone
    BY <1>0, <2>0, <2>6, DoneStep
  <2>7. CASE PutOther
    BY <1>0, <2>0, <2>7, OtherStep DEF T!Next
  <2>8. CASE PutLineFeed
    BY <1>0, <2>0, <2>8, LineFeedStep DEF T!Next
  <2>9. CASE PutBackspace
    BY <1>0, <2>0, <2>9, BackspaceStep DEF T!Next
  <2>10. CASE ConsoleRelease
    BY <1>0, <2>0, <2>10, ReleaseStep DEF T!Next
  <2>11. CASE \E s \in Texts \cup {IntText} : ConsolePut(s)
    BY <1>0, <2>0, <2>11, PutStep
  <2>12. CASE ScreenCall
    <3>1. KernelInv' /\ (UNCHANGED mapped \/ \E t \in Clients : T!Start(t))
      BY <2>0, <2>12, InCall DEF ScreenCall
    <3> QED BY <1>0, <3>1 DEF T!Next
  <2>13. CASE \/ ScreenPreempt
              \/ \E t \in Clients : MainStart(t) /\ UNCHANGED screenVars
              \/ cur = main_thread /\ OwnIntr(INTR_ON) /\ UNCHANGED screenVars
    <3>1. SyncNext /\ UNCHANGED <<syncVars, screenVars>>
      BY <2>13 DEF ScreenPreempt, SyncNext, Preempt, MainStart, OwnIntr, IntrStatus
    <3>2. SyncInv' /\ SyncInv
      BY <2>0, <3>1, SyncStep DEF KernelInv
    <3>3. UNCHANGED panicked
      <4>1. (SyncInv => panicked = FALSE)'
        BY NotPanicked, PTL
      <4> QED BY <3>2, <4>1, NotPanicked
    <3> QED BY <1>0, <2>0, <3>1, <3>2, <3>3, FrameStep
  <2> QED BY <1>2, <2>1, <2>2, <2>3, <2>4, <2>5, <2>6, <2>7, <2>8, <2>9, <2>10, <2>11, <2>12,
             <2>13 DEF ScreenNext, PrintStep
<1> QED BY <1>1, <1>2

(* While the kernel runs the lock discipline and the registers of put_char *)
(* fit together, for any number of threads and any size of the screen.     *)
THEOREM ScreenInvariance == ScreenSpec => []ScreenInv
<1>1. ScreenInit => ScreenInv
  BY ScreenInitInv DEF ScreenInv
<1> QED BY <1>1, ScreenStep, PTL DEF ScreenSpec

(* console.c and print.S implement the terminal: for any number of threads *)
(* and any texts, with a switch between any two port accesses, every text  *)
(* is shown whole and in order, and only a backspace in the first cell     *)
(* halts the kernel.                                                       *)
THEOREM ScreenImplementsTerminal == ScreenSpec => ImplementsTerminal
<1>1. ScreenInit => ScreenInv /\ T!Init
  BY ScreenInitInv DEF ScreenInv
<1> QED BY <1>1, ScreenStep, PTL DEF ScreenSpec, ImplementsTerminal, T!Spec
=============================================================================
