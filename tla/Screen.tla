------------------------------- MODULE Screen -------------------------------
(***************************************************************************)
(* The console, device/console.c, on the screen driver, lib/kernel/print.S.*)
(*                                                                         *)
(* put_char reads the cursor from the VGA controller and writes it back,   *)
(* one byte at a time through an index port and a data port.  Threads      *)
(* print with interrupts on, so a switch can fall between any two port     *)
(* accesses; only the console lock keeps put_char together, and put_str.   *)
(*                                                                         *)
(* What the keyboard's interrupt handler prints, "unknown key" without the *)
(* lock, is left out: it could cut into a put_char.  The two threads of    *)
(* main() print with interrupts off, so in this kernel it cannot.          *)
(*                                                                         *)
(* A printed character's glyph is the thread that printed it.              *)
(***************************************************************************)
EXTENDS Sync

CONSTANTS
  console_lock,
  ROWS, COLUMNS,    \* 25 and 80
  BYTE,             \* 256: values of a byte, so BYTE * BYTE of a 16-bit register
  VIDEO_BYTES,      \* 32768: the limit of the segment VIDEO_DESC
  INT_DIGITS,       \* 8: digits put_int prints
  BLANK_CELLS, NAME_POS, END_POS,
                    \* 320, 88, 240: what the exception handler clears, where it
                    \* prints the exception's name and where it ends
  Texts,            \* the strings printed
  MaxCalls          \* bound: calls of the console

CHAR == "char"
LF   == "line feed"   \* 0xa, and 0xd, which put_char treats alike
BS   == "backspace"

BLANK   == <<"blank", 0>>
MESSAGE == <<"message", 0>>

CELLS == ROWS * COLUMNS
Cells == 0..(CELLS - 1)

ASSUME ScreenAssumption ==
  /\ console_lock \in Locks
  /\ {ROWS, COLUMNS} \subseteq Nat \ {0, 1}
  /\ {BYTE, VIDEO_BYTES, INT_DIGITS} \subseteq Nat \ {0}
  /\ CELLS + COLUMNS < (BYTE * BYTE) \div 2     \* jl compares signed words
  /\ CELLS * 2 <= VIDEO_BYTES
  /\ VIDEO_BYTES <= BYTE * BYTE - 2
  /\ {BLANK_CELLS - 1, NAME_POS, END_POS} \subseteq Cells
  /\ Texts \subseteq Seq({CHAR, LF, BS})

VARIABLES
  vram,         \* the glyph of every cell of the video memory
  index,        \* the index port 0x3d4: which half of the cursor 0x3d5 is
  high, low,    \* the cursor registers 0x0e and 0x0f
  ip, text, bx, \* of each thread: its place in put_char, what put_str has
                \* left to print, and the register
  calls         \* how many calls were made

deviceVars == <<vram, index, high, low>>
printVars == <<ip, text, bx>>
screenVars == <<deviceVars, printVars, calls>>
screenAllVars == <<allVars, screenVars>>

HIGH == 14
LOW  == 15

(* The boot messages have left the cursor anywhere. *)
ScreenInit ==
  /\ SyncInit
  /\ vram = [p \in Cells |-> BLANK]
  /\ index = LOW
  /\ \E p \in Cells : high = p \div BYTE /\ low = p % BYTE
  /\ ip = [t \in Clients |-> "idle"]
  /\ text = [t \in Clients |-> << >>]
  /\ bx = [t \in Clients |-> 0]
  /\ calls = 0

-----------------------------------------------------------------------------

From(label) == cur \in Clients /\ At("run") /\ ip[cur] = label
To(label) == ip' = [ip EXCEPT ![cur] = label]
SetBx(v) == bx' = [bx EXCEPT ![cur] = v]

(* The loop of put_str: the next character, or console_release. *)
Goon(s) == IF s = << >> THEN "release" ELSE "read_high"

(* put_int prints two hexadecimal digits for each of its four bytes. *)
IntText == [i \in 1..INT_DIGITS |-> CHAR]

(* Mutant of ConsolePut: console_put_str without console_acquire. *)
ConsolePutUnlocked(s) ==
  /\ From("idle")
  /\ calls < MaxCalls
  /\ calls' = calls + 1
  /\ text' = [text EXCEPT ![cur] = s]
  /\ To(Goon(s))
  /\ UNCHANGED <<allVars, deviceVars, bx>>

(* console_put_str, console_put_char and console_put_int, to the end of    *)
(* console_acquire's own code; the thread goes on when it has the lock.    *)
ConsolePut(s) ==
  /\ From("idle")
  /\ calls < MaxCalls
  /\ calls' = calls + 1
  /\ LockAcquire(console_lock)
  /\ text' = [text EXCEPT ![cur] = s]
  /\ To(Goon(s))
  /\ UNCHANGED <<deviceVars, bx>>

(* Mutant of ConsoleRelease: console_put_str returns without it. *)
ConsoleReleaseForgotten ==
  /\ From("release") /\ To("idle")
  /\ UNCHANGED <<allVars, deviceVars, text, bx, calls>>

ConsoleRelease ==
  /\ From("release")
  /\ LockRelease(console_lock)
  /\ To("idle")
  /\ UNCHANGED <<deviceVars, text, bx, calls>>

(* out 0x3d4 *)
Select(from, reg, to) ==
  /\ From(from) /\ To(to)
  /\ index' = reg
  /\ UNCHANGED <<allVars, vram, high, low, text, bx, calls>>

Data == IF index = HIGH THEN high ELSE low

(* in 0x3d5, into the high half or the low half of the register. *)
ReadHigh ==
  /\ From("in_high") /\ To("read_low")
  /\ SetBx(Data * BYTE)
  /\ UNCHANGED <<allVars, deviceVars, text, calls>>

ReadLow ==
  /\ From("in_low") /\ To("draw")
  /\ SetBx(bx[cur] + Data)
  /\ UNCHANGED <<allVars, deviceVars, text, calls>>

(* out 0x3d5 *)
Write(from, v, to) ==
  /\ From(from) /\ To(to)
  /\ IF index = HIGH THEN high' = v /\ UNCHANGED low
                     ELSE low' = v /\ UNCHANGED high
  /\ UNCHANGED <<allVars, vram, index, text, bx, calls>>

(* general_intr_handler: the CPU has turned interrupts off, the screen gets *)
(* the message whoever was printing, and the handler never returns.         *)
general_intr_handler ==
  /\ Panic
  /\ vram' = [p \in Cells |-> IF p \in {0, NAME_POS} THEN MESSAGE
                              ELSE IF p < BLANK_CELLS THEN BLANK ELSE vram[p]]
  /\ high' = END_POS \div BYTE
  /\ low' = END_POS % BYTE
  /\ index' = LOW
  /\ UNCHANGED <<syncVars, printVars, calls>>

(* The byte offset of a cell, in a 16-bit register. *)
Offset(pos) == (2 * pos) % (BYTE * BYTE)

(* The character is done, the cursor goes to pos. *)
Advance(pos) ==
  /\ SetBx(pos)
  /\ To(IF pos < CELLS THEN "set_cursor" ELSE "roll")
  /\ text' = [text EXCEPT ![cur] = Tail(@)]
  /\ UNCHANGED <<allVars, index, high, low, calls>>

(* A glyph goes to a cell of the video segment; outside it, #GP. *)
Store(cell, glyph, pos) ==
  IF Offset(cell) < VIDEO_BYTES
    THEN vram' = [vram EXCEPT ![cell] = glyph] /\ Advance(pos)
    ELSE general_intr_handler

LineFeed(pos) == pos - (pos % COLUMNS) + COLUMNS

(* put_char from .put_other; behind the last cell it goes on at            *)
(* .is_line_feed.                                                          *)
PutOther ==
  /\ From("draw")
  /\ Head(text[cur]) = CHAR
  /\ LET next == bx[cur] + 1
     IN  Store(bx[cur], cur, IF next < CELLS THEN next ELSE LineFeed(next))

(* .is_line_feed and .is_carriage_return *)
PutLineFeed ==
  /\ From("draw")
  /\ Head(text[cur]) = LF
  /\ Advance(LineFeed(bx[cur]))
  /\ UNCHANGED vram

(* .is_backspace: dec bx wraps around. *)
PutBackspace ==
  /\ From("draw")
  /\ Head(text[cur]) = BS
  /\ LET pos == (bx[cur] + BYTE * BYTE - 1) % (BYTE * BYTE)
     IN  Store(pos, BLANK, pos)

(* Every line moves up by one, the last one is cleared. *)
Rolled == [p \in Cells |-> IF p + COLUMNS < CELLS THEN vram[p + COLUMNS] ELSE BLANK]

RollScreen ==
  /\ From("roll") /\ To("set_cursor")
  /\ vram' = Rolled
  /\ SetBx(CELLS - COLUMNS)
  /\ UNCHANGED <<allVars, index, high, low, text, calls>>

(* put_char returns to put_str, popad gives bx its old value. *)
PutCharDone ==
  /\ From("done") /\ To(Goon(text[cur]))
  /\ SetBx(0)
  /\ UNCHANGED <<allVars, deviceVars, text, calls>>

PrintStep ==
  \/ Select("read_high", HIGH, "in_high") \/ ReadHigh
  \/ Select("read_low", LOW, "in_low") \/ ReadLow
  \/ PutOther \/ PutLineFeed \/ PutBackspace \/ RollScreen
  \/ Select("set_cursor", HIGH, "out_high")
  \/ cur \in Clients /\ Write("out_high", bx[cur] \div BYTE, "set_low")
  \/ Select("set_low", LOW, "out_low")
  \/ cur \in Clients /\ Write("out_low", bx[cur] % BYTE, "done")
  \/ PutCharDone
  \/ ConsoleRelease

ScreenCall == CallStep /\ UNCHANGED screenVars
ScreenPreempt == Preempt /\ UNCHANGED screenVars

ScreenNext ==
  \/ PrintStep
  \/ \E s \in Texts \cup {IntText} : ConsolePut(s)
  \/ ScreenCall
  \/ ScreenPreempt
  \/ \E t \in Clients : MainStart(t) /\ UNCHANGED screenVars
  \/ cur = main_thread /\ OwnIntr(INTR_ON) /\ UNCHANGED screenVars

ScreenSpec == ScreenInit /\ [][ScreenNext]_screenAllVars

(* As in Kbd: a thread that runs again and again gets on with its code.    *)
(* Nobody has to print.                                                    *)
ScreenFairSpec ==
  /\ ScreenSpec
  /\ \A t \in Clients : SF_screenAllVars(cur = t /\ (PrintStep \/ ScreenCall))
  /\ WF_screenAllVars(cur = main_thread /\ OwnIntr(INTR_ON) /\ UNCHANGED screenVars)
  /\ SF_screenAllVars(ScreenPreempt)

-----------------------------------------------------------------------------

(* The cursor the next put_char will read. *)
Drawn == {t \in Clients : ip[t] \in {"roll", "set_cursor", "out_high", "set_low", "out_low"}}
Rolling == {t \in Clients : ip[t] = "roll"}
cursor ==
  IF Rolling # {} THEN CELLS - COLUMNS
  ELSE IF Drawn # {} THEN bx[CHOOSE t \in Drawn : TRUE]
  ELSE high * BYTE + low
screen == IF Rolling # {} THEN Rolled ELSE vram
Owners == {t \in Clients : depth[t][console_lock] > 0}
owner == IF Owners = {} THEN NULL ELSE CHOOSE t \in Owners : TRUE

grid == [r \in 0..(ROWS - 1) |-> [c \in 0..(COLUMNS - 1) |-> screen[r * COLUMNS + c]]]
row == cursor \div COLUMNS
col == cursor % COLUMNS
todo == IF owner = NULL THEN << >> ELSE text[owner]

T == INSTANCE Terminal WITH
       Writers <- Clients, NOBODY <- NULL, grid <- grid, row <- row, col <- col,
       writer <- owner, todo <- todo, stopped <- panicked

(* console.c and print.S implement a terminal: texts never mix, every      *)
(* character is shown once and in order, lines wrap and scroll, and the    *)
(* kernel halts only for a backspace in the upper left corner.             *)
ImplementsTerminal == T!Spec

(* Whoever has the console prints its text and gives the console back,     *)
(* unless the kernel halts.                                                *)
ConsoleGivenBack ==
  \A t \in Clients :
    depth[t][console_lock] > 0 ~> panicked \/ depth[t][console_lock] = 0
=============================================================================
