------------------------------ MODULE Terminal ------------------------------
(***************************************************************************)
(* What console.c and print.S promise together: a text screen on which one *)
(* writer at a time shows its whole text, a character in one step.  The    *)
(* glyph of a printed character is its writer, so texts that mixed would   *)
(* be seen.                                                                *)
(***************************************************************************)
EXTENDS Naturals, Sequences

CONSTANTS
  Writers, NOBODY,
  ROWS, COLUMNS,
  BLANK,           \* the glyph of an empty cell
  CHAR, LF, BS     \* characters: printed, line feed or return, backspace

VARIABLES
  grid,       \* the glyph of every cell
  row, col,   \* where the next character goes
  writer,     \* who is printing, or NOBODY
  todo,       \* what the writer still has to print
  stopped     \* the kernel has halted

terminalVars == <<grid, row, col, writer, todo, stopped>>

EmptyLine == [c \in 0..(COLUMNS - 1) |-> BLANK]

Init ==
  /\ grid = [r \in 0..(ROWS - 1) |-> EmptyLine]
  /\ row \in 0..(ROWS - 1)
  /\ col \in 0..(COLUMNS - 1)
  /\ writer = NOBODY
  /\ todo = << >>
  /\ stopped = FALSE

Start(t) ==
  /\ ~stopped
  /\ writer = NOBODY
  /\ writer' = t
  /\ todo' \in Seq({CHAR, LF, BS})
  /\ UNCHANGED <<grid, row, col, stopped>>

Finish ==
  /\ writer # NOBODY
  /\ todo = << >>
  /\ writer' = NOBODY
  /\ UNCHANGED <<grid, row, col, todo, stopped>>

Next1(c) == ~stopped /\ todo # << >> /\ Head(todo) = c
Consume == todo' = Tail(todo) /\ UNCHANGED <<writer, stopped>>

(* To the start of the next line of g; the last line scrolls. *)
NewLine(g) ==
  /\ col' = 0
  /\ IF row + 1 < ROWS
       THEN row' = row + 1 /\ grid' = g
       ELSE /\ UNCHANGED row
            /\ grid' = [r \in 0..(ROWS - 1) |-> IF r + 1 < ROWS THEN g[r + 1] ELSE EmptyLine]

PutChar ==
  /\ Next1(CHAR)
  /\ Consume
  /\ LET g == [grid EXCEPT ![row][col] = writer]
     IN  IF col + 1 < COLUMNS
           THEN grid' = g /\ col' = col + 1 /\ UNCHANGED row
           ELSE NewLine(g)

PutLine == Next1(LF) /\ Consume /\ NewLine(grid)

(* The character before the position is wiped out, also across a line end. *)
PutBackspace ==
  /\ Next1(BS)
  /\ Consume
  /\ \/ col > 0 /\ col' = col - 1 /\ UNCHANGED row
     \/ col = 0 /\ row > 0 /\ row' = row - 1 /\ col' = COLUMNS - 1
  /\ grid' = [grid EXCEPT ![row'][col'] = BLANK]

(* A backspace in the upper left corner is the one thing that halts. *)
Stop == Next1(BS) /\ row = 0 /\ col = 0 /\ stopped' = TRUE

Next ==
  \/ \E t \in Writers : Start(t)
  \/ Finish
  \/ PutChar \/ PutLine \/ PutBackspace
  \/ Stop

Spec == Init /\ [][Next]_terminalVars
=============================================================================
