------------------------------ MODULE Keyboard ------------------------------
(***************************************************************************)
(* The keyboard driver, device/keyboard.c: intr_keyboard_handler turns the *)
(* scan codes of the keyboard controller, one byte per interrupt, into the *)
(* characters it puts into kbd_buf and keeps track of the modifier keys.   *)
(* The keyboard itself, which sends the codes of the keys a user presses   *)
(* and releases, is the environment.                                       *)
(*                                                                         *)
(* A character is <<index, column>>, its place in keymap.  What kbd_buf    *)
(* does with it is the subject of module Kbd.                              *)
(***************************************************************************)
EXTENDS Naturals, Sequences, FiniteSets

CONSTANTS
  Keys,         \* the keys the user has: names of MakeCode
  MaxPresses,   \* bound: keys pressed
  MaxPort       \* bound: bytes waiting in the keyboard controller

(* The make code of each key; arrow is a cursor key that the keyboard      *)
(* wraps in a fake shift.                                                  *)
MakeCode ==
  [shift_l |-> <<\h2a>>, shift_r |-> <<\h36>>,
   ctrl_l  |-> <<\h1d>>, ctrl_r  |-> <<\he0, \h1d>>,
   alt_l   |-> <<\h38>>, alt_r   |-> <<\he0, \h38>>,
   caps_lock |-> <<\h3a>>,
   a |-> <<\h1e>>, equal |-> <<\h0d>>, slash |-> <<\h35>>, backspace |-> <<\h0e>>,
   arrow |-> <<\he0, \h2a, \he0, \h48>>]

Break(byte) == IF byte = \he0 THEN byte ELSE byte + \h80
BreakCode == [k \in DOMAIN MakeCode |->
  IF k = "arrow" THEN <<\he0, \hc8, \he0, \haa>>
  ELSE [i \in DOMAIN MakeCode[k] |-> Break(MakeCode[k][i])]]

ASSUME KeysAssumption == Keys \subseteq DOMAIN MakeCode

VARIABLES
  ctrl_status, shift_status, alt_status, caps_lock_status, ext_scancode,
  typed,      \* the characters the handler produced
  port,       \* bytes the keyboard has sent and the handler has not read
  down,       \* the keys the user holds
  caps_on,    \* whether the user has Caps Lock on
  presses,    \* how many keys were pressed
  meant       \* the characters the user meant to type

statusVars == <<ctrl_status, shift_status, alt_status, caps_lock_status>>
userVars == <<down, caps_on, presses, meant>>
keyboardVars == <<statusVars, ext_scancode, typed, port, userVars>>

KeyboardInit ==
  /\ ctrl_status = FALSE /\ shift_status = FALSE /\ alt_status = FALSE
  /\ caps_lock_status = FALSE /\ ext_scancode = FALSE
  /\ typed = << >> /\ port = << >>
  /\ down = {} /\ caps_on = FALSE /\ presses = 0 /\ meant = << >>

-----------------------------------------------------------------------------
(* The keyboard and its user. *)

ShiftKeys == {"shift_l", "shift_r"}
CtrlKeys  == {"ctrl_l", "ctrl_r"}
AltKeys   == {"alt_l", "alt_r"}

(* What is printed on the key caps: Shift gives the upper character, where *)
(* there is one, and Caps Lock exchanges the two on letters.               *)
Meant(k) ==
  LET shift == down \cap ShiftKeys # {}
  IN  IF k \in {"a", "equal", "slash", "backspace"}
        THEN << <<MakeCode[k][1], k # "backspace" /\ shift # (k = "a" /\ caps_on)>> >>
        ELSE << >>

Send(code) ==
  /\ Len(port) + Len(code) <= MaxPort
  /\ port' = port \o code

Press(k) ==
  /\ presses < MaxPresses
  /\ k \notin down
  /\ Send(MakeCode[k])
  /\ down' = down \cup {k}
  /\ caps_on' = (caps_on # (k = "caps_lock"))
  /\ presses' = presses + 1
  /\ meant' = meant \o Meant(k)
  /\ UNCHANGED <<statusVars, ext_scancode, typed>>

(* A key that is held sends its make code again and again. *)
Repeat(k) ==
  /\ presses < MaxPresses
  /\ k \in down \ {"caps_lock"}
  /\ Send(MakeCode[k])
  /\ presses' = presses + 1
  /\ meant' = meant \o Meant(k)
  /\ UNCHANGED <<statusVars, ext_scancode, typed, down, caps_on>>

Release(k) ==
  /\ k \in down
  /\ Send(BreakCode[k])
  /\ down' = down \ {k}
  /\ UNCHANGED <<statusVars, ext_scancode, typed, caps_on, presses, meant>>

-----------------------------------------------------------------------------
(* intr_keyboard_handler. *)

(* scancode with the prefix of the interrupt before. *)
scancode == (IF ext_scancode THEN \he000 ELSE 0) + Head(port)
break_code == (scancode % 256) >= \h80

(* The tests of the handler, by scan code. *)
InKeymap == (scancode > 0 /\ scancode < \h3b) \/ scancode \in {\he038, \he01d}
TwoCharacters ==
  scancode < \h0e \/ scancode \in {\h29, \h1a, \h1b, \h2b, \h27, \h28, \h33, \h34, \h35}
Invisible == {\h1d, \h2a, \h36, \h38, \h3a}        \* keymap has 0 for these
SameInBoth == {\h01, \h0e, \h0f, \h1c, \h37, \h39} \* keymap[i][0] = keymap[i][1]

(* The modifiers of the left and of the right side. *)
CtrlCodes == {\h1d, \he01d}
ShiftCodes == {\h2a, \h36}
AltCodes == {\h38, \he038}

keymap(index, shift) == <<index, shift /\ index \notin SameInBoth>>

(* Mutant of shift_column: Shift and Caps Lock together stay upper case. *)
shift_column_either ==
  IF TwoCharacters THEN shift_status ELSE shift_status \/ caps_lock_status

(* Which column of keymap. *)
shift_column ==
  IF TwoCharacters THEN shift_status ELSE shift_status # caps_lock_status

Read == port # << >> /\ port' = Tail(port)

(* 0xe0: wait for the second byte. *)
PrefixInterrupt ==
  /\ Read
  /\ Head(port) = \he0
  /\ ext_scancode' = TRUE
  /\ UNCHANGED <<statusVars, typed, userVars>>

(* Mutant of BreakInterrupt: ext_scancode is not reset. *)
BreakInterruptKeepsPrefix ==
  /\ Read
  /\ Head(port) # \he0
  /\ break_code
  /\ LET make_code == scancode - \h80
     IN  /\ ctrl_status'  = (ctrl_status /\ make_code \notin CtrlCodes)
         /\ shift_status' = (shift_status /\ make_code \notin ShiftCodes)
         /\ alt_status'   = (alt_status /\ make_code \notin AltCodes)
  /\ UNCHANGED <<caps_lock_status, ext_scancode, typed, userVars>>

(* A key is released. *)
BreakInterrupt ==
  /\ Read
  /\ Head(port) # \he0
  /\ break_code
  /\ ext_scancode' = FALSE
  /\ LET make_code == scancode - \h80
     IN  /\ ctrl_status'  = (ctrl_status /\ make_code \notin CtrlCodes)
         /\ shift_status' = (shift_status /\ make_code \notin ShiftCodes)
         /\ alt_status'   = (alt_status /\ make_code \notin AltCodes)
  /\ UNCHANGED <<caps_lock_status, typed, userVars>>

(* A key with a character is pressed: ioq_putchar. *)
CharacterInterrupt ==
  /\ Read
  /\ Head(port) # \he0 /\ ~break_code /\ InKeymap
  /\ scancode % 256 \notin Invisible
  /\ ext_scancode' = FALSE
  /\ typed' = Append(typed, keymap(scancode % 256, shift_column))
  /\ UNCHANGED <<statusVars, userVars>>

(* A modifier is pressed.  The index into keymap has dropped the prefix.   *)
ModifierInterrupt ==
  /\ Read
  /\ Head(port) # \he0 /\ ~break_code /\ InKeymap
  /\ ext_scancode' = FALSE
  /\ LET code == scancode % 256
     IN  /\ code \in Invisible
         /\ ctrl_status'  = (ctrl_status \/ code = \h1d)
         /\ shift_status' = (shift_status \/ code \in {\h2a, \h36})
         /\ alt_status'   = (alt_status \/ code = \h38)
         /\ caps_lock_status' = (caps_lock_status # (code = \h3a))
  /\ UNCHANGED <<typed, userVars>>

(* "unknown key". *)
UnknownInterrupt ==
  /\ Read
  /\ Head(port) # \he0 /\ ~break_code /\ ~InKeymap
  /\ ext_scancode' = FALSE
  /\ UNCHANGED <<statusVars, typed, userVars>>

KeyboardNext ==
  \/ \E k \in Keys : Press(k) \/ Repeat(k) \/ Release(k)
  \/ PrefixInterrupt \/ BreakInterrupt
  \/ CharacterInterrupt \/ ModifierInterrupt \/ UnknownInterrupt

KeyboardSpec == KeyboardInit /\ [][KeyboardNext]_keyboardVars

-----------------------------------------------------------------------------

(* Once every byte is read, the status variables say which modifiers the   *)
(* user holds: no modifier is stuck or missed, whatever the order of       *)
(* presses, releases, repeats and multi-byte codes.  It holds of keyboards *)
(* with one key of each kind; two Shift keys share one variable.           *)
StatusTracksKeys ==
  port = << >> =>
    /\ ~ext_scancode
    /\ shift_status = (down \cap ShiftKeys # {})
    /\ ctrl_status = (down \cap CtrlKeys # {})
    /\ alt_status = (down \cap AltKeys # {})
    /\ caps_lock_status = caps_on

(* The handler produces the characters the user meant, each with the       *)
(* modifiers of the moment its key was pressed, although it reads the      *)
(* codes later.                                                            *)
TypedAsMeant ==
  /\ Len(typed) <= Len(meant)
  /\ typed = SubSeq(meant, 1, Len(typed))
  /\ port = << >> => typed = meant
=============================================================================
