------------------------------ MODULE MCUnits ------------------------------
(* The parts that share no state with each other, for TLC: bitmap_scan, the *)
(* lists, and the keyboard's decoder.  Each is explored alone, with the two *)
(* others in an initial state.                                              *)
EXTENDS Bitmap, List, Keyboard

VARIABLE unit

UnitsInit ==
  /\ ScanInit /\ ListInit /\ KeyboardInit
  /\ unit \in {"bitmap", "list", "keyboard"}
  /\ unit # "bitmap" => cnt = 1 /\ \A i \in DOMAIN bits : bits[i] = 0

UnitsNext ==
  \/ unit = "bitmap" /\ ScanNext /\ UNCHANGED <<unit, listVars, keyboardVars>>
  \/ unit = "list" /\ ListNext /\ UNCHANGED <<unit, scanVars, keyboardVars>>
  \/ unit = "keyboard" /\ KeyboardNext /\ UNCHANGED <<unit, scanVars, listVars>>

UnitsSpec == UnitsInit /\ [][UnitsNext]_<<unit, scanVars, listVars, keyboardVars>>
=============================================================================
