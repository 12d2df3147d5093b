------------------------------ MODULE MCScreen ------------------------------
(* Screen for TLC: every kind of character at every place of the screen. *)
EXTENDS Screen

MCPriority == [t \in Threads |-> 0]
MCTexts == {<< >>, <<LF, CHAR>>, <<BS, BS>>, <<CHAR, BS>>}
=============================================================================
