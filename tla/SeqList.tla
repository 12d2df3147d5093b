------------------------------- MODULE SeqList ------------------------------
(***************************************************************************)
(* What the lists of lib/kernel/list.c promise, and what the other modules *)
(* take them for: sequences, with no element in two places.                *)
(***************************************************************************)
EXTENDS Naturals, Sequences

CONSTANTS Lists, Elems

VARIABLE content   \* the elements of each list, first to last

In(e, l) == \E i \in 1..Len(content[l]) : content[l][i] = e
Unlinked(e) == \A l \in Lists : ~In(e, l)

Init == content = [l \in Lists |-> << >>]

PutLast(l, e) ==
  /\ Unlinked(e)
  /\ content' = [content EXCEPT ![l] = Append(@, e)]

PutFirst(l, e) ==
  /\ Unlinked(e)
  /\ content' = [content EXCEPT ![l] = <<e>> \o @]

TakeFirst(l) ==
  /\ content[l] # << >>
  /\ content' = [content EXCEPT ![l] = Tail(@)]

TakeOut(e) ==
  \E l \in Lists : \E i \in 1..Len(content[l]) :
    /\ content[l][i] = e
    /\ content' = [content EXCEPT ![l] = SubSeq(@, 1, i - 1) \o SubSeq(@, i + 1, Len(@))]

Next ==
  \/ \E l \in Lists, e \in Elems : PutLast(l, e) \/ PutFirst(l, e)
  \/ \E l \in Lists : TakeFirst(l)
  \/ \E e \in Elems : TakeOut(e)

Spec == Init /\ [][Next]_content
=============================================================================
