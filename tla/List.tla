-------------------------------- MODULE List --------------------------------
(***************************************************************************)
(* The doubly linked lists of lib/kernel/list.c.  A list has two sentinels *)
(* of its own; an element (a general_tag) is linked into one list after    *)
(* another and keeps its old links when it is removed.                     *)
(*                                                                         *)
(* list_push and list_pop read head.next before list_insert_before and     *)
(* list_remove turn interrupts off: they are atomic because every caller   *)
(* in the kernel has interrupts off already (AtomicSections of Sync).      *)
(***************************************************************************)
EXTENDS Naturals, Sequences, FiniteSets

CONSTANTS Lists, Elems, NULL

ASSUME ElemsAssumption == IsFiniteSet(Elems)

head(l) == <<l, "head">>
tail(l) == <<l, "tail">>
Heads == {head(l) : l \in Lists}
Tails == {tail(l) : l \in Lists}
Nodes == Elems \cup Heads \cup Tails

(* The sentinels are objects of their own, and none is the null pointer. *)
ASSUME NodesAssumption ==
  /\ Elems \cap (Heads \cup Tails) = {}
  /\ NULL \notin Nodes \cup Lists

VARIABLES
  prev, next,   \* the fields of every list_elem
  panicked,     \* an ASSERT failed
  where         \* history: the list the callers have put an element into

listVars == <<prev, next, panicked, where>>

(* list_init of every list. *)
ListInit ==
  /\ next = [n \in Nodes |-> IF n \in Heads THEN tail(n[1]) ELSE NULL]
  /\ prev = [n \in Nodes |-> IF n \in Tails THEN head(n[1]) ELSE NULL]
  /\ panicked = FALSE
  /\ where = [e \in Elems |-> NULL]

-----------------------------------------------------------------------------

(* Mutant of list_insert_before: before->prev is set too early, so that    *)
(* elem->prev points to elem itself.                                       *)
InsertBeforeSwapped(before, e) ==
  /\ next' = [next EXCEPT ![prev[before]] = e, ![e] = before]
  /\ prev' = [prev EXCEPT ![before] = e, ![e] = e]
  /\ UNCHANGED panicked

list_insert_before(before, e) ==
  IF prev[before] = NULL
    THEN panicked' = TRUE /\ UNCHANGED <<prev, next>>
    ELSE /\ next' = [next EXCEPT ![prev[before]] = e, ![e] = before]
         /\ prev' = [prev EXCEPT ![e] = prev[before], ![before] = e]
         /\ UNCHANGED panicked

(* Mutant of list_remove: only the forward link is changed. *)
ListRemoveForward(n) ==
  /\ next' = IF prev[n] # NULL THEN [next EXCEPT ![prev[n]] = next[n]] ELSE next
  /\ UNCHANGED <<prev, panicked>>

list_remove(n) ==
  /\ next' = IF prev[n] # NULL THEN [next EXCEPT ![prev[n]] = next[n]] ELSE next
  /\ prev' = IF next[n] # NULL THEN [prev EXCEPT ![next[n]] = prev[n]] ELSE prev
  /\ UNCHANGED panicked

list_empty(l) == next[head(l)] = tail(l)

(* The callers: an element is put into a list only when it is in none, and *)
(* list_pop is called only on a list that is not empty.                    *)
list_append(l, e) ==
  /\ where[e] = NULL
  /\ where' = [where EXCEPT ![e] = l]
  /\ list_insert_before(tail(l), e)

(* Mutant of list_push: it inserts before the tail, as list_append does. *)
ListPushLast(l, e) ==
  /\ where[e] = NULL
  /\ where' = [where EXCEPT ![e] = l]
  /\ list_insert_before(tail(l), e)

list_push(l, e) ==
  /\ where[e] = NULL
  /\ where' = [where EXCEPT ![e] = l]
  /\ list_insert_before(next[head(l)], e)

list_pop(l) ==
  /\ ~list_empty(l)
  /\ where' = [where EXCEPT ![next[head(l)]] = NULL]
  /\ list_remove(next[head(l)])

(* list_remove called on an element in the middle of its list. *)
Unlink(e) ==
  /\ where[e] # NULL
  /\ where' = [where EXCEPT ![e] = NULL]
  /\ list_remove(e)

ListNext ==
  /\ ~panicked
  /\ \/ \E l \in Lists, e \in Elems : list_append(l, e) \/ list_push(l, e)
     \/ \E l \in Lists : list_pop(l)
     \/ \E e \in Elems : Unlink(e)

ListSpec == ListInit /\ [][ListNext]_listVars

-----------------------------------------------------------------------------
(* The functions that read a list walk from head.next to the tail. *)

MaxSteps == Cardinality(Elems) + 1

(* temp after n rounds of the loop; NULL if the walk left the lists. *)
Walk(l) ==
  LET temp[n \in 0..MaxSteps] ==
        IF n = 0 THEN next[head(l)]
        ELSE IF temp[n - 1] = NULL THEN NULL ELSE next[temp[n - 1]]
  IN  temp

(* The number of rounds until temp == &plist->tail; MaxSteps + 1: never. *)
list_len(l) ==
  LET ends == {n \in 0..MaxSteps : Walk(l)[n] = tail(l)}
  IN  IF ends = {} THEN MaxSteps + 1 ELSE CHOOSE n \in ends : \A m \in ends : n <= m

elem_find(l, e) == \E n \in 0..(list_len(l) - 1) : Walk(l)[n] = e

(* The first element func accepts: the ones of the set good. *)
list_traversal(l, good) ==
  LET hits == {n \in 0..(list_len(l) - 1) : Walk(l)[n] \in good}
  IN  IF list_empty(l) \/ hits = {} THEN NULL
      ELSE Walk(l)[CHOOSE n \in hits : \A m \in hits : n <= m]

-----------------------------------------------------------------------------

(* Every reader terminates, and finds in a list exactly the elements its   *)
(* callers have put there, whatever lists an element has been in before.   *)
ReadersAgree ==
  \A l \in Lists :
    /\ list_len(l) = Cardinality({e \in Elems : where[e] = l})
    /\ \A e \in Elems : elem_find(l, e) <=> where[e] = l
    /\ \A good \in SUBSET Elems :
         LET e == list_traversal(l, good)
         IN  IF \A g \in good : where[g] # l THEN e = NULL
             ELSE e \in good /\ where[e] = l

(* The backward links are the forward links turned round, for every        *)
(* element that is in a list: list_remove in the middle depends on both.   *)
(* The ASSERT of list_insert_before never fails.                           *)
LinksMatch ==
  /\ ~panicked
  /\ \A n \in Heads \cup {e \in Elems : where[e] # NULL} :
       next[n] # NULL /\ prev[next[n]] = n

content == [l \in Lists |-> [n \in 1..list_len(l) |-> Walk(l)[n - 1]]]
Abstract == INSTANCE SeqList

(* The linked lists are the sequences the rest of the kernel takes them    *)
(* for: each function does to the walk over the list what its abstract     *)
(* counterpart does to a sequence, and nothing to the other lists.         *)
ImplementsSequences ==
  /\ Abstract!Init
  /\ [][/\ \A l \in Lists, e \in Elems :
             /\ list_append(l, e) => Abstract!PutLast(l, e)
             /\ list_push(l, e) => Abstract!PutFirst(l, e)
        /\ \A l \in Lists : list_pop(l) => Abstract!TakeFirst(l)
        /\ \A e \in Elems : Unlink(e) => Abstract!TakeOut(e)]_listVars
=============================================================================
