----------------------------- MODULE ListProofs -----------------------------
(***************************************************************************)
(* The linked lists of lib/kernel/list.c are the sequences the rest of the *)
(* kernel takes them for, for any lists and any elements.                  *)
(*                                                                         *)
(* The inductive invariant says that the links spell out a sequence for    *)
(* each list, with no element in two places.  Which sequence is not in the *)
(* state: it is what the walk from head.next to the tail finds, and that   *)
(* the walk finds it is shown by induction on its steps.                   *)
(***************************************************************************)
EXTENDS List, FiniteSetTheorems, SequenceTheorems, WellFoundedInduction, TLAPS

(* A non-empty set of numbers has a smallest one. *)
LEMMA Least == ASSUME NEW S \in SUBSET Nat, S # {} PROVE \E m \in S : \A k \in S : m <= k
<1> DEFINE Less == {ss \in Nat \X Nat : ss[1] < ss[2]}
<1>1. IsWellFoundedOn(Less, Nat)
  BY NatLessThanWellFounded DEF OpToRel
<1>2. PICK m \in S : \A k \in S : ~(<<k, m>> \in Less)
  <2> HIDE DEF Less
  <2> QED BY <1>1, WFMin
<1>3. \A k \in S : ~(k < m)
  BY <1>2
<1> QED BY <1>3

(* The node at place i of list l with the elements q: the head is at place *)
(* 0, the tail behind the last element.                                    *)
At(q, l, i) == IF i = 0 THEN head(l) ELSE IF i = Len(q) + 1 THEN tail(l) ELSE q[i]

(* The places of a list, the head's and the tail's included. *)
Places(q) == 0..(Len(q) + 1)

LinkTypes ==
  /\ next \in [Nodes -> Nodes \cup {NULL}]
  /\ prev \in [Nodes -> Nodes \cup {NULL}]
  /\ where \in [Elems -> Lists \cup {NULL}]
  /\ panicked = FALSE

NoDuplicates(s) ==
  \A l \in Lists : \A i, j \in 1..Len(s[l]) : s[l][i] = s[l][j] => i = j

Located(s) ==
  \A l \in Lists, e \in Elems :
    where[e] = l <=> \E i \in 1..Len(s[l]) : s[l][i] = e

Linked(s) ==
  \A l \in Lists : \A i \in 0..Len(s[l]) :
    /\ next[At(s[l], l, i)] = At(s[l], l, i + 1)
    /\ prev[At(s[l], l, i + 1)] = At(s[l], l, i)

(* Nothing is behind a tail. *)
Ended == \A l \in Lists : next[tail(l)] = NULL

(* The links spell out the sequences s. *)
Spells(s) ==
  /\ s \in [Lists -> Seq(Elems)]
  /\ LinkTypes
  /\ NoDuplicates(s)
  /\ Located(s)
  /\ Linked(s)
  /\ Ended

ListInv == \E s : Spells(s)

(* r is q with e put in behind its first k elements. *)
Inserted(q, k, e, r) ==
  /\ r \in Seq(Elems)
  /\ Len(r) = Len(q) + 1
  /\ \A i \in 1..k : r[i] = q[i]
  /\ r[k + 1] = e
  /\ \A i \in (k + 1)..Len(q) : r[i + 1] = q[i]

(* r is q without its i-th element. *)
Removed(q, i, r) ==
  /\ r \in Seq(Elems)
  /\ Len(r) = Len(q) - 1
  /\ \A j \in 1..(i - 1) : r[j] = q[j]
  /\ \A j \in i..(Len(q) - 1) : r[j] = q[j + 1]

-----------------------------------------------------------------------------

(* Sentinels and elements are different nodes, and none is null. *)
LEMMA NodeFacts ==
  /\ \A l \in Lists : head(l) \in Nodes /\ tail(l) \in Nodes
  /\ \A e \in Elems : e \in Nodes /\ e \notin Heads /\ e \notin Tails
  /\ \A n \in Nodes : n # NULL
  /\ \A l \in Lists : l # NULL
  /\ \A l, m \in Lists : head(l) # tail(m)
  /\ \A l, m \in Lists : head(l) = head(m) => l = m
  /\ \A l, m \in Lists : tail(l) = tail(m) => l = m
  /\ \A l \in Lists, e \in Elems : head(l) # e /\ tail(l) # e
BY NodesAssumption DEF Nodes, Heads, Tails, head, tail

(* What is at the places of a list. *)
LEMMA PlaceFacts ==
  ASSUME NEW l \in Lists, NEW q \in Seq(Elems), NEW i \in 0..(Len(q) + 1)
  PROVE  /\ At(q, l, i) \in Nodes
         /\ i \in 1..Len(q) => At(q, l, i) = q[i] /\ q[i] \in Elems
         /\ At(q, l, 0) = head(l)
         /\ At(q, l, Len(q) + 1) = tail(l)
<1>1. Len(q) \in Nat /\ \A j \in 1..Len(q) : q[j] \in Elems
  BY LenProperties, ElementOfSeq
<1>2. i = 0 \/ i = Len(q) + 1 \/ i \in 1..Len(q)
  BY <1>1
<1> QED BY <1>1, <1>2, NodeFacts DEF At

(* No node is at two places. *)
LEMMA PlacesDiffer ==
  ASSUME NEW s, Spells(s), NEW l \in Lists, NEW m \in Lists,
         NEW i \in Places(s[l]), NEW j \in Places(s[m]),
         At(s[l], l, i) = At(s[m], m, j)
  PROVE  l = m /\ i = j
<1>1. s[l] \in Seq(Elems) /\ s[m] \in Seq(Elems)
  BY DEF Spells
<1>2. /\ Len(s[l]) \in Nat /\ Len(s[m]) \in Nat
      /\ \A k \in 1..Len(s[l]) : s[l][k] \in Elems
      /\ \A k \in 1..Len(s[m]) : s[m][k] \in Elems
  BY <1>1, LenProperties, ElementOfSeq
<1>3. /\ i = 0 \/ i = Len(s[l]) + 1 \/ i \in 1..Len(s[l])
      /\ j = 0 \/ j = Len(s[m]) + 1 \/ j \in 1..Len(s[m])
  <2>1. i \in 0..(Len(s[l]) + 1) /\ j \in 0..(Len(s[m]) + 1)
    BY DEF Places
  <2>2. i = 0 \/ i = Len(s[l]) + 1 \/ i \in 1..Len(s[l])
    BY <1>2, <2>1
  <2>3. j = 0 \/ j = Len(s[m]) + 1 \/ j \in 1..Len(s[m])
    BY <1>2, <2>1
  <2> QED BY <2>2, <2>3
<1>4. /\ i \in 1..Len(s[l]) => At(s[l], l, i) = s[l][i] /\ s[l][i] \in Elems
      /\ i = 0 => At(s[l], l, i) = head(l)
      /\ i = Len(s[l]) + 1 => At(s[l], l, i) = tail(l)
  BY <1>2 DEF At
<1>5. /\ j \in 1..Len(s[m]) => At(s[m], m, j) = s[m][j] /\ s[m][j] \in Elems
      /\ j = 0 => At(s[m], m, j) = head(m)
      /\ j = Len(s[m]) + 1 => At(s[m], m, j) = tail(m)
  BY <1>2 DEF At
<1>6. CASE i \in 1..Len(s[l]) /\ j \in 1..Len(s[m])
  <2> DEFINE e == s[l][i]
  <2>1. e \in Elems /\ s[m][j] = e
    BY <1>4, <1>5, <1>6
  <2>2. where[e] = l /\ where[e] = m
    BY <1>6, <2>1 DEF Spells, Located
  <2> QED BY <1>6, <2>1, <2>2 DEF Spells, NoDuplicates
<1>7. CASE ~(i \in 1..Len(s[l]) /\ j \in 1..Len(s[m]))
  BY <1>3, <1>4, <1>5, <1>7, NodeFacts
<1> QED BY <1>6, <1>7

(* A tail is at no place before the last one. *)
LEMMA TailBehind ==
  ASSUME NEW s, Spells(s), NEW l \in Lists, NEW i \in 0..Len(s[l]), NEW m \in Lists
  PROVE  tail(m) # At(s[l], l, i)
<1>1. s[l] \in Seq(Elems)
  BY DEF Spells
<1>2. Len(s[l]) \in Nat /\ \A j \in 1..Len(s[l]) : s[l][j] \in Elems
  BY <1>1, LenProperties, ElementOfSeq
<1>3. i # Len(s[l]) + 1 /\ (i = 0 \/ i \in 1..Len(s[l]))
  BY <1>2
<1> QED BY <1>2, <1>3, NodeFacts DEF At

(* An element that is in no list is at no place. *)
LEMMA UnlinkedFacts ==
  ASSUME NEW s, Spells(s), NEW e \in Elems, where[e] = NULL,
         NEW m \in Lists, NEW i \in Places(s[m])
  PROVE  At(s[m], m, i) # e
<1>1. s[m] \in Seq(Elems)
  BY DEF Spells
<1>2. Len(s[m]) \in Nat
  BY <1>1, LenProperties
<1>3. i = 0 \/ i = Len(s[m]) + 1 \/ i \in 1..Len(s[m])
  BY <1>2 DEF Places
<1>4. \A j \in 1..Len(s[m]) : s[m][j] # e
  <2>1. where[e] # m
    BY NodeFacts
  <2>2. Located(s)
    BY DEF Spells
  <2> QED BY <2>1, <2>2 DEF Located
<1> QED BY <1>2, <1>3, <1>4, NodeFacts DEF At

(* The places of a list behind an insertion. *)
LEMMA InsertedPlaces ==
  ASSUME NEW l \in Lists, NEW q \in Seq(Elems), NEW e \in Elems, NEW r,
         NEW k \in 0..Len(q), Inserted(q, k, e, r)
  PROVE  /\ \A i \in 0..k : At(r, l, i) = At(q, l, i)
         /\ At(r, l, k + 1) = e
         /\ \A i \in (k + 1)..(Len(q) + 1) : At(r, l, i + 1) = At(q, l, i)
<1>1. Len(q) \in Nat /\ Len(r) = Len(q) + 1
  BY LenProperties DEF Inserted
<1>2. ASSUME NEW i \in 0..k PROVE At(r, l, i) = At(q, l, i)
  <2>1. i = 0 \/ (i \in 1..k /\ i # Len(q) + 1 /\ i # Len(r) + 1 /\ i # 0)
    BY <1>1
  <2> QED BY <2>1 DEF At, Inserted
<1>3. At(r, l, k + 1) = e
  <2>1. k + 1 # 0 /\ k + 1 # Len(r) + 1
    BY <1>1
  <2> QED BY <2>1 DEF At, Inserted
<1>4. ASSUME NEW i \in (k + 1)..(Len(q) + 1) PROVE At(r, l, i + 1) = At(q, l, i)
  <2>1. /\ i # 0 /\ i + 1 # 0
        /\ i = Len(q) + 1 <=> i + 1 = Len(r) + 1
        /\ i = Len(q) + 1 \/ i \in (k + 1)..Len(q)
    BY <1>1
  <2> QED BY <2>1 DEF At, Inserted
<1> QED BY <1>2, <1>3, <1>4

(* list_insert_before puts an element that is in no list in front of the   *)
(* node it is given, and the other lists keep theirs.                      *)
LEMMA InsertSpells ==
  ASSUME NEW s, Spells(s), NEW l \in Lists, NEW e \in Elems, NEW r,
         NEW k \in 0..Len(s[l]), Inserted(s[l], k, e, r),
         where[e] = NULL, where' = [where EXCEPT ![e] = l],
         list_insert_before(At(s[l], l, k + 1), e)
  PROVE  Spells([s EXCEPT ![l] = r])'
<1> DEFINE q == s[l]
           p == At(q, l, k)
           before == At(q, l, k + 1)
           t == [s EXCEPT ![l] = r]
<1>1. /\ q \in Seq(Elems) /\ Len(q) \in Nat /\ r \in Seq(Elems)
      /\ Len(r) = Len(q) + 1
      /\ t \in [Lists -> Seq(Elems)]
      /\ t[l] = r
      /\ \A m \in Lists : m # l => t[m] = s[m]
  BY LenProperties DEF Spells, Inserted
<1>2. /\ k \in Places(q) /\ k + 1 \in Places(q)
      /\ p \in Nodes /\ before \in Nodes /\ prev[before] = p
      /\ p # NULL
  <2>1. k \in 0..(Len(q) + 1) /\ k + 1 \in 0..(Len(q) + 1)
    BY <1>1
  <2>2. p \in Nodes
    BY <1>1, <2>1, PlaceFacts
  <2>3. before \in Nodes
    <3> PICK i \in 0..(Len(q) + 1) : i = k + 1
      BY <2>1
    <3> QED BY <1>1, PlaceFacts
  <2>4. prev[before] = p
    BY DEF Spells, Linked
  <2> QED BY <2>1, <2>2, <2>3, <2>4, NodeFacts DEF Places
<1>3. e # p /\ e # before /\ e \in Nodes
  <2>1. e # p
    BY <1>2, UnlinkedFacts
  <2>2. e # before
    <3> PICK i \in Places(q) : i = k + 1
      BY <1>2
    <3> QED BY UnlinkedFacts
  <2> QED BY <2>1, <2>2, NodeFacts
<1>4. /\ next' = [next EXCEPT ![p] = e, ![e] = before]
      /\ prev' = [prev EXCEPT ![e] = p, ![before] = e]
      /\ panicked' = panicked
  BY <1>2 DEF list_insert_before
<1>5. /\ next \in [Nodes -> Nodes \cup {NULL}]
      /\ prev \in [Nodes -> Nodes \cup {NULL}]
      /\ where \in [Elems -> Lists \cup {NULL}]
      /\ panicked = FALSE
  BY DEF Spells, LinkTypes
<1>6. /\ next'[p] = e /\ next'[e] = before
      /\ prev'[e] = p /\ prev'[before] = e
      /\ \A n \in Nodes : n # p /\ n # e => next'[n] = next[n]
      /\ \A n \in Nodes : n # before /\ n # e => prev'[n] = prev[n]
  <2> HIDE DEF p, before
  <2> QED BY <1>2, <1>3, <1>4, <1>5
<1>7. LinkTypes'
  <2> HIDE DEF p, before
  <2> QED BY <1>2, <1>3, <1>4, <1>5 DEF LinkTypes
<1>8. NoDuplicates(t)
  <2> SUFFICES ASSUME NEW m \in Lists, NEW i \in 1..Len(t[m]), NEW j \in 1..Len(t[m]), t[m][i] = t[m][j]
               PROVE  i = j
    BY DEF NoDuplicates
  <2>1. CASE m # l
    BY <1>1, <2>1 DEF Spells, NoDuplicates
  <2>2. CASE m = l
    <3>1. \A a \in 1..Len(q) : q[a] # e
      <4>1. where[e] # l
        BY NodeFacts
      <4>2. Located(s)
        BY DEF Spells
      <4> QED BY <4>1, <4>2 DEF Located
    <3>2. \A a, b \in 1..Len(q) : q[a] = q[b] => a = b
      BY DEF Spells, NoDuplicates
    <3>3. /\ i \in 1..k \/ i = k + 1 \/ (i - 1 \in (k + 1)..Len(q) /\ (i - 1) + 1 = i)
          /\ j \in 1..k \/ j = k + 1 \/ (j - 1 \in (k + 1)..Len(q) /\ (j - 1) + 1 = j)
      BY <1>1, <2>2
    <3>4. /\ \A a \in 1..k : r[a] = q[a]
          /\ r[k + 1] = e
          /\ \A a \in (k + 1)..Len(q) : r[a + 1] = q[a]
      BY DEF Inserted
    <3>5. r[i] = r[j]
      BY <1>1, <2>2
    <3>6. i \in 1..k => r[i] = q[i] /\ i \in 1..Len(q)
      BY <1>1, <3>4
    <3>7. j \in 1..k => r[j] = q[j] /\ j \in 1..Len(q)
      BY <1>1, <3>4
    <3>8. i - 1 \in (k + 1)..Len(q) => r[i] = q[i - 1] /\ i - 1 \in 1..Len(q)
      <4> SUFFICES ASSUME i - 1 \in (k + 1)..Len(q)
                   PROVE  r[i] = q[i - 1] /\ i - 1 \in 1..Len(q)
        OBVIOUS
      <4>1. PICK a \in (k + 1)..Len(q) : a = i - 1
        OBVIOUS
      <4>2. a + 1 = i /\ a \in 1..Len(q)
        BY <1>1, <3>3, <4>1
      <4> QED BY <3>4, <4>1, <4>2
    <3>9. j - 1 \in (k + 1)..Len(q) => r[j] = q[j - 1] /\ j - 1 \in 1..Len(q)
      <4> SUFFICES ASSUME j - 1 \in (k + 1)..Len(q)
                   PROVE  r[j] = q[j - 1] /\ j - 1 \in 1..Len(q)
        OBVIOUS
      <4>1. PICK a \in (k + 1)..Len(q) : a = j - 1
        OBVIOUS
      <4>2. a + 1 = j /\ a \in 1..Len(q)
        BY <1>1, <3>3, <4>1
      <4> QED BY <3>4, <4>1, <4>2
    <3> HIDE DEF q, t
    <3>10. CASE i = k + 1 \/ j = k + 1
      BY <3>1, <3>3, <3>4, <3>5, <3>6, <3>7, <3>8, <3>9, <3>10
    <3>11. CASE i \in 1..k /\ j \in 1..k
      BY <3>2, <3>5, <3>6, <3>7, <3>11
    <3>12. CASE i - 1 \in (k + 1)..Len(q) /\ j - 1 \in (k + 1)..Len(q)
      BY <3>2, <3>3, <3>5, <3>8, <3>9, <3>12
    <3>13. CASE i \in 1..k /\ j - 1 \in (k + 1)..Len(q)
      <4>1. i = j - 1
        BY <3>2, <3>5, <3>6, <3>9, <3>13
      <4> QED BY <1>1, <3>13, <4>1
    <3>14. CASE i - 1 \in (k + 1)..Len(q) /\ j \in 1..k
      <4>1. i - 1 = j
        BY <3>2, <3>5, <3>7, <3>8, <3>14
      <4> QED BY <1>1, <3>14, <4>1
    <3> QED BY <3>3, <3>10, <3>11, <3>12, <3>13, <3>14
  <2> QED BY <2>1, <2>2
<1>9. Located(t)'
  <2> SUFFICES ASSUME NEW m \in Lists, NEW x \in Elems
               PROVE  where'[x] = m <=> \E i \in 1..Len(t[m]) : t[m][i] = x
    BY DEF Located
  <2>1. where'[e] = l /\ \A y \in Elems : y # e => where'[y] = where[y]
    BY <1>5
  <2>2. where[x] = m <=> \E i \in 1..Len(s[m]) : s[m][i] = x
    BY DEF Spells, Located
  <2>3. CASE m # l
    <3>1. t[m] = s[m]
      BY <1>1, <2>3
    <3>2. x = e => ~ \E i \in 1..Len(s[m]) : s[m][i] = x
      BY <2>2, NodeFacts
    <3> QED BY <2>1, <2>2, <2>3, <3>1, <3>2
  <2>4. CASE m = l
    <3>1. ASSUME where'[x] = m PROVE \E i \in 1..Len(r) : r[i] = x
      <4>1. CASE x = e
        <5>1. k + 1 \in 1..Len(r) /\ r[k + 1] = e
          BY <1>1 DEF Inserted
        <5> QED BY <4>1, <5>1
      <4>2. CASE x # e
        <5>1. PICK i \in 1..Len(q) : q[i] = x
          BY <2>1, <2>2, <2>4, <3>1, <4>2
        <5>2. CASE i <= k
          BY <1>1, <5>1, <5>2 DEF Inserted
        <5>3. CASE i > k
          <6>1. i \in (k + 1)..Len(q) /\ i + 1 \in 1..Len(r)
            BY <1>1, <5>3
          <6> QED BY <5>1, <6>1 DEF Inserted
        <5> QED BY <5>2, <5>3, <1>1
      <4> QED BY <4>1, <4>2
    <3>2. ASSUME NEW i \in 1..Len(r), r[i] = x PROVE where'[x] = m
      <4>1. CASE i = k + 1
        BY <2>1, <2>4, <3>2, <4>1 DEF Inserted
      <4>2. CASE i # k + 1
        <5>1. \E a \in 1..Len(q) : q[a] = x
          <6>1. CASE i <= k
            BY <1>1, <3>2, <6>1 DEF Inserted
          <6>2. CASE i > k
            <7>1. i - 1 \in (k + 1)..Len(q) /\ i - 1 \in 1..Len(q) /\ (i - 1) + 1 = i
              BY <1>1, <4>2, <6>2
            <7>2. r[i] = q[i - 1]
              BY <7>1 DEF Inserted
            <7> QED BY <3>2, <7>1, <7>2
          <6> QED BY <6>1, <6>2, <1>1
        <5>2. where[x] = l
          BY <2>2, <2>4, <5>1
        <5> QED BY <2>1, <2>4, <5>2, NodeFacts
      <4> QED BY <4>1, <4>2
    <3> QED BY <1>1, <2>4, <3>1, <3>2
  <2> QED BY <2>3, <2>4
<1>10. Linked(t)'
  <2> SUFFICES ASSUME NEW m \in Lists, NEW i \in 0..Len(t[m])
               PROVE  /\ next'[At(t[m], m, i)] = At(t[m], m, i + 1)
                      /\ prev'[At(t[m], m, i + 1)] = At(t[m], m, i)
    BY DEF Linked
  (* The links between places that are not next to the insertion. *)
  <2>1. ASSUME NEW n \in Lists, NEW a \in 0..Len(s[n]), n # l \/ a # k
        PROVE  /\ next'[At(s[n], n, a)] = At(s[n], n, a + 1)
               /\ prev'[At(s[n], n, a + 1)] = At(s[n], n, a)
    <3>1. s[n] \in Seq(Elems) /\ Len(s[n]) \in Nat
      BY LenProperties DEF Spells
    <3> PICK b : b = a + 1
      OBVIOUS
    <3> PICK k1 : k1 = k + 1
      OBVIOUS
    <3>2. a \in Places(s[n]) /\ b \in Places(s[n])
      BY <3>1 DEF Places
    <3>3. At(s[n], n, a) # p
      <4>1. n = l /\ a = k <=> FALSE
        BY <2>1
      <4> QED BY <1>2, <3>2, <4>1, PlacesDiffer
    <3>4. At(s[n], n, b) # before
      <4>1. before = At(s[l], l, k1) /\ k1 \in Places(s[l])
        BY <1>2
      <4>2. n # l \/ b # k1
        BY <2>1, <1>1, <3>1
      <4> HIDE DEF before
      <4> QED BY <3>2, <4>1, <4>2, PlacesDiffer
    <3>5. At(s[n], n, a) # e /\ At(s[n], n, b) # e
      BY <3>2, UnlinkedFacts
    <3>6. At(s[n], n, a) \in Nodes /\ At(s[n], n, b) \in Nodes
      BY <3>1, <3>2, PlaceFacts DEF Places
    <3>7. next[At(s[n], n, a)] = At(s[n], n, b) /\ prev[At(s[n], n, b)] = At(s[n], n, a)
      BY DEF Spells, Linked
    <3> HIDE DEF p, before
    <3> QED BY <1>6, <3>3, <3>4, <3>5, <3>6, <3>7
  <2>2. CASE m # l
    <3>1. t[m] = s[m]
      BY <1>1, <2>2
    <3> HIDE DEF t
    <3> QED BY <2>1, <2>2, <3>1
  <2>3. CASE m = l
    <3>1. t[m] = r
      BY <1>1, <2>3
    <3>2. /\ \A a \in 0..k : At(r, l, a) = At(q, l, a)
          /\ At(r, l, k + 1) = e
          /\ \A a \in (k + 1)..(Len(q) + 1) : At(r, l, a + 1) = At(q, l, a)
      BY <1>1, InsertedPlaces
    <3>3. CASE i < k
      <4> PICK j : j = i + 1
        OBVIOUS
      <4>1. i \in 0..k /\ j \in 0..k /\ i \in 0..Len(q) /\ i # k
        BY <1>1, <2>3, <3>1, <3>3
      <4>2. At(r, l, i) = At(q, l, i) /\ At(r, l, j) = At(q, l, j)
        BY <3>2, <4>1
      <4>3. next'[At(q, l, i)] = At(q, l, j) /\ prev'[At(q, l, j)] = At(q, l, i)
        BY <2>1, <4>1
      <4> HIDE DEF t, q
      <4> QED BY <2>3, <3>1, <4>2, <4>3
    <3>4. CASE i = k
      <4>1. At(r, l, i) = p /\ At(r, l, i + 1) = e
        BY <1>1, <3>2, <3>4
      <4> QED BY <1>6, <2>3, <3>1, <4>1
    <3>5. CASE i = k + 1
      <4>1. At(r, l, i) = e /\ At(r, l, i + 1) = before
        BY <1>1, <3>2, <3>5
      <4> QED BY <1>6, <2>3, <3>1, <4>1
    <3>6. CASE i > k + 1
      <4> PICK j : j = i - 1
        OBVIOUS
      <4>1. j \in 0..Len(q) /\ j # k /\ j + 1 = i /\ j \in (k + 1)..(Len(q) + 1) /\ i \in (k + 1)..(Len(q) + 1)
        BY <1>1, <2>3, <3>1, <3>6
      <4>2. At(r, l, i) = At(q, l, j) /\ At(r, l, i + 1) = At(q, l, j + 1)
        BY <3>2, <4>1
      <4>3. next'[At(q, l, j)] = At(q, l, j + 1) /\ prev'[At(q, l, j + 1)] = At(q, l, j)
        BY <2>1, <4>1
      <4> QED BY <2>3, <3>1, <4>2, <4>3
    <3> QED BY <1>1, <2>3, <3>1, <3>3, <3>4, <3>5, <3>6
  <2> QED BY <2>2, <2>3
<1> HIDE DEF t
<1>11. NoDuplicates(t)'
  BY <1>8 DEF NoDuplicates
<1>12. Ended'
  <2> SUFFICES ASSUME NEW m \in Lists PROVE next'[tail(m)] = NULL
    BY DEF Ended
  <2>1. tail(m) # p
    BY <1>1, TailBehind
  <2>2. tail(m) # e /\ tail(m) \in Nodes
    BY NodeFacts
  <2>3. next[tail(m)] = NULL
    BY DEF Spells, Ended
  <2> HIDE DEF p, before
  <2> QED BY <1>6, <2>1, <2>2, <2>3
<1>13. Spells(t)'
  BY <1>1, <1>7, <1>9, <1>10, <1>11, <1>12 DEF Spells
<1> QED BY <1>13 DEF t

(* The places of a list behind a removal. *)
LEMMA RemovedPlaces ==
  ASSUME NEW l \in Lists, NEW q \in Seq(Elems), NEW r,
         NEW k \in 1..Len(q), Removed(q, k, r)
  PROVE  /\ \A i \in 0..(k - 1) : At(r, l, i) = At(q, l, i)
         /\ \A i \in k..Len(q) : At(r, l, i) = At(q, l, i + 1)
<1>1. Len(q) \in Nat /\ Len(r) = Len(q) - 1
  BY LenProperties DEF Removed
<1>2. ASSUME NEW i \in 0..(k - 1) PROVE At(r, l, i) = At(q, l, i)
  <2>1. i = 0 \/ (i \in 1..(k - 1) /\ i # Len(q) + 1 /\ i # Len(r) + 1 /\ i # 0)
    BY <1>1
  <2> QED BY <2>1 DEF At, Removed
<1>3. ASSUME NEW i \in k..Len(q) PROVE At(r, l, i) = At(q, l, i + 1)
  <2>1. /\ i # 0 /\ i + 1 # 0
        /\ i = Len(r) + 1 <=> i + 1 = Len(q) + 1
        /\ i = Len(r) + 1 \/ i \in k..(Len(q) - 1)
    BY <1>1
  <2> QED BY <2>1 DEF At, Removed
<1> QED BY <1>2, <1>3

(* list_remove takes an element out of the list it is in, wherever it is,  *)
(* and the other lists keep theirs.                                        *)
LEMMA RemoveSpells ==
  ASSUME NEW s, Spells(s), NEW l \in Lists, NEW r,
         NEW k \in 1..Len(s[l]), Removed(s[l], k, r),
         where' = [where EXCEPT ![s[l][k]] = NULL],
         list_remove(s[l][k])
  PROVE  Spells([s EXCEPT ![l] = r])'
<1> DEFINE q == s[l]
           e == q[k]
           before == At(q, l, k - 1)
           after == At(q, l, k + 1)
           t == [s EXCEPT ![l] = r]
<1>1. /\ q \in Seq(Elems) /\ Len(q) \in Nat /\ r \in Seq(Elems)
      /\ Len(r) = Len(q) - 1
      /\ t \in [Lists -> Seq(Elems)]
      /\ t[l] = r
      /\ \A m \in Lists : m # l => t[m] = s[m]
      /\ e \in Elems
  BY LenProperties, ElementOfSeq DEF Spells, Removed
<1>2. /\ k - 1 \in Places(q) /\ k \in Places(q) /\ k + 1 \in Places(q)
      /\ before \in Nodes /\ after \in Nodes
      /\ prev[e] = before /\ next[e] = after
      /\ before # NULL /\ after # NULL
  <2> PICK i, j : i = k - 1 /\ j = k + 1
    OBVIOUS
  <2>1. i \in 0..(Len(q) + 1) /\ j \in 0..(Len(q) + 1) /\ k \in 0..(Len(q) + 1)
    BY <1>1
  <2>2. At(q, l, i) \in Nodes /\ At(q, l, j) \in Nodes
    BY <1>1, <2>1, PlaceFacts
  <2>3. At(q, l, k) = e
    BY <1>1, <2>1, PlaceFacts
  <2>4. next[At(q, l, k)] = At(q, l, j)
    <3>1. k \in 0..Len(q)
      BY <1>1
    <3> QED BY <3>1 DEF Spells, Linked
  <2>5. prev[At(q, l, k)] = At(q, l, i)
    <3>1. i \in 0..Len(q) /\ i + 1 = k
      BY <1>1
    <3> QED BY <3>1 DEF Spells, Linked
  <2> QED BY <2>1, <2>2, <2>3, <2>4, <2>5, NodeFacts DEF Places
<1>3. /\ next' = [next EXCEPT ![before] = after]
      /\ prev' = [prev EXCEPT ![after] = before]
      /\ panicked' = panicked
  BY <1>2 DEF list_remove
<1>4. /\ next \in [Nodes -> Nodes \cup {NULL}]
      /\ prev \in [Nodes -> Nodes \cup {NULL}]
      /\ where \in [Elems -> Lists \cup {NULL}]
      /\ panicked = FALSE
  BY DEF Spells, LinkTypes
<1>5. /\ next'[before] = after /\ prev'[after] = before
      /\ \A n \in Nodes : n # before => next'[n] = next[n]
      /\ \A n \in Nodes : n # after => prev'[n] = prev[n]
  <2> HIDE DEF before, after
  <2> QED BY <1>2, <1>3, <1>4
<1>6. LinkTypes'
  <2> HIDE DEF before, after, e
  <2> QED BY <1>1, <1>2, <1>3, <1>4 DEF LinkTypes
<1>7. \A a, b \in 1..Len(q) : q[a] = q[b] => a = b
  BY DEF Spells, NoDuplicates
<1>8. /\ \A a \in 1..(k - 1) : r[a] = q[a]
      /\ \A a \in k..(Len(q) - 1) : r[a] = q[a + 1]
  BY DEF Removed
(* Where an element of the shortened list was before. *)
<1>9. ASSUME NEW i \in 1..Len(r)
      PROVE  \E a \in 1..Len(q) : r[i] = q[a] /\ ((i < k /\ a = i) \/ (i >= k /\ a = i + 1))
  <2>1. CASE i < k
    <3>1. i \in 1..Len(q) /\ i \in 1..(k - 1)
      BY <1>1, <2>1
    <3> QED BY <1>8, <2>1, <3>1
  <2>2. CASE i >= k
    <3>1. i + 1 \in 1..Len(q) /\ i \in k..(Len(q) - 1)
      BY <1>1, <2>2
    <3> QED BY <1>8, <2>2, <3>1
  <2> QED BY <1>1, <2>1, <2>2
<1>10. NoDuplicates(t)
  <2> SUFFICES ASSUME NEW m \in Lists, NEW i \in 1..Len(t[m]), NEW j \in 1..Len(t[m]), t[m][i] = t[m][j]
               PROVE  i = j
    BY DEF NoDuplicates
  <2>1. CASE m # l
    BY <1>1, <2>1 DEF Spells, NoDuplicates
  <2>2. CASE m = l
    <3>1. i \in 1..Len(r) /\ j \in 1..Len(r) /\ r[i] = r[j]
      BY <1>1, <2>2
    <3>2. PICK a \in 1..Len(q) : r[i] = q[a] /\ ((i < k /\ a = i) \/ (i >= k /\ a = i + 1))
      BY <1>9, <3>1
    <3>3. PICK b \in 1..Len(q) : r[j] = q[b] /\ ((j < k /\ b = j) \/ (j >= k /\ b = j + 1))
      BY <1>9, <3>1
    <3>4. a = b
      BY <1>7, <3>1, <3>2, <3>3
    <3> QED BY <1>1, <3>1, <3>2, <3>3, <3>4
  <2> QED BY <2>1, <2>2
<1>11. Located(t)'
  <2> SUFFICES ASSUME NEW m \in Lists, NEW x \in Elems
               PROVE  where'[x] = m <=> \E i \in 1..Len(t[m]) : t[m][i] = x
    BY DEF Located
  <2>1. where'[e] = NULL /\ \A y \in Elems : y # e => where'[y] = where[y]
    BY <1>1, <1>4
  <2>2. where[x] = m <=> \E i \in 1..Len(s[m]) : s[m][i] = x
    BY DEF Spells, Located
  <2>3. where[e] = l
    BY <1>1 DEF Spells, Located
  <2>4. CASE m # l
    <3>1. t[m] = s[m]
      BY <1>1, <2>4
    <3> HIDE DEF t, e
    <3> QED BY <2>1, <2>2, <2>3, <2>4, <3>1, NodeFacts
  <2>5. CASE m = l
    <3>1. ASSUME where'[x] = m PROVE \E i \in 1..Len(r) : r[i] = x
      <4>1. x # e
        BY <2>1, <3>1, NodeFacts
      <4>2. PICK i \in 1..Len(q) : q[i] = x
        BY <2>1, <2>2, <2>5, <3>1, <4>1
      <4>3. i # k
        BY <4>1, <4>2
      <4>4. CASE i < k
        BY <1>1, <1>8, <4>2, <4>4
      <4>5. CASE i > k
        <5>1. i - 1 \in k..(Len(q) - 1) /\ i - 1 \in 1..Len(r) /\ (i - 1) + 1 = i
          BY <1>1, <4>5
        <5> QED BY <1>8, <4>2, <5>1
      <4> QED BY <1>1, <4>3, <4>4, <4>5
    <3>2. ASSUME NEW i \in 1..Len(r), r[i] = x PROVE where'[x] = m
      <4>1. PICK a \in 1..Len(q) : r[i] = q[a] /\ ((i < k /\ a = i) \/ (i >= k /\ a = i + 1))
        BY <1>9
      <4>2. a # k
        BY <1>1, <4>1
      <4>3. q[a] # e
        BY <1>7, <4>1, <4>2
      <4>4. where[x] = l
        BY <2>2, <2>5, <3>2, <4>1
      <4> QED BY <2>1, <2>5, <3>2, <4>1, <4>3, <4>4
    <3> QED BY <1>1, <2>5, <3>1, <3>2
  <2> QED BY <2>4, <2>5
<1>12. Linked(t)'
  <2> SUFFICES ASSUME NEW m \in Lists, NEW i \in 0..Len(t[m])
               PROVE  /\ next'[At(t[m], m, i)] = At(t[m], m, i + 1)
                      /\ prev'[At(t[m], m, i + 1)] = At(t[m], m, i)
    BY DEF Linked
  (* The links between places that are not next to the removal. *)
  <2>1. ASSUME NEW n \in Lists, NEW a \in 0..Len(s[n]), n # l \/ (a # k - 1 /\ a # k)
        PROVE  /\ next'[At(s[n], n, a)] = At(s[n], n, a + 1)
               /\ prev'[At(s[n], n, a + 1)] = At(s[n], n, a)
    <3>1. s[n] \in Seq(Elems) /\ Len(s[n]) \in Nat
      BY LenProperties DEF Spells
    <3> PICK b, g, h : b = a + 1 /\ g = k - 1 /\ h = k + 1
      OBVIOUS
    <3>2. a \in Places(s[n]) /\ b \in Places(s[n])
      BY <3>1 DEF Places
    <3>3. At(s[n], n, a) # before
      <4>1. before = At(s[l], l, g) /\ g \in Places(s[l])
        BY <1>2
      <4>2. n # l \/ a # g
        BY <2>1
      <4> HIDE DEF before
      <4> QED BY <3>2, <4>1, <4>2, PlacesDiffer
    <3>4. At(s[n], n, b) # after
      <4>1. after = At(s[l], l, h) /\ h \in Places(s[l])
        BY <1>2
      <4>2. n # l \/ b # h
        BY <2>1, <1>1, <3>1
      <4> HIDE DEF after
      <4> QED BY <3>2, <4>1, <4>2, PlacesDiffer
    <3>5. At(s[n], n, a) \in Nodes /\ At(s[n], n, b) \in Nodes
      BY <3>1, <3>2, PlaceFacts DEF Places
    <3>6. next[At(s[n], n, a)] = At(s[n], n, b) /\ prev[At(s[n], n, b)] = At(s[n], n, a)
      BY DEF Spells, Linked
    <3> HIDE DEF before, after
    <3> QED BY <1>5, <3>3, <3>4, <3>5, <3>6
  <2>2. CASE m # l
    <3>1. t[m] = s[m]
      BY <1>1, <2>2
    <3> HIDE DEF t
    <3> QED BY <2>1, <2>2, <3>1
  <2>3. CASE m = l
    <3>1. t[m] = r
      BY <1>1, <2>3
    <3>2. /\ \A a \in 0..(k - 1) : At(r, l, a) = At(q, l, a)
          /\ \A a \in k..Len(q) : At(r, l, a) = At(q, l, a + 1)
      BY <1>1, RemovedPlaces
    <3> PICK j : j = i + 1
      OBVIOUS
    <3>3. CASE i < k - 1
      <4>1. i \in 0..(k - 1) /\ j \in 0..(k - 1) /\ i \in 0..Len(q) /\ i # k /\ i # k - 1
        BY <1>1, <2>3, <3>1, <3>3
      <4>2. At(r, l, i) = At(q, l, i) /\ At(r, l, j) = At(q, l, j)
        BY <3>2, <4>1
      <4>3. next'[At(q, l, i)] = At(q, l, j) /\ prev'[At(q, l, j)] = At(q, l, i)
        BY <2>1, <4>1
      <4> HIDE DEF t, q
      <4> QED BY <2>3, <3>1, <4>2, <4>3
    <3>4. CASE i = k - 1
      <4>1. i \in 0..(k - 1) /\ j \in k..Len(q) /\ j = k
        BY <1>1, <2>3, <3>1, <3>4
      <4>2. At(r, l, i) = before /\ At(r, l, j) = after
        BY <3>2, <3>4, <4>1
      <4> HIDE DEF t, before, after
      <4> QED BY <1>5, <2>3, <3>1, <4>2
    <3>5. CASE i > k - 1
      <4> PICK h : h = j + 1
        OBVIOUS
      <4>1. i \in k..Len(q) /\ j \in k..Len(q) /\ j \in 0..Len(q) /\ j # k - 1 /\ j # k
        BY <1>1, <2>3, <3>1, <3>5
      <4>2. At(r, l, i) = At(q, l, j) /\ At(r, l, j) = At(q, l, h)
        BY <3>2, <4>1
      <4>3. next'[At(q, l, j)] = At(q, l, h) /\ prev'[At(q, l, h)] = At(q, l, j)
        BY <2>1, <4>1
      <4> HIDE DEF t, q
      <4> QED BY <2>3, <3>1, <4>2, <4>3
    <3> QED BY <1>1, <2>3, <3>1, <3>3, <3>4, <3>5
  <2> QED BY <2>2, <2>3
<1> HIDE DEF t
<1>13. NoDuplicates(t)'
  BY <1>10 DEF NoDuplicates
<1>14. Ended'
  <2> SUFFICES ASSUME NEW m \in Lists PROVE next'[tail(m)] = NULL
    BY DEF Ended
  <2> PICK g : g = k - 1
    OBVIOUS
  <2>1. g \in 0..Len(q)
    BY <1>1
  <2>2. tail(m) # At(q, l, g)
    BY <2>1, TailBehind
  <2>3. tail(m) \in Nodes
    BY NodeFacts
  <2>4. next[tail(m)] = NULL
    BY DEF Spells, Ended
  <2>5. before = At(q, l, g)
    OBVIOUS
  <2> HIDE DEF before, after
  <2> QED BY <1>5, <2>2, <2>3, <2>4, <2>5
<1>15. Spells(t)'
  BY <1>1, <1>6, <1>11, <1>12, <1>13, <1>14 DEF Spells
<1> QED BY <1>15 DEF t

-----------------------------------------------------------------------------

(* list_append's counterpart, Append, puts an element in behind the last. *)
LEMMA AppendInserts ==
  ASSUME NEW q \in Seq(Elems), NEW e \in Elems
  PROVE  Inserted(q, Len(q), e, Append(q, e))
<1>1. Len(q) \in Nat /\ ~ \E i \in (Len(q) + 1)..Len(q) : TRUE
  BY LenProperties
<1> QED BY <1>1, AppendProperties DEF Inserted

(* list_push's counterpart puts an element in before the first. *)
LEMMA PushInserts ==
  ASSUME NEW q \in Seq(Elems), NEW e \in Elems
  PROVE  Inserted(q, 0, e, <<e>> \o q)
<1> DEFINE r == <<e>> \o q
<1>1. <<e>> \in Seq(Elems) /\ Len(<<e>>) = 1 /\ <<e>>[1] = e
  OBVIOUS
<1>2. /\ Len(q) \in Nat
      /\ r \in Seq(Elems)
      /\ Len(r) = 1 + Len(q)
      /\ \A i \in 1..(1 + Len(q)) : r[i] = IF i <= 1 THEN <<e>>[i] ELSE q[i - 1]
  BY <1>1, ConcatProperties, LenProperties
<1> HIDE DEF r
<1>3. r[0 + 1] = e
  BY <1>1, <1>2
<1>4. ASSUME NEW i \in (0 + 1)..Len(q) PROVE r[i + 1] = q[i]
  <2>1. i + 1 \in 1..(1 + Len(q)) /\ ~(i + 1 <= 1) /\ (i + 1) - 1 = i
    BY <1>2
  <2> QED BY <1>2, <2>1
<1>5. ~ \E i \in 1..0 : TRUE
  OBVIOUS
<1>6. Inserted(q, 0, e, r)
  BY <1>2, <1>3, <1>4, <1>5 DEF Inserted
<1> QED BY <1>6 DEF r

(* list_pop's counterpart, Tail, takes the first element out. *)
LEMMA TailRemoves ==
  ASSUME NEW q \in Seq(Elems), q # << >>
  PROVE  Removed(q, 1, Tail(q))
<1>1. /\ Len(q) \in Nat
      /\ Tail(q) \in Seq(Elems)
      /\ Len(Tail(q)) = Len(q) - 1
      /\ \A i \in 1..Len(Tail(q)) : Tail(q)[i] = q[i + 1]
  BY HeadTailProperties, LenProperties
<1>2. ~ \E j \in 1..(1 - 1) : TRUE
  OBVIOUS
<1> QED BY <1>1, <1>2 DEF Removed

(* What is left around an element is the sequence without it. *)
LEMMA SubSeqRemoves ==
  ASSUME NEW q \in Seq(Elems), NEW k \in 1..Len(q)
  PROVE  Removed(q, k, SubSeq(q, 1, k - 1) \o SubSeq(q, k + 1, Len(q)))
<1>1. Len(q) \in Nat /\ \A j \in 1..Len(q) : q[j] \in Elems
  BY LenProperties, ElementOfSeq
<1> PICK g, h, n : g = k - 1 /\ h = k + 1 /\ n = Len(q)
  OBVIOUS
<1>2. g \in Int /\ h \in Int /\ n \in Int /\ 1 \in Int
  BY <1>1
<1> DEFINE a == SubSeq(q, 1, g)
           b == SubSeq(q, h, n)
           r == a \o b
<1>3. a \in Seq(Elems) /\ Len(a) = g /\ \A i \in 1..g : a[i] = q[i]
  <2>1. \A i \in 1..g : q[i] \in Elems
    BY <1>1
  <2>2. /\ a \in Seq(Elems)
        /\ Len(a) = IF 1 <= g THEN g - 1 + 1 ELSE 0
        /\ \A i \in 1..(g - 1 + 1) : a[i] = q[1 + i - 1]
    BY <1>2, <2>1, SubSeqProperties
  <2> HIDE DEF a
  <2> QED BY <1>1, <2>2
<1>4. b \in Seq(Elems) /\ Len(b) = n - k /\ \A i \in 1..(n - k) : b[i] = q[k + i]
  <2>1. \A i \in h..n : q[i] \in Elems
    BY <1>1
  <2>2. /\ b \in Seq(Elems)
        /\ Len(b) = IF h <= n THEN n - h + 1 ELSE 0
        /\ \A i \in 1..(n - h + 1) : b[i] = q[h + i - 1]
    BY <1>2, <2>1, SubSeqProperties
  <2> HIDE DEF b
  <2> QED BY <1>1, <2>2
<1> HIDE DEF a, b
<1>5. /\ r \in Seq(Elems)
      /\ Len(r) = Len(a) + Len(b)
      /\ \A i \in 1..(Len(a) + Len(b)) : r[i] = IF i <= Len(a) THEN a[i] ELSE b[i - Len(a)]
  BY <1>3, <1>4, ConcatProperties
<1> HIDE DEF r
<1>6. Len(r) = n - 1
  BY <1>1, <1>3, <1>4, <1>5
<1>7. ASSUME NEW j \in 1..(k - 1) PROVE r[j] = q[j]
  <2>1. j \in 1..(Len(a) + Len(b)) /\ j <= Len(a) /\ j \in 1..g
    BY <1>1, <1>3, <1>4
  <2> QED BY <1>3, <1>5, <2>1
<1>8. ASSUME NEW j \in k..(Len(q) - 1) PROVE r[j] = q[j + 1]
  <2> PICK i : i = j - Len(a)
    OBVIOUS
  <2>1. j \in 1..(Len(a) + Len(b)) /\ ~(j <= Len(a)) /\ i \in 1..(n - k) /\ k + i = j + 1
    BY <1>1, <1>3, <1>4
  <2>2. r[j] = b[i]
    BY <1>5, <2>1
  <2> QED BY <1>4, <2>1, <2>2
<1>9. Removed(q, k, r)
  BY <1>5, <1>6, <1>7, <1>8 DEF Removed
<1> QED BY <1>9 DEF r, a, b

-----------------------------------------------------------------------------

(* list_append puts the element behind the last one of its list. *)
LEMMA AppendSpells ==
  ASSUME NEW s, Spells(s), NEW l \in Lists, NEW e \in Elems, list_append(l, e)
  PROVE  Spells([s EXCEPT ![l] = Append(s[l], e)])'
<1> PICK r : r = Append(s[l], e)
  OBVIOUS
<1>1. s[l] \in Seq(Elems)
  BY DEF Spells
<1> PICK k : k = Len(s[l])
  OBVIOUS
<1>2. k \in 0..Len(s[l]) /\ k + 1 \in 0..(Len(s[l]) + 1)
  BY <1>1, LenProperties
<1>3. Inserted(s[l], k, e, r)
  BY <1>1, AppendInserts
<1>4. At(s[l], l, k + 1) = tail(l)
  BY <1>1, <1>2, PlaceFacts
<1>5. /\ where[e] = NULL /\ where' = [where EXCEPT ![e] = l]
      /\ list_insert_before(At(s[l], l, k + 1), e)
  BY <1>4 DEF list_append
<1> QED BY <1>2, <1>3, <1>5, InsertSpells

(* list_push puts the element before the first one of its list. *)
LEMMA PushSpells ==
  ASSUME NEW s, Spells(s), NEW l \in Lists, NEW e \in Elems, list_push(l, e)
  PROVE  Spells([s EXCEPT ![l] = <<e>> \o s[l]])'
<1> PICK r : r = <<e>> \o s[l]
  OBVIOUS
<1>1. s[l] \in Seq(Elems)
  BY DEF Spells
<1> PICK k : k = 0
  OBVIOUS
<1>2. k \in 0..Len(s[l]) /\ k \in 0..(Len(s[l]) + 1)
  BY <1>1, LenProperties
<1>3. Inserted(s[l], k, e, r)
  BY <1>1, PushInserts
<1>4. At(s[l], l, k) = head(l)
  BY <1>1, <1>2, PlaceFacts
<1>5. next[head(l)] = At(s[l], l, k + 1)
  BY <1>2, <1>4 DEF Spells, Linked
<1>6. /\ where[e] = NULL /\ where' = [where EXCEPT ![e] = l]
      /\ list_insert_before(At(s[l], l, k + 1), e)
  BY <1>5 DEF list_push
<1> QED BY <1>2, <1>3, <1>6, InsertSpells

(* list_empty is true of the empty sequences. *)
LEMMA EmptySpells ==
  ASSUME NEW s, Spells(s), NEW l \in Lists
  PROVE  /\ list_empty(l) <=> s[l] = << >>
         /\ s[l] # << >> => next[head(l)] = s[l][1] /\ 1 \in 1..Len(s[l])
<1>1. s[l] \in Seq(Elems)
  BY DEF Spells
<1>2. Len(s[l]) \in Nat /\ (s[l] = << >> <=> Len(s[l]) = 0)
  BY <1>1, LenProperties, EmptySeq
<1> PICK j : j = 0
  OBVIOUS
<1> PICK i : i = 1
  OBVIOUS
<1>3. i \in 0..(Len(s[l]) + 1) /\ j \in 0..(Len(s[l]) + 1) /\ j \in 0..Len(s[l]) /\ i = j + 1
  BY <1>2
<1>4. /\ i \in 1..Len(s[l]) => At(s[l], l, i) = s[l][i] /\ s[l][i] \in Elems
      /\ At(s[l], l, 0) = head(l)
      /\ At(s[l], l, Len(s[l]) + 1) = tail(l)
  BY <1>1, <1>3, PlaceFacts
<1>5. next[head(l)] = At(s[l], l, i)
  BY <1>3, <1>4 DEF Spells, Linked
<1>6. CASE Len(s[l]) = 0
  <2>1. next[head(l)] = tail(l)
    BY <1>4, <1>5, <1>6
  <2> QED BY <1>2, <1>6, <2>1 DEF list_empty
<1>7. CASE Len(s[l]) # 0
  <2>1. i \in 1..Len(s[l])
    BY <1>2, <1>7
  <2>2. next[head(l)] = s[l][i] /\ next[head(l)] # tail(l)
    BY <1>4, <1>5, <2>1, NodeFacts
  <2> QED BY <1>2, <1>7, <2>1, <2>2 DEF list_empty
<1> QED BY <1>6, <1>7

(* list_pop takes the first element out of a list that is not empty. *)
LEMMA PopSpells ==
  ASSUME NEW s, Spells(s), NEW l \in Lists, list_pop(l)
  PROVE  s[l] # << >> /\ Spells([s EXCEPT ![l] = Tail(s[l])])'
<1> PICK r : r = Tail(s[l])
  OBVIOUS
<1>1. s[l] \in Seq(Elems)
  BY DEF Spells
<1> PICK k : k = 1
  OBVIOUS
<1>2. s[l] # << >> /\ next[head(l)] = s[l][k] /\ k \in 1..Len(s[l])
  BY EmptySpells DEF list_pop
<1>3. Removed(s[l], k, r)
  BY <1>1, <1>2, TailRemoves
<1>4. where' = [where EXCEPT ![s[l][k]] = NULL] /\ list_remove(s[l][k])
  BY <1>2 DEF list_pop
<1> QED BY <1>2, <1>3, <1>4, RemoveSpells

(* list_remove in the middle takes the element out of the list it is in. *)
LEMMA UnlinkSpells ==
  ASSUME NEW s, Spells(s), NEW e \in Elems, Unlink(e)
  PROVE  \E l \in Lists : \E k \in 1..Len(s[l]) :
           /\ s[l][k] = e
           /\ Spells([s EXCEPT ![l] = SubSeq(s[l], 1, k - 1) \o SubSeq(s[l], k + 1, Len(s[l]))])'
<1>1. where[e] \in Lists
  BY DEF Unlink, Spells, LinkTypes
<1>2. PICK l \in Lists : where[e] = l
  BY <1>1
<1>3. PICK k \in 1..Len(s[l]) : s[l][k] = e
  BY <1>2 DEF Spells, Located
<1>4. PICK r : r = SubSeq(s[l], 1, k - 1) \o SubSeq(s[l], k + 1, Len(s[l]))
  OBVIOUS
<1>5. s[l] \in Seq(Elems)
  BY DEF Spells
<1>6. Removed(s[l], k, r)
  BY <1>4, <1>5, SubSeqRemoves
<1>7. where' = [where EXCEPT ![s[l][k]] = NULL] /\ list_remove(s[l][k])
  BY <1>3 DEF Unlink
<1>8. Spells([s EXCEPT ![l] = r])'
  BY <1>6, <1>7, RemoveSpells
<1> QED BY <1>3, <1>4, <1>8

-----------------------------------------------------------------------------

(* list_init makes every list empty. *)
LEMMA InitSpells == ListInit => Spells([l \in Lists |-> << >>])
<1> SUFFICES ASSUME ListInit PROVE Spells([l \in Lists |-> << >>])
  OBVIOUS
<1> PICK s : s = [l \in Lists |-> << >>]
  OBVIOUS
<1>1. << >> \in Seq(Elems) /\ Len(<< >>) = 0
  OBVIOUS
<1>2. s \in [Lists -> Seq(Elems)] /\ \A l \in Lists : Len(s[l]) = 0
  BY <1>1
<1>3. \A l \in Lists : head(l)[1] = l /\ tail(l)[1] = l
  BY DEF head, tail
<1>4. \A l \in Lists : next[head(l)] = tail(l)
  BY <1>3, NodeFacts DEF ListInit, Heads
<1>5. \A l \in Lists : prev[tail(l)] = head(l)
  BY <1>3, NodeFacts DEF ListInit, Tails
<1>6. LinkTypes
  <2>1. \A n \in Heads : tail(n[1]) \in Nodes
    BY <1>3, NodeFacts DEF Heads
  <2>2. \A n \in Tails : head(n[1]) \in Nodes
    BY <1>3, NodeFacts DEF Tails
  <2> QED BY <2>1, <2>2 DEF LinkTypes, ListInit
<1>7. Linked(s)
  <2> SUFFICES ASSUME NEW l \in Lists, NEW i \in 0..Len(s[l])
               PROVE  /\ next[At(s[l], l, i)] = At(s[l], l, i + 1)
                      /\ prev[At(s[l], l, i + 1)] = At(s[l], l, i)
    BY DEF Linked
  <2>1. i = 0 /\ Len(s[l]) = 0
    BY <1>2
  <2>2. At(s[l], l, i) = head(l) /\ At(s[l], l, i + 1) = tail(l)
    BY <2>1 DEF At
  <2> QED BY <1>4, <1>5, <2>2
<1>8. NoDuplicates(s)
  BY <1>2 DEF NoDuplicates
<1>9. Located(s)
  <2>1. \A e \in Elems : where[e] = NULL
    BY DEF ListInit
  <2>2. \A l \in Lists : ~ \E i \in 1..Len(s[l]) : TRUE
    BY <1>2
  <2> QED BY <2>1, <2>2, NodeFacts DEF Located
<1>10. Ended
  <2>1. \A l \in Lists : tail(l) \notin Heads /\ tail(l) \in Nodes
    BY NodeFacts DEF Heads
  <2> QED BY <2>1 DEF Ended, ListInit
<1> QED BY <1>2, <1>6, <1>7, <1>8, <1>9, <1>10 DEF Spells

(* A step that leaves the links alone leaves the sequences alone. *)
LEMMA StutterSpells ==
  ASSUME NEW s, Spells(s), UNCHANGED listVars
  PROVE  Spells(s)'
BY DEF Spells, LinkTypes, NoDuplicates, Located, Linked, Ended, listVars

(* The links of list.c always spell out a sequence for each list, with no  *)
(* element in two places, whatever is put in and taken out and in whatever *)
(* order, and although list_remove leaves the links of what it removes.    *)
THEOREM ListInvariance == ListSpec => []ListInv
<1>1. ListInit => ListInv
  BY InitSpells DEF ListInv
<1>2. ListInv /\ [ListNext]_listVars => ListInv'
  <2> SUFFICES ASSUME ListInv, [ListNext]_listVars PROVE ListInv'
    OBVIOUS
  <2>1. PICK s : Spells(s)
    BY DEF ListInv
  <2>2. ASSUME NEW l \in Lists, NEW e \in Elems, list_append(l, e) PROVE ListInv'
    BY <2>1, <2>2, AppendSpells DEF ListInv
  <2>3. ASSUME NEW l \in Lists, NEW e \in Elems, list_push(l, e) PROVE ListInv'
    BY <2>1, <2>3, PushSpells DEF ListInv
  <2>4. ASSUME NEW l \in Lists, list_pop(l) PROVE ListInv'
    BY <2>1, <2>4, PopSpells DEF ListInv
  <2>5. ASSUME NEW e \in Elems, Unlink(e) PROVE ListInv'
    BY <2>1, <2>5, UnlinkSpells DEF ListInv
  <2>6. CASE UNCHANGED listVars
    BY <2>1, <2>6, StutterSpells DEF ListInv
  <2> QED BY <2>2, <2>3, <2>4, <2>5, <2>6 DEF ListNext
<1> QED BY <1>1, <1>2, PTL DEF ListSpec

(* Backward links are the forward links turned round, in every list, and   *)
(* the ASSERT of list_insert_before never fails: what list_remove in the   *)
(* middle of a list relies on.                                             *)
THEOREM ListLinksMatch == ListSpec => []LinksMatch
<1>1. ListInv => LinksMatch
  <2> SUFFICES ASSUME ListInv PROVE LinksMatch
    OBVIOUS
  <2>1. PICK s : Spells(s)
    BY DEF ListInv
  <2>2. panicked = FALSE /\ where \in [Elems -> Lists \cup {NULL}] /\ s \in [Lists -> Seq(Elems)]
    BY <2>1 DEF Spells, LinkTypes
  <2>3. ASSUME NEW l \in Lists, NEW i \in 0..Len(s[l])
        PROVE  next[At(s[l], l, i)] # NULL /\ prev[next[At(s[l], l, i)]] = At(s[l], l, i)
    <3> PICK j : j = i + 1
      OBVIOUS
    <3>1. s[l] \in Seq(Elems)
      BY <2>2
    <3>2. j \in 0..(Len(s[l]) + 1)
      BY <3>1, LenProperties
    <3>3. At(s[l], l, j) \in Nodes
      BY <3>1, <3>2, PlaceFacts
    <3>4. next[At(s[l], l, i)] = At(s[l], l, j) /\ prev[At(s[l], l, j)] = At(s[l], l, i)
      BY <2>1 DEF Spells, Linked
    <3> QED BY <3>3, <3>4, NodeFacts
  <2>4. ASSUME NEW n \in Heads PROVE next[n] # NULL /\ prev[next[n]] = n
    <3>1. PICK l \in Lists : n = head(l)
      BY DEF Heads
    <3> PICK i : i = 0
      OBVIOUS
    <3>2. i \in 0..Len(s[l])
      BY <2>2, LenProperties
    <3>3. At(s[l], l, i) = head(l)
      BY DEF At
    <3> QED BY <2>3, <3>1, <3>2, <3>3
  <2>5. ASSUME NEW n \in Elems, where[n] # NULL PROVE next[n] # NULL /\ prev[next[n]] = n
    <3>1. PICK l \in Lists : where[n] = l
      BY <2>2, <2>5
    <3>2. PICK i \in 1..Len(s[l]) : s[l][i] = n
      BY <2>1, <3>1 DEF Spells, Located
    <3>3. s[l] \in Seq(Elems) /\ i \in 0..Len(s[l]) /\ i \in 0..(Len(s[l]) + 1)
      BY <2>2, LenProperties
    <3>4. At(s[l], l, i) = n
      BY <3>2, <3>3, PlaceFacts
    <3> QED BY <2>3, <3>3, <3>4
  <2> QED BY <2>2, <2>4, <2>5 DEF LinksMatch
<1> QED BY <1>1, ListInvariance, PTL

-----------------------------------------------------------------------------

(* The elements of a list are as many as its sequence is long, which is no *)
(* more than there are.                                                    *)
LEMMA Lengths ==
  ASSUME NEW s, Spells(s), NEW l \in Lists
  PROVE  /\ Cardinality({e \in Elems : where[e] = l}) = Len(s[l])
         /\ Len(s[l]) <= Cardinality(Elems)
         /\ Cardinality(Elems) \in Nat
<1> DEFINE E == {e \in Elems : where[e] = l}
           n == Len(s[l])
<1>1. s[l] \in Seq(Elems) /\ n \in Nat /\ s[l] \in [1..n -> Elems]
  BY LenProperties DEF Spells
<1>2. \A e \in Elems : where[e] = l <=> \E i \in 1..n : s[l][i] = e
  BY DEF Spells, Located
<1>3. s[l] \in [1..n -> E]
  BY <1>1, <1>2
<1>4. IsInjective(s[l])
  BY <1>1 DEF Spells, NoDuplicates, IsInjective
<1>5. \A e \in E : \E i \in 1..n : s[l][i] = e
  BY <1>2
<1> HIDE DEF E, n
<1>6. ExistsBijection(1..n, E)
  BY <1>3, <1>4, <1>5 DEF ExistsBijection, Bijection, Injection, Surjection
<1>7. Cardinality(E) = n
  BY <1>1, <1>6, FS_CountingElements
<1>8. E \in SUBSET Elems
  BY DEF E
<1>9. Cardinality(E) <= Cardinality(Elems)
  BY <1>8, ElemsAssumption, FS_Subset
<1>10. Cardinality(Elems) \in Nat
  BY ElemsAssumption, FS_CardinalityType
<1> QED BY <1>7, <1>9, <1>10 DEF E, n

(* A function that satisfies the recursion of the walk makes the walk one. *)
LEMMA WalkUnfolds ==
  ASSUME NEW l,
         \E w : w = [n \in 0..MaxSteps |->
                       IF n = 0 THEN next[head(l)]
                       ELSE IF w[n - 1] = NULL THEN NULL ELSE next[w[n - 1]]]
  PROVE  Walk(l) = [n \in 0..MaxSteps |->
                      IF n = 0 THEN next[head(l)]
                      ELSE IF Walk(l)[n - 1] = NULL THEN NULL ELSE next[Walk(l)[n - 1]]]
BY Zenon DEF Walk

(* The walk visits the places behind the head one after another, up to the *)
(* tail, and then leaves the list.                                         *)
LEMMA WalkSpelled ==
  ASSUME NEW s, Spells(s), NEW l \in Lists
  PROVE  Walk(l) = [n \in 0..MaxSteps |->
                      IF n <= Len(s[l]) THEN At(s[l], l, n + 1) ELSE NULL]
<1> DEFINE q == s[l]
           w == [n \in 0..MaxSteps |-> IF n <= Len(q) THEN At(q, l, n + 1) ELSE NULL]
           Step(f, n) == IF n = 0 THEN next[head(l)]
                         ELSE IF f[n - 1] = NULL THEN NULL ELSE next[f[n - 1]]
<1>1. q \in Seq(Elems) /\ Len(q) \in Nat /\ MaxSteps \in Nat
  <2>1. q \in Seq(Elems)
    BY DEF Spells
  <2>2. Cardinality(Elems) \in Nat
    BY ElemsAssumption, FS_CardinalityType
  <2> QED BY <2>1, <2>2, LenProperties DEF MaxSteps
<1>2. \A i \in 0..(Len(q) + 1) : At(q, l, i) # NULL
  BY <1>1, PlaceFacts, NodeFacts
<1>3. At(q, l, 0) = head(l) /\ At(q, l, Len(q) + 1) = tail(l)
  <2> PICK i \in 0..(Len(q) + 1) : TRUE
    BY <1>1
  <2> QED BY <1>1, PlaceFacts
<1>4. \A i \in 0..Len(q) : next[At(q, l, i)] = At(q, l, i + 1)
  BY DEF Spells, Linked
<1>5. ASSUME NEW n \in 0..MaxSteps PROVE w[n] = Step(w, n)
  <2>1. CASE n = 0
    <3>1. w[n] = At(q, l, n + 1)
      BY <1>1, <2>1
    <3>2. n \in 0..Len(q)
      BY <1>1, <2>1
    <3> HIDE DEF w
    <3> QED BY <1>3, <1>4, <2>1, <3>1, <3>2
  <2>2. CASE n # 0
    <3> PICK m : m = n - 1
      OBVIOUS
    <3>1. m \in 0..MaxSteps /\ n = m + 1 /\ m \in Nat
      BY <1>1, <2>2
    <3>2. /\ w[m] = IF m <= Len(q) THEN At(q, l, n) ELSE NULL
          /\ w[n] = IF n <= Len(q) THEN At(q, l, n + 1) ELSE NULL
      BY <3>1
    <3>3. Step(w, n) = IF w[m] = NULL THEN NULL ELSE next[w[m]]
      BY <2>2
    <3> HIDE DEF w, Step
    <3>4. CASE n <= Len(q)
      <4>1. m <= Len(q) /\ n \in 0..Len(q) /\ n \in 0..(Len(q) + 1)
        BY <1>1, <3>1, <3>4
      <4> QED BY <1>2, <1>4, <3>2, <3>3, <3>4, <4>1
    <3>5. CASE n = Len(q) + 1
      <4>1. m <= Len(q) /\ ~(n <= Len(q)) /\ n \in 0..(Len(q) + 1)
        BY <1>1, <3>1, <3>5
      <4>2. next[tail(l)] = NULL
        BY DEF Spells, Ended
      <4> QED BY <1>2, <1>3, <3>2, <3>3, <3>5, <4>1, <4>2
    <3>6. CASE n > Len(q) + 1
      <4>1. ~(m <= Len(q)) /\ ~(n <= Len(q))
        BY <1>1, <3>1, <3>6
      <4> QED BY <3>2, <3>3, <4>1
    <3> QED BY <1>1, <3>1, <3>4, <3>5, <3>6
  <2> QED BY <2>1, <2>2
<1>6. w = [n \in 0..MaxSteps |-> Step(w, n)]
  <2>1. DOMAIN w = 0..MaxSteps /\ w = [n \in 0..MaxSteps |-> w[n]]
    OBVIOUS
  <2> HIDE DEF w, Step
  <2> QED BY <1>5, <2>1
<1>7. Walk(l) = [n \in 0..MaxSteps |-> Step(Walk(l), n)]
  <2> HIDE DEF w
  <2>1. \E f : f = [n \in 0..MaxSteps |->
                      IF n = 0 THEN next[head(l)]
                      ELSE IF f[n - 1] = NULL THEN NULL ELSE next[f[n - 1]]]
    BY <1>6, Zenon
  <2> QED BY <2>1, WalkUnfolds, Zenon
(* By induction on the steps: there is no first one where the two differ. *)
<1>8. \A n \in 0..MaxSteps : Walk(l)[n] = w[n]
  <2> DEFINE Bad == {n \in 0..MaxSteps : Walk(l)[n] # w[n]}
  <2> HIDE DEF w
  <2>1. CASE Bad = {}
    BY <2>1
  <2>2. CASE Bad # {}
    <3>1. Bad \in SUBSET Nat
      OBVIOUS
    <3>2. PICK n \in Bad : \A m \in Bad : n <= m
      <4> HIDE DEF Bad
      <4> QED BY <2>2, <3>1, Least
    <3>3. n \in 0..MaxSteps /\ Walk(l)[n] # w[n]
      OBVIOUS
    <3>4. Walk(l)[n] = Step(Walk(l), n)
      <4> PICK f : f = Walk(l)
        OBVIOUS
      <4> HIDE DEF Step
      <4> QED BY <1>7, <3>3
    <3>5. n # 0
      BY <1>5, <3>3, <3>4
    <3> PICK m : m = n - 1
      OBVIOUS
    <3>6. m \in 0..MaxSteps /\ ~(n <= m)
      BY <1>1, <3>3, <3>5
    <3>7. Walk(l)[m] = w[m]
      BY <3>2, <3>6
    <3> QED BY <1>5, <3>3, <3>4, <3>7
  <2> QED BY <2>1, <2>2
<1> HIDE DEF Step
<1>9. Walk(l) = w
  <2> PICK f : f = Walk(l)
    OBVIOUS
  <2>1. \E g : f = [n \in 0..MaxSteps |-> Step(g, n)]
    BY <1>7
  <2>2. f = [n \in 0..MaxSteps |-> f[n]]
    BY <2>1
  <2>3. w = [n \in 0..MaxSteps |-> w[n]]
    OBVIOUS
  <2> HIDE DEF w
  <2> QED BY <1>8, <2>2, <2>3
<1> QED BY <1>9 DEF w

(* list_len counts the elements, and the walk finds them in order. *)
LEMMA ReadersSpelled ==
  ASSUME NEW s, Spells(s), NEW l \in Lists
  PROVE  /\ list_len(l) = Len(s[l])
         /\ \A n \in 0..(Len(s[l]) - 1) : Walk(l)[n] = s[l][n + 1]
<1> DEFINE q == s[l]
           ends == {n \in 0..MaxSteps : Walk(l)[n] = tail(l)}
<1>1. q \in Seq(Elems) /\ Len(q) \in Nat /\ \A i \in 1..Len(q) : q[i] \in Elems
  BY LenProperties, ElementOfSeq DEF Spells
<1>2. MaxSteps \in Nat /\ Len(q) + 1 <= MaxSteps
  <2>1. Len(q) <= Cardinality(Elems)
    BY Lengths
  <2>2. Cardinality(Elems) \in Nat
    BY ElemsAssumption, FS_CardinalityType
  <2> QED BY <1>1, <2>1, <2>2 DEF MaxSteps
<1>3. ASSUME NEW n \in 0..MaxSteps
      PROVE  Walk(l)[n] = IF n <= Len(q) THEN At(q, l, n + 1) ELSE NULL
  BY WalkSpelled
<1>4. ASSUME NEW n \in 0..(Len(q) - 1) PROVE Walk(l)[n] = q[n + 1] /\ q[n + 1] \in Elems
  <2> PICK i : i = n + 1
    OBVIOUS
  <2>1. n \in 0..MaxSteps /\ n <= Len(q) /\ i \in 1..Len(q) /\ i \in 0..(Len(q) + 1)
    BY <1>1, <1>2
  <2>2. At(q, l, i) = q[i]
    BY <1>1, <2>1, PlaceFacts
  <2> QED BY <1>1, <1>3, <2>1, <2>2
<1>5. Walk(l)[Len(q)] = tail(l) /\ Len(q) \in 0..MaxSteps
  <2>1. Len(q) \in 0..MaxSteps
    BY <1>1, <1>2
  <2>2. At(q, l, Len(q) + 1) = tail(l)
    <3> PICK i \in 0..(Len(q) + 1) : TRUE
      BY <1>1
    <3> QED BY <1>1, PlaceFacts
  <2> QED BY <1>1, <1>3, <2>1, <2>2
<1>6. ends = {Len(q)}
  <2> SUFFICES ASSUME NEW n \in 0..MaxSteps, Walk(l)[n] = tail(l) PROVE n = Len(q)
    BY <1>5
  <2>1. CASE n < Len(q)
    <3>1. n \in 0..(Len(q) - 1)
      BY <1>1, <2>1
    <3> QED BY <1>4, <3>1, NodeFacts
  <2>2. CASE n > Len(q)
    <3>1. Walk(l)[n] = NULL
      BY <1>1, <1>3, <2>2
    <3> QED BY <3>1, NodeFacts
  <2> QED BY <1>1, <2>1, <2>2
<1>7. list_len(l) = Len(q)
  <2>1. list_len(l) = IF ends = {} THEN MaxSteps + 1 ELSE CHOOSE n \in ends : \A m \in ends : n <= m
    BY DEF list_len
  <2>2. Len(q) <= Len(q)
    BY <1>1
  <2> HIDE DEF ends, q
  <2> QED BY <1>6, <2>1, <2>2
<1> QED BY <1>4, <1>7

(* elem_find finds what the callers have put into the list. *)
LEMMA FindSpelled ==
  ASSUME NEW s, Spells(s), NEW l \in Lists, NEW e \in Elems
  PROVE  elem_find(l, e) <=> where[e] = l
<1>1. Len(s[l]) \in Nat
  BY LenProperties DEF Spells
<1>2. list_len(l) = Len(s[l]) /\ \A n \in 0..(Len(s[l]) - 1) : Walk(l)[n] = s[l][n + 1]
  BY ReadersSpelled
<1>3. elem_find(l, e) <=> \E n \in 0..(Len(s[l]) - 1) : s[l][n + 1] = e
  BY <1>2 DEF elem_find
<1>4. (\E n \in 0..(Len(s[l]) - 1) : s[l][n + 1] = e) <=> \E i \in 1..Len(s[l]) : s[l][i] = e
  <2>1. ASSUME NEW n \in 0..(Len(s[l]) - 1), s[l][n + 1] = e PROVE \E i \in 1..Len(s[l]) : s[l][i] = e
    <3>1. n + 1 \in 1..Len(s[l])
      BY <1>1
    <3> QED BY <2>1, <3>1
  <2>2. ASSUME NEW i \in 1..Len(s[l]), s[l][i] = e PROVE \E n \in 0..(Len(s[l]) - 1) : s[l][n + 1] = e
    <3>1. i - 1 \in 0..(Len(s[l]) - 1) /\ (i - 1) + 1 = i
      BY <1>1
    <3> QED BY <2>2, <3>1
  <2> QED BY <2>1, <2>2
<1>5. where[e] = l <=> \E i \in 1..Len(s[l]) : s[l][i] = e
  BY DEF Spells, Located
<1> QED BY <1>3, <1>4, <1>5

(* list_traversal returns an element of the list that func accepts, or     *)
(* null if there is none.                                                  *)
LEMMA TraversalSpelled ==
  ASSUME NEW s, Spells(s), NEW l \in Lists, NEW good \in SUBSET Elems
  PROVE  IF \A g \in good : where[g] # l THEN list_traversal(l, good) = NULL
         ELSE list_traversal(l, good) \in good /\ where[list_traversal(l, good)] = l
<1> DEFINE hits == {n \in 0..(list_len(l) - 1) : Walk(l)[n] \in good}
<1>1. Len(s[l]) \in Nat
  BY LenProperties DEF Spells
<1>2. list_len(l) = Len(s[l]) /\ \A n \in 0..(Len(s[l]) - 1) : Walk(l)[n] = s[l][n + 1]
  BY ReadersSpelled
<1>3. \A e \in Elems : where[e] = l <=> \E n \in 0..(list_len(l) - 1) : Walk(l)[n] = e
  BY FindSpelled DEF elem_find
<1>4. hits = {} <=> \A g \in good : where[g] # l
  <2>1. ASSUME NEW n \in hits PROVE ~ \A g \in good : where[g] # l
    BY <1>3
  <2>2. ASSUME NEW g \in good, where[g] = l PROVE hits # {}
    BY <1>3, <2>2
  <2> QED BY <2>1, <2>2
<1>5. list_traversal(l, good) =
        IF list_empty(l) \/ hits = {} THEN NULL
        ELSE Walk(l)[CHOOSE n \in hits : \A m \in hits : n <= m]
  BY DEF list_traversal
<1>6. CASE hits = {}
  <2> HIDE DEF hits
  <2> QED BY <1>4, <1>5, <1>6
<1>7. CASE hits # {}
  <2>1. ~list_empty(l)
    <3>1. PICK n \in 0..(Len(s[l]) - 1) : TRUE
      BY <1>2, <1>7
    <3>2. Len(s[l]) # 0
      BY <1>1, <3>1
    <3>3. s[l] # << >>
      BY <3>2
    <3> QED BY <3>3, EmptySpells
  <2>2. hits \in SUBSET Nat
    BY <1>1, <1>2
  <2> DEFINE first == CHOOSE n \in hits : \A m \in hits : n <= m
  <2>3. first \in hits
    <3> HIDE DEF hits
    <3>1. \E n \in hits : \A m \in hits : n <= m
      BY <1>7, <2>2, Least
    <3> QED BY <3>1
  <2>4. list_traversal(l, good) = Walk(l)[first]
    <3> HIDE DEF hits
    <3> QED BY <1>5, <1>7, <2>1
  <2> HIDE DEF first
  <2>5. Walk(l)[first] \in good /\ first \in 0..(list_len(l) - 1)
    BY <2>3
  <2>6. where[Walk(l)[first]] = l
    BY <1>3, <2>5
  <2> HIDE DEF hits
  <2> QED BY <1>4, <1>7, <2>4, <2>5, <2>6
<1> QED BY <1>6, <1>7

(* list_len, elem_find and list_traversal terminate and agree with what    *)
(* the callers have put into each list, whatever the lists have been       *)
(* through.                                                                *)
THEOREM ListReadersAgree == ListSpec => []ReadersAgree
<1>1. ListInv => ReadersAgree
  <2> SUFFICES ASSUME ListInv PROVE ReadersAgree
    OBVIOUS
  <2>1. PICK s : Spells(s)
    BY DEF ListInv
  <2> SUFFICES ASSUME NEW l \in Lists
               PROVE  /\ list_len(l) = Cardinality({e \in Elems : where[e] = l})
                      /\ \A e \in Elems : elem_find(l, e) <=> where[e] = l
                      /\ \A good \in SUBSET Elems :
                           LET e == list_traversal(l, good)
                           IN  IF \A g \in good : where[g] # l THEN e = NULL
                               ELSE e \in good /\ where[e] = l
    BY DEF ReadersAgree
  <2>2. list_len(l) = Cardinality({e \in Elems : where[e] = l})
    <3>1. list_len(l) = Len(s[l])
      BY <2>1, ReadersSpelled
    <3>2. Cardinality({e \in Elems : where[e] = l}) = Len(s[l])
      BY <2>1, Lengths
    <3> QED BY <3>1, <3>2
  <2>3. ASSUME NEW e \in Elems PROVE elem_find(l, e) <=> where[e] = l
    BY <2>1, FindSpelled
  <2>4. ASSUME NEW good \in SUBSET Elems
        PROVE  IF \A g \in good : where[g] # l THEN list_traversal(l, good) = NULL
               ELSE list_traversal(l, good) \in good /\ where[list_traversal(l, good)] = l
    BY <2>1, TraversalSpelled
  <2> QED BY <2>2, <2>3, <2>4
<1> QED BY <1>1, ListInvariance, PTL

-----------------------------------------------------------------------------

(* What the walk over a list finds is the sequence its links spell out. *)
Readable == \A s : Spells(s) => content = s

(* The lists are readable in every state: the walk is enough to find what  *)
(* the links spell out.                                                    *)
LEMMA ContentSpelled == Readable
<1> SUFFICES ASSUME NEW s, Spells(s) PROVE content = s
  BY DEF Readable
<1>1. s \in [Lists -> Seq(Elems)]
  BY DEF Spells
<1>2. ASSUME NEW l \in Lists PROVE [n \in 1..list_len(l) |-> Walk(l)[n - 1]] = s[l]
  <2>1. Len(s[l]) \in Nat /\ s[l] \in [1..Len(s[l]) -> Elems]
    BY <1>1, LenProperties
  <2>2. list_len(l) = Len(s[l]) /\ \A n \in 0..(Len(s[l]) - 1) : Walk(l)[n] = s[l][n + 1]
    BY ReadersSpelled
  <2>3. ASSUME NEW n \in 1..Len(s[l]) PROVE Walk(l)[n - 1] = s[l][n]
    <3>1. n - 1 \in 0..(Len(s[l]) - 1) /\ (n - 1) + 1 = n
      BY <2>1
    <3> QED BY <2>2, <3>1
  <2> QED BY <2>1, <2>2, <2>3
<1>3. content = [l \in Lists |-> s[l]]
  BY <1>2 DEF content
<1> QED BY <1>1, <1>3

(* An element that no caller has put anywhere is in no sequence. *)
LEMMA UnlinkedSpelled ==
  ASSUME NEW s, Spells(s), NEW e \in Elems, where[e] = NULL
  PROVE  Abstract!Unlinked(e)
<1>1. content = s
  BY ContentSpelled DEF Readable
<1>2. \A l \in Lists : ~ \E i \in 1..Len(s[l]) : s[l][i] = e
  BY NodeFacts DEF Spells, Located
<1> QED BY <1>1, <1>2 DEF Abstract!Unlinked, Abstract!In

(* Each function does to the walk what its counterpart does to a sequence. *)
Steps ==
  /\ \A l \in Lists, e \in Elems :
       /\ list_append(l, e) => Abstract!PutLast(l, e)
       /\ list_push(l, e) => Abstract!PutFirst(l, e)
  /\ \A l \in Lists : list_pop(l) => Abstract!TakeFirst(l)
  /\ \A e \in Elems : Unlink(e) => Abstract!TakeOut(e)

(* It does so whenever the links spell out sequences. *)
LEMMA StepsSpelled == ASSUME ListInv PROVE Steps
<1>1. PICK s : Spells(s)
  BY DEF ListInv
<1>2. content = s /\ s \in [Lists -> Seq(Elems)]
  BY <1>1, ContentSpelled DEF Readable, Spells
<1>3. ASSUME NEW t, Spells(t)' PROVE content' = t
  <2>1. Readable'
    BY ContentSpelled, PTL
  <2> QED BY <1>3, <2>1 DEF Readable
<1>4. ASSUME NEW l \in Lists, NEW e \in Elems, list_append(l, e) PROVE Abstract!PutLast(l, e)
  <2>1. Abstract!Unlinked(e)
    BY <1>1, <1>4, UnlinkedSpelled DEF list_append
  <2>2. content' = [s EXCEPT ![l] = Append(s[l], e)]
    BY <1>1, <1>3, <1>4, AppendSpells
  <2> QED BY <1>2, <2>1, <2>2 DEF Abstract!PutLast
<1>5. ASSUME NEW l \in Lists, NEW e \in Elems, list_push(l, e) PROVE Abstract!PutFirst(l, e)
  <2>1. Abstract!Unlinked(e)
    BY <1>1, <1>5, UnlinkedSpelled DEF list_push
  <2>2. content' = [s EXCEPT ![l] = <<e>> \o s[l]]
    BY <1>1, <1>3, <1>5, PushSpells
  <2> QED BY <1>2, <2>1, <2>2 DEF Abstract!PutFirst
<1>6. ASSUME NEW l \in Lists, list_pop(l) PROVE Abstract!TakeFirst(l)
  <2>1. s[l] # << >> /\ content' = [s EXCEPT ![l] = Tail(s[l])]
    BY <1>1, <1>3, <1>6, PopSpells
  <2> QED BY <1>2, <2>1 DEF Abstract!TakeFirst
<1>7. ASSUME NEW e \in Elems, Unlink(e) PROVE Abstract!TakeOut(e)
  <2>1. PICK l \in Lists : \E k \in 1..Len(s[l]) :
          /\ s[l][k] = e
          /\ Spells([s EXCEPT ![l] = SubSeq(s[l], 1, k - 1) \o SubSeq(s[l], k + 1, Len(s[l]))])'
    BY <1>1, <1>7, UnlinkSpells
  <2>2. PICK k \in 1..Len(s[l]) :
          /\ s[l][k] = e
          /\ Spells([s EXCEPT ![l] = SubSeq(s[l], 1, k - 1) \o SubSeq(s[l], k + 1, Len(s[l]))])'
    BY <2>1
  <2>3. content' = [s EXCEPT ![l] = SubSeq(s[l], 1, k - 1) \o SubSeq(s[l], k + 1, Len(s[l]))]
    BY <1>3, <2>2
  <2> QED BY <1>2, <2>2, <2>3 DEF Abstract!TakeOut
<1> QED BY <1>4, <1>5, <1>6, <1>7 DEF Steps

(* After list_init the walks find nothing. *)
LEMMA InitSpelled == ListInit => Abstract!Init
BY InitSpells, ContentSpelled DEF Readable, Abstract!Init

(* The linked lists implement sequences: list_append, list_push, list_pop  *)
(* and list_remove do to the walk over a list what PutLast, PutFirst,      *)
(* TakeFirst and TakeOut do to a sequence, and nothing to other lists.     *)
THEOREM ListImplementsSequences == ListSpec => ImplementsSequences
<1>1. ListInv => Steps
  BY StepsSpelled
<1>2. ListSpec => Abstract!Init /\ [][Steps]_listVars
  BY <1>1, InitSpelled, ListInvariance, PTL DEF ListSpec
<1> QED BY <1>2 DEF ImplementsSequences, Steps

(* So list.c as a whole behaves as SeqList, with the walks for sequences:  *)
(* what Thread, Sync and Ioqueue assume when they keep the ready list and  *)
(* the lists of waiters as sequences.                                      *)
THEOREM ListRefinesSequences == ListSpec => Abstract!Spec
<1>1. ListInv /\ [ListNext]_listVars => [Abstract!Next]_content
  <2> SUFFICES ASSUME ListInv, [ListNext]_listVars PROVE [Abstract!Next]_content
    OBVIOUS
  <2>1. CASE ListNext
    BY <2>1, StepsSpelled DEF ListNext, Steps, Abstract!Next
  <2>2. CASE UNCHANGED listVars
    <3>1. PICK s : Spells(s)
      BY DEF ListInv
    <3>2. Spells(s)'
      BY <2>2, <3>1, StutterSpells
    <3>3. Readable'
      BY ContentSpelled, PTL
    <3>4. content' = s /\ content = s
      BY <3>1, <3>2, <3>3, ContentSpelled DEF Readable
    <3> QED BY <3>4
  <2> QED BY <2>1, <2>2
<1>2. ListSpec => Abstract!Init /\ [][Abstract!Next]_content
  BY <1>1, InitSpelled, ListInvariance, PTL DEF ListSpec
<1> QED BY <1>2 DEF Abstract!Spec
=============================================================================
