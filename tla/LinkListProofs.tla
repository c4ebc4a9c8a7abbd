--------------------------- MODULE LinkListProofs ---------------------------
(***************************************************************************)
(* Proofs about LinkList, for every set of lists and of nodes, under its   *)
(* callers' rule that llist->end is not used once a list was drained.      *)
(***************************************************************************)
EXTENDS LinkList, SequenceTheorems, TLAPS

(***************************************************************************)
(* The inductive invariant                                                 *)
(***************************************************************************)

\* The i-th cell of the ring with head l and contents s.
CellOf(l, s, i) == IF i = 0 \/ i > Len(s) THEN l ELSE s[i]

\* nx and pv link the ring of l with contents s, forwards and backwards.
RingIs(l, s, nx, pv) ==
    \A i \in 0 .. Len(s) : /\ nx[CellOf(l, s, i)] = CellOf(l, s, i + 1)
                           /\ pv[CellOf(l, s, i + 1)] = CellOf(l, s, i)

\* A list that is initialised is the ring of its contents; the others are empty.
Rings == \A l \in List : IF status[l] = "none" THEN seq[l] = <<>>
                         ELSE RingIs(l, seq[l], next, prev)

\* What llist_t caches of the ring.
Caches == \A l \in List : /\ begin[l] = CellOf(l, seq[l], 1)
                          /\ count[l] = Len(seq[l])
                          /\ ~drained[l] => end[l] = CellOf(l, seq[l], Len(seq[l]))

\* The loop of llist_destroy stands at the first node and has saved the second.
DestroyAtFront ==
    \A l \in List : status[l] = "destroying" =>
      /\ cursor[l].at = "destroy" /\ cursor[l].visited = {}
      /\ cursor[l].pos = CellOf(l, seq[l], 1)
      /\ seq[l] # <<>> => cursor[l].next = CellOf(l, seq[l], 2)

\* Where the loop of llist_for_each has got to: the node it has saved is the
\* k-th cell, and every node that is owed lies there or behind, but for the
\* one that func is about to be called on.
WalkAt(s, l, c) ==
    \E k \in 1 .. Len(s) + 1 :
      /\ c.next = CellOf(l, s, k)
      /\ c.due \subseteq {s[j] : j \in k .. Len(s)}
                           \cup (IF c.at = "func" THEN {c.pos} ELSE {})
      /\ \A j \in k .. Len(s) : s[j] \notin c.visited
      /\ c.at = "func" => /\ \E j \in 1 .. k - 1 : s[j] = c.pos
                          /\ c.pos \notin c.visited

Walks == \A l \in List : /\ cursor[l].visited \subseteq ToSet(seq[l])
                         /\ cursor[l].at \in {"func", "next"} => WalkAt(seq[l], l, cursor[l])

IInv == /\ TypeOK /\ Rings /\ Caches /\ Separation /\ NoPoison
        /\ DestroyAtFront /\ Walks /\ WalkComplete

(***************************************************************************)
(* Rings                                                                   *)
(***************************************************************************)

\* What t is when n has been put behind the i-th element of s.
Inserted(s, t, i, n) ==
    /\ Len(t) = Len(s) + 1
    /\ \A j \in 1 .. Len(s) + 1 :
         t[j] = IF j <= i THEN s[j] ELSE IF j = i + 1 THEN n ELSE s[j - 1]

\* What t is when the i-th element of s has been taken out.
Removed(s, t, i) ==
    /\ Len(t) = Len(s) - 1
    /\ \A j \in 1 .. Len(s) - 1 : t[j] = IF j < i THEN s[j] ELSE s[j + 1]

Distinct(s) == \A i, j \in 1 .. Len(s) : s[i] = s[j] => i = j

\* The cells of a ring are distinct, but that the head closes it.
LEMMA CellsDistinct ==
    ASSUME NEW l \in List, NEW s \in Seq(Node), Distinct(s)
    PROVE  /\ \A i \in Nat : CellOf(l, s, i) \in Cell
           /\ \A i, j \in 0 .. Len(s) : CellOf(l, s, i) = CellOf(l, s, j) => i = j
           /\ \A i, j \in 1 .. Len(s) + 1 : CellOf(l, s, i) = CellOf(l, s, j) => i = j
<1>1. /\ Len(s) \in Nat /\ l \notin Node
      /\ \A i \in 1 .. Len(s) : s[i] \in Node
  BY CellAssumption
<1>2. \A i \in Nat : CellOf(l, s, i) = l \/ (i \in 1 .. Len(s) /\ CellOf(l, s, i) = s[i])
  BY <1>1 DEF CellOf
<1>3. \A i \in Nat : CellOf(l, s, i) \in Cell
  BY <1>1, <1>2 DEF Cell
<1>4. \A i, j \in 0 .. Len(s) : CellOf(l, s, i) = CellOf(l, s, j) => i = j
  BY <1>1 DEF CellOf, Distinct
<1>5. \A i, j \in 1 .. Len(s) + 1 : CellOf(l, s, i) = CellOf(l, s, j) => i = j
  BY <1>1 DEF CellOf, Distinct
<1> QED
  BY <1>3, <1>4, <1>5

\* The cells after an insertion, in terms of those before.
LEMMA InsertedCells ==
    ASSUME NEW l \in List, NEW s \in Seq(Node), NEW t \in Seq(Node),
           NEW i \in 0 .. Len(s), NEW n \in Node, Inserted(s, t, i, n)
    PROVE  \A j \in 0 .. Len(s) + 2 :
             CellOf(l, t, j) = IF j <= i THEN CellOf(l, s, j)
                               ELSE IF j = i + 1 THEN n ELSE CellOf(l, s, j - 1)
<1>1. Len(s) \in Nat /\ Len(t) = Len(s) + 1
  BY DEF Inserted
<1>2. SUFFICES ASSUME NEW j \in 0 .. Len(s) + 2
               PROVE CellOf(l, t, j) = IF j <= i THEN CellOf(l, s, j)
                                       ELSE IF j = i + 1 THEN n ELSE CellOf(l, s, j - 1)
  OBVIOUS
<1>3. CASE j = 0 \/ j = Len(s) + 2
  BY <1>1, <1>3 DEF CellOf
<1>4. CASE j \in 1 .. Len(s) + 1
  <2>1. CellOf(l, t, j) = t[j]
    BY <1>1, <1>4 DEF CellOf
  <2>2. t[j] = IF j <= i THEN s[j] ELSE IF j = i + 1 THEN n ELSE s[j - 1]
    BY <1>4 DEF Inserted
  <2>3. j <= i => CellOf(l, s, j) = s[j]
    BY <1>1, <1>4 DEF CellOf
  <2>4. j > i + 1 => CellOf(l, s, j - 1) = s[j - 1]
    BY <1>1, <1>4 DEF CellOf
  <2> QED
    BY <1>1, <2>1, <2>2, <2>3, <2>4
<1> QED
  BY <1>1, <1>3, <1>4

\* list_add behind the i-th cell makes the ring with n in its place.
LEMMA ListAddRing ==
    ASSUME NEW l \in List, NEW s \in Seq(Node), NEW t \in Seq(Node), Distinct(s),
           NEW i \in 0 .. Len(s), NEW n \in Node, \A j \in 1 .. Len(s) : s[j] # n,
           Inserted(s, t, i, n), RingIs(l, s, next, prev),
           next \in [Cell -> Cell \cup {POISON}], prev \in [Cell -> Cell \cup {POISON}],
           list_add(n, CellOf(l, s, i))
    PROVE  /\ RingIs(l, t, next', prev')
           /\ next' \in [Cell -> Cell \cup {POISON}] /\ prev' \in [Cell -> Cell \cup {POISON}]
           /\ \A c \in Cell \ ({n} \cup {CellOf(l, s, j) : j \in 0 .. Len(s)}) :
                next'[c] = next[c] /\ prev'[c] = prev[c]
<1> DEFINE C(j) == CellOf(l, s, j)
           D(j) == CellOf(l, t, j)
           pos == C(i)
<1>1. Len(s) \in Nat /\ i \in Nat /\ i <= Len(s) /\ Len(t) = Len(s) + 1 /\ n \in Cell /\ n # l
  BY CellAssumption DEF Inserted, Cell
<1>2. /\ \A j \in Nat : C(j) \in Cell
      /\ \A j, k \in 0 .. Len(s) : C(j) = C(k) => j = k
      /\ \A j, k \in 1 .. Len(s) + 1 : C(j) = C(k) => j = k
  BY CellsDistinct
<1>3. \A j \in 0 .. Len(s) + 1 : C(j) # n
  BY <1>1 DEF CellOf
<1>4. \A j \in 0 .. Len(s) + 2 :
        D(j) = IF j <= i THEN C(j) ELSE IF j = i + 1 THEN n ELSE C(j - 1)
  BY InsertedCells
<1>5. \A j \in 0 .. Len(s) : next[C(j)] = C(j + 1) /\ prev[C(j + 1)] = C(j)
  BY DEF RingIs
<1> HIDE DEF C, D
<1>6. next[pos] = C(i + 1) /\ pos \in Cell /\ C(i + 1) \in Cell
  BY <1>1, <1>2, <1>5
<1>7. /\ next' = [next EXCEPT ![n] = C(i + 1), ![pos] = n]
      /\ prev' = [prev EXCEPT ![C(i + 1)] = n, ![n] = pos]
  BY <1>6 DEF list_add, C
<1>8. /\ next'[n] = C(i + 1) /\ next'[pos] = n
      /\ \A c \in Cell : c # n /\ c # pos => next'[c] = next[c]
  BY <1>1, <1>3, <1>6, <1>7
<1>9. /\ prev'[n] = pos /\ prev'[C(i + 1)] = n
      /\ \A c \in Cell : c # n /\ c # C(i + 1) => prev'[c] = prev[c]
  BY <1>1, <1>3, <1>6, <1>7
<1>10. ASSUME NEW j \in 0 .. Len(s) + 1
       PROVE  next'[D(j)] = D(j + 1)
  <2>1. CASE j < i
    <3>1. D(j) = C(j) /\ D(j + 1) = C(j + 1) /\ C(j) # pos /\ C(j) # n /\ next[C(j)] = C(j + 1)
      BY <1>1, <1>2, <1>3, <1>4, <1>5, <2>1
    <3> QED
      BY <1>1, <1>2, <1>8, <3>1
  <2>2. CASE j = i
    <3>1. D(j) = pos /\ D(j + 1) = n
      BY <1>1, <1>4, <2>2
    <3> QED
      BY <1>8, <3>1
  <2>3. CASE j = i + 1
    <3>1. D(j) = n /\ D(j + 1) = C(i + 1)
      BY <1>1, <1>4, <2>3
    <3> QED
      BY <1>8, <3>1
  <2>4. CASE j > i + 1
    <3>1. D(j) = C(j - 1) /\ D(j + 1) = C(j) /\ j - 1 \in 0 .. Len(s) /\ j - 1 # i
      BY <1>1, <1>4, <2>4
    <3>2. C(j - 1) # pos /\ C(j - 1) # n /\ next[C(j - 1)] = C(j)
      BY <1>1, <1>2, <1>3, <1>5, <3>1
    <3> QED
      BY <1>1, <1>2, <1>8, <3>1, <3>2
  <2> QED
    BY <1>1, <2>1, <2>2, <2>3, <2>4
<1>11. ASSUME NEW j \in 0 .. Len(s) + 1
       PROVE  prev'[D(j + 1)] = D(j)
  <2>1. CASE j < i
    <3>1. D(j) = C(j) /\ D(j + 1) = C(j + 1) /\ prev[C(j + 1)] = C(j)
      BY <1>1, <1>4, <1>5, <2>1
    <3>2. C(j + 1) # C(i + 1) /\ C(j + 1) # n
      BY SMTT(30), <1>1, <1>2, <1>3, <2>1
    <3> QED
      BY <1>1, <1>2, <1>9, <3>1, <3>2
  <2>2. CASE j = i
    <3>1. D(j) = pos /\ D(j + 1) = n
      BY <1>1, <1>4, <2>2
    <3> QED
      BY <1>9, <3>1
  <2>3. CASE j = i + 1
    <3>1. D(j) = n /\ D(j + 1) = C(i + 1)
      BY <1>1, <1>4, <2>3
    <3> QED
      BY <1>9, <3>1
  <2>4. CASE j > i + 1
    <3>1. D(j) = C(j - 1) /\ D(j + 1) = C(j) /\ j - 1 \in 0 .. Len(s) /\ j \in 1 .. Len(s) + 1
          /\ i + 1 \in 1 .. Len(s) + 1 /\ j # i + 1 /\ (j - 1) + 1 = j
      BY <1>1, <1>4, <2>4
    <3>2. C(j) # C(i + 1) /\ C(j) # n
      BY <1>1, <1>2, <1>3, <3>1
    <3>3. prev[C(j)] = C(j - 1)
      BY <1>5, <3>1
    <3> QED
      BY SMTT(30), <1>1, <1>2, <1>9, <3>1, <3>2, <3>3
  <2> QED
    BY <1>1, <2>1, <2>2, <2>3, <2>4
<1>12. RingIs(l, t, next', prev')
  BY <1>1, <1>10, <1>11 DEF RingIs, D
<1>13. next' \in [Cell -> Cell \cup {POISON}] /\ prev' \in [Cell -> Cell \cup {POISON}]
  BY <1>1, <1>6, <1>7
<1>14. C(i + 1) \in {C(j) : j \in 0 .. Len(s)} /\ pos \in {C(j) : j \in 0 .. Len(s)}
  <2>1. CASE i < Len(s)
    BY <1>1, <2>1
  <2>2. CASE i = Len(s)
    <3>1. C(i + 1) = C(0)
      BY <1>1, <2>2 DEF C, CellOf
    <3> QED
      BY <1>1, <2>2, <3>1
  <2> QED
    BY <1>1, <2>1, <2>2
<1>15. \A c \in Cell \ ({n} \cup {C(j) : j \in 0 .. Len(s)}) : next'[c] = next[c] /\ prev'[c] = prev[c]
  BY <1>8, <1>9, <1>14
<1> QED
  BY <1>12, <1>13, <1>15 DEF C

\* The cells after a removal, in terms of those before.
LEMMA RemovedCells ==
    ASSUME NEW l \in List, NEW s \in Seq(Node), NEW t \in Seq(Node),
           NEW i \in 1 .. Len(s), Removed(s, t, i)
    PROVE  \A j \in 0 .. Len(s) :
             CellOf(l, t, j) = IF j < i THEN CellOf(l, s, j) ELSE CellOf(l, s, j + 1)
<1>1. Len(s) \in Nat /\ Len(t) = Len(s) - 1
  BY DEF Removed
<1>2. SUFFICES ASSUME NEW j \in 0 .. Len(s)
               PROVE CellOf(l, t, j) = IF j < i THEN CellOf(l, s, j) ELSE CellOf(l, s, j + 1)
  OBVIOUS
<1>3. CASE j = 0 \/ j = Len(s)
  BY <1>1, <1>3 DEF CellOf
<1>4. CASE j \in 1 .. Len(s) - 1
  <2>1. CellOf(l, t, j) = t[j]
    BY <1>1, <1>4 DEF CellOf
  <2>2. t[j] = IF j < i THEN s[j] ELSE s[j + 1]
    BY <1>4 DEF Removed
  <2>3. CellOf(l, s, j) = s[j] /\ CellOf(l, s, j + 1) = s[j + 1]
    BY <1>1, <1>4 DEF CellOf
  <2> QED
    BY <1>1, <2>1, <2>2, <2>3
<1> QED
  BY <1>1, <1>3, <1>4

\* list_del of the i-th cell makes the ring without it.
LEMMA ListDelRing ==
    ASSUME NEW l \in List, NEW s \in Seq(Node), NEW t \in Seq(Node), Distinct(s),
           NEW i \in 1 .. Len(s), Removed(s, t, i), RingIs(l, s, next, prev),
           next \in [Cell -> Cell \cup {POISON}], prev \in [Cell -> Cell \cup {POISON}],
           list_del(s[i])
    PROVE  /\ RingIs(l, t, next', prev')
           /\ next' \in [Cell -> Cell \cup {POISON}] /\ prev' \in [Cell -> Cell \cup {POISON}]
           /\ \A c \in Cell \ {CellOf(l, s, j) : j \in 0 .. Len(s)} :
                next'[c] = next[c] /\ prev'[c] = prev[c]
<1> DEFINE C(j) == CellOf(l, s, j)
           D(j) == CellOf(l, t, j)
           pos == C(i)
<1>1. Len(s) \in Nat /\ i \in Nat /\ i >= 1 /\ i <= Len(s) /\ Len(t) = Len(s) - 1
  BY DEF Removed
<1>2. /\ \A j \in Nat : C(j) \in Cell
      /\ \A j, k \in 0 .. Len(s) : C(j) = C(k) => j = k
      /\ \A j, k \in 1 .. Len(s) + 1 : C(j) = C(k) => j = k
  BY CellsDistinct
<1>3. pos = s[i]
  BY <1>1 DEF CellOf
<1>4. \A j \in 0 .. Len(s) : D(j) = IF j < i THEN C(j) ELSE C(j + 1)
  BY RemovedCells
<1>5. \A j \in 0 .. Len(s) : next[C(j)] = C(j + 1) /\ prev[C(j + 1)] = C(j)
  BY DEF RingIs
<1> HIDE DEF C, D
<1>6. next[pos] = C(i + 1) /\ pos \in Cell /\ C(i + 1) \in Cell
  BY <1>1, <1>2, <1>5
<1>7. prev[pos] = C(i - 1) /\ C(i - 1) \in Cell
  <2>1. i - 1 \in 0 .. Len(s) /\ (i - 1) + 1 = i /\ i - 1 \in Nat
    BY <1>1
  <2> QED
    BY <1>2, <1>5, <2>1
<1>8. C(i - 1) # pos /\ C(i + 1) # pos
  BY <1>1, <1>2
<1>9. /\ next' = [next EXCEPT ![C(i - 1)] = C(i + 1), ![pos] = POISON]
      /\ prev' = [prev EXCEPT ![C(i + 1)] = C(i - 1), ![pos] = POISON]
  BY <1>3, <1>6, <1>7 DEF list_del, C
<1>10. /\ next'[C(i - 1)] = C(i + 1)
       /\ \A c \in Cell : c # C(i - 1) /\ c # pos => next'[c] = next[c]
  BY <1>6, <1>7, <1>8, <1>9
<1>11. /\ prev'[C(i + 1)] = C(i - 1)
       /\ \A c \in Cell : c # C(i + 1) /\ c # pos => prev'[c] = prev[c]
  BY <1>6, <1>7, <1>8, <1>9
<1>12. ASSUME NEW j \in 0 .. Len(s) - 1
       PROVE  next'[D(j)] = D(j + 1) /\ prev'[D(j + 1)] = D(j)
  <2>1. CASE j < i - 1
    <3>1. /\ D(j) = C(j) /\ D(j + 1) = C(j + 1) /\ C(j) # pos /\ C(j) # C(i - 1)
          /\ C(j + 1) # pos /\ C(j + 1) # C(i + 1)
      BY <1>1, <1>2, <1>4, <2>1
    <3>2. next[C(j)] = C(j + 1) /\ prev[C(j + 1)] = C(j)
      BY <1>1, <1>5
    <3> QED
      BY <1>1, <1>2, <1>10, <1>11, <3>1, <3>2
  <2>2. CASE j = i - 1
    <3>1. D(j) = C(i - 1) /\ D(j + 1) = C(i + 1)
      BY <1>1, <1>4, <2>2
    <3> QED
      BY <1>10, <1>11, <3>1
  <2>3. CASE j >= i
    <3>1. /\ D(j) = C(j + 1) /\ D(j + 1) = C(j + 2) /\ j + 1 \in 0 .. Len(s) /\ (j + 1) + 1 = j + 2
          /\ j + 1 # i /\ j + 1 # i - 1 /\ j + 2 \in 1 .. Len(s) + 1 /\ i + 1 \in 1 .. Len(s) + 1
          /\ j + 2 # i /\ j + 2 # i + 1 /\ i \in 0 .. Len(s) /\ i - 1 \in 0 .. Len(s)
      BY <1>1, <1>4, <2>3
    <3>2. next[C(j + 1)] = C(j + 2) /\ prev[C(j + 2)] = C(j + 1)
      BY <1>5, <3>1
    <3>3. C(j + 1) # pos /\ C(j + 1) # C(i - 1) /\ C(j + 2) # pos /\ C(j + 2) # C(i + 1)
      BY <1>1, <1>2, <3>1
    <3> QED
      BY <1>1, <1>2, <1>10, <1>11, <3>1, <3>2, <3>3
  <2> QED
    BY <1>1, <2>1, <2>2, <2>3
<1>13. RingIs(l, t, next', prev')
  BY <1>1, <1>12 DEF RingIs, D
<1>14. next' \in [Cell -> Cell \cup {POISON}] /\ prev' \in [Cell -> Cell \cup {POISON}]
  BY <1>6, <1>7, <1>9
<1>15. {C(i - 1), pos, C(i + 1)} \subseteq {C(j) : j \in 0 .. Len(s)}
  <2>1. CASE i < Len(s)
    BY <1>1, <2>1
  <2>2. CASE i = Len(s)
    <3>1. C(i + 1) = C(0)
      BY <1>1, <2>2 DEF C, CellOf
    <3> QED
      BY <1>1, <2>2, <3>1
  <2> QED
    BY <1>1, <2>1, <2>2
<1>16. \A c \in Cell \ {C(j) : j \in 0 .. Len(s)} : next'[c] = next[c] /\ prev'[c] = prev[c]
  BY <1>10, <1>11, <1>15
<1> QED
  BY <1>13, <1>14, <1>16 DEF C

\* A ring none of whose cells is written stays.
LEMMA RingFrame ==
    ASSUME NEW l \in List, NEW s \in Seq(Node), Distinct(s), RingIs(l, s, next, prev),
           \A j \in 0 .. Len(s) : LET c == CellOf(l, s, j) IN next'[c] = next[c] /\ prev'[c] = prev[c]
    PROVE  RingIs(l, s, next', prev')
<1>1. CellOf(l, s, Len(s) + 1) = CellOf(l, s, 0) /\ Len(s) \in Nat
  BY DEF CellOf
<1>2. ASSUME NEW i \in 0 .. Len(s)
      PROVE  prev'[CellOf(l, s, i + 1)] = prev[CellOf(l, s, i + 1)]
  <2>1. CASE i = Len(s)
    BY <1>1, <2>1
  <2>2. CASE i < Len(s)
    <3>1. i + 1 \in 0 .. Len(s)
      BY <1>1, <2>2
    <3> QED
      BY <3>1
  <2> QED
    BY <1>1, <2>1, <2>2
<1> QED
  BY <1>2 DEF RingIs

(***************************************************************************)
(* The sequences                                                           *)
(***************************************************************************)

LEMMA ConsInserts ==
    ASSUME NEW s \in Seq(Node), NEW n \in Node
    PROVE  <<n>> \o s \in Seq(Node) /\ Inserted(s, <<n>> \o s, 0, n)
<1>1. /\ <<n>> \o s \in Seq(Node) /\ Len(<<n>> \o s) = Len(s) + 1
      /\ \A j \in 1 .. Len(s) + 1 : (<<n>> \o s)[j] = IF j = 1 THEN n ELSE s[j - 1]
  OBVIOUS
<1> QED
  BY <1>1 DEF Inserted

LEMMA AppendInserts ==
    ASSUME NEW s \in Seq(Node), NEW n \in Node
    PROVE  Append(s, n) \in Seq(Node) /\ Inserted(s, Append(s, n), Len(s), n)
<1>1. /\ Append(s, n) \in Seq(Node) /\ Len(Append(s, n)) = Len(s) + 1
      /\ \A j \in 1 .. Len(s) + 1 : Append(s, n)[j] = IF j = Len(s) + 1 THEN n ELSE s[j]
  OBVIOUS
<1> QED
  BY <1>1 DEF Inserted

LEMMA InsertAtInserts ==
    ASSUME NEW s \in Seq(Node), NEW n \in Node, NEW i \in 1 .. Len(s)
    PROVE  InsertAt(s, i + 1, n) \in Seq(Node) /\ Inserted(s, InsertAt(s, i + 1, n), i, n)
<1> DEFINE a == SubSeq(s, 1, (i + 1) - 1)
           b == SubSeq(s, i + 1, Len(s))
<1>1. Len(s) \in Nat /\ i \in Nat /\ i >= 1 /\ i <= Len(s)
  OBVIOUS
<1>2. a \in Seq(Node) /\ Len(a) = i /\ \A j \in 1 .. i : a[j] = s[j]
  BY <1>1
<1>3. b \in Seq(Node) /\ Len(b) = Len(s) - i /\ \A j \in 1 .. Len(s) - i : b[j] = s[i + j]
  BY <1>1
<1>4. InsertAt(s, i + 1, n) = a \o <<n>> \o b
  BY DEF InsertAt
<1> HIDE DEF a, b
<1>5. /\ a \o <<n>> \in Seq(Node) /\ Len(a \o <<n>>) = i + 1
      /\ \A j \in 1 .. i + 1 : (a \o <<n>>)[j] = IF j <= i THEN a[j] ELSE n
  BY <1>1, <1>2
<1> DEFINE c == a \o <<n>>
<1> HIDE DEF c
<1>6. /\ c \in Seq(Node) /\ Len(c) = i + 1
      /\ \A j \in 1 .. i + 1 : c[j] = IF j <= i THEN s[j] ELSE n
  BY <1>1, <1>2, <1>5 DEF c
<1>7. /\ c \o b \in Seq(Node) /\ Len(c \o b) = Len(s) + 1
      /\ \A j \in 1 .. Len(s) + 1 : (c \o b)[j] = IF j <= i + 1 THEN c[j] ELSE b[j - (i + 1)]
  <2>1. /\ c \o b \in Seq(Node) /\ Len(c \o b) = Len(c) + Len(b)
        /\ \A j \in 1 .. Len(c) + Len(b) : (c \o b)[j] = IF j <= Len(c) THEN c[j] ELSE b[j - Len(c)]
    BY <1>3, <1>6, ConcatProperties
  <2> QED
    BY <1>1, <1>3, <1>6, <2>1
<1>8. ASSUME NEW j \in 1 .. Len(s) + 1
      PROVE  (c \o b)[j] = IF j <= i THEN s[j] ELSE IF j = i + 1 THEN n ELSE s[j - 1]
  <2>1. CASE j <= i + 1
    BY <1>1, <1>6, <1>7, <2>1
  <2>2. CASE j > i + 1
    <3>1. j - (i + 1) \in 1 .. Len(s) - i /\ i + (j - (i + 1)) = j - 1
      BY <1>1, <2>2
    <3>2. b[j - (i + 1)] = s[j - 1]
      BY <1>3, <3>1
    <3> QED
      BY <1>1, <1>7, <2>2, <3>2
  <2>3. j <= i + 1 \/ j > i + 1
    BY <1>1
  <2> QED
    BY <2>1, <2>2, <2>3
<1>9. InsertAt(s, i + 1, n) = c \o b
  BY <1>4 DEF c
<1>10. Inserted(s, c \o b, i, n)
  BY <1>7, <1>8 DEF Inserted
<1> QED
  BY <1>7, <1>9, <1>10

LEMMA RemoveAtRemoves ==
    ASSUME NEW s \in Seq(Node), NEW i \in 1 .. Len(s)
    PROVE  RemoveAt(s, i) \in Seq(Node) /\ Removed(s, RemoveAt(s, i), i)
<1> DEFINE a == SubSeq(s, 1, i - 1)
           b == SubSeq(s, i + 1, Len(s))
<1>1. Len(s) \in Nat /\ i \in Nat /\ i >= 1 /\ i <= Len(s)
  OBVIOUS
<1>2. a \in Seq(Node) /\ Len(a) = i - 1 /\ \A j \in 1 .. i - 1 : a[j] = s[j]
  BY <1>1
<1>3. b \in Seq(Node) /\ Len(b) = Len(s) - i /\ \A j \in 1 .. Len(s) - i : b[j] = s[i + j]
  BY <1>1
<1>4. RemoveAt(s, i) = a \o b
  BY DEF RemoveAt
<1> HIDE DEF a, b
<1>5. /\ a \o b \in Seq(Node) /\ Len(a \o b) = Len(s) - 1
      /\ \A j \in 1 .. Len(s) - 1 : (a \o b)[j] = IF j <= i - 1 THEN a[j] ELSE b[j - (i - 1)]
  <2>1. /\ a \o b \in Seq(Node) /\ Len(a \o b) = Len(a) + Len(b)
        /\ \A j \in 1 .. Len(a) + Len(b) : (a \o b)[j] = IF j <= Len(a) THEN a[j] ELSE b[j - Len(a)]
    BY <1>2, <1>3, ConcatProperties
  <2> QED
    BY <1>1, <1>2, <1>3, <2>1
<1>6. ASSUME NEW j \in 1 .. Len(s) - 1
      PROVE  (a \o b)[j] = IF j < i THEN s[j] ELSE s[j + 1]
  <2>1. CASE j < i
    BY <1>1, <1>2, <1>5, <2>1
  <2>2. CASE j >= i
    <3>1. j - (i - 1) \in 1 .. Len(s) - i /\ i + (j - (i - 1)) = j + 1
      BY <1>1, <2>2
    <3>2. b[j - (i - 1)] = s[j + 1]
      BY <1>3, <3>1
    <3> QED
      BY <1>1, <1>5, <2>2, <3>2
  <2>3. j < i \/ j >= i
    BY <1>1
  <2> QED
    BY <2>1, <2>2, <2>3
<1> QED
  BY <1>4, <1>5, <1>6 DEF Removed

\* What is in the list after an insertion or a removal.
LEMMA InsertedContents ==
    ASSUME NEW s \in Seq(Node), NEW t \in Seq(Node), Distinct(s), NEW i \in 0 .. Len(s),
           NEW n \in Node, \A j \in 1 .. Len(s) : s[j] # n, Inserted(s, t, i, n)
    PROVE  Distinct(t) /\ ToSet(t) = ToSet(s) \cup {n}
<1>1. Len(s) \in Nat /\ Len(t) = Len(s) + 1 /\ i \in Nat /\ i <= Len(s)
      /\ DOMAIN s = 1 .. Len(s) /\ DOMAIN t = 1 .. Len(s) + 1
  BY DEF Inserted
<1>2. \A j \in 1 .. Len(s) + 1 :
        t[j] = IF j <= i THEN s[j] ELSE IF j = i + 1 THEN n ELSE s[j - 1]
  BY DEF Inserted
<1>3. Distinct(t)
  BY <1>1, <1>2 DEF Distinct
<1>4. ASSUME NEW j \in 1 .. Len(s) + 1 PROVE t[j] \in ToSet(s) \cup {n}
  <2>1. CASE j <= i
    BY <1>1, <1>2, <2>1 DEF ToSet
  <2>2. CASE j > i + 1
    <3>1. j - 1 \in 1 .. Len(s) /\ t[j] = s[j - 1]
      BY <1>1, <1>2, <2>2
    <3> QED
      BY <1>1, <3>1 DEF ToSet
  <2>3. CASE j = i + 1
    BY <1>1, <1>2, <2>3
  <2> QED
    BY <1>1, <2>1, <2>2, <2>3
<1>5. n \in ToSet(t)
  <2>1. i + 1 \in 1 .. Len(s) + 1 /\ t[i + 1] = n
    BY <1>1, <1>2
  <2> QED
    BY <1>1, <2>1 DEF ToSet
<1>6. ASSUME NEW j \in 1 .. Len(s) PROVE s[j] \in ToSet(t)
  <2>1. CASE j <= i
    BY <1>1, <1>2, <2>1 DEF ToSet
  <2>2. CASE j > i
    <3>1. j + 1 \in 1 .. Len(s) + 1 /\ t[j + 1] = s[j]
      BY <1>1, <1>2, <2>2
    <3> QED
      BY <1>1, <3>1 DEF ToSet
  <2> QED
    BY <1>1, <2>1, <2>2
<1> QED
  BY <1>1, <1>3, <1>4, <1>5, <1>6 DEF ToSet

LEMMA RemovedContents ==
    ASSUME NEW s \in Seq(Node), NEW t \in Seq(Node), Distinct(s), NEW i \in 1 .. Len(s),
           Removed(s, t, i)
    PROVE  Distinct(t) /\ ToSet(t) = ToSet(s) \ {s[i]}
<1>1. Len(s) \in Nat /\ Len(t) = Len(s) - 1 /\ i \in Nat /\ i >= 1 /\ i <= Len(s)
      /\ DOMAIN s = 1 .. Len(s) /\ DOMAIN t = 1 .. Len(s) - 1
  BY DEF Removed
<1>2. \A j \in 1 .. Len(s) - 1 : t[j] = IF j < i THEN s[j] ELSE s[j + 1]
  BY DEF Removed
<1>3. Distinct(t)
  BY <1>1, <1>2 DEF Distinct
<1>4. ASSUME NEW j \in 1 .. Len(s) - 1 PROVE t[j] \in ToSet(s) \ {s[i]}
  <2>1. CASE j < i
    BY <1>1, <1>2, <2>1 DEF ToSet, Distinct
  <2>2. CASE j >= i
    <3>1. j + 1 \in 1 .. Len(s) /\ t[j] = s[j + 1] /\ j + 1 # i
      BY <1>1, <1>2, <2>2
    <3> QED
      BY <1>1, <3>1 DEF ToSet, Distinct
  <2> QED
    BY <1>1, <2>1, <2>2
<1>5. ASSUME NEW j \in 1 .. Len(s), j # i PROVE s[j] \in ToSet(t)
  <2>1. CASE j < i
    BY <1>1, <1>2, <2>1 DEF ToSet
  <2>2. CASE j > i
    <3>1. j - 1 \in 1 .. Len(s) - 1 /\ t[j - 1] = s[j]
      BY <1>1, <1>2, <2>2
    <3> QED
      BY <1>1, <3>1 DEF ToSet
  <2> QED
    BY <1>1, <1>5, <2>1, <2>2
<1> QED
  BY <1>1, <1>3, <1>4, <1>5 DEF ToSet

(***************************************************************************)
(* What insertions and removals do to a walk                               *)
(***************************************************************************)

LEMMA WalkInsert ==
    ASSUME NEW l \in List, NEW s \in Seq(Node), NEW t \in Seq(Node),
           NEW i \in 0 .. Len(s), NEW n \in Node, Inserted(s, t, i, n),
           NEW c, WalkAt(s, l, c), n \notin c.visited
    PROVE  WalkAt(t, l, c)
<1>1. Len(s) \in Nat /\ Len(t) = Len(s) + 1 /\ i \in Nat /\ i <= Len(s)
  BY DEF Inserted
<1>2. \A j \in 1 .. Len(s) + 1 :
        t[j] = IF j <= i THEN s[j] ELSE IF j = i + 1 THEN n ELSE s[j - 1]
  BY DEF Inserted
<1>3. PICK k \in 1 .. Len(s) + 1 :
        /\ c.next = CellOf(l, s, k)
        /\ c.due \subseteq {s[j] : j \in k .. Len(s)}
                             \cup (IF c.at = "func" THEN {c.pos} ELSE {})
        /\ \A j \in k .. Len(s) : s[j] \notin c.visited
        /\ c.at = "func" => /\ \E j \in 1 .. k - 1 : s[j] = c.pos
                            /\ c.pos \notin c.visited
  BY DEF WalkAt
<1> DEFINE m == IF k <= i THEN k ELSE k + 1
<1>4. m \in 1 .. Len(t) + 1 /\ k \in Nat /\ k >= 1 /\ k <= Len(s) + 1 /\ m \in Nat /\ m >= k
  BY <1>1
<1>5. c.next = CellOf(l, t, m)
  <2>1. CASE k <= i
    BY <1>1, <1>3, <1>4, <2>1, InsertedCells
  <2>2. CASE k > i
    <3>1. k + 1 \in 0 .. Len(s) + 2 /\ ~(k + 1 <= i) /\ k + 1 # i + 1 /\ (k + 1) - 1 = k
      BY <1>1, <1>4, <2>2
    <3>2. CellOf(l, t, k + 1) = CellOf(l, s, k)
      <4>1. \A j \in 0 .. Len(s) + 2 :
              CellOf(l, t, j) = IF j <= i THEN CellOf(l, s, j)
                                ELSE IF j = i + 1 THEN n ELSE CellOf(l, s, j - 1)
        BY InsertedCells
      <4>2. CellOf(l, t, k + 1) = CellOf(l, s, (k + 1) - 1)
        BY <3>1, <4>1
      <4> QED
        BY <3>1, <4>2
    <3> QED
      BY <1>3, <1>4, <2>2, <3>2
  <2> QED
    BY <1>1, <1>4, <2>1, <2>2
\* What lay ahead lies ahead.
<1>6. ASSUME NEW j \in k .. Len(s) PROVE \E h \in m .. Len(t) : t[h] = s[j]
  <2>1. CASE j <= i
    <3>1. j \in m .. Len(t) /\ t[j] = s[j]
      BY <1>1, <1>2, <1>4, <2>1
    <3> QED
      BY <3>1
  <2>2. CASE j > i
    <3>1. j + 1 \in m .. Len(t) /\ t[j + 1] = s[j]
      BY <1>1, <1>2, <1>4, <2>2
    <3> QED
      BY <3>1
  <2>3. j <= i \/ j > i
    BY <1>1, <1>4
  <2> QED
    BY <2>1, <2>2, <2>3
<1>7. ASSUME NEW h \in m .. Len(t) PROVE t[h] = n \/ \E j \in k .. Len(s) : t[h] = s[j]
  <2>1. CASE h <= i
    <3>1. h \in k .. Len(s) /\ t[h] = s[h]
      BY <1>1, <1>2, <1>4, <2>1
    <3> QED
      BY <3>1
  <2>2. CASE h = i + 1
    BY <1>1, <1>2, <2>2
  <2>3. CASE h > i + 1
    <3>1. h - 1 \in k .. Len(s) /\ t[h] = s[h - 1]
      BY <1>1, <1>2, <1>4, <2>3
    <3> QED
      BY <3>1
  <2>4. h <= i \/ h = i + 1 \/ h > i + 1
    BY <1>1, <1>4
  <2> QED
    BY <2>1, <2>2, <2>3, <2>4
<1>8. c.due \subseteq {t[j] : j \in m .. Len(t)} \cup (IF c.at = "func" THEN {c.pos} ELSE {})
  BY <1>3, <1>6
<1>9. \A h \in m .. Len(t) : t[h] \notin c.visited
  BY <1>3, <1>7
<1>10. c.at = "func" => /\ \E j \in 1 .. m - 1 : t[j] = c.pos
                        /\ c.pos \notin c.visited
  <2> SUFFICES ASSUME c.at = "func" PROVE \E j \in 1 .. m - 1 : t[j] = c.pos
    BY <1>3
  <2>1. PICK j \in 1 .. k - 1 : s[j] = c.pos
    BY <1>3
  <2>2. CASE j <= i
    <3>1. j \in 1 .. m - 1 /\ t[j] = s[j]
      BY <1>1, <1>2, <1>4, <2>2
    <3> QED
      BY <2>1, <3>1
  <2>3. CASE j > i
    <3>1. j + 1 \in 1 .. m - 1 /\ t[j + 1] = s[j]
      BY <1>1, <1>2, <1>4, <2>3
    <3> QED
      BY <2>1, <3>1
  <2>4. j <= i \/ j > i
    BY <1>1, <1>4
  <2> QED
    BY <2>2, <2>3, <2>4
<1> HIDE DEF m
<1> QED
  BY <1>4, <1>5, <1>8, <1>9, <1>10 DEF WalkAt

\* A walk that has neither saved the removed node nor is about to be given it
\* goes on.
LEMMA WalkRemove ==
    ASSUME NEW l \in List, NEW s \in Seq(Node), NEW t \in Seq(Node), Distinct(s),
           NEW i \in 1 .. Len(s), Removed(s, t, i),
           NEW c, NEW d, WalkAt(s, l, c), c.next # s[i], c.at = "func" => c.pos # s[i],
           d.at = c.at, d.pos = c.pos, d.next = c.next,
           d.due = c.due \ {s[i]}, d.visited = c.visited \ {s[i]}
    PROVE  WalkAt(t, l, d)
<1>1. Len(s) \in Nat /\ Len(t) = Len(s) - 1 /\ i \in Nat /\ i >= 1 /\ i <= Len(s)
  BY DEF Removed
<1>2. \A j \in 1 .. Len(s) - 1 : t[j] = IF j < i THEN s[j] ELSE s[j + 1]
  BY DEF Removed
<1>3. PICK k \in 1 .. Len(s) + 1 :
        /\ c.next = CellOf(l, s, k)
        /\ c.due \subseteq {s[j] : j \in k .. Len(s)}
                             \cup (IF c.at = "func" THEN {c.pos} ELSE {})
        /\ \A j \in k .. Len(s) : s[j] \notin c.visited
        /\ c.at = "func" => /\ \E j \in 1 .. k - 1 : s[j] = c.pos
                            /\ c.pos \notin c.visited
  BY DEF WalkAt
<1>4. k # i
  BY <1>1, <1>3 DEF CellOf
<1> DEFINE m == IF k < i THEN k ELSE k - 1
<1>5. m \in 1 .. Len(t) + 1 /\ k \in Nat /\ k >= 1 /\ k <= Len(s) + 1 /\ m \in Nat /\ m >= 1
  BY <1>1, <1>4
<1>6. c.next = CellOf(l, t, m)
  <2>1. CASE k < i
    BY <1>1, <1>3, <1>5, <2>1, RemovedCells
  <2>2. CASE k > i
    <3>1. k - 1 \in 0 .. Len(s) /\ ~(k - 1 < i) /\ (k - 1) + 1 = k
      BY <1>1, <1>5, <2>2
    <3>2. CellOf(l, t, k - 1) = CellOf(l, s, k)
      BY <3>1, RemovedCells
    <3> QED
      BY <1>1, <1>3, <1>5, <2>2, <3>2
  <2> QED
    BY <1>1, <1>4, <1>5, <2>1, <2>2
<1>7. ASSUME NEW j \in k .. Len(s), j # i PROVE \E h \in m .. Len(t) : t[h] = s[j]
  <2>1. CASE j < i
    <3>1. j \in m .. Len(t) /\ t[j] = s[j]
      BY <1>1, <1>2, <1>5, <2>1
    <3> QED
      BY <3>1
  <2>2. CASE j > i
    <3>1. j - 1 \in m .. Len(t) /\ t[j - 1] = s[j]
      BY <1>1, <1>2, <1>4, <1>5, <2>2
    <3> QED
      BY <3>1
  <2>3. j < i \/ j > i
    BY <1>1, <1>5, <1>7
  <2> QED
    BY <2>1, <2>2, <2>3
<1>8. ASSUME NEW h \in m .. Len(t) PROVE \E j \in k .. Len(s) : t[h] = s[j]
  <2>1. CASE h < i
    <3>1. h \in k .. Len(s) /\ t[h] = s[h]
      BY <1>1, <1>2, <1>4, <1>5, <2>1
    <3> QED
      BY <3>1
  <2>2. CASE h >= i
    <3>1. h + 1 \in k .. Len(s) /\ t[h] = s[h + 1]
      BY <1>1, <1>2, <1>5, <2>2
    <3> QED
      BY <3>1
  <2>3. h < i \/ h >= i
    BY <1>1, <1>5
  <2> QED
    BY <2>1, <2>2, <2>3
<1>9. d.due \subseteq {t[j] : j \in m .. Len(t)} \cup (IF d.at = "func" THEN {d.pos} ELSE {})
  BY SMTT(30), <1>3, <1>7
<1>10. \A h \in m .. Len(t) : t[h] \notin d.visited
  BY <1>3, <1>8
<1>11. d.at = "func" => /\ \E j \in 1 .. m - 1 : t[j] = d.pos
                        /\ d.pos \notin d.visited
  <2> SUFFICES ASSUME c.at = "func" PROVE \E j \in 1 .. m - 1 : t[j] = c.pos
    BY <1>3
  <2>1. PICK j \in 1 .. k - 1 : s[j] = c.pos
    BY <1>3
  <2>2. j # i
    BY <2>1
  <2>3. CASE j < i
    <3>1. j \in 1 .. m - 1 /\ t[j] = s[j]
      BY SMTT(30), <1>1, <1>2, <1>4, <1>5, <2>3
    <3> QED
      BY <2>1, <3>1
  <2>4. CASE j > i
    <3>1. j - 1 \in 1 .. m - 1 /\ t[j - 1] = s[j]
      BY <1>1, <1>2, <1>5, <2>4
    <3> QED
      BY <2>1, <3>1
  <2>5. j < i \/ j > i
    BY <1>1, <1>5, <2>2
  <2> QED
    BY <2>3, <2>4, <2>5
<1> HIDE DEF m
<1> QED
  BY <1>5, <1>6, <1>9, <1>10, <1>11 DEF WalkAt

(***************************************************************************)
(* The inductive step: llist_insert                                        *)
(***************************************************************************)

LEMMA SeparationFacts ==
    ASSUME IInv, NEW l \in List
    PROVE  /\ seq[l] \in Seq(Node) /\ Len(seq[l]) \in Nat /\ Distinct(seq[l])
           /\ DOMAIN seq[l] = 1 .. Len(seq[l])
           /\ \A j \in 1 .. Len(seq[l]) : seq[l][j] \in Node /\ seq[l][j] \in heap
           /\ ToSet(seq[l]) \subseteq heap
<1>1. seq[l] \in Seq(Node)
  BY DEF IInv, TypeOK
<1>2. Distinct(seq[l]) /\ ToSet(seq[l]) \subseteq heap
  BY <1>1 DEF IInv, Separation, IsInjective, Distinct
<1> QED
  BY <1>1, <1>2 DEF ToSet

\* No cell of one ring is a cell of another.
LEMMA RingsApart ==
    ASSUME IInv, NEW l \in List, NEW m \in List, l # m
    PROVE  {CellOf(l, seq[l], j) : j \in 0 .. Len(seq[l])}
             \cap {CellOf(m, seq[m], j) : j \in 0 .. Len(seq[m])} = {}
<1>1. /\ \A j \in 0 .. Len(seq[l]) : CellOf(l, seq[l], j) \in {l} \cup ToSet(seq[l])
      /\ \A j \in 0 .. Len(seq[m]) : CellOf(m, seq[m], j) \in {m} \cup ToSet(seq[m])
  BY SeparationFacts DEF CellOf, ToSet
<1>2. ToSet(seq[l]) \subseteq Node /\ ToSet(seq[m]) \subseteq Node
  BY SeparationFacts DEF ToSet
<1>3. ToSet(seq[l]) \cap ToSet(seq[m]) = {}
  BY DEF IInv, Separation
<1> QED
  BY <1>1, <1>2, <1>3, CellAssumption

LEMMA InsertInv ==
    ASSUME IInv, NEW l \in List, NEW i \in 0 .. Len(seq[l]), NEW n \in Node,
           NEW t \in Seq(Node), Inserted(seq[l], t, i, n),
           llist_insert(l, CellOf(l, seq[l], i), n, t)
    PROVE  IInv'
<1> DEFINE s == seq[l]
           pos == CellOf(l, s, i)
<1>0. Inserted(s, t, i, n) /\ i \in 0 .. Len(s)
  OBVIOUS
<1>1. crash = "no" /\ status[l] = "ready" /\ n \in Node \ heap
  BY DEF llist_insert, Running
<1>2. /\ s \in Seq(Node) /\ Len(s) \in Nat /\ Distinct(s)
      /\ i \in Nat /\ i <= Len(s) /\ Len(t) = Len(s) + 1
      /\ \A j \in 1 .. Len(s) : s[j] # n
  BY <1>1, SeparationFacts DEF Inserted
<1>3. /\ RingIs(l, s, next, prev)
      /\ next \in [Cell -> Cell \cup {POISON}] /\ prev \in [Cell -> Cell \cup {POISON}]
  BY <1>1 DEF IInv, Rings, TypeOK
<1>4. next[pos] # POISON
  BY <1>2, <1>3, CellsDistinct, CellAssumption DEF RingIs, Cell
<1>5. /\ list_add(n, pos)
      /\ begin' = [begin EXCEPT ![l] = IF pos = l THEN n ELSE @]
      /\ end' = [end EXCEPT ![l] = IF pos = end[l] THEN n ELSE @]
      /\ count' = [count EXCEPT ![l] = @ + 1]
      /\ heap' = heap \cup {n}
      /\ seq' = [seq EXCEPT ![l] = t]
      /\ UNCHANGED <<status, cursor, drained, crash>>
  BY <1>4 DEF llist_insert
<1>6. /\ RingIs(l, t, next', prev')
      /\ next' \in [Cell -> Cell \cup {POISON}] /\ prev' \in [Cell -> Cell \cup {POISON}]
      /\ \A c \in Cell \ ({n} \cup {CellOf(l, s, j) : j \in 0 .. Len(s)}) :
           next'[c] = next[c] /\ prev'[c] = prev[c]
  <2>1. list_add(n, CellOf(l, s, i))
    BY <1>5
  <2>2. \A j \in 1 .. Len(s) : s[j] # n
    BY <1>2
  <2>3. s \in Seq(Node) /\ Distinct(s)
    BY <1>2
  <2> HIDE DEF s, pos
  <2> QED
    BY <1>0, <1>3, <2>1, <2>2, <2>3, ListAddRing
<1>7. Distinct(t) /\ ToSet(t) = ToSet(s) \cup {n}
  BY <1>2, InsertedContents
<1>8. seq'[l] = t /\ \A m \in List \ {l} : seq'[m] = seq[m]
  BY <1>5 DEF IInv, TypeOK
<1> HIDE DEF pos
<1>9. TypeOK'
  <2>1. n \in Cell
    BY DEF Cell
  <2> QED
    BY <1>5, <1>6, <2>1 DEF IInv, TypeOK
<1>10. Rings'
  <2> SUFFICES ASSUME NEW m \in List
               PROVE IF status[m] = "none" THEN seq'[m] = <<>>
                     ELSE RingIs(m, seq'[m], next', prev')
    BY <1>5 DEF Rings
  <2>1. CASE m = l
    BY <1>1, <1>6, <1>8, <2>1
  <2>2. CASE m # l /\ status[m] = "none"
    BY <1>8, <2>2 DEF IInv, Rings
  <2>3. CASE m # l /\ status[m] # "none"
    <3>1. seq'[m] = seq[m] /\ RingIs(m, seq[m], next, prev) /\ Distinct(seq[m]) /\ seq[m] \in Seq(Node)
      BY <1>8, <2>3, SeparationFacts DEF IInv, Rings
    <3>2. ASSUME NEW j \in 0 .. Len(seq[m])
          PROVE  LET c == CellOf(m, seq[m], j) IN next'[c] = next[c] /\ prev'[c] = prev[c]
      <4>1. CellOf(m, seq[m], j) \in Cell /\ CellOf(m, seq[m], j) # n
        BY <1>1, SeparationFacts, CellAssumption DEF CellOf, Cell
      <4>2. CellOf(m, seq[m], j) \notin {CellOf(l, s, h) : h \in 0 .. Len(s)}
        BY <2>3, RingsApart
      <4> QED
        BY <1>6, <4>1, <4>2
    <3> QED
      BY <2>3, <3>1, <3>2, RingFrame
  <2> QED
    BY <2>1, <2>2, <2>3
<1>11. Caches'
  <2> SUFFICES ASSUME NEW m \in List
               PROVE  /\ begin'[m] = CellOf(m, seq'[m], 1)
                      /\ count'[m] = Len(seq'[m])
                      /\ ~drained[m] => end'[m] = CellOf(m, seq'[m], Len(seq'[m]))
    BY <1>5 DEF Caches
  <2>1. CASE m = l
    <3>1. /\ CellOf(l, t, 1) = IF i = 0 THEN n ELSE CellOf(l, s, 1)
          /\ CellOf(l, t, Len(s) + 1) = IF i = Len(s) THEN n ELSE CellOf(l, s, Len(s))
      <4>1. 1 \in 0 .. Len(s) + 2 /\ Len(s) + 1 \in 0 .. Len(s) + 2 /\ (Len(s) + 1) - 1 = Len(s)
        BY <1>2
      <4>2. \A j \in 0 .. Len(s) + 2 :
              CellOf(l, t, j) = IF j <= i THEN CellOf(l, s, j)
                                ELSE IF j = i + 1 THEN n ELSE CellOf(l, s, j - 1)
        BY <1>2, InsertedCells
      <4> QED
        BY <1>2, <4>1, <4>2
    <3>2. (pos = l) <=> (i = 0)
      <4>1. CellOf(l, s, 0) = l /\ 0 \in 0 .. Len(s)
        BY <1>2 DEF CellOf
      <4> QED
        BY <1>2, <4>1, CellsDistinct DEF pos
    <3>3. ~drained[l] => end[l] = CellOf(l, s, Len(s)) /\ ((pos = end[l]) <=> (i = Len(s)))
      <4>1. Len(s) \in 0 .. Len(s)
        BY <1>2
      <4> QED
        BY <1>2, <4>1, CellsDistinct DEF pos, IInv, Caches
    <3>4. begin[l] = CellOf(l, s, 1) /\ count[l] = Len(s)
      BY DEF IInv, Caches
    <3>5. /\ begin'[l] = IF pos = l THEN n ELSE begin[l]
          /\ end'[l] = IF pos = end[l] THEN n ELSE end[l]
          /\ count'[l] = count[l] + 1
      BY <1>5 DEF IInv, TypeOK
    <3> QED
      BY <1>2, <1>8, <2>1, <3>1, <3>2, <3>3, <3>4, <3>5
  <2>2. CASE m # l
    BY <1>5, <1>8, <2>2 DEF IInv, TypeOK, Caches
  <2> QED
    BY <2>1, <2>2
<1>12. Separation'
  <2>1. \A m \in List : ToSet(seq'[m]) \subseteq heap' /\ IsInjective(seq'[m])
    <3>1. ToSet(t) \subseteq heap' /\ IsInjective(t)
      <4>1. ToSet(t) \subseteq heap'
        BY <1>5, <1>7, SeparationFacts
      <4>2. IsInjective(t)
        BY <1>7 DEF Distinct, IsInjective
      <4> QED
        BY <4>1, <4>2
    <3> QED
      BY <1>5, <1>8, <3>1 DEF IInv, Separation
  <2>2. \A m \in List : n \notin ToSet(seq[m])
    BY <1>1, SeparationFacts
  <2>3. \A m, k \in List : m # k => ToSet(seq'[m]) \cap ToSet(seq'[k]) = {}
    BY <1>7, <1>8, <2>2 DEF IInv, Separation
  <2> QED
    BY <2>1, <2>3 DEF Separation
<1>13. DestroyAtFront'
  BY <1>1, <1>5, <1>8 DEF IInv, DestroyAtFront
<1>14. Walks'
  <2> SUFFICES ASSUME NEW m \in List
               PROVE  /\ cursor[m].visited \subseteq ToSet(seq'[m])
                      /\ cursor[m].at \in {"func", "next"} => WalkAt(seq'[m], m, cursor[m])
    BY <1>5 DEF Walks
  <2>1. CASE m = l
    <3>1. n \notin cursor[l].visited /\ cursor[l].visited \subseteq ToSet(t)
      BY <1>1, <1>7, SeparationFacts DEF IInv, Walks
    <3>2. cursor[l].at \in {"func", "next"} => WalkAt(t, l, cursor[l])
      BY <1>2, <3>1, WalkInsert DEF IInv, Walks
    <3> QED
      BY <1>8, <2>1, <3>1, <3>2
  <2>2. CASE m # l
    BY <1>8, <2>2 DEF IInv, Walks
  <2> QED
    BY <2>1, <2>2
<1>15. NoPoison' /\ WalkComplete'
  BY <1>5 DEF IInv, NoPoison, WalkComplete
<1> QED
  BY <1>9, <1>10, <1>11, <1>12, <1>13, <1>14, <1>15 DEF IInv

(***************************************************************************)
(* The inductive step: llist_delete and llist_detach                       *)
(***************************************************************************)

\* What Unlink does to the i-th node of l, whoever calls it.
LEMMA UnlinkInv ==
    ASSUME IInv, crash = "no", NEW l \in List, status[l] # "none",
           NEW i \in 1 .. Len(seq[l]), Unlink(l, seq[l][i], i),
           heap' \in {heap, heap \ {seq[l][i]}}
    PROVE  /\ crash' = "no" /\ status' = status
           /\ next' \in [Cell -> Cell \cup {POISON}] /\ prev' \in [Cell -> Cell \cup {POISON}]
           /\ begin' \in [List -> Cell] /\ end' \in [List -> Cell] /\ count' \in [List -> Nat]
           /\ heap' \subseteq Node /\ seq' \in [List -> Seq(Node)]
           /\ drained' \in [List -> BOOLEAN]
           /\ \A m \in List \ {l} : seq'[m] = seq[m]
           /\ Removed(seq[l], seq'[l], i)
           /\ ToSet(seq'[l]) = ToSet(seq[l]) \ {seq[l][i]}
           /\ Rings' /\ Caches' /\ Separation'
<1> DEFINE s == seq[l]
           pos == s[i]
           t == RemoveAt(s, i)
<1>1. /\ s \in Seq(Node) /\ Len(s) \in Nat /\ Distinct(s) /\ ToSet(s) \subseteq heap
      /\ i \in Nat /\ i >= 1 /\ i <= Len(s) /\ i \in 1 .. Len(s) /\ pos \in Node
  BY SeparationFacts
<1>2. /\ RingIs(l, s, next, prev)
      /\ next \in [Cell -> Cell \cup {POISON}] /\ prev \in [Cell -> Cell \cup {POISON}]
  BY DEF IInv, Rings, TypeOK
<1>3. /\ \A j \in Nat : CellOf(l, s, j) \in Cell
      /\ \A j, k \in 0 .. Len(s) : CellOf(l, s, j) = CellOf(l, s, k) => j = k
      /\ \A j, k \in 1 .. Len(s) + 1 : CellOf(l, s, j) = CellOf(l, s, k) => j = k
  BY <1>1, CellsDistinct
<1>4. /\ pos = CellOf(l, s, i) /\ pos \in Cell
      /\ next[pos] = CellOf(l, s, i + 1) /\ prev[pos] = CellOf(l, s, i - 1)
      /\ next[pos] \in Cell /\ prev[pos] \in Cell
  <2>1. pos = CellOf(l, s, i) /\ pos \in Cell
    BY <1>1 DEF CellOf, Cell
  <2>2. i - 1 \in 0 .. Len(s) /\ (i - 1) + 1 = i /\ i \in 0 .. Len(s) /\ i - 1 \in Nat /\ i + 1 \in Nat
    BY <1>1
  <2>3. next[CellOf(l, s, i)] = CellOf(l, s, i + 1) /\ prev[CellOf(l, s, i)] = CellOf(l, s, i - 1)
    BY <1>2, <2>2 DEF RingIs
  <2> QED
    BY <1>3, <2>1, <2>2, <2>3
<1>5. POISON \notin {next[pos], prev[pos]}
  BY <1>4, CellAssumption DEF Cell
<1>6. /\ begin' = [begin EXCEPT ![l] = IF pos = begin[l] THEN next[pos] ELSE @]
      /\ end' = [end EXCEPT ![l] = IF pos # begin[l] /\ pos = end[l]
                                   THEN prev[pos] ELSE @]
      /\ list_del(pos)
      /\ count' = [count EXCEPT ![l] = @ - 1]
      /\ seq' = [seq EXCEPT ![l] = t]
      /\ drained' = [drained EXCEPT ![l] = @ \/ Len(s) = 1]
      /\ UNCHANGED <<status, crash>>
  BY <1>5 DEF Unlink
<1>7. t \in Seq(Node) /\ Removed(s, t, i) /\ Distinct(t) /\ ToSet(t) = ToSet(s) \ {pos}
      /\ Len(t) = Len(s) - 1
  <2>1. t \in Seq(Node) /\ Removed(s, t, i)
    BY <1>1, RemoveAtRemoves
  <2> HIDE DEF s, t
  <2> QED
    BY <1>1, <2>1, RemovedContents DEF Removed
<1>8. /\ RingIs(l, t, next', prev')
      /\ next' \in [Cell -> Cell \cup {POISON}] /\ prev' \in [Cell -> Cell \cup {POISON}]
      /\ \A c \in Cell \ {CellOf(l, s, j) : j \in 0 .. Len(s)} :
           next'[c] = next[c] /\ prev'[c] = prev[c]
  <2>1. list_del(s[i])
    BY <1>6
  <2> HIDE DEF s, t
  <2> QED
    BY <1>1, <1>2, <1>7, <2>1, ListDelRing
<1>9. seq'[l] = t /\ \A m \in List \ {l} : seq'[m] = seq[m]
  BY <1>6 DEF IInv, TypeOK
<1> HIDE DEF t
<1>10. /\ begin[l] = CellOf(l, s, 1) /\ count[l] = Len(s)
       /\ ~drained[l] => end[l] = CellOf(l, s, Len(s))
  BY DEF IInv, Caches
<1>11. /\ begin' \in [List -> Cell] /\ end' \in [List -> Cell] /\ count' \in [List -> Nat]
       /\ heap' \subseteq Node /\ seq' \in [List -> Seq(Node)] /\ drained' \in [List -> BOOLEAN]
  <2>1. begin' \in [List -> Cell] /\ end' \in [List -> Cell]
    BY <1>4, <1>6 DEF IInv, TypeOK
  <2>2. count' \in [List -> Nat]
    BY <1>1, <1>6, <1>10 DEF IInv, TypeOK
  <2>3. heap' \subseteq Node /\ seq' \in [List -> Seq(Node)]
    BY <1>6, <1>7 DEF IInv, TypeOK
  <2>4. drained' \in [List -> BOOLEAN]
    BY <1>6, Zenon DEF IInv, TypeOK
  <2> QED
    BY <2>1, <2>2, <2>3, <2>4
<1>12. Rings'
  <2> SUFFICES ASSUME NEW m \in List
               PROVE IF status[m] = "none" THEN seq'[m] = <<>>
                     ELSE RingIs(m, seq'[m], next', prev')
    BY <1>6 DEF Rings
  <2>1. CASE m = l
    BY <1>8, <1>9, <2>1
  <2>2. CASE m # l /\ status[m] = "none"
    BY <1>9, <2>2 DEF IInv, Rings
  <2>3. CASE m # l /\ status[m] # "none"
    <3>1. seq'[m] = seq[m] /\ RingIs(m, seq[m], next, prev) /\ Distinct(seq[m]) /\ seq[m] \in Seq(Node)
      BY <1>9, <2>3, SeparationFacts DEF IInv, Rings
    <3>2. ASSUME NEW j \in 0 .. Len(seq[m])
          PROVE  LET c == CellOf(m, seq[m], j) IN next'[c] = next[c] /\ prev'[c] = prev[c]
      <4>1. CellOf(m, seq[m], j) \in Cell
        BY SeparationFacts DEF CellOf, Cell
      <4>2. CellOf(m, seq[m], j) \notin {CellOf(l, s, h) : h \in 0 .. Len(s)}
        BY <2>3, RingsApart
      <4> QED
        BY <1>8, <4>1, <4>2
    <3> QED
      BY <2>3, <3>1, <3>2, RingFrame
  <2> QED
    BY <2>1, <2>2, <2>3
<1>13. Caches'
  <2> SUFFICES ASSUME NEW m \in List
               PROVE  /\ begin'[m] = CellOf(m, seq'[m], 1)
                      /\ count'[m] = Len(seq'[m])
                      /\ ~drained'[m] => end'[m] = CellOf(m, seq'[m], Len(seq'[m]))
    BY DEF Caches
  <2>1. CASE m = l
    <3>1. \A j \in 0 .. Len(s) :
            CellOf(l, t, j) = IF j < i THEN CellOf(l, s, j) ELSE CellOf(l, s, j + 1)
      BY <1>1, <1>7, RemovedCells
    <3>2. begin'[l] = CellOf(l, t, 1)
      <4>1. CellOf(l, t, 1) = IF i > 1 THEN CellOf(l, s, 1) ELSE CellOf(l, s, 2)
        BY <1>1, <3>1
      <4>2. (pos = begin[l]) <=> (i = 1)
        BY <1>1, <1>3, <1>4, <1>10
      <4>3. begin'[l] = IF pos = begin[l] THEN next[pos] ELSE begin[l]
        BY <1>6 DEF IInv, TypeOK
      <4> HIDE DEF s, pos
      <4> QED
        BY <1>1, <1>4, <1>10, <4>1, <4>2, <4>3
    <3>3. count'[l] = Len(t)
      BY <1>6, <1>7, <1>10 DEF IInv, TypeOK
    <3>4. ASSUME ~drained'[l] PROVE end'[l] = CellOf(l, t, Len(t))
      <4>1. ~drained[l] /\ Len(s) # 1
        BY <1>6, <3>4 DEF IInv, TypeOK
      <4>2. end[l] = CellOf(l, s, Len(s)) /\ Len(s) >= 2
        <5>1. end[l] = CellOf(l, s, Len(s))
          BY <1>10, <4>1
        <5>2. Len(s) \in Nat /\ Len(s) # 1 /\ Len(s) # 0
          BY <1>1, <4>1
        <5>3. \A k \in Nat : k # 1 /\ k # 0 => k >= 2
          OBVIOUS
        <5>4. Len(s) >= 2
          BY <5>2, <5>3
        <5> QED
          BY <5>1, <5>4
      <4>3. end'[l] = IF pos # begin[l] /\ pos = end[l] THEN prev[pos] ELSE end[l]
        BY <1>6 DEF IInv, TypeOK
      <4>4. (pos = begin[l]) <=> (i = 1)
        BY <1>1, <1>3, <1>4, <1>10
      <4>5. (pos = end[l]) <=> (i = Len(s))
        BY <1>1, <1>3, <1>4, <4>2
      <4>6. CellOf(l, t, Len(t)) = IF i = Len(s) THEN CellOf(l, s, Len(s) - 1)
                                   ELSE CellOf(l, s, Len(s))
        <5>1. Len(s) - 1 \in 0 .. Len(s) /\ (Len(s) - 1) + 1 = Len(s)
              /\ ((Len(s) - 1 < i) <=> (i = Len(s)))
          BY <1>1
        <5> HIDE DEF s
        <5>2. CellOf(l, t, Len(s) - 1) = IF Len(s) - 1 < i THEN CellOf(l, s, Len(s) - 1)
                                         ELSE CellOf(l, s, (Len(s) - 1) + 1)
          BY <3>1, <5>1
        <5> QED
          BY <1>7, <5>1, <5>2
      <4> HIDE DEF s, pos
      <4> QED
        BY <1>4, <4>2, <4>3, <4>4, <4>5, <4>6
    <3> QED
      BY <1>9, <2>1, <3>2, <3>3, <3>4
  <2>2. CASE m # l
    BY <1>6, <1>9, <2>2 DEF IInv, TypeOK, Caches
  <2> QED
    BY <2>1, <2>2
<1>14. Separation'
  <2>1. \A m \in List : ToSet(seq'[m]) \subseteq heap' /\ IsInjective(seq'[m])
    <3>1. ToSet(t) \subseteq heap' /\ IsInjective(t)
      <4>1. ToSet(t) \subseteq heap'
        BY <1>1, <1>7
      <4>2. IsInjective(t)
        BY <1>7 DEF Distinct, IsInjective
      <4> QED
        BY <4>1, <4>2
    <3>2. pos \in ToSet(s)
      BY <1>1 DEF ToSet
    <3>3. ASSUME NEW m \in List, m # l PROVE ToSet(seq[m]) \subseteq heap'
      <4>1. ToSet(seq[m]) \subseteq heap /\ ToSet(seq[m]) \cap ToSet(s) = {}
        BY <3>3 DEF IInv, Separation
      <4> QED
        BY <3>2, <4>1
    <3> QED
      BY <1>9, <3>1, <3>3 DEF IInv, Separation
  <2>2. \A m, k \in List : m # k => ToSet(seq'[m]) \cap ToSet(seq'[k]) = {}
    <3>1. \A m \in List : ToSet(seq'[m]) \subseteq ToSet(seq[m])
      BY <1>7, <1>9
    <3>2. \A m, k \in List : m # k => ToSet(seq[m]) \cap ToSet(seq[k]) = {}
      BY DEF IInv, Separation
    <3> QED
      BY <3>1, <3>2
  <2> QED
    BY <2>1, <2>2 DEF Separation
<1> QED
  BY <1>6, <1>7, <1>8, <1>9, <1>11, <1>12, <1>13, <1>14

LEMMA TakeOutInv ==
    ASSUME IInv, NEW l \in List, NEW i \in 1 .. Len(seq[l]), TakeOut(l, seq[l][i], i)
    PROVE  IInv'
<1> DEFINE s == seq[l]
           n == s[i]
           c == cursor[l]
           d == Undercut(c, n)
<1>1. crash = "no" /\ status[l] = "ready"
  BY DEF TakeOut, Running
<1>2. Unlink(l, n, i) /\ heap' \in {heap, heap \ {n}}
  BY DEF TakeOut, llist_delete, llist_detach
<1>3. /\ crash' = "no" /\ status' = status
      /\ next' \in [Cell -> Cell \cup {POISON}] /\ prev' \in [Cell -> Cell \cup {POISON}]
      /\ begin' \in [List -> Cell] /\ end' \in [List -> Cell] /\ count' \in [List -> Nat]
      /\ heap' \subseteq Node /\ seq' \in [List -> Seq(Node)]
      /\ drained' \in [List -> BOOLEAN]
      /\ \A m \in List \ {l} : seq'[m] = seq[m]
      /\ Removed(s, seq'[l], i)
      /\ ToSet(seq'[l]) = ToSet(s) \ {n}
      /\ Rings' /\ Caches' /\ Separation'
  BY <1>1, <1>2, UnlinkInv
<1>4. cursor' = [cursor EXCEPT ![l] = d]
  BY <1>3 DEF TakeOut
<1>5. c \in [at : {"idle", "func", "next", "dangling", "done", "destroy"},
             pos : Cell \cup {POISON}, next : Cell \cup {POISON},
             due : SUBSET Node, visited : SUBSET Node, again : BOOLEAN]
  BY DEF IInv, TypeOK
<1>6. /\ d.pos = c.pos /\ d.next = c.next /\ d.again = c.again
      /\ d.due = c.due \ {n} /\ d.visited = c.visited \ {n}
      /\ d.at = IF (c.next = n /\ c.at \in {"func", "next"}) \/ (c.pos = n /\ c.at = "func")
                THEN "dangling" ELSE c.at
      /\ d \in [at : {"idle", "func", "next", "dangling", "done", "destroy"},
                pos : Cell \cup {POISON}, next : Cell \cup {POISON},
                due : SUBSET Node, visited : SUBSET Node, again : BOOLEAN]
  BY <1>5 DEF Undercut
<1> HIDE DEF d
<1>7. cursor'[l] = d /\ \A m \in List \ {l} : cursor'[m] = cursor[m]
  BY <1>4 DEF IInv, TypeOK
<1>8. TypeOK'
  <2>1. status' \in [List -> {"none", "ready", "destroying"}] /\ crash' \in {"no", "nomem", "dangling", "poison"}
    BY <1>3 DEF IInv, TypeOK
  <2>2. cursor' \in [List -> [at : {"idle", "func", "next", "dangling", "done", "destroy"},
                              pos : Cell \cup {POISON}, next : Cell \cup {POISON},
                              due : SUBSET Node, visited : SUBSET Node, again : BOOLEAN]]
    BY <1>4, <1>6 DEF IInv, TypeOK
  <2> QED
    BY <1>3, <2>1, <2>2 DEF TypeOK
<1>9. DestroyAtFront'
  BY <1>1, <1>3, <1>7 DEF IInv, DestroyAtFront
<1>10. Walks'
  <2> SUFFICES ASSUME NEW m \in List
               PROVE  /\ cursor'[m].visited \subseteq ToSet(seq'[m])
                      /\ cursor'[m].at \in {"func", "next"} => WalkAt(seq'[m], m, cursor'[m])
    BY DEF Walks
  <2>1. CASE m = l
    <3>1. cursor'[l].visited \subseteq ToSet(seq'[l])
      BY <1>3, <1>6, <1>7 DEF IInv, Walks
    <3>2. ASSUME cursor'[l].at \in {"func", "next"} PROVE WalkAt(seq'[l], l, cursor'[l])
      <4>1. d.at \in {"func", "next"}
        BY <1>7, <3>2
      <4>2. d.at = c.at /\ c.next # n /\ (c.at = "func" => c.pos # n)
        BY <1>6, <4>1
      <4>3. WalkAt(s, l, c)
        BY <4>1, <4>2 DEF IInv, Walks
      <4>4. s \in Seq(Node) /\ Distinct(s) /\ seq'[l] \in Seq(Node)
        BY <1>3, SeparationFacts
      <4> HIDE DEF c
      <4>5. WalkAt(seq'[l], l, d)
        BY <1>3, <1>6, <4>2, <4>3, <4>4, WalkRemove
      <4> QED
        BY <1>7, <4>5
    <3> QED
      BY <2>1, <3>1, <3>2
  <2>2. CASE m # l
    BY <1>3, <1>7, <2>2 DEF IInv, Walks
  <2> QED
    BY <2>1, <2>2
<1>11. NoPoison'
  BY <1>3 DEF NoPoison
<1>12. WalkComplete'
  BY <1>6, <1>7 DEF IInv, WalkComplete
<1> QED
  BY <1>3, <1>8, <1>9, <1>10, <1>11, <1>12 DEF IInv

(***************************************************************************)
(* The inductive step: the loops                                           *)
(***************************************************************************)

\* A step that only moves the loop of l keeps what does not depend on it.
LEMMA CursorStep ==
    ASSUME IInv, NEW l \in List, NEW c, SetCursor(l, c),
           c \in [at : {"idle", "func", "next", "dangling", "done", "destroy"},
                  pos : Cell \cup {POISON}, next : Cell \cup {POISON},
                  due : SUBSET Node, visited : SUBSET Node, again : BOOLEAN],
           status[l] = "ready", c.visited \subseteq ToSet(seq[l]),
           c.at \in {"func", "next"} => WalkAt(seq[l], l, c),
           ~c.again, c.at = "done" => c.due = {}
    PROVE  IInv'
<1>1. /\ cursor' = [cursor EXCEPT ![l] = c]
      /\ UNCHANGED <<status, next, prev, begin, end, count, heap, seq, drained, crash>>
  BY DEF SetCursor, pointers
<1>2. cursor'[l] = c /\ \A m \in List \ {l} : cursor'[m] = cursor[m]
  BY <1>1 DEF IInv, TypeOK
<1>3. TypeOK'
  BY <1>1 DEF IInv, TypeOK
<1>4. Rings' /\ Caches' /\ Separation' /\ NoPoison'
  BY ZenonT(30), <1>1 DEF IInv, Rings, RingIs, Caches, Separation, NoPoison
<1>5. DestroyAtFront'
  BY <1>1, <1>2 DEF IInv, DestroyAtFront
<1>6. Walks'
  BY <1>1, <1>2 DEF IInv, Walks
<1>7. WalkComplete'
  BY <1>2 DEF IInv, WalkComplete
<1> QED
  BY <1>3, <1>4, <1>5, <1>6, <1>7 DEF IInv

\* A crash leaves everything as it was.
LEMMA CrashStep ==
    ASSUME IInv, NEW how \in {"nomem", "dangling"}, Crash(how)
    PROVE  IInv'
<1>1. crash' = how /\ UNCHANGED <<status, next, prev, begin, end, count, heap, cursor, seq, drained>>
  BY DEF Crash, pointers
<1>2. TypeOK' /\ NoPoison'
  BY <1>1 DEF IInv, TypeOK, NoPoison
<1>3. Rings' /\ Caches' /\ Separation'
  BY <1>1 DEF IInv, Rings, RingIs, Caches, Separation
<1>4. DestroyAtFront' /\ Walks' /\ WalkComplete'
  BY <1>1 DEF IInv, DestroyAtFront, Walks, WalkComplete
<1> QED
  BY <1>2, <1>3, <1>4 DEF IInv

LEMMA ForEachInv ==
    ASSUME IInv, NEW l \in List, ForEach(l)
    PROVE  IInv'
<1> DEFINE s == seq[l]
           c == cursor[l]
<1>1. /\ s \in Seq(Node) /\ Len(s) \in Nat /\ Distinct(s) /\ DOMAIN s = 1 .. Len(s)
      /\ \A j \in 1 .. Len(s) : s[j] \in Node
      /\ ToSet(s) = {s[j] : j \in 1 .. Len(s)} /\ ToSet(s) \subseteq Node
  BY SeparationFacts DEF ToSet
<1>2. /\ \A j \in Nat : CellOf(l, s, j) \in Cell
      /\ \A j, k \in 1 .. Len(s) + 1 : CellOf(l, s, j) = CellOf(l, s, k) => j = k
  BY <1>1, CellsDistinct
<1>3. c \in [at : {"idle", "func", "next", "dangling", "done", "destroy"},
             pos : Cell \cup {POISON}, next : Cell \cup {POISON},
             due : SUBSET Node, visited : SUBSET Node, again : BOOLEAN]
  BY DEF IInv, TypeOK
<1>4. ~c.again /\ c.visited \subseteq ToSet(s)
      /\ (c.at \in {"func", "next"} => WalkAt(s, l, c))
  BY DEF IInv, WalkComplete, Walks
<1>5. \A k \in 1 .. Len(s) + 1 : CellOf(l, s, k) = l <=> k = Len(s) + 1
  <2>1. CellOf(l, s, Len(s) + 1) = l /\ Len(s) + 1 \in 1 .. Len(s) + 1
    BY <1>1 DEF CellOf
  <2> QED
    BY <1>2, <2>1
<1>6. status[l] = "ready" => \A k \in 1 .. Len(s) : next[s[k]] = CellOf(l, s, k + 1)
  BY <1>1 DEF IInv, Rings, RingIs, CellOf
<1>7. \A k \in 1 .. Len(s) : CellOf(l, s, k) = s[k]
  BY <1>1 DEF CellOf
<1>8. CASE ForEachStart(l)
  <2> DEFINE d == LoopAt(l, [Idle EXCEPT !.due = ToSet(s)], begin[l], next[begin[l]])
  <2>1. status[l] = "ready" /\ SetCursor(l, d)
    BY <1>8 DEF ForEachStart, Running
  <2>2. begin[l] = CellOf(l, s, 1) /\ begin[l] \in Cell /\ next[begin[l]] \in Cell \cup {POISON}
    BY DEF IInv, Caches, TypeOK
  <2>3. /\ d.pos = begin[l] /\ d.next = next[begin[l]] /\ d.due = ToSet(s) /\ d.visited = {}
        /\ d.again = FALSE /\ d.at = IF begin[l] = l THEN "done" ELSE "func"
        /\ d \in [at : {"idle", "func", "next", "dangling", "done", "destroy"},
                  pos : Cell \cup {POISON}, next : Cell \cup {POISON},
                  due : SUBSET Node, visited : SUBSET Node, again : BOOLEAN]
    BY <1>1, <2>2 DEF LoopAt, Idle
  <2> HIDE DEF d, c
  <2>4. begin[l] = l <=> Len(s) = 0
    <3>1. 1 \in 1 .. Len(s) + 1
      BY <1>1
    <3> QED
      BY <1>1, <1>5, <2>2, <3>1
  <2>5. d.at = "done" => d.due = {}
    BY <1>1, <2>3, <2>4
  <2>6. ASSUME d.at \in {"func", "next"} PROVE WalkAt(s, l, d)
    <3>1. Len(s) >= 1 /\ 2 \in 1 .. Len(s) + 1 /\ 1 \in 1 .. Len(s) /\ d.at = "func"
      BY <1>1, <2>3, <2>4, <2>6
    <3>2. begin[l] = s[1] /\ d.next = CellOf(l, s, 2)
      BY <1>6, <1>7, <2>1, <2>2, <2>3, <3>1
    <3>3. ToSet(s) \subseteq {s[j] : j \in 2 .. Len(s)} \cup {s[1]}
      BY <1>1
    <3>4. \E j \in 1 .. 2 - 1 : s[j] = d.pos
      BY <2>3, <3>2
    <3> QED
      BY <2>3, <3>1, <3>2, <3>3, <3>4 DEF WalkAt
  <2> QED
    BY <2>1, <2>3, <2>5, <2>6, CursorStep
<1>9. CASE ForEachFunc(l)
  <2> DEFINE d == [c EXCEPT !.at = "next", !.due = @ \ {c.pos},
                            !.visited = @ \cup {c.pos},
                            !.again = @ \/ c.pos \in c.visited]
  <2>1. status[l] = "ready" /\ SetCursor(l, d) /\ c.at = "func"
    BY <1>9 DEF ForEachFunc, Running
  <2>2. PICK k \in 1 .. Len(s) + 1 :
          /\ c.next = CellOf(l, s, k)
          /\ c.due \subseteq {s[j] : j \in k .. Len(s)} \cup {c.pos}
          /\ \A j \in k .. Len(s) : s[j] \notin c.visited
          /\ \E j \in 1 .. k - 1 : s[j] = c.pos
          /\ c.pos \notin c.visited
    BY <1>4, <2>1 DEF WalkAt
  <2>3. c.pos \in ToSet(s) /\ c.pos \in Node
    BY <1>1, <2>2
  <2>4. ~d.again
    BY <1>3, <1>4, <2>2
  <2>5. /\ d.pos = c.pos /\ d.next = c.next /\ d.due = c.due \ {c.pos}
        /\ d.visited = c.visited \cup {c.pos} /\ d.at = "next"
    BY <1>3
  <2>6. d \in [at : {"idle", "func", "next", "dangling", "done", "destroy"},
               pos : Cell \cup {POISON}, next : Cell \cup {POISON},
               due : SUBSET Node, visited : SUBSET Node, again : BOOLEAN]
    BY <1>3, <2>3
  <2> HIDE DEF d, c
  <2>7. WalkAt(s, l, d)
    <3>1. \A j \in k .. Len(s) : s[j] # c.pos
      BY <1>1, <2>2 DEF Distinct
    <3> QED
      BY <2>2, <2>5, <3>1 DEF WalkAt
  <2> QED
    BY <1>4, <2>1, <2>3, <2>4, <2>5, <2>6, <2>7, CursorStep
<1>10. CASE ForEachNext(l)
  <2> DEFINE d == LoopAt(l, c, c.next, next[c.next])
  <2>1. status[l] = "ready" /\ SetCursor(l, d) /\ c.at = "next"
    BY <1>10 DEF ForEachNext, Running
  <2>2. PICK k \in 1 .. Len(s) + 1 :
          /\ c.next = CellOf(l, s, k)
          /\ c.due \subseteq {s[j] : j \in k .. Len(s)}
          /\ \A j \in k .. Len(s) : s[j] \notin c.visited
    BY <1>4, <2>1 DEF WalkAt
  <2>3. c.next \in Cell /\ next[c.next] \in Cell \cup {POISON}
    BY <1>2, <2>2 DEF IInv, TypeOK
  <2>4. /\ d.pos = c.next /\ d.next = next[c.next] /\ d.due = c.due /\ d.visited = c.visited
        /\ d.again = c.again /\ d.at = IF c.next = l THEN "done" ELSE "func"
        /\ d \in [at : {"idle", "func", "next", "dangling", "done", "destroy"},
                  pos : Cell \cup {POISON}, next : Cell \cup {POISON},
                  due : SUBSET Node, visited : SUBSET Node, again : BOOLEAN]
    BY <1>3, <2>3 DEF LoopAt
  <2> HIDE DEF d, c
  <2>5. c.next = l <=> k = Len(s) + 1
    BY <1>5, <2>2
  <2>6. d.at = "done" => d.due = {}
    BY <1>1, <2>2, <2>4, <2>5
  <2>7. ASSUME d.at \in {"func", "next"} PROVE WalkAt(s, l, d)
    <3>1. k \in 1 .. Len(s) /\ k + 1 \in 1 .. Len(s) + 1 /\ d.at = "func"
      BY <1>1, <2>4, <2>5, <2>7
    <3>2. d.pos = s[k] /\ d.next = CellOf(l, s, k + 1)
      BY <1>6, <1>7, <2>1, <2>2, <2>4, <3>1
    <3>3. {s[j] : j \in k .. Len(s)} \subseteq {s[j] : j \in k + 1 .. Len(s)} \cup {s[k]}
      BY <1>1, <3>1
    <3>4. \E j \in 1 .. (k + 1) - 1 : s[j] = d.pos
      BY <3>1, <3>2
    <3>5. \A j \in k + 1 .. Len(s) : s[j] \notin d.visited
      BY <2>2, <2>4, <3>1
    <3>6. d.pos \notin d.visited
      BY <2>2, <2>4, <3>1, <3>2
    <3> QED
      BY <2>2, <2>4, <3>1, <3>2, <3>3, <3>4, <3>5, <3>6 DEF WalkAt
  <2> QED
    BY <1>4, <2>1, <2>4, <2>6, <2>7, CursorStep
<1>11. CASE ForEachDangling(l)
  BY <1>11, CrashStep DEF ForEachDangling
<1> QED
  BY <1>8, <1>9, <1>10, <1>11 DEF ForEach

(***************************************************************************)
(* The inductive step: llist_destroy                                       *)
(***************************************************************************)

LEMMA DestroyStepInv ==
    ASSUME IInv, NEW l \in List, DestroyStep(l)
    PROVE  IInv'
<1> DEFINE s == seq[l]
           c == cursor[l]
           n == s[1]
<1>1. crash = "no" /\ status[l] = "destroying" /\ c.pos # l
  BY DEF DestroyStep
<1>2. /\ s \in Seq(Node) /\ Len(s) \in Nat /\ Distinct(s) /\ DOMAIN s = 1 .. Len(s)
  BY SeparationFacts
<1>3. c.pos = CellOf(l, s, 1) /\ (s # <<>> => c.next = CellOf(l, s, 2))
  BY <1>1 DEF IInv, DestroyAtFront
<1>4. Len(s) >= 1 /\ 1 \in 1 .. Len(s) /\ s # <<>> /\ c.pos = n
  BY <1>1, <1>2, <1>3 DEF CellOf
<1>5. Unlink(l, n, 1) /\ heap' \in {heap, heap \ {n}}
  BY <1>4 DEF DestroyStep, llist_delete
<1>6. /\ crash' = "no" /\ status' = status
      /\ next' \in [Cell -> Cell \cup {POISON}] /\ prev' \in [Cell -> Cell \cup {POISON}]
      /\ begin' \in [List -> Cell] /\ end' \in [List -> Cell] /\ count' \in [List -> Nat]
      /\ heap' \subseteq Node /\ seq' \in [List -> Seq(Node)]
      /\ drained' \in [List -> BOOLEAN]
      /\ \A m \in List \ {l} : seq'[m] = seq[m]
      /\ Removed(s, seq'[l], 1)
      /\ Rings' /\ Caches' /\ Separation'
  BY <1>1, <1>4, <1>5, UnlinkInv
<1>7. cursor' = [cursor EXCEPT ![l].pos = c.next, ![l].next = next'[c.next]]
  BY <1>6 DEF DestroyStep
<1> DEFINE t == seq'[l]
<1>8. t \in Seq(Node) /\ Len(t) \in Nat /\ Len(t) = Len(s) - 1
  BY <1>6 DEF Removed
<1>9. CellOf(l, t, 1) = CellOf(l, s, 2) /\ CellOf(l, t, 1) \in Cell
  <2>1. 1 \in 0 .. Len(s) /\ ~(1 < 1)
    BY <1>4
  <2>2. \A j \in 0 .. Len(s) : CellOf(l, t, j) = IF j < 1 THEN CellOf(l, s, j) ELSE CellOf(l, s, j + 1)
    BY <1>2, <1>4, <1>6, <1>8, RemovedCells
  <2>3. CellOf(l, t, 1) = CellOf(l, s, 1 + 1)
    BY <2>1, <2>2
  <2>4. CellOf(l, t, 1) \in Cell
    BY <1>8 DEF CellOf, Cell
  <2> QED
    BY <2>3, <2>4
<1>10. c.next = CellOf(l, t, 1)
  BY <1>3, <1>4, <1>9
<1>11. t # <<>> => next'[c.next] = CellOf(l, t, 2)
  <2>1. RingIs(l, t, next', prev')
    BY <1>1, <1>6 DEF Rings
  <2> SUFFICES ASSUME t # <<>> PROVE next'[CellOf(l, t, 1)] = CellOf(l, t, 2)
    BY <1>10
  <2>2. 1 \in 0 .. Len(t)
    BY <1>8
  <2>3. next'[CellOf(l, t, 1)] = CellOf(l, t, 1 + 1)
    BY <2>1, <2>2 DEF RingIs
  <2> QED
    BY <2>3
<1>12. next'[c.next] \in Cell \cup {POISON}
  BY <1>6, <1>9, <1>10
<1>13. c \in [at : {"idle", "func", "next", "dangling", "done", "destroy"},
              pos : Cell \cup {POISON}, next : Cell \cup {POISON},
              due : SUBSET Node, visited : SUBSET Node, again : BOOLEAN]
  BY DEF IInv, TypeOK
<1> DEFINE d == [c EXCEPT !.pos = c.next, !.next = next'[c.next]]
<1>14. cursor' = [cursor EXCEPT ![l] = d]
  BY <1>7, <1>13 DEF IInv, TypeOK
<1>15. /\ d.pos = c.next /\ d.next = next'[c.next] /\ d.due = c.due /\ d.visited = c.visited
       /\ d.again = c.again /\ d.at = c.at
       /\ d \in [at : {"idle", "func", "next", "dangling", "done", "destroy"},
                 pos : Cell \cup {POISON}, next : Cell \cup {POISON},
                 due : SUBSET Node, visited : SUBSET Node, again : BOOLEAN]
  BY <1>9, <1>10, <1>12, <1>13
<1> HIDE DEF d
<1>16. cursor'[l] = d /\ \A m \in List \ {l} : cursor'[m] = cursor[m]
  BY <1>14 DEF IInv, TypeOK
<1>17. c.at = "destroy" /\ c.visited = {}
  BY <1>1 DEF IInv, DestroyAtFront
<1>18. TypeOK'
  <2>1. status' \in [List -> {"none", "ready", "destroying"}] /\ crash' \in {"no", "nomem", "dangling", "poison"}
    BY <1>6 DEF IInv, TypeOK
  <2>2. cursor' \in [List -> [at : {"idle", "func", "next", "dangling", "done", "destroy"},
                              pos : Cell \cup {POISON}, next : Cell \cup {POISON},
                              due : SUBSET Node, visited : SUBSET Node, again : BOOLEAN]]
    BY <1>14, <1>15 DEF IInv, TypeOK
  <2> QED
    BY <1>6, <2>1, <2>2 DEF TypeOK
<1>19. DestroyAtFront'
  <2>1. ASSUME NEW m \in List, status[m] = "destroying", m # l
        PROVE  cursor'[m] = cursor[m] /\ seq'[m] = seq[m]
    BY <1>6, <1>16, <2>1
  <2> QED
    BY ZenonT(30), <1>6, <1>10, <1>11, <1>15, <1>16, <1>17, <2>1 DEF IInv, DestroyAtFront
<1>20. Walks'
  BY <1>6, <1>15, <1>16, <1>17 DEF IInv, Walks
<1>21. NoPoison' /\ WalkComplete'
  BY <1>6, <1>15, <1>16, <1>17 DEF IInv, NoPoison, WalkComplete
<1> QED
  BY <1>6, <1>18, <1>19, <1>20, <1>21 DEF IInv

LEMMA DestroyInv ==
    ASSUME IInv, NEW l \in List, Destroy(l)
    PROVE  IInv'
<1>1. CASE DestroyStart(l)
  <2> DEFINE d == [Idle EXCEPT !.at = "destroy", !.pos = begin[l], !.next = next[begin[l]]]
             s == seq[l]
  <2>1. /\ status[l] = "ready" /\ status' = [status EXCEPT ![l] = "destroying"]
        /\ cursor' = [cursor EXCEPT ![l] = d]
        /\ UNCHANGED <<next, prev, begin, end, count, heap, seq, drained, crash>>
    BY <1>1 DEF DestroyStart, Running, pointers
  <2>2. begin[l] = CellOf(l, s, 1) /\ begin[l] \in Cell /\ next[begin[l]] \in Cell \cup {POISON}
    BY DEF IInv, Caches, TypeOK
  <2>3. /\ d.at = "destroy" /\ d.pos = begin[l] /\ d.next = next[begin[l]] /\ d.due = {}
        /\ d.visited = {} /\ d.again = FALSE
        /\ d \in [at : {"idle", "func", "next", "dangling", "done", "destroy"},
                  pos : Cell \cup {POISON}, next : Cell \cup {POISON},
                  due : SUBSET Node, visited : SUBSET Node, again : BOOLEAN]
    BY <2>2 DEF Idle
  <2> HIDE DEF d
  <2>4. /\ cursor'[l] = d /\ \A m \in List \ {l} : cursor'[m] = cursor[m]
        /\ status'[l] = "destroying" /\ \A m \in List \ {l} : status'[m] = status[m]
    BY <2>1 DEF IInv, TypeOK
  <2>5. TypeOK'
    BY <2>1, <2>3 DEF IInv, TypeOK
  <2>6. Rings'
    BY <2>1, <2>4 DEF IInv, Rings, RingIs
  <2>7. Caches' /\ Separation' /\ NoPoison'
    BY <2>1 DEF IInv, Caches, Separation, NoPoison
  <2>8. s # <<>> => next[begin[l]] = CellOf(l, s, 2)
    <3> SUFFICES ASSUME s # <<>> PROVE next[CellOf(l, s, 1)] = CellOf(l, s, 2)
      BY <2>2
    <3>1. 1 \in 0 .. Len(s)
      BY SeparationFacts
    <3>2. RingIs(l, s, next, prev)
      BY <2>1 DEF IInv, Rings
    <3>3. next[CellOf(l, s, 1)] = CellOf(l, s, 1 + 1)
      BY <3>1, <3>2 DEF RingIs
    <3> QED
      BY <3>3
  <2>9. DestroyAtFront'
    BY <2>1, <2>2, <2>3, <2>4, <2>8 DEF IInv, DestroyAtFront
  <2>10. Walks' /\ WalkComplete'
    BY <2>1, <2>3, <2>4 DEF IInv, Walks, WalkComplete
  <2> QED
    BY <2>5, <2>6, <2>7, <2>9, <2>10 DEF IInv
<1>2. CASE DestroyEnd(l)
  <2>1. /\ status[l] = "destroying" /\ cursor[l].pos = l
        /\ status' = [status EXCEPT ![l] = IF begin[l] = l THEN "none" ELSE "ready"]
        /\ cursor' = [cursor EXCEPT ![l] = Idle]
        /\ UNCHANGED <<next, prev, begin, end, count, heap, seq, drained, crash>>
    BY <1>2 DEF DestroyEnd, pointers
  <2>2. /\ Idle.at = "idle" /\ Idle.visited = {} /\ Idle.again = FALSE
        /\ Idle \in [at : {"idle", "func", "next", "dangling", "done", "destroy"},
                     pos : Cell \cup {POISON}, next : Cell \cup {POISON},
                     due : SUBSET Node, visited : SUBSET Node, again : BOOLEAN]
    BY DEF Idle
  <2>3. seq[l] = <<>>
    BY <2>1, SeparationFacts, CellAssumption DEF IInv, DestroyAtFront, CellOf
  <2>4. /\ cursor'[l] = Idle /\ \A m \in List \ {l} : cursor'[m] = cursor[m]
        /\ status'[l] # "destroying" /\ \A m \in List \ {l} : status'[m] = status[m]
    BY <2>1 DEF IInv, TypeOK
  <2>5. TypeOK'
    BY <2>1, <2>2 DEF IInv, TypeOK
  <2>6. Rings'
    BY <2>1, <2>3, <2>4 DEF IInv, Rings, RingIs
  <2>7. Caches' /\ Separation' /\ NoPoison'
    BY <2>1 DEF IInv, Caches, Separation, NoPoison
  <2>8. DestroyAtFront'
    BY <2>1, <2>4 DEF IInv, DestroyAtFront
  <2>9. Walks' /\ WalkComplete'
    BY <2>1, <2>2, <2>4 DEF IInv, Walks, WalkComplete
  <2> QED
    BY <2>5, <2>6, <2>7, <2>8, <2>9 DEF IInv
<1> QED
  BY <1>1, <1>2, DestroyStepInv DEF Destroy

(***************************************************************************)
(* The theorems                                                            *)
(***************************************************************************)

LEMMA InitInv == Init => IInv
<1> SUFFICES ASSUME Init PROVE IInv
  OBVIOUS
<1>1. <<>> \in Seq(Node) /\ Len(<<>>) = 0 /\ ToSet(<<>>) = {} /\ IsInjective(<<>>)
  BY DEF ToSet, IsInjective
<1>2. /\ Idle.at = "idle" /\ Idle.visited = {} /\ Idle.again = FALSE
      /\ Idle \in [at : {"idle", "func", "next", "dangling", "done", "destroy"},
                   pos : Cell \cup {POISON}, next : Cell \cup {POISON},
                   due : SUBSET Node, visited : SUBSET Node, again : BOOLEAN]
  BY DEF Idle
<1>3. \A l \in List : l \in Cell /\ CellOf(l, <<>>, 1) = l /\ CellOf(l, <<>>, 0) = l
  BY <1>1 DEF Cell, CellOf
<1>4. TypeOK
  BY <1>1, <1>2, <1>3 DEF Init, TypeOK
<1>5. Rings /\ Caches /\ Separation
  BY <1>1, <1>3 DEF Init, Rings, Caches, Separation
<1>6. NoPoison /\ DestroyAtFront /\ Walks /\ WalkComplete
  BY <1>1, <1>2 DEF Init, NoPoison, DestroyAtFront, Walks, WalkComplete
<1> QED
  BY <1>4, <1>5, <1>6 DEF IInv

LEMMA InitListInv ==
    ASSUME IInv, NEW l \in List, llist_init(l)
    PROVE  IInv'
<1>1. /\ status[l] = "none" /\ status' = [status EXCEPT ![l] = "ready"]
      /\ next' = [next EXCEPT ![l] = l] /\ prev' = [prev EXCEPT ![l] = l]
      /\ begin' = [begin EXCEPT ![l] = l] /\ end' = [end EXCEPT ![l] = l]
      /\ count' = [count EXCEPT ![l] = 0] /\ seq' = [seq EXCEPT ![l] = <<>>]
      /\ drained' = [drained EXCEPT ![l] = FALSE] /\ cursor' = [cursor EXCEPT ![l] = Idle]
      /\ heap' = heap /\ crash' = crash
  BY DEF llist_init
<1>2. seq[l] = <<>> /\ seq' = seq
  BY <1>1 DEF IInv, Rings, TypeOK
<1>3. <<>> \in Seq(Node) /\ Len(<<>>) = 0
  OBVIOUS
<1>4. /\ Idle.at = "idle" /\ Idle.visited = {} /\ Idle.again = FALSE
      /\ Idle \in [at : {"idle", "func", "next", "dangling", "done", "destroy"},
                   pos : Cell \cup {POISON}, next : Cell \cup {POISON},
                   due : SUBSET Node, visited : SUBSET Node, again : BOOLEAN]
  BY DEF Idle
<1>5. l \in Cell /\ \A i \in Nat : CellOf(l, <<>>, i) = l
  BY <1>3 DEF Cell, CellOf
<1>6. /\ cursor'[l] = Idle /\ \A m \in List \ {l} : cursor'[m] = cursor[m]
      /\ status'[l] = "ready" /\ \A m \in List \ {l} : status'[m] = status[m]
      /\ next'[l] = l /\ \A k \in Cell \ {l} : next'[k] = next[k]
      /\ prev'[l] = l /\ \A k \in Cell \ {l} : prev'[k] = prev[k]
  BY <1>1, <1>5 DEF IInv, TypeOK
<1>7. TypeOK'
  <2>1. next' \in [Cell -> Cell \cup {POISON}] /\ prev' \in [Cell -> Cell \cup {POISON}]
        /\ begin' \in [List -> Cell] /\ end' \in [List -> Cell]
    BY <1>1, <1>5 DEF IInv, TypeOK
  <2>2. count' \in [List -> Nat] /\ seq' \in [List -> Seq(Node)] /\ drained' \in [List -> BOOLEAN]
        /\ status' \in [List -> {"none", "ready", "destroying"}]
    BY <1>1, <1>2 DEF IInv, TypeOK
  <2> QED
    BY <1>1, <1>4, <2>1, <2>2 DEF IInv, TypeOK
<1>8. Rings'
  <2> SUFFICES ASSUME NEW m \in List
               PROVE IF status'[m] = "none" THEN seq[m] = <<>>
                     ELSE RingIs(m, seq[m], next', prev')
    BY <1>2 DEF Rings
  <2>1. CASE m = l
    <3>1. RingIs(l, <<>>, next', prev')
      BY <1>3, <1>5, <1>6 DEF RingIs
    <3> QED
      BY <1>2, <1>6, <2>1, <3>1
  <2>2. CASE m # l /\ status[m] = "none"
    BY <1>6, <2>2 DEF IInv, Rings
  <2>3. CASE m # l /\ status[m] # "none"
    <3>1. RingIs(m, seq[m], next, prev) /\ Distinct(seq[m]) /\ seq[m] \in Seq(Node)
      BY <2>3, SeparationFacts DEF IInv, Rings
    <3>2. ASSUME NEW j \in 0 .. Len(seq[m])
          PROVE  LET c == CellOf(m, seq[m], j) IN next'[c] = next[c] /\ prev'[c] = prev[c]
      <4>1. CellOf(m, seq[m], j) \in Cell /\ CellOf(m, seq[m], j) # l
        BY <2>3, SeparationFacts, CellAssumption DEF CellOf, Cell
      <4> QED
        BY <1>6, <4>1
    <3>3. RingIs(m, seq[m], next', prev')
      BY <3>1, <3>2, RingFrame
    <3> QED
      BY <1>6, <2>3, <3>3
  <2> QED
    BY <2>1, <2>2, <2>3
<1>9. Caches'
  <2> SUFFICES ASSUME NEW m \in List
               PROVE  /\ begin'[m] = CellOf(m, seq[m], 1)
                      /\ count'[m] = Len(seq[m])
                      /\ ~drained'[m] => end'[m] = CellOf(m, seq[m], Len(seq[m]))
    BY <1>2 DEF Caches
  <2>1. CASE m = l
    BY <1>1, <1>2, <1>3, <1>5, <2>1 DEF IInv, TypeOK
  <2>2. CASE m # l
    BY <1>1, <2>2 DEF IInv, TypeOK, Caches
  <2> QED
    BY <2>1, <2>2
<1>10. Separation' /\ NoPoison'
  BY <1>1, <1>2 DEF IInv, Separation, NoPoison
<1>11. DestroyAtFront'
  BY <1>2, <1>6 DEF IInv, DestroyAtFront
<1>12. Walks' /\ WalkComplete'
  BY <1>2, <1>4, <1>6 DEF IInv, Walks, WalkComplete
<1> QED
  BY <1>7, <1>8, <1>9, <1>10, <1>11, <1>12 DEF IInv

LEMMA InsertAnyInv ==
    ASSUME ~UseEndAfterDrain, IInv, NEW l \in List, Insert(l)
    PROVE  IInv'
<1> PICK n \in Node : \/ llist_push_front(l, n)
                      \/ llist_push_back(l, n)
                      \/ \E i \in DOMAIN seq[l] : InsertBehind(l, i, n)
  BY DEF Insert
<1>1. seq[l] \in Seq(Node) /\ Len(seq[l]) \in Nat /\ DOMAIN seq[l] = 1 .. Len(seq[l])
  BY SeparationFacts
<1>2. CASE llist_push_front(l, n)
  <2>1. llist_insert(l, CellOf(l, seq[l], 0), n, <<n>> \o seq[l])
    BY <1>2 DEF llist_push_front, CellOf
  <2>2. /\ <<n>> \o seq[l] \in Seq(Node) /\ Inserted(seq[l], <<n>> \o seq[l], 0, n)
        /\ 0 \in 0 .. Len(seq[l])
    BY <1>1, ConsInserts
  <2> QED
    BY <2>1, <2>2, InsertInv
<1>3. CASE llist_push_back(l, n)
  <2>1. llist_insert(l, end[l], n, Append(seq[l], n)) /\ ~drained[l]
    BY <1>3 DEF llist_push_back, EndUsable
  <2>2. end[l] = CellOf(l, seq[l], Len(seq[l])) /\ Len(seq[l]) \in 0 .. Len(seq[l])
    BY <1>1, <2>1 DEF IInv, Caches
  <2> QED
    BY <1>1, <2>1, <2>2, AppendInserts, InsertInv
<1>4. CASE \E i \in DOMAIN seq[l] : InsertBehind(l, i, n)
  <2>1. PICK i \in 1 .. Len(seq[l]) : llist_insert(l, seq[l][i], n, InsertAt(seq[l], i + 1, n))
    BY <1>1, <1>4 DEF InsertBehind
  <2>2. seq[l][i] = CellOf(l, seq[l], i) /\ i \in 0 .. Len(seq[l])
    BY <1>1 DEF CellOf
  <2> QED
    BY <1>1, <2>1, <2>2, InsertAtInserts, InsertInv
<1> QED
  BY <1>2, <1>3, <1>4

LEMMA RemoveOneInv ==
    ASSUME ~UseEndAfterDrain, IInv, NEW l \in List, RemoveOne(l)
    PROVE  IInv'
<1>1. seq[l] \in Seq(Node) /\ Len(seq[l]) \in Nat /\ DOMAIN seq[l] = 1 .. Len(seq[l])
      /\ (seq[l] # <<>> => Len(seq[l]) >= 1)
  BY SeparationFacts
<1>2. CASE PopFront(l)
  <2>1. seq[l] # <<>> /\ TakeOut(l, begin[l], 1)
    BY <1>2 DEF PopFront
  <2>2. begin[l] = seq[l][1] /\ 1 \in 1 .. Len(seq[l])
    BY <1>1, <2>1 DEF IInv, Caches, CellOf
  <2> QED
    BY <2>1, <2>2, TakeOutInv
<1>3. CASE PopBack(l)
  <2>1. seq[l] # <<>> /\ ~drained[l] /\ TakeOut(l, end[l], Len(seq[l]))
    BY <1>3 DEF PopBack, EndUsable
  <2>2. end[l] = seq[l][Len(seq[l])] /\ Len(seq[l]) \in 1 .. Len(seq[l])
    BY <1>1, <2>1 DEF IInv, Caches, CellOf
  <2> QED
    BY <2>1, <2>2, TakeOutInv
<1>4. CASE \E i \in DOMAIN seq[l] : RemoveAny(l, i)
  BY <1>1, <1>4, TakeOutInv DEF RemoveAny
<1> QED
  BY <1>2, <1>3, <1>4 DEF RemoveOne

LEMMA NextInv ==
    ASSUME ~UseEndAfterDrain, IInv, [Next]_vars
    PROVE  IInv'
<1>1. CASE Halt \/ UNCHANGED vars
  <2>1. UNCHANGED <<status, next, prev, begin, end, count, heap, cursor, seq, drained, crash>>
    BY <1>1 DEF Halt, vars, pointers
  <2>2. TypeOK' /\ NoPoison'
    BY <2>1 DEF IInv, TypeOK, NoPoison
  <2>3. Rings' /\ Caches' /\ Separation'
    BY <2>1 DEF IInv, Rings, RingIs, Caches, Separation
  <2>4. DestroyAtFront' /\ Walks' /\ WalkComplete'
    BY <2>1 DEF IInv, DestroyAtFront, Walks, WalkComplete
  <2> QED
    BY <2>2, <2>3, <2>4 DEF IInv
<1>2. ASSUME NEW l \in List, NoMem(l) PROVE IInv'
  BY <1>2, CrashStep DEF NoMem
<1> QED
  BY <1>1, <1>2, InitListInv, InsertAnyInv, RemoveOneInv, ForEachInv, DestroyInv DEF Next

\* The rule for llist->end is needed: without it Shape fails.
LEMMA Inductive ==
    ASSUME ~UseEndAfterDrain
    PROVE  Spec => []IInv
<1>1. Init => IInv
  BY InitInv
<1>2. IInv /\ [Next]_vars => IInv'
  BY NextInv
<1> QED
  BY <1>1, <1>2, PTL DEF Spec

\* Type correctness of link_list.c's state, for every set of lists and nodes.
THEOREM TypeCorrect ==
    ASSUME ~UseEndAfterDrain
    PROVE  Spec => []TypeOK
<1>1. IInv => TypeOK
  BY DEF IInv
<1> QED
  BY <1>1, Inductive, PTL

\* Whatever sequence of insertions, deletions, detachments and destructions
\* the callers make, on any number of lists that trade nodes with each other,
\* the pointers of every list realise exactly what was put into it.
THEOREM PointersRealiseContents ==
    ASSUME ~UseEndAfterDrain
    PROVE  Spec => []Shape
<1>1. IInv => Shape
  <2> SUFFICES ASSUME IInv, NEW l \in List, status[l] # "none"
               PROVE  /\ \A i \in 0 .. Len(seq[l]) : /\ next[CellAt(l, i)] = CellAt(l, i + 1)
                                                     /\ prev[CellAt(l, i + 1)] = CellAt(l, i)
                      /\ begin[l] = CellAt(l, 1)
                      /\ count[l] = Len(seq[l])
    BY DEF Shape
  <2>1. \A i : CellAt(l, i) = CellOf(l, seq[l], i)
    BY DEF CellAt, CellOf
  <2>2. RingIs(l, seq[l], next, prev)
    BY DEF IInv, Rings
  <2>3. begin[l] = CellOf(l, seq[l], 1) /\ count[l] = Len(seq[l])
    BY DEF IInv, Caches
  <2> QED
    BY <2>1, <2>2, <2>3 DEF RingIs
<1> QED
  BY <1>1, Inductive, PTL

\* No node is ever in two lists, twice in one, or in one after it was freed.
THEOREM ListsStayApart ==
    ASSUME ~UseEndAfterDrain
    PROVE  Spec => []Separation
<1>1. IInv => Separation
  BY DEF IInv
<1> QED
  BY <1>1, Inductive, PTL

\* llist->end is the last node of every list that was never emptied.
THEOREM EndFollowsTheLast ==
    ASSUME ~UseEndAfterDrain
    PROVE  Spec => []EndIsLast
<1>1. IInv => EndIsLast
  BY DEF IInv, Caches, EndIsLast, CellOf, CellAt
<1> QED
  BY <1>1, Inductive, PTL

\* No operation follows a pointer that list_del has poisoned.
THEOREM PoisonIsNotFollowed ==
    ASSUME ~UseEndAfterDrain
    PROVE  Spec => []NoPoison
<1>1. IInv => NoPoison
  BY DEF IInv
<1> QED
  BY <1>1, Inductive, PTL

\* llist_for_each calls func on every node that stays, and on none twice,
\* whatever is inserted and removed while it runs.
THEOREM WalksAreComplete ==
    ASSUME ~UseEndAfterDrain
    PROVE  Spec => []WalkComplete
<1>1. IInv => WalkComplete
  BY DEF IInv
<1> QED
  BY <1>1, Inductive, PTL
=============================================================================
