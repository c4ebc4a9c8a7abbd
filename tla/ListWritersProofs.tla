-------------------------- MODULE ListWritersProofs --------------------------
(***************************************************************************)
(* Proofs about ListWriters: on one processor nothing is lost, for every   *)
(* set of threads and every finite set of nodes.                           *)
(***************************************************************************)
EXTENDS ListWriters, FiniteSetTheorems, WellFoundedInduction, TLAPS

(***************************************************************************)
(* The inductive invariant                                                 *)
(***************************************************************************)

\* The places in llist_insert where list_add has cut next->prev, and those
\* before the count.
Cut == {"new->next", "new->prev", "prev->next"}
Uncounted == Early \cup {"begin", "end", "count"}

\* One processor: one thread between its allocation and its return.
OneRuns == IsFiniteSet(Running) /\ \A t, u \in Running : t = u

\* What the local variables of llist_insert and list_add say of the ring.
Locals ==
    \A t \in Thread : LET c == thread[t] IN
      /\ c.at \in {"alloc"} \cup Linking => c.pos \in Linked
      /\ c.at \in Linking => c.node \in heap
      /\ c.at \in Cut \cup {"next->prev"} => c.next = next[c.pos]
      /\ c.at \in Cut => prev[c.next] = c.node
      /\ c.at \in {"new->prev", "prev->next"} => next[c.node] = c.next
      /\ c.at = "prev->next" => prev[c.node] = c.pos
      /\ c.at \in {"begin", "end"} => next[c.pos] = c.node

\* The ring: next is onto, and prev its inverse but where a list_add has cut it.
PrevInverts == /\ \A x \in Linked : /\ next[x] \in Linked
                                /\ \/ prev[next[x]] = x
                                   \/ \E t \in Thread : thread[t].at \in Cut /\ thread[t].pos = x
           /\ \A x \in Linked : \E y \in Linked : next[y] = x

\* It is one ring: who follows the pointers from the head comes everywhere.
OneRing ==
    \A T \in SUBSET Linked : HEAD \in T =>
      /\ (\A x \in T : next[x] \in T) => T = Linked
      /\ (\A x \in Linked : next[x] \in T => x \in T) => T = Linked

\* What llist_t caches, with what a running thread still has to do to it.
Caches ==
    /\ end \in Linked
    /\ \/ begin = next[HEAD]
       \/ \E t \in Thread : At(t, "begin") /\ thread[t].pos = HEAD
    /\ \/ next[end] = HEAD
       \/ \E t \in Thread : /\ thread[t].at \in {"begin", "end"} /\ thread[t].pos = end
                            /\ thread[t].node \in Linked /\ next[thread[t].node] = HEAD
    /\ Cardinality(heap) = IF \E t \in Thread : thread[t].at \in Uncounted
                           THEN count + 1 ELSE count

IInv == TypeOK /\ OneRuns /\ Locals /\ PrevInverts /\ OneRing /\ Caches

\* What a thread's record may be.
Local == [at : {"idle", "alloc", "dead"} \cup Linking, pos : Cell \cup {NONE},
          next : Cell \cup {NONE}, node : Node \cup {NONE}]

(***************************************************************************)
(* Induction over the naturals, and what Reach computes                    *)
(***************************************************************************)

LEMMA LeastNumber ==
    ASSUME NEW T \in SUBSET Nat, T # {}
    PROVE  \E x \in T : \A y \in T : x <= y
<1> DEFINE R == OpToRel(<, Nat)
<1>1. IsWellFoundedOn(R, Nat)
  BY NatLessThanWellFounded
<1>2. \A x, y \in Nat : x < y => <<x, y>> \in R
  BY DEF OpToRel
<1> HIDE DEF R
<1>3. PICK x \in T : \A y \in T : ~ (<<y, x>> \in R)
  BY <1>1, WFMin
<1>4. \A y \in T : ~(y < x)
  BY <1>2, <1>3
<1> QED
  BY <1>4

LEMMA SetInduction ==
    ASSUME NEW S \in SUBSET Nat, 0 \in S, \A n \in S : n + 1 \in S
    PROVE  S = Nat
<1> SUFFICES ASSUME S # Nat PROVE FALSE
  OBVIOUS
<1>1. PICK x \in Nat \ S : \A y \in Nat \ S : x <= y
  BY LeastNumber
<1>2. x # 0 /\ x - 1 \in Nat /\ ~(x <= x - 1) /\ (x - 1) + 1 = x
  BY <1>1
<1>3. x - 1 \in S
  BY <1>1, <1>2
<1> QED
  BY <1>1, <1>2, <1>3

\* One step of Reach.
Onward(f, X) == X \cup {f[x] : x \in X \ {NONE}}

\* g is the recursive function of Reach, up to N.
IsSteps(f, c, N, g) == g = [k \in 0 .. N |-> IF k = 0 THEN {c} ELSE Onward(f, g[k - 1])]

\* It exists.
LEMMA StepsExist ==
    ASSUME NEW f, NEW c, NEW N \in Nat
    PROVE  \E g : IsSteps(f, c, N, g)
<1> DEFINE More(X) == Onward(f, X)
           S == {n \in Nat : \E g : g = [k \in 0 .. n |-> IF k = 0 THEN {c} ELSE More(g[k - 1])]}
<1>1. 0 \in S
  <2> DEFINE g == [k \in 0 .. 0 |-> {c}]
  <2>1. g = [k \in 0 .. 0 |-> IF k = 0 THEN {c} ELSE More(g[k - 1])]
    OBVIOUS
  <2> HIDE DEF g, More
  <2> QED
    BY <2>1
<1>2. ASSUME NEW n \in S PROVE n + 1 \in S
  <2> HIDE DEF More
  <2>1. PICK g : g = [k \in 0 .. n |-> IF k = 0 THEN {c} ELSE More(g[k - 1])]
    OBVIOUS
  <2> DEFINE h == [k \in 0 .. n + 1 |-> IF k = n + 1 THEN More(g[n]) ELSE g[k]]
  <2>2. ASSUME NEW k \in 0 .. n + 1
        PROVE  h[k] = IF k = 0 THEN {c} ELSE More(h[k - 1])
    <3>1. CASE k = n + 1
      <4>1. k - 1 = n /\ n \in 0 .. n + 1 /\ n # n + 1 /\ k # 0
        BY <3>1
      <4>2. h[k - 1] = g[n] /\ h[k] = More(g[n])
        BY <3>1, <4>1
      <4> QED
        BY <4>1, <4>2
    <3>2. CASE k # n + 1 /\ k # 0
      <4>1. k \in 0 .. n /\ k - 1 \in 0 .. n + 1 /\ k - 1 # n + 1
        BY <3>2
      <4>2. g[k] = More(g[k - 1]) /\ h[k] = g[k] /\ h[k - 1] = g[k - 1]
        BY <2>1, <3>2, <4>1
      <4> QED
        BY <3>2, <4>2
    <3>3. CASE k # n + 1 /\ k = 0
      <4>1. 0 \in 0 .. n /\ g[0] = {c}
        BY <2>1
      <4> QED
        BY <3>3, <4>1
    <3> QED
      BY <3>1, <3>2, <3>3
  <2>3. h = [k \in 0 .. n + 1 |-> IF k = 0 THEN {c} ELSE More(h[k - 1])]
    BY <2>2
  <2> HIDE DEF h
  <2> QED
    BY <2>3
<1> HIDE DEF S
<1>3. S = Nat
  <2>1. S \in SUBSET Nat
    BY DEF S
  <2> QED
    BY <1>1, <1>2, <2>1, SetInduction
<1> QED
  BY <1>3 DEF S, IsSteps

\* Reach computes L if L contains the head and f maps it into itself, and no
\* smaller set does both.
LEMMA ReachAll ==
    ASSUME NEW f, NEW L \in SUBSET Cell, HEAD \in L, \A x \in L : f[x] \in L,
           \A T \in SUBSET L : HEAD \in T /\ (\A x \in T : f[x] \in T) => T = L,
           IsFiniteSet(Node)
    PROVE  Reach(f, HEAD) = L
<1> DEFINE N == Cardinality(Cell)
<1>1. IsFiniteSet(Cell) /\ N \in Nat /\ NONE \notin Cell
  <2>1. IsFiniteSet(Cell)
    BY FS_AddElement DEF Cell
  <2> QED
    BY <2>1, FS_CardinalityType, HeadAssumption DEF Cell
<1> HIDE DEF N
<1> DEFINE g == CHOOSE h : IsSteps(f, HEAD, N, h)
<1>2. IsSteps(f, HEAD, N, g) /\ Reach(f, HEAD) = g[N]
  <2>1. \E h : IsSteps(f, HEAD, N, h)
    BY <1>1, StepsExist
  <2>2. IsSteps(f, HEAD, N, g)
    BY <2>1
  <2>3. Reach(f, HEAD) = g[N]
    BY DEF Reach, IsSteps, Onward, N
  <2> QED
    BY <2>2, <2>3
<1> HIDE DEF g
<1>2a. \A j \in 0 .. N : g[j] = IF j = 0 THEN {HEAD} ELSE Onward(f, g[j - 1])
  BY <1>2 DEF IsSteps
<1> DEFINE Closed(X) == \A x \in X : f[x] \in X
           S == {k \in Nat : k <= N => /\ g[k] \in SUBSET L /\ HEAD \in g[k]
                                       /\ Closed(g[k]) \/ Cardinality(g[k]) >= k + 1}
<1>3. 0 \in S
  <2>1. g[0] = {HEAD}
    BY <1>1, <1>2a
  <2>2. Cardinality({HEAD}) = 1
    BY FS_Singleton
  <2>3. g[0] \in SUBSET L /\ HEAD \in g[0] /\ Cardinality(g[0]) >= 0 + 1
    BY <2>1, <2>2
  <2> QED
    BY <2>3
<1>4. ASSUME NEW k \in S PROVE k + 1 \in S
  <2> SUFFICES ASSUME k + 1 <= N
               PROVE  /\ g[k + 1] \in SUBSET L /\ HEAD \in g[k + 1]
                      /\ Closed(g[k + 1]) \/ Cardinality(g[k + 1]) >= (k + 1) + 1
    OBVIOUS
  <2>1. /\ k \in Nat /\ g[k] \in SUBSET L /\ HEAD \in g[k]
        /\ Closed(g[k]) \/ Cardinality(g[k]) >= k + 1
    BY <1>1
  <2>2. g[k + 1] = g[k] \cup {f[x] : x \in g[k] \ {NONE}}
    <3>1. k + 1 \in 0 .. N /\ k + 1 # 0 /\ (k + 1) - 1 = k
      BY <1>1, <2>1
    <3>2. g[k + 1] = IF k + 1 = 0 THEN {HEAD} ELSE Onward(f, g[(k + 1) - 1])
      BY <1>2a, <3>1
    <3>3. g[k + 1] = Onward(f, g[k])
      BY <3>1, <3>2
    <3> QED
      BY <3>3 DEF Onward
  <2>3. g[k] \ {NONE} = g[k]
    BY <1>1, <2>1
  <2>4. g[k + 1] \in SUBSET L /\ HEAD \in g[k + 1]
    BY <2>1, <2>2
  <2>5. CASE Closed(g[k])
    <3>1. g[k + 1] = g[k]
      BY <2>2, <2>5
    <3> QED
      BY <2>4, <2>5, <3>1
  <2>6. CASE ~Closed(g[k])
    <3>1. PICK x \in g[k] : f[x] \notin g[k]
      BY <2>6
    <3>2. g[k] \cup {f[x]} \subseteq g[k + 1]
      BY <2>2, <2>3
    <3>3. IsFiniteSet(g[k]) /\ IsFiniteSet(g[k + 1])
      BY <1>1, <2>1, <2>4, FS_Subset
    <3>4. Cardinality(g[k] \cup {f[x]}) = Cardinality(g[k]) + 1
      <4> DEFINE y == f[x]
                 X == g[k]
      <4>1. IsFiniteSet(X) /\ y \notin X
        BY <3>1, <3>3
      <4> HIDE DEF y, X
      <4>2. Cardinality(X \cup {y}) = Cardinality(X) + 1
        BY <4>1, FS_AddElement
      <4> QED
        BY <4>2 DEF X, y
    <3>5. /\ Cardinality(g[k] \cup {f[x]}) <= Cardinality(g[k + 1])
          /\ Cardinality(g[k]) \in Nat /\ Cardinality(g[k + 1]) \in Nat
      BY <3>2, <3>3, FS_Subset, FS_CardinalityType
    <3>6. Cardinality(g[k]) >= k + 1
      BY <2>1, <2>6
    <3>7. Cardinality(g[k + 1]) >= (k + 1) + 1
      BY <2>1, <3>4, <3>5, <3>6
    <3> QED
      BY <2>4, <3>7
  <2> QED
    BY <2>5, <2>6
<1>5. N \in S
  <2> HIDE DEF S
  <2>1. S \in SUBSET Nat
    BY DEF S
  <2> QED
    BY <1>1, <1>3, <1>4, <2>1, SetInduction
<1>6. g[N] \in SUBSET L /\ HEAD \in g[N] /\ (Closed(g[N]) \/ Cardinality(g[N]) >= N + 1)
  BY <1>1, <1>5
<1>7. Cardinality(g[N]) <= N /\ Cardinality(g[N]) \in Nat
  <2>1. g[N] \subseteq Cell
    BY <1>6
  <2> QED
    BY <1>1, <2>1, FS_Subset, FS_CardinalityType DEF N
<1>8. Closed(g[N])
  BY <1>1, <1>6, <1>7
<1> QED
  BY <1>2, <1>6, <1>8

\* Between two calls the invariant says what the property does.
LEMMA QuietIsWhole ==
    ASSUME IInv, IsFiniteSet(Node)
    PROVE  NothingLost
<1> SUFFICES ASSUME Running = {} PROVE /\ Reach(next, HEAD) = heap \cup {HEAD}
                                       /\ Reach(prev, HEAD) = heap \cup {HEAD}
                                       /\ \A c \in heap \cup {HEAD} : prev[next[c]] = c
                                       /\ begin = next[HEAD] /\ end = prev[HEAD]
                                       /\ count = Cardinality(heap)
  BY DEF NothingLost
<1>1. \A t \in Thread : thread[t].at \notin Linking
  BY DEF Running
<1>2. \A t \in Thread : thread[t].at \notin Early /\ thread[t].at \notin Cut
                        /\ thread[t].at \notin Uncounted /\ thread[t].at \notin {"begin", "end"}
  BY <1>1 DEF Linking, Early, Cut, Uncounted
<1>3. Linked = heap \cup {HEAD}
  BY <1>2 DEF Linked
<1>4. /\ \A x \in Linked : next[x] \in Linked /\ prev[next[x]] = x
      /\ \A x \in Linked : \E y \in Linked : next[y] = x
  BY <1>2 DEF IInv, PrevInverts
<1>5. \A x \in Linked : prev[x] \in Linked
  BY <1>4
<1>6. Linked \in SUBSET Cell /\ HEAD \in Linked
  BY <1>3 DEF IInv, TypeOK, Cell
<1>7. Reach(next, HEAD) = Linked
  BY <1>4, <1>6, ReachAll DEF IInv, OneRing
<1>8. Reach(prev, HEAD) = Linked
  <2>1. ASSUME NEW T \in SUBSET Linked, HEAD \in T, \A x \in T : prev[x] \in T
        PROVE  T = Linked
    <3>1. \A x \in Linked : next[x] \in T => x \in T
      BY <1>4, <2>1
    <3> QED
      BY <2>1, <3>1 DEF IInv, OneRing
  <2> QED
    BY <1>5, <1>6, <2>1, ReachAll
<1>9. begin = next[HEAD] /\ next[end] = HEAD /\ end \in Linked /\ count = Cardinality(heap)
  <2>1. count \in Nat
    BY FS_CardinalityType DEF IInv, TypeOK
  <2> QED
    BY <1>2, <2>1 DEF IInv, Caches, At
<1> QED
  BY <1>3, <1>4, <1>7, <1>8, <1>9

(***************************************************************************)
(* Who runs                                                                *)
(***************************************************************************)

\* A step of the running thread, or of any when none runs, leaves the others
\* outside of llist_insert.
LEMMA Moved ==
    ASSUME IInv, Cpus = 1, NEW t \in Thread,
           thread[t].at \in Linking \/ Cardinality(Running) < Cpus,
           NEW r \in Local, thread' = [thread EXCEPT ![t] = r]
    PROVE  /\ thread'[t] = r /\ thread' \in [Thread -> Local]
           /\ \A u \in Thread \ {t} : thread'[u] = thread[u] /\ thread[u].at \notin Linking
           /\ OneRuns' /\ Cardinality(Running') <= Cpus
<1>1. \A u \in Thread \ {t} : thread[u].at \notin Linking
  <2>1. CASE thread[t].at \in Linking
    BY <2>1 DEF IInv, OneRuns, Running
  <2>2. CASE Cardinality(Running) < Cpus
    <3>1. IsFiniteSet(Running)
      BY DEF IInv, OneRuns
    <3>2. Cardinality(Running) = 0
      BY <2>2, <3>1, FS_CardinalityType
    <3>3. Running = {}
      BY <3>1, <3>2, FS_EmptySet
    <3> QED
      BY <3>3 DEF Running
  <2> QED
    BY <2>1, <2>2
<1>2. thread'[t] = r /\ thread' \in [Thread -> Local] /\ \A u \in Thread \ {t} : thread'[u] = thread[u]
  BY DEF IInv, TypeOK, Local
<1>3. Running' \subseteq {t}
  BY <1>1, <1>2 DEF Running
<1>4. IsFiniteSet({t}) /\ Cardinality({t}) = 1
  BY FS_Singleton
<1>5. IsFiniteSet(Running') /\ Cardinality(Running') <= 1
  <2> DEFINE X == Running'
  <2>1. X \subseteq {t}
    BY <1>3
  <2> HIDE DEF X
  <2>2. IsFiniteSet(X) /\ Cardinality(X) <= 1
    BY <1>4, <2>1, FS_Subset
  <2> QED
    BY <2>2 DEF X
<1>6. OneRuns'
  BY <1>3, <1>5 DEF OneRuns
<1> QED
  BY <1>1, <1>2, <1>5, <1>6

\* What the places have in common.
LEMMA Places ==
    /\ Early \subseteq Linking /\ Cut \subseteq Early /\ Uncounted \subseteq Linking
    /\ Early \subseteq Uncounted /\ {"begin", "end"} \subseteq Uncounted
    /\ {"idle", "alloc", "dead"} \cap Linking = {}
BY DEF Early, Cut, Uncounted, Linking

\* What the invariant says of the running thread.
LEMMA Facts ==
    ASSUME IInv
    PROVE  /\ next \in [Cell -> Cell \cup {NONE}] /\ prev \in [Cell -> Cell \cup {NONE}]
           /\ thread \in [Thread -> Local]
           /\ HEAD \in Linked /\ Linked \subseteq Cell /\ heap \subseteq Node /\ HEAD \notin heap
           /\ Linked \subseteq heap \cup {HEAD}
           /\ \A t \in Thread :
                /\ thread[t].at \in {"alloc"} \cup Linking => thread[t].pos \in Linked
                /\ thread[t].at \in Linking => thread[t].node \in heap /\ thread[t].node \in Cell
                /\ thread[t].at \in Early => thread[t].node \notin Linked
                /\ thread[t].at \in Cut \cup {"next->prev"} => thread[t].next \in Linked
<1>1. /\ next \in [Cell -> Cell \cup {NONE}] /\ prev \in [Cell -> Cell \cup {NONE}]
      /\ thread \in [Thread -> Local] /\ heap \subseteq Node
  BY DEF IInv, TypeOK, Local
<1>2. HEAD \in Linked /\ Linked \subseteq Cell /\ HEAD \notin heap /\ Linked \subseteq heap \cup {HEAD}
  BY <1>1, HeadAssumption DEF Linked, Cell
<1>3. ASSUME NEW t \in Thread
      PROVE  /\ thread[t].at \in {"alloc"} \cup Linking => thread[t].pos \in Linked
             /\ thread[t].at \in Linking => thread[t].node \in heap /\ thread[t].node \in Cell
  BY <1>1 DEF IInv, Locals, Cell
<1>4. ASSUME NEW t \in Thread, thread[t].at \in Early
      PROVE  thread[t].node \notin Linked
  BY <1>2, <1>3, <1>4, Places DEF Linked
<1>5. ASSUME NEW t \in Thread, thread[t].at \in Cut \cup {"next->prev"}
      PROVE  thread[t].next \in Linked
  <2>1. thread[t].at \in Linking /\ thread[t].next = next[thread[t].pos]
    BY <1>5, Places DEF IInv, Locals, Linking
  <2> QED
    BY <1>3, <2>1 DEF IInv, PrevInverts
<1> QED
  BY <1>1, <1>2, <1>3, <1>4, <1>5

(***************************************************************************)
(* The inductive step: before and after the ring is touched                *)
(***************************************************************************)

\* A step after which the ring and what is on it are as before.
LEMMA RingUntouched ==
    ASSUME IInv, Linked' = Linked, next' = next,
           \A x \in Linked : \/ prev'[next[x]] = prev[next[x]] /\ prev[next[x]] = x
                             \/ \E t \in Thread : thread'[t].at \in Cut /\ thread'[t].pos = x
    PROVE  PrevInverts' /\ OneRing'
<1>1. PrevInverts'
  BY DEF IInv, PrevInverts
<1>2. OneRing'
  BY DEF IInv, OneRing
<1> QED
  BY <1>1, <1>2

\* Only the thread that moves has to be looked at.
LEMMA LocalsStep ==
    ASSUME NEW t \in Thread,
           \A u \in Thread \ {t} : /\ thread'[u].at \notin Linking
                                   /\ thread'[u].at = "alloc" => thread'[u].pos \in Linked',
           LET c == thread'[t] IN
             /\ c.at \in {"alloc"} \cup Linking => c.pos \in Linked'
             /\ c.at \in Linking => c.node \in heap'
             /\ c.at \in Cut \cup {"next->prev"} => c.next = next'[c.pos]
             /\ c.at \in Cut => prev'[c.next] = c.node
             /\ c.at \in {"new->prev", "prev->next"} => next'[c.node] = c.next
             /\ c.at = "prev->next" => prev'[c.node] = c.pos
             /\ c.at \in {"begin", "end"} => next'[c.pos] = c.node
    PROVE  Locals'
<1>1. Cut \cup {"next->prev", "new->prev", "prev->next", "begin", "end"} \subseteq Linking
  BY DEF Cut, Linking
<1> QED
  BY <1>1, Zenon DEF Locals

LEMMA PushBackInv ==
    ASSUME IInv, Cpus = 1, NEW t \in Thread, llist_push_back(t)
    PROVE  IInv'
<1> DEFINE r == [thread[t] EXCEPT !.at = "alloc", !.pos = end]
<1>1. /\ thread[t].at = "idle" /\ Cardinality(Running) < Cpus
      /\ next' = next /\ prev' = prev /\ begin' = begin /\ end' = end /\ count' = count /\ heap' = heap
  BY DEF llist_push_back, At, ring
<1>2. end \in Linked
  BY DEF IInv, Caches
<1>3. r \in Local /\ r.at = "alloc" /\ r.pos = end
  BY <1>2, Facts DEF Local
<1>4. thread' = [thread EXCEPT ![t] = r]
  BY Facts DEF llist_push_back
<1> HIDE DEF r
<1>5. /\ thread'[t] = r /\ thread' \in [Thread -> Local]
      /\ \A u \in Thread \ {t} : thread'[u] = thread[u] /\ thread[u].at \notin Linking
      /\ OneRuns' /\ Cardinality(Running') <= Cpus
  BY <1>1, <1>3, <1>4, Moved
<1>6. Linked' = Linked
  BY <1>1, <1>3, <1>5, Places DEF Linked
<1>7. \A u \in Thread : thread[u].at \notin Linking /\ thread'[u].at \notin Linking
  BY <1>1, <1>3, <1>5, Places
<1>8. TypeOK'
  BY <1>1, <1>5 DEF IInv, TypeOK, Local
<1>9. Locals'
  <2>1. \A u \in Thread \ {t} : /\ thread'[u].at \notin Linking
                                /\ thread'[u].at = "alloc" => thread'[u].pos \in Linked'
    BY <1>5, <1>6, Facts
  <2>2. "alloc" \notin Linking \cup Cut \cup {"next->prev", "new->prev", "prev->next", "begin", "end"}
    BY DEF Linking, Cut
  <2> QED
    BY <1>2, <1>3, <1>5, <1>6, <2>1, <2>2, LocalsStep
<1>10. PrevInverts' /\ OneRing'
  <2>1. \A x \in Linked : prev[next[x]] = x
    BY <1>7, Places DEF IInv, PrevInverts
  <2> QED
    BY <1>1, <1>6, <2>1, RingUntouched
<1>11. Caches'
  BY <1>1, <1>6, <1>7, Places DEF IInv, Caches, At
<1> QED
  BY <1>5, <1>8, <1>9, <1>10, <1>11 DEF IInv

LEMMA AllocInv ==
    ASSUME IInv, Cpus = 1, IsFiniteSet(Node), NEW t \in Thread, allocator_mem_alloc(t)
    PROVE  IInv'
<1>1. /\ thread[t].at = "alloc" /\ Cardinality(Running) < Cpus
      /\ next' = next /\ prev' = prev /\ begin' = begin /\ end' = end /\ count' = count
  BY DEF allocator_mem_alloc, At, ring
<1>2. thread[t].pos \in Linked
  BY <1>1, Facts
<1>3. CASE /\ thread' = [thread EXCEPT ![t] = [Idle EXCEPT !.at = "dead"]]
           /\ heap' = heap
  <2> DEFINE r == [Idle EXCEPT !.at = "dead"]
  <2>1. r \in Local /\ r.at = "dead"
    BY DEF Local, Idle
  <2> HIDE DEF r
  <2>2. /\ thread'[t] = r /\ thread' \in [Thread -> Local]
        /\ \A u \in Thread \ {t} : thread'[u] = thread[u] /\ thread[u].at \notin Linking
        /\ OneRuns' /\ Cardinality(Running') <= Cpus
    BY <1>1, <1>3, <2>1, Moved DEF r
  <2>3. Linked' = Linked
    BY <1>1, <1>3, <2>1, <2>2, Places DEF Linked
  <2>4. \A u \in Thread : thread[u].at \notin Linking /\ thread'[u].at \notin Linking
    BY <1>1, <2>1, <2>2, Places
  <2>5. TypeOK'
    BY <1>1, <1>3, <2>2 DEF IInv, TypeOK, Local
  <2>6. Locals'
    <3>1. \A u \in Thread \ {t} : /\ thread'[u].at \notin Linking
                                  /\ thread'[u].at = "alloc" => thread'[u].pos \in Linked'
      BY <2>2, <2>3, Facts
    <3>2. "dead" \notin Linking \cup Cut \cup {"alloc", "next->prev", "new->prev", "prev->next", "begin", "end"}
      BY DEF Linking, Cut
    <3> QED
      BY <2>1, <2>2, <3>1, <3>2, LocalsStep
  <2>7. PrevInverts' /\ OneRing'
    <3>1. \A x \in Linked : prev[next[x]] = x
      BY <2>4, Places DEF IInv, PrevInverts
    <3> QED
      BY <1>1, <2>3, <3>1, RingUntouched
  <2>8. Caches'
    BY <1>1, <1>3, <2>3, <2>4, Places DEF IInv, Caches, At
  <2> QED
    BY <2>2, <2>5, <2>6, <2>7, <2>8 DEF IInv
<1>4. ASSUME NEW n \in Node \ heap, heap' = heap \cup {n},
             thread' = [thread EXCEPT ![t].at = "sync_lock", ![t].node = n]
      PROVE  IInv'
  <2> DEFINE r == [thread[t] EXCEPT !.at = "sync_lock", !.node = n]
  <2>1. r \in Local /\ r.at = "sync_lock" /\ r.node = n /\ r.pos = thread[t].pos
    BY Facts DEF Local, Linking
  <2>2. thread' = [thread EXCEPT ![t] = r]
    BY <1>4, Facts
  <2> HIDE DEF r
  <2>3. /\ thread'[t] = r /\ thread' \in [Thread -> Local]
        /\ \A u \in Thread \ {t} : thread'[u] = thread[u] /\ thread[u].at \notin Linking
        /\ OneRuns' /\ Cardinality(Running') <= Cpus
    BY <1>1, <2>1, <2>2, Moved
  <2>4. \A u \in Thread : thread[u].at \notin Linking
    BY <1>1, <2>3, Places
  <2>5. "sync_lock" \in Early /\ "sync_lock" \notin Cut
    BY DEF Early, Cut
  <2>6. Linked' = Linked
    BY <1>1, <1>4, <2>1, <2>3, <2>4, <2>5, Places DEF Linked
  <2>7. TypeOK'
    BY <1>1, <1>4, <2>3 DEF IInv, TypeOK, Local
  <2>8. Locals'
    <3>1. \A u \in Thread \ {t} : /\ thread'[u].at \notin Linking
                                  /\ thread'[u].at = "alloc" => thread'[u].pos \in Linked'
      BY <2>3, <2>6, Facts
    <3>2. r.pos \in Linked' /\ r.node \in heap'
      BY <1>2, <1>4, <2>1, <2>6
    <3>3. "sync_lock" \notin Cut \cup {"next->prev", "new->prev", "prev->next", "begin", "end"}
      BY DEF Cut
    <3> QED
      BY <2>1, <2>3, <3>1, <3>2, <3>3, LocalsStep
  <2>9. PrevInverts' /\ OneRing'
    <3>1. \A x \in Linked : prev[next[x]] = x
      BY <2>4, Places DEF IInv, PrevInverts
    <3> QED
      BY <1>1, <2>6, <3>1, RingUntouched
  <2>10. Caches'
    <3>1. end' \in Linked' /\ begin' = next'[HEAD] /\ next'[end'] = HEAD
      BY <1>1, <2>4, <2>6, Places DEF IInv, Caches, At
    <3>2. Cardinality(heap') = count' + 1
      <4>1. Cardinality(heap) = count
        BY <2>4, Places DEF IInv, Caches
      <4>2. IsFiniteSet(heap) /\ n \notin heap
        BY <1>4, Facts, FS_Subset
      <4>3. Cardinality(heap \cup {n}) = Cardinality(heap) + 1
        BY <4>2, FS_AddElement
      <4> QED
        BY <1>1, <1>4, <4>1, <4>3
    <3>3. \E u \in Thread : thread'[u].at \in Uncounted
      BY <2>1, <2>3, <2>5, Places
    <3> QED
      BY <3>1, <3>2, <3>3 DEF Caches
  <2> QED
    BY <2>3, <2>7, <2>8, <2>9, <2>10 DEF IInv
<1> QED
  BY <1>3, <1>4 DEF allocator_mem_alloc

\* A step of llist_insert that leaves the ring's cells what they are.
LEMMA Inside ==
    ASSUME IInv, Cpus = 1, NEW t \in Thread, thread[t].at \in Linking,
           NEW r \in Local, thread' = [thread EXCEPT ![t] = r], heap' = heap,
           r.at \in Early <=> thread[t].at \in Early,
           r.at \in Early => r.node = thread[t].node,
           begin' \in Cell, end' \in Cell, count' \in 0 .. Cardinality(Node),
           next' \in [Cell -> Cell \cup {NONE}], prev' \in [Cell -> Cell \cup {NONE}]
    PROVE  /\ thread'[t] = r /\ TypeOK' /\ OneRuns' /\ Linked' = Linked
           /\ \A u \in Thread \ {t} :
                /\ thread'[u].at \notin Linking /\ thread[u].at \notin Linking
                /\ thread'[u].at = "alloc" => thread'[u].pos \in Linked'
<1>1. /\ thread'[t] = r /\ thread' \in [Thread -> Local]
      /\ \A u \in Thread \ {t} : thread'[u] = thread[u] /\ thread[u].at \notin Linking
      /\ OneRuns' /\ Cardinality(Running') <= Cpus
  BY Moved
<1>2. Linked' = Linked
  BY <1>1, Places DEF Linked
<1>3. TypeOK'
  BY <1>1 DEF IInv, TypeOK, Local
<1> QED
  BY <1>1, <1>2, <1>3, Facts

\* The tests of the caches look at three places only.
LEMMA CachesKept ==
    ASSUME IInv, NEW t \in Thread, Linked' = Linked, heap' = heap, count' = count,
           begin' = begin, end' = end, next' = next,
           thread[t].at \in Early, thread'[t].at \in Early,
           \A u \in Thread \ {t} : thread'[u].at \notin Linking /\ thread[u].at \notin Linking
    PROVE  Caches'
<1>1. \A u \in Thread : thread[u].at \notin {"begin", "end"}
  BY Places DEF Early, Linking
<1>2. Cardinality(heap) = count + 1
  BY Places DEF IInv, Caches
<1>3. begin = next[HEAD] /\ next[end] = HEAD /\ end \in Linked
  BY <1>1 DEF IInv, Caches, At
<1> QED
  BY <1>2, <1>3, Places DEF Caches

LEMMA SyncLockInv ==
    ASSUME IInv, Cpus = 1, NEW t \in Thread, sync_lock(t)
    PROVE  IInv'
<1> DEFINE r == [thread[t] EXCEPT !.at = "read"]
<1>1. /\ thread[t].at = "sync_lock"
      /\ next' = next /\ prev' = prev /\ begin' = begin /\ end' = end /\ count' = count /\ heap' = heap
  BY DEF sync_lock, At, ring
<1>2. r \in Local /\ r.at = "read" /\ r.pos = thread[t].pos /\ r.node = thread[t].node
  BY Facts DEF Local, Linking
<1>3. thread' = [thread EXCEPT ![t] = r]
  BY Facts DEF sync_lock, Goto
<1> HIDE DEF r
<1>4. /\ "sync_lock" \in Early /\ "read" \in Early /\ {"sync_lock", "read"} \subseteq Linking
      /\ "read" \notin Cut \cup {"next->prev", "new->prev", "prev->next", "begin", "end"}
  BY DEF Early, Cut, Linking
<1>5. /\ thread'[t] = r /\ TypeOK' /\ OneRuns' /\ Linked' = Linked
      /\ \A u \in Thread \ {t} :
           /\ thread'[u].at \notin Linking /\ thread[u].at \notin Linking
           /\ thread'[u].at = "alloc" => thread'[u].pos \in Linked'
  BY <1>1, <1>2, <1>3, <1>4, Inside DEF IInv, TypeOK
<1>6. Locals'
  BY <1>1, <1>2, <1>4, <1>5, Facts, LocalsStep
<1>7. \A x \in Linked : prev[next[x]] = x
  BY <1>1, <1>5, Places DEF IInv, PrevInverts, Cut
<1>8. PrevInverts' /\ OneRing'
  BY <1>1, <1>5, <1>7, RingUntouched
<1>9. Caches'
  BY <1>1, <1>2, <1>4, <1>5, CachesKept
<1> QED
  BY <1>5, <1>6, <1>8, <1>9 DEF IInv

(***************************************************************************)
(* The inductive step: list_add                                            *)
(***************************************************************************)

LEMMA ReadNextInv ==
    ASSUME IInv, Cpus = 1, NEW t \in Thread, ReadNext(t)
    PROVE  IInv'
<1> DEFINE r == [thread[t] EXCEPT !.at = "next->prev", !.next = next[thread[t].pos]]
<1>1. /\ thread[t].at = "read"
      /\ next' = next /\ prev' = prev /\ begin' = begin /\ end' = end /\ count' = count /\ heap' = heap
  BY DEF ReadNext, At, ring
<1>2. /\ "read" \in Early /\ "next->prev" \in Early /\ {"read", "next->prev"} \subseteq Linking
      /\ "next->prev" \notin Cut \cup {"new->prev", "prev->next", "begin", "end"}
  BY DEF Early, Cut, Linking
<1>3. thread[t].pos \in Linked /\ next[thread[t].pos] \in Cell
  BY <1>1, <1>2, Facts DEF IInv, PrevInverts
<1>4. /\ r \in Local /\ r.at = "next->prev" /\ r.pos = thread[t].pos /\ r.node = thread[t].node
      /\ r.next = next[thread[t].pos]
  BY <1>2, <1>3, Facts DEF Local
<1>5. thread' = [thread EXCEPT ![t] = r]
  BY Facts DEF ReadNext
<1> HIDE DEF r
<1>6. /\ thread'[t] = r /\ TypeOK' /\ OneRuns' /\ Linked' = Linked
      /\ \A u \in Thread \ {t} :
           /\ thread'[u].at \notin Linking /\ thread[u].at \notin Linking
           /\ thread'[u].at = "alloc" => thread'[u].pos \in Linked'
  BY <1>1, <1>2, <1>4, <1>5, Inside DEF IInv, TypeOK
<1>7. Locals'
  BY <1>1, <1>2, <1>4, <1>6, Facts, LocalsStep
<1>8. \A x \in Linked : prev[next[x]] = x
  BY <1>1, <1>6, Places DEF IInv, PrevInverts, Cut
<1>9. PrevInverts' /\ OneRing'
  BY <1>1, <1>6, <1>8, RingUntouched
<1>10. Caches'
  BY <1>1, <1>2, <1>4, <1>6, CachesKept
<1> QED
  BY <1>6, <1>7, <1>9, <1>10 DEF IInv

LEMMA WriteNextPrevInv ==
    ASSUME IInv, Cpus = 1, NEW t \in Thread, WriteNextPrev(t)
    PROVE  IInv'
<1> DEFINE c == thread[t]
           r == [c EXCEPT !.at = "new->next"]
<1>1. /\ c.at = "next->prev" /\ prev' = [prev EXCEPT ![c.next] = c.node]
      /\ next' = next /\ begin' = begin /\ end' = end /\ count' = count /\ heap' = heap
  BY DEF WriteNextPrev, At
<1>2. /\ "next->prev" \in Early /\ "new->next" \in Cut /\ {"next->prev", "new->next"} \subseteq Linking
      /\ "next->prev" \notin Cut
      /\ "new->next" \notin {"alloc", "new->prev", "prev->next", "begin", "end"}
  BY DEF Early, Cut, Linking
<1>3. /\ c.pos \in Linked /\ c.next = next[c.pos] /\ c.next \in Linked /\ c.next \in Cell
      /\ c.node \in heap /\ c.node \in Cell /\ c.node \notin Linked
  BY <1>1, <1>2, Facts DEF IInv, Locals
<1>4. r \in Local /\ r.at = "new->next" /\ r.pos = c.pos /\ r.node = c.node /\ r.next = c.next
  BY <1>2, Facts DEF Local
<1>5. thread' = [thread EXCEPT ![t] = r]
  BY Facts DEF WriteNextPrev, Goto
<1> HIDE DEF r, c
<1>6. /\ prev' \in [Cell -> Cell \cup {NONE}] /\ prev'[c.next] = c.node
      /\ \A x \in Cell : x # c.next => prev'[x] = prev[x]
  BY <1>1, <1>3, Facts
<1>7. /\ thread'[t] = r /\ TypeOK' /\ OneRuns' /\ Linked' = Linked
      /\ \A u \in Thread \ {t} :
           /\ thread'[u].at \notin Linking /\ thread[u].at \notin Linking
           /\ thread'[u].at = "alloc" => thread'[u].pos \in Linked'
  BY <1>1, <1>2, <1>4, <1>5, <1>6, Places, Inside DEF IInv, TypeOK, c
<1>8. Locals'
  BY <1>1, <1>2, <1>3, <1>4, <1>6, <1>7, LocalsStep
<1>9. \A x \in Linked : prev[next[x]] = x
  BY <1>1, <1>2, <1>7, Places DEF IInv, PrevInverts, c
<1>10. \A x \in Linked : x # c.pos => next[x] # c.next /\ prev'[next[x]] = prev[next[x]]
  BY <1>3, <1>6, <1>9, Facts DEF IInv, PrevInverts
<1>11. PrevInverts' /\ OneRing'
  BY <1>1, <1>2, <1>4, <1>7, <1>9, <1>10, RingUntouched
<1>12. Caches'
  BY <1>1, <1>2, <1>4, <1>7, Places, CachesKept DEF c
<1> QED
  BY <1>7, <1>8, <1>11, <1>12 DEF IInv

\* While next->prev is cut, every other link is whole.
LEMMA CutOnce ==
    ASSUME IInv, NEW t \in Thread, thread[t].at \in Cut,
           \A u \in Thread \ {t} : thread[u].at \notin Linking
    PROVE  \A x \in Linked : x # thread[t].pos => prev[next[x]] = x /\ next[x] # thread[t].next
<1>1. \A x \in Linked : x # thread[t].pos => prev[next[x]] = x
  BY Places DEF IInv, PrevInverts
<1>2. prev[thread[t].next] = thread[t].node /\ thread[t].node \notin Linked
  BY Places, Facts DEF IInv, Locals
<1> QED
  BY <1>1, <1>2

LEMMA WriteNewNextInv ==
    ASSUME IInv, Cpus = 1, NEW t \in Thread, WriteNewNext(t)
    PROVE  IInv'
<1> DEFINE c == thread[t]
           r == [c EXCEPT !.at = "new->prev"]
<1>1. /\ c.at = "new->next" /\ next' = [next EXCEPT ![c.node] = c.next]
      /\ prev' = prev /\ begin' = begin /\ end' = end /\ count' = count /\ heap' = heap
  BY DEF WriteNewNext, At
<1>2. /\ "new->next" \in Cut /\ "new->prev" \in Cut
      /\ "new->prev" \notin {"alloc", "prev->next", "begin", "end"}
  BY DEF Cut
<1>3. /\ c.pos \in Linked /\ c.next = next[c.pos] /\ c.next \in Linked /\ c.next \in Cell
      /\ c.node \in heap /\ c.node \in Cell /\ c.node \notin Linked /\ prev[c.next] = c.node
  BY <1>1, <1>2, Places, Facts DEF IInv, Locals
<1>4. r \in Local /\ r.at = "new->prev" /\ r.pos = c.pos /\ r.node = c.node /\ r.next = c.next
  BY <1>2, Places, Facts DEF Local
<1>5. thread' = [thread EXCEPT ![t] = r]
  BY Facts DEF WriteNewNext, Goto
<1> HIDE DEF r, c
<1>6. /\ next' \in [Cell -> Cell \cup {NONE}] /\ next'[c.node] = c.next
      /\ \A x \in Linked : next'[x] = next[x]
  BY <1>1, <1>3, Facts
<1>7. /\ thread'[t] = r /\ TypeOK' /\ OneRuns' /\ Linked' = Linked
      /\ \A u \in Thread \ {t} :
           /\ thread'[u].at \notin Linking /\ thread[u].at \notin Linking
           /\ thread'[u].at = "alloc" => thread'[u].pos \in Linked'
  BY ZenonT(30), <1>1, <1>2, <1>4, <1>5, <1>6, Places, Inside DEF IInv, TypeOK, c
<1>8. Locals'
  BY <1>1, <1>2, <1>3, <1>4, <1>6, <1>7, Places, LocalsStep
<1>9. PrevInverts'
  <2>1. \A x \in Linked : x # r.pos => prev[next[x]] = x
    BY <1>1, <1>2, <1>4, <1>7, CutOnce DEF c
  <2> QED
    BY <1>1, <1>2, <1>4, <1>6, <1>7, <2>1 DEF IInv, PrevInverts
<1>10. OneRing'
  BY <1>6, <1>7 DEF IInv, OneRing
<1>11. Caches'
  <2>1. \A u \in Thread : thread[u].at \notin {"begin", "end"}
    BY <1>1, <1>7, Places DEF Linking, c
  <2>2. Cardinality(heap) = count + 1
    BY <1>1, <1>2, Places DEF IInv, Caches, c
  <2>3. begin = next[HEAD] /\ next[end] = HEAD /\ end \in Linked
    BY <2>1 DEF IInv, Caches, At
  <2>4. thread'[t].at \in Uncounted
    BY <1>2, <1>4, <1>7, Places
  <2>5. HEAD \in Linked
    BY Facts
  <2> QED
    BY <1>1, <1>6, <1>7, <2>2, <2>3, <2>4, <2>5 DEF Caches
<1> QED
  BY <1>7, <1>8, <1>9, <1>10, <1>11 DEF IInv

LEMMA WriteNewPrevInv ==
    ASSUME IInv, Cpus = 1, NEW t \in Thread, WriteNewPrev(t)
    PROVE  IInv'
<1> DEFINE c == thread[t]
           r == [c EXCEPT !.at = "prev->next"]
<1>1. /\ c.at = "new->prev" /\ prev' = [prev EXCEPT ![c.node] = c.pos]
      /\ next' = next /\ begin' = begin /\ end' = end /\ count' = count /\ heap' = heap
  BY DEF WriteNewPrev, At
<1>2. /\ "new->prev" \in Cut /\ "prev->next" \in Cut
      /\ "prev->next" \notin {"alloc", "begin", "end"}
  BY DEF Cut
<1>3. /\ c.pos \in Linked /\ c.next = next[c.pos] /\ c.next \in Linked /\ c.next \in Cell
      /\ c.node \in heap /\ c.node \in Cell /\ c.node \notin Linked /\ prev[c.next] = c.node
      /\ next[c.node] = c.next
  BY <1>1, <1>2, Places, Facts DEF IInv, Locals
<1>4. r \in Local /\ r.at = "prev->next" /\ r.pos = c.pos /\ r.node = c.node /\ r.next = c.next
  BY <1>2, Places, Facts DEF Local
<1>5. thread' = [thread EXCEPT ![t] = r]
  BY Facts DEF WriteNewPrev, Goto
<1> HIDE DEF r, c
<1>6. /\ prev' \in [Cell -> Cell \cup {NONE}] /\ prev'[c.node] = c.pos
      /\ \A x \in Linked : prev'[x] = prev[x]
  BY <1>1, <1>3, Facts
<1>7. /\ thread'[t] = r /\ TypeOK' /\ OneRuns' /\ Linked' = Linked
      /\ \A u \in Thread \ {t} :
           /\ thread'[u].at \notin Linking /\ thread[u].at \notin Linking
           /\ thread'[u].at = "alloc" => thread'[u].pos \in Linked'
  BY ZenonT(30), <1>1, <1>2, <1>4, <1>5, <1>6, Places, Inside DEF IInv, TypeOK, c
<1>8. Locals'
  BY <1>1, <1>2, <1>3, <1>4, <1>6, <1>7, Places, LocalsStep
<1>9. \A x \in Linked : x # r.pos => prev[next[x]] = x
  BY <1>1, <1>2, <1>4, <1>7, CutOnce DEF c
<1>10. \A x \in Linked : next[x] \in Linked
  BY DEF IInv, PrevInverts
<1>11. PrevInverts' /\ OneRing'
  BY <1>1, <1>2, <1>4, <1>6, <1>7, <1>9, <1>10, RingUntouched
<1>12. Caches'
  BY <1>1, <1>2, <1>4, <1>7, Places, CachesKept DEF c
<1> QED
  BY <1>7, <1>8, <1>11, <1>12 DEF IInv

\* The insertion takes effect here: the new cell joins the ring.
LEMMA WritePrevNextInv ==
    ASSUME IInv, Cpus = 1, NEW t \in Thread, WritePrevNext(t)
    PROVE  IInv'
<1> DEFINE c == thread[t]
           n == c.node
           r == [c EXCEPT !.at = "begin"]
<1>1. /\ c.at = "prev->next" /\ next' = [next EXCEPT ![c.pos] = n]
      /\ prev' = prev /\ begin' = begin /\ end' = end /\ count' = count /\ heap' = heap
  BY DEF WritePrevNext, At
<1>2. /\ "prev->next" \in Cut /\ "begin" \in Linking /\ "begin" \in Uncounted
      /\ "begin" \notin Early \cup Cut \cup {"next->prev", "new->prev", "prev->next"}
  BY DEF Early, Cut, Linking, Uncounted
<1>3. /\ c.pos \in Linked /\ c.next = next[c.pos] /\ c.next \in Linked
      /\ n \in heap /\ n \in Cell /\ n \notin Linked /\ prev[c.next] = n
      /\ next[n] = c.next /\ prev[n] = c.pos
  BY <1>1, <1>2, Places, Facts DEF IInv, Locals
<1>4. r \in Local /\ r.at = "begin" /\ r.pos = c.pos /\ r.node = n
  BY <1>2, Places, Facts DEF Local
<1>5. thread' = [thread EXCEPT ![t] = r]
  BY Facts DEF WritePrevNext, Goto
<1>6. c.at \in Linking
  BY <1>1, <1>2, Places
<1>7. /\ thread'[t] = r /\ thread' \in [Thread -> Local]
      /\ \A u \in Thread \ {t} : thread'[u] = thread[u] /\ thread[u].at \notin Linking
      /\ OneRuns' /\ Cardinality(Running') <= Cpus
  BY <1>4, <1>5, <1>6, Moved
<1> HIDE DEF r
<1>8. /\ next' \in [Cell -> Cell \cup {NONE}] /\ next'[c.pos] = n /\ next'[n] = c.next
      /\ \A x \in Cell : x # c.pos => next'[x] = next[x]
  BY <1>1, <1>3, Facts
<1>9. Linked' = Linked \cup {n}
  <2>1. \A x \in heap : (\A u \in Thread : thread[u].at \in Early => thread[u].node # x) <=> x # n
    BY <1>1, <1>2, <1>7, Places
  <2>2. Linked = {HEAD} \cup {x \in heap : x # n}
    BY <2>1 DEF Linked
  <2>3. \A u \in Thread : thread'[u].at \notin Early
    BY <1>2, <1>4, <1>7, Places
  <2>4. Linked' = {HEAD} \cup heap
    BY <1>1, <2>3 DEF Linked
  <2> QED
    BY <1>3, <2>2, <2>4
<1>10. \A x \in Linked : next[x] \in Linked /\ x \in Cell /\ x # n
  BY <1>3, Facts DEF IInv, PrevInverts
<1>11. \A x \in Linked : x # c.pos => prev[next[x]] = x /\ next[x] # c.next
  BY <1>1, <1>2, <1>7, CutOnce
<1> HIDE DEF n, c
<1>12. TypeOK'
  BY <1>1, <1>7, <1>8 DEF IInv, TypeOK, Local
<1>13. Locals'
  <2>1. \A u \in Thread \ {t} : /\ thread'[u].at \notin Linking
                                /\ thread'[u].at = "alloc" => thread'[u].pos \in Linked'
    BY <1>7, <1>9, Facts
  <2> QED
    BY <1>1, <1>2, <1>3, <1>4, <1>7, <1>8, <1>9, <2>1, LocalsStep
<1>14. PrevInverts'
  <2>1. ASSUME NEW x \in Linked' PROVE next'[x] \in Linked' /\ prev'[next'[x]] = x
    BY <1>1, <1>3, <1>8, <1>9, <1>10, <1>11, <2>1
  <2>2. ASSUME NEW x \in Linked' PROVE \E y \in Linked' : next'[y] = x
    <3>1. CASE x = n
      BY <1>3, <1>8, <1>9, <3>1
    <3>2. CASE x = c.next
      BY <1>8, <1>9, <3>2
    <3>3. CASE x # n /\ x # c.next
      <4>1. PICK y \in Linked : next[y] = x
        BY <1>9, <2>2, <3>3 DEF IInv, PrevInverts
      <4> QED
        BY <1>3, <1>8, <1>9, <1>10, <3>3, <4>1
    <3> QED
      BY <3>1, <3>2, <3>3
  <2> QED
    BY <2>1, <2>2 DEF PrevInverts
<1>15. OneRing'
  <2> SUFFICES ASSUME NEW T \in SUBSET Linked', HEAD \in T,
                      \/ \A x \in T : next'[x] \in T
                      \/ \A x \in Linked' : next'[x] \in T => x \in T
               PROVE  T = Linked'
    BY DEF OneRing
  <2> DEFINE U == T \ {n}
  <2>1. U \in SUBSET Linked /\ HEAD \in U
    <3>1. HEAD # n
      BY <1>3, Facts
    <3> QED
      BY <1>9, <3>1
  <2>2. CASE \A x \in T : next'[x] \in T
    <3>1. \A x \in U : next[x] \in U
      BY <1>3, <1>8, <1>10, <2>1, <2>2
    <3>2. U = Linked
      BY <2>1, <3>1 DEF IInv, OneRing
    <3>3. n \in T
      BY <1>3, <1>8, <2>2, <3>2
    <3> QED
      BY <1>9, <3>2, <3>3
  <2>3. CASE \A x \in Linked' : next'[x] \in T => x \in T
    <3>1. \A x \in Linked : next[x] \in U => x \in U
      BY <1>3, <1>8, <1>9, <1>10, <2>1, <2>3
    <3>2. U = Linked
      BY <2>1, <3>1 DEF IInv, OneRing
    <3>3. n \in T
      BY <1>3, <1>8, <1>9, <2>3, <3>2
    <3> QED
      BY <1>9, <3>2, <3>3
  <2> QED
    BY <2>2, <2>3
<1>16. Caches'
  <2>1. \A u \in Thread : thread[u].at \notin {"begin", "end"}
    BY <1>1, <1>7, Places DEF Linking, c
  <2>2. Cardinality(heap) = count + 1
    BY <1>1, <1>2, Places DEF IInv, Caches, c
  <2>3. begin = next[HEAD] /\ next[end] = HEAD /\ end \in Linked
    BY <2>1 DEF IInv, Caches, At
  <2>4. begin' = next'[HEAD] \/ (At(t, "begin")' /\ thread'[t].pos = HEAD)
    BY <1>1, <1>4, <1>7, <1>8, <2>3, Facts DEF At
  <2>5. next'[end'] = HEAD \/ (/\ thread'[t].at \in {"begin", "end"} /\ thread'[t].pos = end'
                               /\ thread'[t].node \in Linked' /\ next'[thread'[t].node] = HEAD)
    BY <1>1, <1>3, <1>4, <1>7, <1>8, <1>9, <2>3, Facts
  <2>6. thread'[t].at \in Uncounted
    BY <1>2, <1>4, <1>7
  <2> QED
    BY <1>1, <1>9, <2>2, <2>3, <2>4, <2>5, <2>6 DEF Caches
<1> QED
  BY <1>7, <1>12, <1>13, <1>14, <1>15, <1>16 DEF IInv

(***************************************************************************)
(* The inductive step: the cached ends and the count                       *)
(***************************************************************************)

\* Behind list_add the ring is whole.
LEMMA RingWhole ==
    ASSUME IInv, NEW t \in Thread, thread[t].at \notin Cut, next' = next, prev' = prev, Linked' = Linked,
           \A u \in Thread \ {t} : thread[u].at \notin Linking
    PROVE  PrevInverts' /\ OneRing'
<1>1. \A x \in Linked : prev[next[x]] = x
  BY Places DEF IInv, PrevInverts
<1> QED
  BY <1>1, RingUntouched

LEMMA UpdateBeginInv ==
    ASSUME IInv, Cpus = 1, NEW t \in Thread, UpdateBegin(t)
    PROVE  IInv'
<1> DEFINE c == thread[t]
           r == [c EXCEPT !.at = "end"]
<1>1. /\ c.at = "begin" /\ begin' = IF c.pos = HEAD THEN c.node ELSE begin
      /\ next' = next /\ prev' = prev /\ end' = end /\ count' = count /\ heap' = heap
  BY DEF UpdateBegin, At, ring
<1>2. /\ {"begin", "end"} \subseteq Linking \cap Uncounted
      /\ {"begin", "end"} \cap (Early \cup Cut \cup {"next->prev", "new->prev", "prev->next"}) = {}
  BY DEF Early, Cut, Linking, Uncounted
<1>3. c.pos \in Linked /\ c.node \in heap /\ c.node \in Cell /\ next[c.pos] = c.node
  BY <1>1, <1>2, Facts DEF IInv, Locals
<1>4. r \in Local /\ r.at = "end" /\ r.pos = c.pos /\ r.node = c.node
  BY <1>2, Facts DEF Local
<1>5. thread' = [thread EXCEPT ![t] = r]
  BY Facts DEF UpdateBegin, Goto
<1> HIDE DEF r, c
<1>6. /\ thread'[t] = r /\ TypeOK' /\ OneRuns' /\ Linked' = Linked
      /\ \A u \in Thread \ {t} :
           /\ thread'[u].at \notin Linking /\ thread[u].at \notin Linking
           /\ thread'[u].at = "alloc" => thread'[u].pos \in Linked'
  BY <1>1, <1>2, <1>3, <1>4, <1>5, Inside DEF IInv, TypeOK, c
<1>7. Locals'
  BY <1>1, <1>2, <1>3, <1>4, <1>6, LocalsStep
<1>8. PrevInverts' /\ OneRing'
  BY <1>1, <1>2, <1>6, RingWhole DEF c
<1>9. Caches'
  <2>1. \A u \in Thread : thread[u].at \in {"begin", "end"} => u = t
    BY <1>2, <1>6
  <2>2. begin' = next'[HEAD]
    BY <1>1, <1>3, <2>1 DEF IInv, Caches, At, c
  <2>3. next[end] = HEAD \/ (c.pos = end /\ c.node \in Linked /\ next[c.node] = HEAD)
    BY <2>1 DEF IInv, Caches, c
  <2>4. next'[end'] = HEAD \/ (/\ thread'[t].at \in {"begin", "end"} /\ thread'[t].pos = end'
                               /\ thread'[t].node \in Linked' /\ next'[thread'[t].node] = HEAD)
    BY <1>1, <1>4, <1>6, <2>3
  <2>5. Cardinality(heap) = count + 1 /\ thread'[t].at \in Uncounted
    BY <1>1, <1>2, <1>4, <1>6 DEF IInv, Caches, c
  <2>6. end' \in Linked'
    BY <1>1, <1>6 DEF IInv, Caches
  <2> QED
    BY <1>1, <2>2, <2>4, <2>5, <2>6 DEF Caches
<1> QED
  BY <1>6, <1>7, <1>8, <1>9 DEF IInv

LEMMA UpdateEndInv ==
    ASSUME IInv, Cpus = 1, NEW t \in Thread, UpdateEnd(t)
    PROVE  IInv'
<1> DEFINE c == thread[t]
           r == [c EXCEPT !.at = "count"]
<1>1. /\ c.at = "end" /\ end' = IF c.pos = end THEN c.node ELSE end
      /\ next' = next /\ prev' = prev /\ begin' = begin /\ count' = count /\ heap' = heap
  BY DEF UpdateEnd, At, ring
<1>2. /\ {"end", "count"} \subseteq Linking \cap Uncounted
      /\ {"end", "count"} \cap (Early \cup Cut \cup {"next->prev", "new->prev", "prev->next"}) = {}
      /\ "count" \notin {"alloc", "begin", "end"}
  BY DEF Early, Cut, Linking, Uncounted
<1>3. c.pos \in Linked /\ c.node \in heap /\ c.node \in Cell /\ next[c.pos] = c.node /\ c.node # HEAD
  BY <1>1, <1>2, Facts DEF IInv, Locals
<1>4. r \in Local /\ r.at = "count" /\ r.pos = c.pos /\ r.node = c.node
  BY <1>2, Facts DEF Local
<1>5. thread' = [thread EXCEPT ![t] = r]
  BY Facts DEF UpdateEnd, Goto
<1> HIDE DEF r, c
<1>6. /\ thread'[t] = r /\ TypeOK' /\ OneRuns' /\ Linked' = Linked
      /\ \A u \in Thread \ {t} :
           /\ thread'[u].at \notin Linking /\ thread[u].at \notin Linking
           /\ thread'[u].at = "alloc" => thread'[u].pos \in Linked'
  BY <1>1, <1>2, <1>3, <1>4, <1>5, Inside DEF IInv, TypeOK, c
<1>7. Locals'
  BY <1>1, <1>2, <1>3, <1>4, <1>6, LocalsStep
<1>8. PrevInverts' /\ OneRing'
  BY <1>1, <1>2, <1>6, RingWhole DEF c
<1>9. Caches'
  <2>1. \A u \in Thread : thread[u].at \in {"begin", "end"} => u = t
    BY Places, <1>2, <1>6 DEF Linking
  <2>2. begin = next[HEAD]
    BY <1>1, <2>1 DEF IInv, Caches, At, c
  <2>3. next[end] = HEAD \/ (c.pos = end /\ c.node \in Linked /\ next[c.node] = HEAD)
    BY <2>1 DEF IInv, Caches, c
  <2>4. next'[end'] = HEAD /\ end' \in Linked'
    BY <1>1, <1>3, <1>6, <2>3 DEF IInv, Caches
  <2>5. Cardinality(heap) = count + 1 /\ thread'[t].at \in Uncounted
    BY <1>1, <1>2, <1>4, <1>6 DEF IInv, Caches, c
  <2> QED
    BY <1>1, <2>2, <2>4, <2>5 DEF Caches
<1> QED
  BY <1>6, <1>7, <1>8, <1>9 DEF IInv

LEMMA UpdateCountInv ==
    ASSUME IInv, Cpus = 1, IsFiniteSet(Node), NEW t \in Thread, UpdateCount(t)
    PROVE  IInv'
<1> DEFINE c == thread[t]
           r == [c EXCEPT !.at = "sync_unlock"]
<1>1. /\ c.at = "count" /\ count' = count + 1
      /\ next' = next /\ prev' = prev /\ begin' = begin /\ end' = end /\ heap' = heap
  BY DEF UpdateCount, At, ring
<1>2. /\ {"count", "sync_unlock"} \subseteq Linking /\ "count" \in Uncounted
      /\ {"count", "sync_unlock"} \cap (Early \cup Cut \cup {"next->prev", "new->prev", "prev->next"}) = {}
      /\ "sync_unlock" \notin Uncounted /\ {"count", "sync_unlock"} \cap {"alloc", "begin", "end"} = {}
  BY DEF Early, Cut, Linking, Uncounted
<1>3. c.pos \in Linked /\ c.node \in heap
  BY <1>1, <1>2, Facts DEF IInv, Locals
<1>4. r \in Local /\ r.at = "sync_unlock" /\ r.pos = c.pos /\ r.node = c.node
  BY <1>2, Facts DEF Local
<1>5. thread' = [thread EXCEPT ![t] = r]
  BY Facts DEF UpdateCount, Goto
<1> HIDE DEF r, c
<1>6. Cardinality(heap) = count + 1 /\ count' \in 0 .. Cardinality(Node)
  <2>1. Cardinality(heap) = count + 1
    BY <1>1, <1>2 DEF IInv, Caches, c
  <2>2. IsFiniteSet(heap) /\ Cardinality(heap) <= Cardinality(Node) /\ heap \subseteq Node
    BY Facts, FS_Subset
  <2>3. Cardinality(heap) \in Nat /\ Cardinality(Node) \in Nat
    BY <2>2, FS_CardinalityType
  <2> QED
    BY <1>1, <2>1, <2>2, <2>3
<1>7. /\ thread'[t] = r /\ TypeOK' /\ OneRuns' /\ Linked' = Linked
      /\ \A u \in Thread \ {t} :
           /\ thread'[u].at \notin Linking /\ thread[u].at \notin Linking
           /\ thread'[u].at = "alloc" => thread'[u].pos \in Linked'
  BY <1>1, <1>2, <1>3, <1>4, <1>5, <1>6, Inside DEF IInv, TypeOK, c
<1>8. Locals'
  BY <1>1, <1>2, <1>3, <1>4, <1>7, LocalsStep
<1>9. PrevInverts' /\ OneRing'
  BY <1>1, <1>2, <1>7, RingWhole DEF c
<1>10. Caches'
  <2>1. \A u \in Thread : thread[u].at \notin {"begin", "end"}
    BY <1>1, <1>2, <1>7 DEF Linking, c
  <2>2. begin = next[HEAD] /\ next[end] = HEAD /\ end \in Linked
    BY <2>1 DEF IInv, Caches, At
  <2>3. \A u \in Thread : thread'[u].at \notin Uncounted
    BY <1>2, <1>4, <1>7, Places
  <2> QED
    BY <1>1, <1>6, <1>7, <2>2, <2>3 DEF Caches
<1> QED
  BY <1>7, <1>8, <1>9, <1>10 DEF IInv

LEMMA SyncUnlockInv ==
    ASSUME IInv, Cpus = 1, NEW t \in Thread, sync_unlock(t)
    PROVE  IInv'
<1>1. /\ thread[t].at = "sync_unlock" /\ thread' = [thread EXCEPT ![t] = Idle]
      /\ next' = next /\ prev' = prev /\ begin' = begin /\ end' = end /\ count' = count /\ heap' = heap
  BY DEF sync_unlock, At, ring
<1>2. /\ "sync_unlock" \in Linking
      /\ {"sync_unlock", "idle"} \cap (Early \cup Cut \cup Uncounted \cup {"alloc", "begin", "end"}) = {}
      /\ "idle" \notin Linking \cup {"next->prev", "new->prev", "prev->next"}
  BY DEF Early, Cut, Linking, Uncounted
<1>3. Idle \in Local /\ Idle.at = "idle"
  BY DEF Idle, Local
<1>4. /\ thread'[t] = Idle /\ TypeOK' /\ OneRuns' /\ Linked' = Linked
      /\ \A u \in Thread \ {t} :
           /\ thread'[u].at \notin Linking /\ thread[u].at \notin Linking
           /\ thread'[u].at = "alloc" => thread'[u].pos \in Linked'
  BY <1>1, <1>2, <1>3, Inside DEF IInv, TypeOK
<1>5. Locals'
  BY <1>1, <1>2, <1>3, <1>4, LocalsStep
<1>6. PrevInverts' /\ OneRing'
  BY <1>1, <1>2, <1>4, RingWhole
<1>7. Caches'
  <2>1. \A u \in Thread : thread[u].at \notin {"begin", "end"} /\ thread[u].at \notin Uncounted
                          /\ thread'[u].at \notin Uncounted
    BY <1>1, <1>2, <1>3, <1>4, Places
  <2> QED
    BY <1>1, <1>4, <2>1 DEF IInv, Caches, At
<1> QED
  BY <1>4, <1>5, <1>6, <1>7 DEF IInv

(***************************************************************************)
(* The theorems                                                            *)
(***************************************************************************)

LEMMA InitInv ==
    ASSUME IsFiniteSet(Node)
    PROVE  Init => IInv
<1> SUFFICES ASSUME Init PROVE IInv
  OBVIOUS
<1>1. \A t \in Thread : thread[t] = Idle
  BY DEF Init
<1>2. /\ Idle.at = "idle" /\ Idle \in Local
      /\ "idle" \notin Linking \cup Early \cup Cut \cup Uncounted
                         \cup {"alloc", "next->prev", "new->prev", "prev->next", "begin", "end"}
  BY DEF Idle, Local, Linking, Early, Cut, Uncounted
<1>3. Running = {}
  BY <1>1, <1>2 DEF Running
<1>4. IsFiniteSet(Running) /\ Cardinality(Running) = 0
  BY <1>3, FS_EmptySet
<1>5. HEAD \in Cell /\ next[HEAD] = HEAD /\ prev[HEAD] = HEAD /\ begin = HEAD /\ end = HEAD
      /\ count = 0 /\ heap = {} /\ Linked = {HEAD}
  BY DEF Init, Cell, Linked
<1>6. Cardinality(Node) \in Nat /\ Cardinality(heap) = 0
  BY <1>5, FS_CardinalityType, FS_EmptySet
<1>7. TypeOK
  <2>1. next \in [Cell -> Cell \cup {NONE}] /\ prev \in [Cell -> Cell \cup {NONE}]
    BY DEF Init, Cell
  <2>2. thread \in [Thread -> Local]
    BY <1>2 DEF Init
  <2> QED
    BY <1>4, <1>5, <1>6, <2>1, <2>2, CpusAssumption DEF TypeOK, Local
<1>8. OneRuns /\ Locals
  BY <1>1, <1>2, <1>3, <1>4 DEF OneRuns, Locals
<1>9. PrevInverts /\ OneRing /\ Caches
  BY <1>1, <1>2, <1>5, <1>6 DEF PrevInverts, OneRing, Caches
<1> QED
  BY <1>7, <1>8, <1>9 DEF IInv

LEMMA NextInv ==
    ASSUME Cpus = 1, IsFiniteSet(Node), IInv, [Next]_vars
    PROVE  IInv'
<1>1. CASE UNCHANGED vars
  <2>1. /\ next' = next /\ prev' = prev /\ begin' = begin /\ end' = end /\ count' = count
        /\ heap' = heap /\ thread' = thread
    BY <1>1 DEF vars, ring
  <2>2. Running' = Running /\ Linked' = Linked
    BY <2>1 DEF Running, Linked
  <2>3. TypeOK' /\ OneRuns' /\ Locals'
    BY <2>1, <2>2 DEF IInv, TypeOK, OneRuns, Locals
  <2>4. PrevInverts' /\ OneRing' /\ Caches'
    BY <2>1, <2>2 DEF IInv, PrevInverts, OneRing, Caches, At
  <2> QED
    BY <2>3, <2>4 DEF IInv
<1>2. ASSUME NEW t \in Thread, llist_push_back(t) \/ llist_insert(t)
      PROVE  IInv'
  BY <1>2, PushBackInv, AllocInv, SyncLockInv, ReadNextInv, WriteNextPrevInv, WriteNewNextInv,
     WriteNewPrevInv, WritePrevNextInv, UpdateBeginInv, UpdateEndInv, UpdateCountInv,
     SyncUnlockInv DEF llist_insert
<1> QED
  BY <1>1, <1>2 DEF Next

\* Memory is finite; with a second processor the property fails.
LEMMA Inductive ==
    ASSUME Cpus = 1, IsFiniteSet(Node)
    PROVE  Spec => []IInv
<1>1. Init => IInv
  BY InitInv
<1>2. IInv /\ [Next]_vars => IInv'
  BY NextInv
<1> QED
  BY <1>1, <1>2, PTL DEF Spec

\* Type correctness of link_list.c's and list_add's variables on one processor.
THEOREM TypeCorrect ==
    ASSUME Cpus = 1, IsFiniteSet(Node)
    PROVE  Spec => []TypeOK
<1>1. IInv => TypeOK
  BY DEF IInv
<1> QED
  BY <1>1, Inductive, PTL

\* On one processor any number of threads push through the stub locks of
\* sync_lock.c into one list, each with an end it read before it slept, and
\* no node is lost, doubled or left out of begin, end or the count.
THEOREM OneProcessorLosesNothing ==
    ASSUME Cpus = 1, IsFiniteSet(Node)
    PROVE  Spec => []NothingLost
<1>1. IInv => NothingLost
  BY QuietIsWhole
<1> QED
  BY <1>1, Inductive, PTL

(***************************************************************************)
(* Refinement of AtomicInserts                                             *)
(***************************************************************************)

\* What the thread that moves to r shows of the ring, the end and its position.
ShownPos(r) == IF r.at \in Early \cup {"alloc"} THEN r.pos ELSE NONE
ShownEnd(r, e) == IF r.at \in {"begin", "end"} /\ r.pos = e THEN r.node ELSE e
ShownRing(r, mem) == {HEAD} \cup {n \in mem : r.at \in Early => r.node # n}

LEMMA StepView ==
    ASSUME IInv, Cpus = 1, NEW t \in Thread,
           thread[t].at \in Linking \/ Cardinality(Running) < Cpus,
           NEW r \in Local, thread' = [thread EXCEPT ![t] = r]
    PROVE  /\ PosRead[t] = ShownPos(thread[t])
           /\ PosRead' = [PosRead EXCEPT ![t] = ShownPos(r)]
           /\ PosRead = [PosRead EXCEPT ![t] = ShownPos(thread[t])]
           /\ EndToBe = ShownEnd(thread[t], end)
           /\ EndToBe' = ShownEnd(r, end')
           /\ Linked = ShownRing(thread[t], heap)
           /\ Linked' = ShownRing(r, heap')
<1>1. /\ thread'[t] = r
      /\ \A u \in Thread \ {t} : thread'[u] = thread[u] /\ thread[u].at \notin Linking
  BY Moved
<1>2. \A u \in Thread \ {t} : /\ thread[u].at \notin Early \cup {"begin", "end"}
                              /\ thread'[u].at \notin Early \cup {"begin", "end"}
  BY <1>1, Places DEF Linking
<1>3. /\ PosRead[t] = ShownPos(thread[t])
      /\ PosRead' = [PosRead EXCEPT ![t] = ShownPos(r)]
      /\ PosRead = [PosRead EXCEPT ![t] = ShownPos(thread[t])]
  <2>1. /\ PosRead = [u \in Thread |-> ShownPos(thread[u])]
        /\ PosRead' = [u \in Thread |-> ShownPos(thread'[u])]
    BY DEF PosRead, ShownPos
  <2>2. PosRead[t] = ShownPos(thread[t])
    BY <2>1
  <2>3. PosRead = [PosRead EXCEPT ![t] = PosRead[t]]
    BY <2>1
  <2>4. \A u \in Thread : ShownPos(thread'[u]) = IF u = t THEN ShownPos(r) ELSE PosRead[u]
    BY <1>1, <2>1
  <2>5. PosRead' = [u \in Thread |-> IF u = t THEN ShownPos(r) ELSE PosRead[u]]
    BY <2>1, <2>4
  <2>6. DOMAIN PosRead = Thread
    BY <2>1
  <2>7. PosRead' = [PosRead EXCEPT ![t] = ShownPos(r)]
    BY <2>5, <2>6
  <2> QED
    BY <2>2, <2>3, <2>7
<1>4. EndToBe = ShownEnd(thread[t], end)
  <2>1. Ending = IF thread[t].at \in {"begin", "end"} /\ thread[t].pos = end
                 THEN {t} ELSE {}
    BY <1>2 DEF Ending
  <2> QED
    BY <2>1 DEF EndToBe, ShownEnd
<1>5. EndToBe' = ShownEnd(r, end')
  <2>1. Ending' = IF r.at \in {"begin", "end"} /\ r.pos = end' THEN {t} ELSE {}
    BY <1>1, <1>2 DEF Ending
  <2> QED
    BY <1>1, <2>1 DEF EndToBe, ShownEnd
<1>6. Linked = ShownRing(thread[t], heap)
  BY <1>2 DEF Linked, ShownRing
<1>7. Linked' = ShownRing(r, heap')
  BY <1>1, <1>2 DEF Linked, ShownRing
<1> QED
  BY <1>3, <1>4, <1>5, <1>6, <1>7

\* A step that shows the same ring, end and position is not seen outside.
LEMMA Unseen ==
    ASSUME IInv, Cpus = 1, NEW t \in Thread,
           thread[t].at \in Linking \/ Cardinality(Running) < Cpus,
           NEW r \in Local, thread' = [thread EXCEPT ![t] = r],
           ShownPos(r) = ShownPos(thread[t]),
           ShownEnd(r, end') = ShownEnd(thread[t], end),
           ShownRing(r, heap') = ShownRing(thread[t], heap),
           \A c \in Linked : next'[c] = next[c]
    PROVE  UNCHANGED Atomic!vars
<1>1. PosRead' = PosRead /\ EndToBe' = EndToBe /\ Linked' = Linked
  <2>1. /\ PosRead' = [PosRead EXCEPT ![t] = ShownPos(r)]
        /\ PosRead = [PosRead EXCEPT ![t] = ShownPos(thread[t])]
        /\ EndToBe = ShownEnd(thread[t], end) /\ EndToBe' = ShownEnd(r, end')
        /\ Linked = ShownRing(thread[t], heap) /\ Linked' = ShownRing(r, heap')
    BY StepView
  <2> QED
    BY <2>1
<1>2. After' = After
  BY <1>1 DEF After
<1> QED
  BY <1>1, <1>2 DEF Atomic!vars

\* llist_push_back is the call, as seen from outside.
LEMMA CallSeen ==
    ASSUME IInv, Cpus = 1, NEW t \in Thread, llist_push_back(t)
    PROVE  Atomic!Call(t)
<1> DEFINE r == [thread[t] EXCEPT !.at = "alloc", !.pos = end]
<1>1. /\ thread[t].at = "idle" /\ Cardinality(Running) < Cpus
      /\ next' = next /\ end' = end /\ heap' = heap
  BY DEF llist_push_back, At, ring
<1>2. end \in Linked
  BY DEF IInv, Caches
<1>3. r \in Local /\ r.at = "alloc" /\ r.pos = end
  BY <1>2, Facts DEF Local
<1>4. thread' = [thread EXCEPT ![t] = r]
  BY Facts DEF llist_push_back
<1> HIDE DEF r
<1>5. "idle" \notin Early \cup {"alloc", "begin", "end"} /\ "alloc" \notin Early
  BY DEF Early
<1>6. /\ ShownPos(thread[t]) = NONE /\ ShownPos(r) = end
      /\ ShownEnd(thread[t], end) = end /\ ShownEnd(r, end') = end
      /\ ShownRing(thread[t], heap) = ShownRing(r, heap')
  BY <1>1, <1>3, <1>5 DEF ShownPos, ShownEnd, ShownRing
<1>7. /\ PosRead[t] = NONE /\ PosRead' = [PosRead EXCEPT ![t] = end]
      /\ EndToBe = end /\ EndToBe' = end /\ Linked' = Linked
  BY ZenonT(30), <1>1, <1>3, <1>4, <1>6, StepView
<1>8. After' = After
  BY <1>1, <1>7 DEF After
<1> QED
  BY <1>7, <1>8 DEF Atomic!Call

\* Memory is not seen, and a failed allocation is the end of the caller.
LEMMA AllocSeen ==
    ASSUME IInv, Cpus = 1, NEW t \in Thread, allocator_mem_alloc(t)
    PROVE  Atomic!Die(t) \/ UNCHANGED Atomic!vars
<1>1. /\ thread[t].at = "alloc" /\ Cardinality(Running) < Cpus
      /\ next' = next /\ end' = end
  BY DEF allocator_mem_alloc, At, ring
<1>2. /\ "alloc" \notin Early \cup {"begin", "end"} /\ "sync_lock" \in Early
      /\ "dead" \notin Early \cup {"alloc", "begin", "end"}
  BY DEF Early
<1>3. CASE /\ thread' = [thread EXCEPT ![t] = [Idle EXCEPT !.at = "dead"]]
           /\ heap' = heap
  <2> DEFINE r == [Idle EXCEPT !.at = "dead"]
  <2>1. r \in Local /\ r.at = "dead"
    BY DEF Local, Idle
  <2>2. thread' = [thread EXCEPT ![t] = r]
    BY <1>3
  <2> HIDE DEF r
  <2>3. thread[t].pos # NONE
    BY <1>1, Facts, HeadAssumption DEF Cell
  <2>4. /\ ShownPos(thread[t]) # NONE /\ ShownPos(r) = NONE
        /\ ShownEnd(thread[t], end) = ShownEnd(r, end')
        /\ ShownRing(thread[t], heap) = ShownRing(r, heap')
    BY <1>1, <1>2, <1>3, <2>1, <2>3 DEF ShownPos, ShownEnd, ShownRing
  <2>5. /\ PosRead[t] # NONE /\ PosRead' = [PosRead EXCEPT ![t] = NONE]
        /\ EndToBe' = EndToBe /\ Linked' = Linked
    BY <1>1, <2>1, <2>2, <2>4, StepView
  <2>6. After' = After
    BY <1>1, <2>5 DEF After
  <2> QED
    BY <2>5, <2>6 DEF Atomic!Die
<1>4. ASSUME NEW n \in Node \ heap, heap' = heap \cup {n},
             thread' = [thread EXCEPT ![t].at = "sync_lock", ![t].node = n]
      PROVE  UNCHANGED Atomic!vars
  <2> DEFINE r == [thread[t] EXCEPT !.at = "sync_lock", !.node = n]
  <2>1. r \in Local /\ r.at = "sync_lock" /\ r.node = n /\ r.pos = thread[t].pos
    BY Facts DEF Local, Linking
  <2>2. thread' = [thread EXCEPT ![t] = r]
    BY <1>4, Facts
  <2> HIDE DEF r
  <2>3. /\ ShownPos(r) = ShownPos(thread[t])
        /\ ShownEnd(r, end') = ShownEnd(thread[t], end)
        /\ ShownRing(r, heap') = ShownRing(thread[t], heap)
    BY <1>1, <1>2, <1>4, <2>1 DEF ShownPos, ShownEnd, ShownRing
  <2> QED
    BY <1>1, <2>1, <2>2, <2>3, Unseen
<1> QED
  BY <1>3, <1>4 DEF allocator_mem_alloc

\* Up to the write to prev->next, list_add does nothing that is seen.
LEMMA PreparationUnseen ==
    ASSUME IInv, Cpus = 1, NEW t \in Thread,
           sync_lock(t) \/ ReadNext(t) \/ WriteNextPrev(t) \/ WriteNewNext(t) \/ WriteNewPrev(t)
    PROVE  UNCHANGED Atomic!vars
<1>1. PICK to \in Early : \E x \in Cell \cup {NONE} :
        thread' = [thread EXCEPT ![t] = [thread[t] EXCEPT !.at = to, !.next = x]]
  <2>1. CASE ReadNext(t)
    <3>1. next[thread[t].pos] \in Cell \cup {NONE}
      BY <2>1, Facts, Places DEF ReadNext, At, Linking
    <3> QED
      BY <2>1, <3>1, Facts DEF ReadNext, Early
  <2>2. CASE sync_lock(t) \/ WriteNextPrev(t) \/ WriteNewNext(t) \/ WriteNewPrev(t)
    <3>1. thread[t].next \in Cell \cup {NONE}
      BY Facts DEF Local
    <3>2. \E to \in Early : thread' = [thread EXCEPT ![t].at = to]
      BY <2>2 DEF sync_lock, WriteNextPrev, WriteNewNext, WriteNewPrev, Goto, Early
    <3>3. PICK to \in Early : thread' = [thread EXCEPT ![t].at = to]
      BY <3>2
    <3>4. [thread EXCEPT ![t].at = to]
            = [thread EXCEPT ![t] = [thread[t] EXCEPT !.at = to, !.next = thread[t].next]]
      BY Facts DEF Local
    <3> QED
      BY <3>1, <3>3, <3>4
  <2> QED
    BY <2>1, <2>2
<1>2. PICK x \in Cell \cup {NONE} :
        thread' = [thread EXCEPT ![t] = [thread[t] EXCEPT !.at = to, !.next = x]]
  BY <1>1
<1> DEFINE r == [thread[t] EXCEPT !.at = to, !.next = x]
<1>3. /\ thread[t].at \in Early /\ end' = end /\ heap' = heap
      /\ next' = next \/ next' = [next EXCEPT ![thread[t].node] = thread[t].next]
  BY DEF sync_lock, ReadNext, WriteNextPrev, WriteNewNext, WriteNewPrev, At, Early, ring
<1>4. thread[t].at \in Linking /\ to \in Linking
  BY <1>3, Places
<1>5. r \in Local /\ r.at = to /\ r.pos = thread[t].pos /\ r.node = thread[t].node
  BY <1>4, Facts DEF Local
<1>6. thread' = [thread EXCEPT ![t] = r]
  BY <1>2
<1> HIDE DEF r
<1>7. \A c \in Linked : next'[c] = next[c]
  BY <1>3, Facts
<1>8. /\ ShownPos(r) = ShownPos(thread[t])
      /\ ShownEnd(r, end') = ShownEnd(thread[t], end)
      /\ ShownRing(r, heap') = ShownRing(thread[t], heap)
  <2>1. "begin" \notin Early /\ "end" \notin Early
    BY DEF Early
  <2> QED
    BY <1>3, <1>5, <2>1 DEF ShownPos, ShownEnd, ShownRing
<1> QED
  BY <1>4, <1>5, <1>6, <1>7, <1>8, Unseen

\* The write to prev->next is the insertion.
LEMMA InsertSeen ==
    ASSUME IInv, Cpus = 1, NEW t \in Thread, WritePrevNext(t)
    PROVE  thread[t].node \in Node /\ Atomic!Insert(t, thread[t].node)
<1> DEFINE c == thread[t]
           n == c.node
           r == [c EXCEPT !.at = "begin"]
<1>1. /\ c.at = "prev->next" /\ next' = [next EXCEPT ![c.pos] = n]
      /\ end' = end /\ heap' = heap
  BY DEF WritePrevNext, At
<1>2. /\ "prev->next" \in Cut /\ "begin" \in Linking
      /\ "begin" \notin Early \cup {"alloc"}
      /\ "prev->next" \in Early /\ "prev->next" \notin {"begin", "end"}
  BY DEF Early, Cut, Linking
<1>3. c.pos \in Linked /\ n \in heap /\ n \in Cell /\ n \notin Linked /\ next[n] = next[c.pos]
  BY <1>1, <1>2, Places, Facts DEF IInv, Locals
<1>4. r \in Local /\ r.at = "begin" /\ r.pos = c.pos /\ r.node = n
  BY <1>2, Facts DEF Local
<1>5. thread' = [thread EXCEPT ![t] = r]
  BY Facts DEF WritePrevNext, Goto
<1>6. c.at \in Linking
  BY <1>1, <1>2, Places
<1>7. n \in Node /\ HEAD \notin heap
  BY <1>3, Facts
<1> HIDE DEF r, n, c
<1>8. /\ PosRead[t] = ShownPos(c) /\ PosRead' = [PosRead EXCEPT ![t] = ShownPos(r)]
      /\ EndToBe = ShownEnd(c, end) /\ EndToBe' = ShownEnd(r, end')
      /\ Linked = ShownRing(c, heap) /\ Linked' = ShownRing(r, heap')
  BY <1>4, <1>5, <1>6, StepView DEF c
<1>9. PosRead[t] = c.pos /\ PosRead' = [PosRead EXCEPT ![t] = NONE]
  BY <1>1, <1>2, <1>4, <1>8 DEF ShownPos
<1>10. EndToBe = end /\ EndToBe' = IF c.pos = end THEN n ELSE end
  BY <1>1, <1>2, <1>4, <1>8 DEF ShownEnd
<1>11. Linked' = Linked \cup {n}
  BY <1>1, <1>2, <1>3, <1>4, <1>7, <1>8 DEF ShownRing, n
<1>12. DOMAIN After = Linked /\ \A x \in Linked : After[x] = next[x]
  BY DEF After
<1>13. After' = [x \in Linked \cup {n} |->
                   IF x = c.pos THEN n ELSE After[IF x = n THEN c.pos ELSE x]]
  <2>1. \A x \in Linked \cup {n} : x \in Cell
    BY <1>3, Facts
  <2>2. \A x \in Cell : next'[x] = IF x = c.pos THEN n ELSE next[x]
    BY <1>1, Facts
  <2>3. \A x \in Linked \cup {n} :
          next'[x] = IF x = c.pos THEN n ELSE After[IF x = n THEN c.pos ELSE x]
    BY <1>3, <1>12, <2>1, <2>2
  <2>4. After' = [x \in Linked \cup {n} |-> next'[x]]
    BY <1>11 DEF After
  <2> QED
    BY <2>3, <2>4
<1>14. After' = Atomic!Behind(PosRead[t], n)
  BY <1>9, <1>12, <1>13 DEF Atomic!Behind
<1>15. Atomic!Insert(t, n)
  BY <1>3, <1>9, <1>10, <1>12, <1>14 DEF Atomic!Insert
<1> QED
  BY <1>7, <1>15 DEF n, c

\* What follows has been done already, as seen from outside.
LEMMA CachesUnseen ==
    ASSUME IInv, Cpus = 1, NEW t \in Thread,
           UpdateBegin(t) \/ UpdateEnd(t) \/ UpdateCount(t) \/ sync_unlock(t)
    PROVE  UNCHANGED Atomic!vars
<1> DEFINE c == thread[t]
<1>1. /\ next' = next /\ heap' = heap
      /\ c.at \in {"begin", "end", "count", "sync_unlock"}
  BY DEF UpdateBegin, UpdateEnd, UpdateCount, sync_unlock, At, ring
<1>2. /\ {"begin", "end", "count", "sync_unlock"} \subseteq Linking
      /\ {"begin", "end", "count", "sync_unlock", "idle"} \cap (Early \cup {"alloc"}) = {}
  BY DEF Linking, Early
<1>3. c.node \in heap /\ HEAD \notin heap /\ c \in Local
  BY <1>1, <1>2, Facts
<1>4. c.pos \in Linked /\ (c.at \in {"begin", "end"} => next[c.pos] = c.node)
  BY <1>1, <1>2, Facts DEF IInv, Locals
<1>5. ASSUME NEW r \in Local, thread' = [thread EXCEPT ![t] = r],
             r.at \notin Early \cup {"alloc"},
             ShownEnd(r, end') = ShownEnd(c, end)
      PROVE  UNCHANGED Atomic!vars
  <2>1. ShownPos(r) = ShownPos(c) /\ ShownRing(r, heap') = ShownRing(c, heap)
    BY <1>1, <1>2, <1>5 DEF ShownPos, ShownRing
  <2> QED
    BY <1>1, <1>2, <1>5, <2>1, Unseen
<1>6. CASE UpdateBegin(t)
  <2> DEFINE r == [c EXCEPT !.at = "end"]
  <2>1. c.at = "begin" /\ end' = end /\ thread' = [thread EXCEPT ![t] = r]
    BY <1>6, Facts DEF UpdateBegin, At, Goto
  <2>2. r \in Local /\ r.at = "end" /\ r.pos = c.pos /\ r.node = c.node
    BY <1>2, <1>3 DEF Local
  <2> HIDE DEF r, c
  <2> QED
    BY <1>2, <1>5, <2>1, <2>2 DEF ShownEnd
<1>7. CASE UpdateEnd(t)
  <2> DEFINE r == [c EXCEPT !.at = "count"]
  <2>1. /\ c.at = "end" /\ end' = IF c.pos = end THEN c.node ELSE end
        /\ thread' = [thread EXCEPT ![t] = r]
    BY <1>7, Facts DEF UpdateEnd, At, Goto
  <2>2. r \in Local /\ r.at = "count" /\ r.pos = c.pos /\ r.node = c.node
    BY <1>2, <1>3 DEF Local
  <2> HIDE DEF r, c
  <2> QED
    BY <1>2, <1>5, <2>1, <2>2 DEF ShownEnd
<1>8. CASE UpdateCount(t)
  <2> DEFINE r == [c EXCEPT !.at = "sync_unlock"]
  <2>1. c.at = "count" /\ end' = end /\ thread' = [thread EXCEPT ![t] = r]
    BY <1>8, Facts DEF UpdateCount, At, Goto
  <2>2. r \in Local /\ r.at = "sync_unlock"
    BY <1>2, <1>3 DEF Local
  <2> HIDE DEF r, c
  <2> QED
    BY <1>2, <1>5, <2>1, <2>2 DEF ShownEnd
<1>9. CASE sync_unlock(t)
  <2>1. c.at = "sync_unlock" /\ end' = end /\ thread' = [thread EXCEPT ![t] = Idle]
    BY <1>9 DEF sync_unlock, At
  <2>2. Idle \in Local /\ Idle.at = "idle"
    BY DEF Idle, Local
  <2> QED
    BY <1>2, <1>5, <2>1, <2>2 DEF ShownEnd
<1> QED
  BY <1>6, <1>7, <1>8, <1>9

\* llist_push_back under the stub locks of sync_lock.c, with list_add spread
\* over five memory accesses and the caches updated after it, is on one
\* processor the insertion in one step that its callers take it for.
THEOREM RefinesAtomicInserts ==
    ASSUME Cpus = 1, IsFiniteSet(Node)
    PROVE  Spec => ImplementsAtomicInserts
<1>1. Init => Atomic!Init
  <2> SUFFICES ASSUME Init PROVE Atomic!Init
    OBVIOUS
  <2>1. \A t \in Thread : thread[t] = Idle
    BY DEF Init
  <2>2. Idle.at \notin Early \cup {"alloc", "begin", "end"}
    BY DEF Idle, Early
  <2>3. Linked = {HEAD} /\ next[HEAD] = HEAD /\ end = HEAD
    BY DEF Init, Linked, Cell
  <2>4. After = [c \in {HEAD} |-> HEAD]
    BY <2>3 DEF After
  <2>5. Ending = {}
    BY <2>1, <2>2 DEF Ending
  <2>6. EndToBe = HEAD
    BY <2>3, <2>5 DEF EndToBe
  <2>7. PosRead = [t \in Thread |-> NONE]
    BY <2>1, <2>2 DEF PosRead
  <2> QED
    BY <2>4, <2>6, <2>7 DEF Atomic!Init
<1>2. IInv /\ [Next]_vars => [Atomic!Next]_(Atomic!vars)
  <2> SUFFICES ASSUME IInv, [Next]_vars PROVE [Atomic!Next]_(Atomic!vars)
    OBVIOUS
  <2>1. CASE UNCHANGED vars
    BY <2>1 DEF vars, ring, Atomic!vars, After, EndToBe, PosRead, Linked, Ending
  <2>2. ASSUME NEW t \in Thread, llist_push_back(t) \/ llist_insert(t)
        PROVE  [Atomic!Next]_(Atomic!vars)
    <3>1. CASE llist_push_back(t)
      BY <3>1, CallSeen DEF Atomic!Next
    <3>2. CASE allocator_mem_alloc(t)
      BY <3>2, AllocSeen DEF Atomic!Next
    <3>3. CASE WritePrevNext(t)
      BY <3>3, InsertSeen DEF Atomic!Next
    <3> QED
      BY <2>2, <3>1, <3>2, <3>3, PreparationUnseen, CachesUnseen DEF llist_insert
  <2> QED
    BY <2>1, <2>2 DEF Next
<1> QED
  BY <1>1, <1>2, Inductive, PTL DEF Spec, ImplementsAtomicInserts, Atomic!Spec
=============================================================================
