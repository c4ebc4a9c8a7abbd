---------------------------- MODULE HashMapProofs ----------------------------
(***************************************************************************)
(* Proofs about HashMap, for every set of nodes and keys, every number of  *)
(* buckets and every hash function.                                        *)
(***************************************************************************)
EXTENDS HashMap, SequenceTheorems, WellFoundedInduction, TLAPS

USE DEF Bucket, Pos, Allocated

(***************************************************************************)
(* Sequences: the two ways a chain changes                                 *)
(***************************************************************************)

\* hlist_add_head: the new node is first, the others move up by one.
LEMMA ConsProperties ==
    ASSUME NEW S, NEW s \in Seq(S), NEW n \in S
    PROVE  /\ <<n>> \o s \in Seq(S)
           /\ Len(<<n>> \o s) = Len(s) + 1
           /\ \A j \in 1 .. Len(s) + 1 :
                (<<n>> \o s)[j] = IF j = 1 THEN n ELSE s[j - 1]
  OBVIOUS

\* hlist_del: the nodes behind the removed one move down by one.
LEMMA RemoveAtProperties ==
    ASSUME NEW S, NEW s \in Seq(S), NEW i \in 1 .. Len(s)
    PROVE  /\ RemoveAt(s, i) \in Seq(S)
           /\ Len(RemoveAt(s, i)) = Len(s) - 1
           /\ \A j \in 1 .. Len(s) - 1 :
                RemoveAt(s, i)[j] = IF j < i THEN s[j] ELSE s[j + 1]
<1> DEFINE l == SubSeq(s, 1, i - 1)
           r == SubSeq(s, i + 1, Len(s))
<1>1. Len(s) \in Nat /\ i \in Nat /\ i >= 1 /\ i <= Len(s)
  OBVIOUS
<1>2. l \in Seq(S) /\ Len(l) = i - 1 /\ \A j \in 1 .. i - 1 : l[j] = s[j]
  BY <1>1
<1>3. r \in Seq(S) /\ Len(r) = Len(s) - i
      /\ \A j \in 1 .. Len(s) - i : r[j] = s[i + j]
  BY <1>1
<1>4. RemoveAt(s, i) = l \o r
  BY DEF RemoveAt
<1> HIDE DEF l, r
<1>5. /\ l \o r \in Seq(S)
      /\ Len(l \o r) = Len(l) + Len(r)
      /\ \A j \in 1 .. Len(l) + Len(r) :
           (l \o r)[j] = IF j <= Len(l) THEN l[j] ELSE r[j - Len(l)]
  BY <1>2, <1>3, ConcatProperties
<1>6. ASSUME NEW j \in 1 .. Len(s) - 1
      PROVE  (l \o r)[j] = IF j < i THEN s[j] ELSE s[j + 1]
  <2>1. CASE j < i
    BY <1>1, <1>2, <1>3, <1>5, <2>1
  <2>2. CASE j >= i
    <3>1. (l \o r)[j] = r[j - (i - 1)]
      BY <1>1, <1>2, <1>3, <1>5, <2>2
    <3>2. j - (i - 1) \in 1 .. Len(s) - i /\ i + (j - (i - 1)) = j + 1
      BY <1>1, <2>2
    <3>3. r[j - (i - 1)] = s[j + 1]
      BY <1>3, <3>2
    <3> QED
      BY <1>1, <2>2, <3>1, <3>3
  <2>3. j < i \/ j >= i
    BY <1>1
  <2> QED
    BY <2>1, <2>2, <2>3
<1> QED
  BY <1>1, <1>2, <1>3, <1>4, <1>5, <1>6

\* A chain is empty exactly when its length is 0.
LEMMA EmptyLen ==
    ASSUME NEW S, NEW s \in Seq(S)
    PROVE  /\ s = <<>> <=> Len(s) = 0
           /\ Len(s) \in Nat
           /\ DOMAIN s = 1 .. Len(s)
           /\ \A i \in 1 .. Len(s) : s[i] \in S
  OBVIOUS

\* A set of bucket numbers that is not empty has a least one.
LEMMA LeastExists ==
    ASSUME NEW T, T \subseteq Nat, T # {}
    PROVE  \E m \in T : \A d \in T : m <= d
<1> DEFINE R == OpToRel(<, Nat)
<1>1. IsWellFoundedOn(R, Nat)
  BY NatLessThanWellFounded
<1>2. \A x, y \in Nat : x < y => <<x, y>> \in R
  BY DEF OpToRel
<1> HIDE DEF R
<1>3. PICK m \in T : \A d \in T : ~(<<d, m>> \in R)
  BY <1>1, WFMin
<1>4. \A d \in T : ~(d < m)
  BY <1>2, <1>3
<1> QED
  BY <1>4

(***************************************************************************)
(* Positions                                                               *)
(***************************************************************************)

\* FirstFrom(b) is the first node at or behind bucket b, or the end position
\* when every bucket from b on is empty.
LEMMA FirstFromProperties ==
    ASSUME TypeOK, NEW b \in Nat
    PROVE  LET p == FirstFrom(b) IN
           /\ p \in [node : Node \cup {NULL}, bucket : Bucket]
           /\ p.node = NULL => \A c \in Bucket : c >= b => hlist[c] = <<>>
           /\ p.node # NULL => /\ p.bucket >= b
                               /\ hlist[p.bucket] # <<>>
                               /\ p.node = hlist[p.bucket][1]
                               /\ \A c \in Bucket :
                                    c >= b /\ c < p.bucket => hlist[c] = <<>>
<1> DEFINE full == {c \in Bucket : c >= b /\ hlist[c] # <<>>}
           least == CHOOSE c \in full : \A d \in full : c <= d
<1>0. hlist \in [Bucket -> Seq(Node)]
  BY DEF TypeOK
<1>1. CASE full = {}
  <2>1. FirstFrom(b) = Pos(NULL, BucketSize - 1)
    BY <1>1 DEF FirstFrom
  <2> QED
    BY <1>1, <2>1, BucketSizeAssumption
<1>2. CASE full # {}
  <2>1. least \in full /\ \A d \in full : least <= d
    <3>1. full \subseteq Nat
      BY BucketSizeAssumption
    <3>2. \E m \in full : \A d \in full : m <= d
      BY <1>2, <3>1, LeastExists
    <3> QED
      BY <3>2
  <2>2. FirstFrom(b) = Pos(hlist[least][1], least)
    BY <1>2 DEF FirstFrom
  <2>3. hlist[least] # <<>> /\ hlist[least] \in Seq(Node) /\ least \in Bucket
        /\ least >= b
    BY <2>1, <1>0
  <2>4. hlist[least][1] \in Node
    BY <2>3, EmptyLen
  <2>5. \A c \in Bucket : c >= b /\ c < least => hlist[c] = <<>>
    <3>1. least \in Nat
      BY <2>3
    <3> HIDE DEF least
    <3> QED
      BY <2>1, <3>1, BucketSizeAssumption
  <2> QED
    BY <2>2, <2>3, <2>4, <2>5, NullAssumption, BucketSizeAssumption
<1> QED
  BY <1>1, <1>2

\* The position behind the i-th node of bucket b is a position again.
LEMMA PosNextType ==
    ASSUME TypeOK, NEW b \in Bucket, NEW i \in DOMAIN hlist[b]
    PROVE  hash_map_pos_next(b, i) \in [node : Node \cup {NULL}, bucket : Bucket]
<1>1. hlist[b] \in Seq(Node) /\ i \in 1 .. Len(hlist[b]) /\ Len(hlist[b]) \in Nat
  BY EmptyLen DEF TypeOK
<1>2. b + 1 \in Nat
  BY BucketSizeAssumption
<1>3. CASE i < Len(hlist[b])
  <2>1. hlist[b][i + 1] \in Node
    BY <1>1, <1>3, EmptyLen
  <2> QED
    BY <1>3, <2>1, BucketSizeAssumption DEF hash_map_pos_next
<1>4. CASE ~(i < Len(hlist[b]))
  BY <1>2, <1>4, FirstFromProperties DEF hash_map_pos_next
<1> QED
  BY <1>3, <1>4

(***************************************************************************)
(* Type correctness                                                        *)
(***************************************************************************)

\* Every reachable state of the map is well typed, whatever the caller's
\* hash function does.
THEOREM TypeCorrect == Spec => []TypeOK
<1>1. Init => TypeOK
  BY BucketSizeAssumption DEF Init, TypeOK, NoWalk
<1>2. TypeOK /\ [Next]_vars => TypeOK'
  <2> SUFFICES ASSUME TypeOK, [Next]_vars PROVE TypeOK'
    OBVIOUS
  <2>1. ASSUME NEW k \in Key, NEW n \in Node, hash_map_insert(k, n)
        PROVE  TypeOK'
    <3> DEFINE b == HashFunc[k]
    <3>1. b \in Bucket
      BY <2>1, HashFuncAssumption, BucketSizeAssumption DEF hash_map_insert
    <3>2. <<n>> \o hlist[b] \in Seq(Node)
      BY <3>1, ConsProperties DEF TypeOK
    <3>3. hlist' \in [Bucket -> Seq(Node)]
      BY <2>1, <3>1, <3>2 DEF hash_map_insert, TypeOK
    <3>4. begin' \in [node : Node \cup {NULL}, bucket : Bucket]
      BY <2>1, <3>1, BucketSizeAssumption DEF hash_map_insert, TypeOK
    <3>5. Allocated' \subseteq Node /\ key' \in [Allocated' -> Key]
      BY <2>1 DEF hash_map_insert, Store, TypeOK
    <3> QED
      BY <2>1, <3>3, <3>4, <3>5 DEF hash_map_insert, TypeOK
  <2>2. ASSUME NEW k \in Key, NEW n \in Node, InsertBadHash(k, n)
        PROVE  TypeOK'
    BY <2>2 DEF InsertBadHash, Store, TypeOK
  <2>3. ASSUME NEW k \in Key, Search(k)
        PROVE  TypeOK'
    <3>1. hash_map_search(k).node \in Node \cup {NULL}
      <4> DEFINE b == HashFunc[k]
                 I == {i \in 1 .. Len(hlist[b]) : key[hlist[b][i]] = k}
      <4>1. CASE b >= BucketSize
        BY <4>1 DEF hash_map_search
      <4>2. CASE ~(b >= BucketSize)
        <5>1. b \in Bucket
          BY <4>2, HashFuncAssumption, BucketSizeAssumption
        <5>2. hlist[b] \in Seq(Node)
          BY <5>1 DEF TypeOK
        <5>3. CASE I = {}
          BY <4>2, <5>3 DEF hash_map_search, SelectInSeq
        <5>4. CASE I # {}
          <6>1. I \subseteq Nat
            BY <5>2
          <6>2. Min(I) \in I
            BY <5>4, <6>1, LeastExists DEF Min
          <6>3. hlist[b][Min(I)] \in Node
            BY <5>2, <6>2, EmptyLen
          <6>4. hash_map_search(k).node = hlist[b][Min(I)]
            BY <4>2, <5>4, <6>1, <6>2 DEF hash_map_search, SelectInSeq
          <6> QED
            BY <6>3, <6>4
        <5> QED
          BY <5>3, <5>4
      <4> QED
        BY <4>1, <4>2
    <3> QED
      BY <2>3, <3>1 DEF Search, TypeOK
  <2>4. ASSUME NEW b \in Bucket, NEW i \in DOMAIN hlist[b], hash_map_delete(b, i),
               phase' \in {"ready", "destroying"}, UNCHANGED found
        PROVE  TypeOK'
    <3>1. hlist[b] \in Seq(Node) /\ i \in 1 .. Len(hlist[b])
      BY EmptyLen DEF TypeOK
    <3>2. RemoveAt(hlist[b], i) \in Seq(Node)
      BY <3>1, RemoveAtProperties
    <3>3. hlist' \in [Bucket -> Seq(Node)]
      BY <2>4, <3>2 DEF hash_map_delete, TypeOK
    <3>4. begin' \in [node : Node \cup {NULL}, bucket : Bucket]
      BY <2>4, PosNextType DEF hash_map_delete, TypeOK
    <3>5. Allocated' \subseteq Node /\ key' \in [Allocated' -> Key]
      BY <2>4 DEF hash_map_delete, TypeOK, Restrict
    <3>6. /\ walk' \in [at : {"idle", "func", "next", "dangling", "done"},
                     pos : [node : Node \cup {NULL}, bucket : Bucket],
                     due : SUBSET Node, visited : SUBSET Node, again : BOOLEAN]
          /\ walk'.at \in {"func", "next"} => walk'.pos.node # NULL
      BY <2>4 DEF hash_map_delete, TypeOK
    <3> QED
      BY <2>4, <3>3, <3>4, <3>5, <3>6 DEF TypeOK
  <2>5. CASE Create
    BY <2>5, BucketSizeAssumption DEF Create, TypeOK, NoWalk
  <2>6. CASE CreateNoMem \/ DestroyStart \/ DestroyEnd
    BY <2>6 DEF CreateNoMem, DestroyStart, DestroyEnd, TypeOK
  <2>7. CASE ForEachStart
    <3>1. Linked \subseteq Node
      BY EmptyLen DEF Linked, ToSet, TypeOK
    <3> QED
      BY <2>7, <3>1 DEF ForEachStart, TypeOK
  <2>8. CASE ForEachFunc
    BY <2>8 DEF ForEachFunc, TypeOK
  <2>9. CASE ForEachNext
    <3>1. PICK i \in DOMAIN hlist[walk.pos.bucket] :
            walk' = [walk EXCEPT
                       !.pos = hash_map_pos_next(walk.pos.bucket, i),
                       !.at = IF hash_map_pos_next(walk.pos.bucket, i).node = NULL
                              THEN "done" ELSE "func"]
      BY <2>9 DEF ForEachNext
    <3>2. walk.pos.bucket \in Bucket
      BY DEF TypeOK
    <3>3. hash_map_pos_next(walk.pos.bucket, i)
            \in [node : Node \cup {NULL}, bucket : Bucket]
      BY <3>2, PosNextType
    <3> QED
      BY <2>9, <3>1, <3>3 DEF ForEachNext, TypeOK
  <2>10. CASE ForEachDangling
    BY <2>10, BucketSizeAssumption DEF ForEachDangling, TypeOK, NoWalk
  <2>11. CASE DestroyStep
    BY <2>11, <2>4 DEF DestroyStep, TypeOK
  <2>12. ASSUME NEW b \in Bucket, NEW i \in DOMAIN hlist[b], Delete(b, i)
         PROVE  TypeOK'
    BY <2>12, <2>4 DEF Delete
  <2>13. CASE Halt \/ UNCHANGED vars
    BY <2>13 DEF Halt, vars, TypeOK
  <2> QED
    BY <2>1, <2>2, <2>3, <2>5, <2>6, <2>7, <2>8, <2>9, <2>10, <2>11, <2>12, <2>13
    DEF Next, Operation, ForEach
<1> QED
  BY <1>1, <1>2, PTL DEF Spec

(***************************************************************************)
(* The structure of the table                                              *)
(***************************************************************************)

\* What Create relies on: the table that was freed had no node left.
GoneIsEmpty == phase = "none" => begin.node = NULL

Structure == InOwnBucket /\ BeginIsFirst /\ NoOtherLeak

\* The four facts about an insert that the invariants rest on.
LEMMA InsertChains ==
    ASSUME TypeOK, NEW k \in Key, NEW n \in Node, hash_map_insert(k, n)
    PROVE  /\ HashFunc[k] \in Bucket
           /\ n \notin Allocated
           /\ \A c \in Bucket : c # HashFunc[k] => hlist'[c] = hlist[c]
           /\ Len(hlist'[HashFunc[k]]) = Len(hlist[HashFunc[k]]) + 1
           /\ DOMAIN hlist'[HashFunc[k]] = 1 .. Len(hlist[HashFunc[k]]) + 1
           /\ \A j \in 1 .. Len(hlist[HashFunc[k]]) + 1 :
                hlist'[HashFunc[k]][j] =
                  IF j = 1 THEN n ELSE hlist[HashFunc[k]][j - 1]
           /\ key' = [m \in Allocated \cup {n} |-> IF m = n THEN k ELSE key[m]]
<1> DEFINE b == HashFunc[k]
<1>1. b \in Bucket
  BY HashFuncAssumption, BucketSizeAssumption DEF hash_map_insert
<1>2. hlist[b] \in Seq(Node)
  BY <1>1 DEF TypeOK
<1>3. hlist' = [hlist EXCEPT ![b] = <<n>> \o hlist[b]]
  BY DEF hash_map_insert
<1>4. hlist'[b] = <<n>> \o hlist[b]
  BY <1>1, <1>3 DEF TypeOK
<1>5. \A c \in Bucket : c # b => hlist'[c] = hlist[c]
  BY <1>3 DEF TypeOK
<1>6. /\ hlist'[b] \in Seq(Node)
      /\ Len(hlist'[b]) = Len(hlist[b]) + 1
      /\ \A j \in 1 .. Len(hlist[b]) + 1 :
           hlist'[b][j] = IF j = 1 THEN n ELSE hlist[b][j - 1]
  BY <1>2, <1>4, ConsProperties
<1>7. DOMAIN hlist'[b] = 1 .. Len(hlist[b]) + 1
  BY <1>6, EmptyLen
<1> QED
  BY <1>1, <1>5, <1>6, <1>7 DEF hash_map_insert, Store

\* What a delete does to the chains.
LEMMA DeleteChains ==
    ASSUME TypeOK, NEW b \in Bucket, NEW i \in DOMAIN hlist[b],
           hash_map_delete(b, i)
    PROVE  /\ hlist[b] \in Seq(Node)
           /\ Len(hlist[b]) \in Nat
           /\ i \in 1 .. Len(hlist[b])
           /\ \A c \in Bucket : c # b => hlist'[c] = hlist[c]
           /\ hlist'[b] \in Seq(Node)
           /\ Len(hlist'[b]) = Len(hlist[b]) - 1
           /\ DOMAIN hlist'[b] = 1 .. Len(hlist[b]) - 1
           /\ \A j \in 1 .. Len(hlist[b]) - 1 :
                hlist'[b][j] = IF j < i THEN hlist[b][j] ELSE hlist[b][j + 1]
           /\ key' = [m \in Allocated \ {hlist[b][i]} |-> key[m]]
<1>1. hlist[b] \in Seq(Node) /\ Len(hlist[b]) \in Nat /\ i \in 1 .. Len(hlist[b])
  BY EmptyLen DEF TypeOK
<1>2. hlist' = [hlist EXCEPT ![b] = RemoveAt(hlist[b], i)]
  BY DEF hash_map_delete
<1>3. hlist'[b] = RemoveAt(hlist[b], i)
  BY <1>2 DEF TypeOK
<1>4. \A c \in Bucket : c # b => hlist'[c] = hlist[c]
  BY <1>2 DEF TypeOK
<1>5. /\ hlist'[b] \in Seq(Node)
      /\ Len(hlist'[b]) = Len(hlist[b]) - 1
      /\ \A j \in 1 .. Len(hlist[b]) - 1 :
           hlist'[b][j] = IF j < i THEN hlist[b][j] ELSE hlist[b][j + 1]
  BY <1>1, <1>3, RemoveAtProperties
<1>6. DOMAIN hlist'[b] = 1 .. Len(hlist[b]) - 1
  BY <1>5, EmptyLen
<1> QED
  BY <1>1, <1>4, <1>5, <1>6 DEF hash_map_delete, Restrict

\* A node in the chain of one bucket is in no other chain.
LEMMA OneChain ==
    ASSUME InOwnBucket, NEW b \in Bucket, NEW c \in Bucket,
           NEW i \in DOMAIN hlist[b], NEW j \in DOMAIN hlist[c],
           hlist[b][i] = hlist[c][j]
    PROVE  b = c /\ i = j
  BY DEF InOwnBucket

\* An insert keeps the structure: own buckets, begin, memory balance.
LEMMA InsertStructure ==
    ASSUME TypeOK, Structure, NEW k \in Key, NEW n \in Node, hash_map_insert(k, n)
    PROVE  Structure'
<1> DEFINE b == HashFunc[k]
           len == Len(hlist[b])
<1>1. /\ b \in Bucket
      /\ n \notin Allocated
      /\ \A c \in Bucket : c # b => hlist'[c] = hlist[c]
      /\ DOMAIN hlist'[b] = 1 .. len + 1
      /\ \A j \in 1 .. len + 1 : hlist'[b][j] = IF j = 1 THEN n ELSE hlist[b][j - 1]
      /\ key' = [m \in Allocated \cup {n} |-> IF m = n THEN k ELSE key[m]]
  BY InsertChains
<1>2. hlist[b] \in Seq(Node) /\ len \in Nat /\ DOMAIN hlist[b] = 1 .. len
  BY <1>1, EmptyLen DEF TypeOK
<1>3. \A c \in Bucket : \A j \in DOMAIN hlist[c] :
        hlist[c][j] \in Allocated /\ hlist[c][j] # n /\ HashFunc[key[hlist[c][j]]] = c
  BY <1>1 DEF Structure, InOwnBucket
<1> HIDE DEF b, len
<1>4. InOwnBucket'
  <2>1. ASSUME NEW c \in Bucket, NEW j \in DOMAIN hlist'[c]
        PROVE  hlist'[c][j] \in Allocated' /\ HashFunc[key'[hlist'[c][j]]] = c
    <3>1. CASE c # b
      BY <1>1, <1>3, <3>1
    <3>2. CASE c = b /\ j = 1
      BY <1>1, <1>2, <3>2 DEF b
    <3>3. CASE c = b /\ j # 1
      <4>1. j \in 1 .. len + 1
        BY <1>1, <3>3
      <4>2. j - 1 \in DOMAIN hlist[b] /\ hlist'[b][j] = hlist[b][j - 1]
        BY <1>1, <1>2, <3>3, <4>1
      <4> QED
        BY <1>1, <1>3, <3>3, <4>2
    <3> QED
      BY <3>1, <3>2, <3>3
  <2>2. ASSUME NEW c \in Bucket, NEW i \in DOMAIN hlist'[c], NEW j \in DOMAIN hlist'[c],
               hlist'[c][i] = hlist'[c][j]
        PROVE  i = j
    <3>1. CASE c # b
      BY <1>1, <2>2, <3>1 DEF Structure, InOwnBucket
    <3>2. CASE c = b
      <4>1. i # 1 => i - 1 \in DOMAIN hlist[b] /\ hlist'[b][i] = hlist[b][i - 1]
        BY <1>1, <1>2, <3>2
      <4>2. j # 1 => j - 1 \in DOMAIN hlist[b] /\ hlist'[b][j] = hlist[b][j - 1]
        BY <1>1, <1>2, <3>2
      <4>3. hlist'[b][1] = n
        BY <1>1, <1>2
      <4>4. CASE i = 1 \/ j = 1
        BY <1>1, <1>3, <2>2, <3>2, <4>1, <4>2, <4>3, <4>4
      <4>5. CASE i # 1 /\ j # 1
        <5>1. i - 1 = j - 1
          BY <1>1, <2>2, <3>2, <4>1, <4>2, <4>5 DEF Structure, InOwnBucket
        <5>2. i \in Int /\ j \in Int
          BY <1>1, <1>2, <3>2
        <5> QED
          BY <5>1, <5>2
      <4> QED
        BY <4>4, <4>5
    <3> QED
      BY <3>1, <3>2
  <2> QED
    BY <2>1, <2>2 DEF InOwnBucket
<1>5. BeginIsFirst'
  <2>1. hlist'[b] # <<>> /\ hlist'[b][1] = n
    BY <1>1, <1>2
  <2>2. begin' = IF begin.node = NULL \/ b <= begin.bucket THEN Pos(n, b) ELSE begin
    BY DEF hash_map_insert, b
  <2>3. CASE begin.node = NULL \/ b <= begin.bucket
    <3>1. begin'.node = n /\ begin'.bucket = b /\ n # NULL
      BY <2>2, <2>3, NullAssumption
    <3>2. \A c \in Bucket : c < b => hlist'[c] = <<>>
      BY <1>1, <2>3, BucketSizeAssumption DEF Structure, BeginIsFirst, TypeOK
    <3> QED
      BY <1>1, <2>1, <3>1, <3>2 DEF BeginIsFirst
  <2>4. CASE ~(begin.node = NULL \/ b <= begin.bucket)
    <3>1. begin' = begin /\ begin.bucket # b /\ begin.bucket < b /\ begin.node # NULL
      BY <1>1, <2>2, <2>4, BucketSizeAssumption DEF TypeOK
    <3> QED
      BY <1>1, <3>1, BucketSizeAssumption DEF Structure, BeginIsFirst, TypeOK
  <2> QED
    BY <2>3, <2>4
<1>6. NoOtherLeak'
  <2> SUFFICES ASSUME NEW m \in Allocated \cup {n},
                      m # n => ~(HashFunc[key[m]] >= BucketSize)
               PROVE  \E c \in Bucket : \E j \in DOMAIN hlist'[c] : hlist'[c][j] = m
    BY <1>1 DEF NoOtherLeak, Linked, ToSet
  <2>1. CASE m = n
    BY <1>1, <1>2, <2>1
  <2>2. CASE m # n
    <3>1. PICK c \in Bucket : \E j \in DOMAIN hlist[c] : hlist[c][j] = m
      BY <2>2 DEF Structure, NoOtherLeak, Linked, ToSet
    <3>2. CASE c # b
      BY <1>1, <3>1, <3>2
    <3>3. CASE c = b
      <4> PICK j \in DOMAIN hlist[c] : hlist[c][j] = m
        BY <3>1
      <4>1. j + 1 \in DOMAIN hlist'[b] /\ hlist'[b][j + 1] = hlist[b][j]
        BY <1>1, <1>2, <3>3
      <4> QED
        BY <1>1, <3>1, <3>3, <4>1
    <3> QED
      BY <3>2, <3>3
  <2> QED
    BY <2>1, <2>2
<1> QED
  BY <1>4, <1>5, <1>6 DEF Structure

\* A delete keeps the structure, wherever in the map the node was.
LEMMA DeleteStructure ==
    ASSUME TypeOK, Structure, NEW b \in Bucket, NEW i \in DOMAIN hlist[b],
           hash_map_delete(b, i)
    PROVE  Structure'
<1> DEFINE n == hlist[b][i]
           len == Len(hlist[b])
           Old(j) == IF j < i THEN j ELSE j + 1
<1>1. /\ len \in Nat
      /\ DOMAIN hlist[b] = 1 .. len
      /\ i \in 1 .. len
      /\ \A c \in Bucket : c # b => hlist'[c] = hlist[c]
      /\ hlist'[b] \in Seq(Node)
      /\ Len(hlist'[b]) = len - 1
      /\ DOMAIN hlist'[b] = 1 .. len - 1
      /\ key' = [m \in Allocated \ {n} |-> key[m]]
  BY DeleteChains, EmptyLen
<1>2. \A j \in 1 .. len - 1 : /\ hlist'[b][j] = hlist[b][Old(j)]
                              /\ Old(j) \in 1 .. len
                              /\ Old(j) # i
  BY <1>1, DeleteChains
<1>3. \A j, h \in 1 .. len - 1 : Old(j) = Old(h) => j = h
  BY <1>1
<1>4. \A c \in Bucket : \A j \in DOMAIN hlist[c] :
        /\ hlist[c][j] \in Allocated
        /\ HashFunc[key[hlist[c][j]]] = c
        /\ hlist[c][j] = n => c = b /\ j = i
  BY DEF Structure, InOwnBucket
<1> HIDE DEF n, len, Old
<1>5. InOwnBucket'
  <2>1. ASSUME NEW c \in Bucket, NEW j \in DOMAIN hlist'[c]
        PROVE  hlist'[c][j] \in Allocated' /\ HashFunc[key'[hlist'[c][j]]] = c
    <3>1. CASE c # b
      BY <1>1, <1>4, <3>1
    <3>2. CASE c = b
      <4>1. j \in 1 .. len - 1
        BY <1>1, <3>2
      <4>2. Old(j) \in DOMAIN hlist[b] /\ Old(j) # i /\ hlist'[b][j] = hlist[b][Old(j)]
        BY <1>1, <1>2, <4>1
      <4> QED
        BY <1>1, <1>4, <3>2, <4>2
    <3> QED
      BY <3>1, <3>2
  <2>2. ASSUME NEW c \in Bucket, NEW g \in DOMAIN hlist'[c], NEW j \in DOMAIN hlist'[c],
               hlist'[c][g] = hlist'[c][j]
        PROVE  g = j
    <3>1. CASE c # b
      BY <1>1, <2>2, <3>1 DEF Structure, InOwnBucket
    <3>2. CASE c = b
      <4>1. g \in 1 .. len - 1 /\ j \in 1 .. len - 1
        BY <1>1, <3>2
      <4>2. hlist[b][Old(g)] = hlist[b][Old(j)]
        BY <1>2, <2>2, <3>2, <4>1
      <4>3. Old(g) \in DOMAIN hlist[b] /\ Old(j) \in DOMAIN hlist[b]
        BY <1>1, <1>2, <4>1
      <4>4. Old(g) = Old(j)
        BY <4>2, <4>3 DEF Structure, InOwnBucket
      <4> QED
        BY <1>3, <4>1, <4>4
    <3> QED
      BY <3>1, <3>2
  <2> QED
    BY <2>1, <2>2 DEF InOwnBucket
<1>6. NoOtherLeak'
  <2> SUFFICES ASSUME NEW m \in Allocated \ {n}, ~(HashFunc[key[m]] >= BucketSize)
               PROVE  \E c \in Bucket : \E j \in DOMAIN hlist'[c] : hlist'[c][j] = m
    BY <1>1 DEF NoOtherLeak, Linked, ToSet
  <2>1. PICK c \in Bucket : \E j \in DOMAIN hlist[c] : hlist[c][j] = m
    BY DEF Structure, NoOtherLeak, Linked, ToSet
  <2>2. PICK j \in DOMAIN hlist[c] : hlist[c][j] = m
    BY <2>1
  <2>3. CASE c # b
    BY <1>1, <2>2, <2>3
  <2>4. CASE c = b
    <3>1. j # i /\ j \in 1 .. len
      BY <1>1, <2>2, <2>4 DEF n
    <3>2. CASE j < i
      <4>1. j \in 1 .. len - 1 /\ Old(j) = j
        BY <1>1, <3>1, <3>2 DEF Old
      <4> QED
        BY <1>1, <1>2, <2>2, <2>4, <4>1
    <3>3. CASE ~(j < i)
      <4>1. j - 1 \in 1 .. len - 1 /\ Old(j - 1) = j
        BY <1>1, <3>1, <3>3 DEF Old
      <4> QED
        BY <1>1, <1>2, <2>2, <2>4, <4>1
    <3> QED
      BY <3>2, <3>3
  <2> QED
    BY <2>3, <2>4
<1>7. BeginIsFirst'
  <2>1. begin' = IF begin.node = n THEN hash_map_pos_next(b, i) ELSE begin
    BY DEF hash_map_delete, n
  <2>2. begin.node # NULL /\ begin.bucket \in Bucket /\ begin.bucket <= b
    BY <1>1, BucketSizeAssumption DEF Structure, BeginIsFirst, TypeOK
  <2>3. /\ hlist[begin.bucket] # <<>>
        /\ begin.node = hlist[begin.bucket][1]
        /\ 1 \in DOMAIN hlist[begin.bucket]
        /\ \A c \in Bucket : c < begin.bucket => hlist[c] = <<>>
    BY <2>2, EmptyLen DEF Structure, BeginIsFirst, TypeOK
  <2>4. CASE begin.node # n
    <3>1. begin' = begin
      BY <2>1, <2>4
    <3>2. CASE begin.bucket # b
      BY <1>1, <2>2, <2>3, <3>1, <3>2, BucketSizeAssumption DEF BeginIsFirst
    <3>3. CASE begin.bucket = b
      <4>1. i # 1
        BY <2>3, <2>4, <3>3 DEF n
      <4>2. 1 \in 1 .. len - 1 /\ Old(1) = 1
        BY <1>1, <4>1 DEF Old
      <4>3. hlist'[b] # <<>> /\ hlist'[b][1] = begin.node
        BY <1>1, <1>2, <2>3, <3>3, <4>2
      <4>4. \A c \in Bucket : c < b => hlist'[c] = <<>>
        BY <1>1, <2>3, <3>3, BucketSizeAssumption
      <4> QED
        BY <2>2, <3>1, <3>3, <4>3, <4>4 DEF BeginIsFirst
    <3> QED
      BY <3>2, <3>3
  <2>5. CASE begin.node = n
    <3>1. begin.bucket = b /\ i = 1
      BY ZenonT(30), <1>4, <2>2, <2>3, <2>5
    <3>2. begin' = IF 1 < len THEN Pos(hlist[b][2], b) ELSE FirstFrom(b + 1)
      BY <2>1, <2>5, <3>1 DEF hash_map_pos_next, len
    <3>3. \A c \in Bucket : c < b => hlist'[c] = <<>>
      BY <1>1, <2>3, <3>1, BucketSizeAssumption
    <3>4. CASE 1 < len
      <4>1. 1 \in 1 .. len - 1 /\ Old(1) = 2 /\ 2 \in 1 .. len
        BY <1>1, <3>1, <3>4 DEF Old
      <4>2. hlist'[b] # <<>> /\ hlist'[b][1] = hlist[b][2]
        BY <1>1, <1>2, <4>1
      <4>3. begin'.node = hlist[b][2] /\ begin'.bucket = b
        BY <3>2, <3>4
      <4>4. hlist[b][2] # NULL
        BY <1>1, <4>1, EmptyLen, NullAssumption DEF TypeOK
      <4> QED
        BY <3>3, <4>2, <4>3, <4>4 DEF BeginIsFirst
    <3>5. CASE ~(1 < len)
      <4>1. hlist'[b] = <<>>
        BY <1>1, <3>1, <3>5, EmptyLen
      <4>2. begin' = FirstFrom(b + 1) /\ b + 1 \in Nat
        BY <3>2, <3>5, BucketSizeAssumption
      <4>3. \A c \in Bucket : c < b + 1 => hlist'[c] = <<>>
        BY <3>3, <4>1, BucketSizeAssumption
      <4>4. \A c \in Bucket : c >= b + 1 => hlist'[c] = hlist[c]
        BY <1>1, BucketSizeAssumption
      <4>5. begin' \in [node : Node \cup {NULL}, bucket : Bucket]
        BY <4>2, FirstFromProperties
      <4>6. begin'.node = NULL => \A c \in Bucket : c >= b + 1 => hlist[c] = <<>>
        BY <4>2, FirstFromProperties
      <4>7. begin'.node # NULL => /\ begin'.bucket >= b + 1
                                  /\ hlist[begin'.bucket] # <<>>
                                  /\ begin'.node = hlist[begin'.bucket][1]
                                  /\ \A c \in Bucket : c >= b + 1 /\ c < begin'.bucket
                                                         => hlist[c] = <<>>
        BY <4>2, FirstFromProperties
      <4>8. CASE begin'.node = NULL
        BY <4>3, <4>4, <4>6, <4>8, BucketSizeAssumption DEF BeginIsFirst
      <4>9. CASE begin'.node # NULL
        BY <4>3, <4>4, <4>5, <4>7, <4>9, BucketSizeAssumption DEF BeginIsFirst
      <4> QED
        BY <4>8, <4>9
    <3> QED
      BY <3>4, <3>5
  <2> QED
    BY <2>4, <2>5
<1> QED
  BY <1>5, <1>6, <1>7 DEF Structure

\* Every step keeps the structure.
LEMMA StructureStep ==
    ASSUME TypeOK, Structure, GoneIsEmpty, [Next]_vars
    PROVE  Structure' /\ GoneIsEmpty'
<1>1. ASSUME NEW k \in Key, NEW n \in Node, hash_map_insert(k, n)
      PROVE  Structure' /\ GoneIsEmpty'
  BY <1>1, InsertStructure DEF hash_map_insert, GoneIsEmpty
<1>2. ASSUME NEW k \in Key, NEW n \in Node, InsertBadHash(k, n)
      PROVE  Structure' /\ GoneIsEmpty'
  <2>1. /\ hlist' = hlist /\ begin' = begin /\ n \notin Allocated
        /\ HashFunc[k] >= BucketSize
        /\ key' = [m \in Allocated \cup {n} |-> IF m = n THEN k ELSE key[m]]
    BY <1>2 DEF InsertBadHash, Store
  <2>2. InOwnBucket'
    BY <2>1 DEF Structure, InOwnBucket
  <2>3. BeginIsFirst'
    BY <2>1 DEF Structure, BeginIsFirst
  <2>4. NoOtherLeak'
    BY <2>1 DEF Structure, NoOtherLeak, Linked
  <2> QED
    BY <1>2, <2>2, <2>3, <2>4 DEF Structure, InsertBadHash, GoneIsEmpty
<1>3. ASSUME NEW b \in Bucket, NEW i \in DOMAIN hlist[b], Delete(b, i)
      PROVE  Structure' /\ GoneIsEmpty'
  BY <1>3, DeleteStructure DEF Delete, GoneIsEmpty
<1>4. CASE DestroyStep
  BY <1>4, DeleteStructure DEF DestroyStep, TypeOK, GoneIsEmpty
<1>5. CASE Create
  <2>1. /\ hlist' = [b \in Bucket |-> <<>>] /\ begin'.node = NULL /\ key' = key
        /\ \A b \in Bucket : hlist[b] = <<>>
    BY <1>5 DEF Create, GoneIsEmpty, Structure, BeginIsFirst
  <2>2. InOwnBucket' /\ BeginIsFirst' /\ GoneIsEmpty'
    BY <2>1 DEF InOwnBucket, BeginIsFirst, GoneIsEmpty
  <2>3. \A b \in Bucket : hlist'[b] = hlist[b]
    BY <2>1
  <2>4. NoOtherLeak'
    BY <2>1, <2>3 DEF Structure, NoOtherLeak, Linked, ToSet
  <2> QED
    BY <2>2, <2>4 DEF Structure
<1>6. CASE /\ hlist' = hlist /\ begin' = begin /\ key' = key
           /\ phase' = "none" => phase = "none" \/ begin.node = NULL
  BY <1>6 DEF Structure, InOwnBucket, BeginIsFirst, NoOtherLeak, Linked, GoneIsEmpty
<1>7. ASSUME NEW k \in Key, Search(k)
      PROVE  Structure' /\ GoneIsEmpty'
  BY <1>6, <1>7 DEF Search
<1>8. CASE CreateNoMem \/ DestroyStart \/ DestroyEnd \/ ForEach \/ Halt \/ UNCHANGED vars
  BY <1>6, <1>8 DEF CreateNoMem, DestroyStart, DestroyEnd, ForEach, ForEachStart,
         ForEachFunc, ForEachNext, ForEachDangling, Halt, vars
<1> QED
  BY <1>1, <1>2, <1>3, <1>4, <1>5, <1>7, <1>8 DEF Next, Operation

\* begin is the first node of the table in every reachable state, a node
\* hangs in its own bucket only, and only an out-of-range hash loses memory.
THEOREM StructureCorrect == Spec => [](InOwnBucket /\ BeginIsFirst /\ NoOtherLeak)
<1>1. Init => Structure /\ GoneIsEmpty
  <2> SUFFICES ASSUME Init PROVE Structure /\ GoneIsEmpty
    OBVIOUS
  <2>1. DOMAIN key = {} /\ begin.node = NULL /\ \A b \in Bucket : hlist[b] = <<>>
    BY DEF Init
  <2> QED
    BY <2>1 DEF Structure, InOwnBucket, BeginIsFirst, NoOtherLeak, GoneIsEmpty
<1>2. TypeOK /\ Structure /\ GoneIsEmpty /\ [Next]_vars => Structure' /\ GoneIsEmpty'
  BY StructureStep
<1> QED
  BY <1>1, <1>2, TypeCorrect, PTL DEF Spec, Structure

\* hash_map_search looks in one bucket only, and that is enough: through all
\* inserts, deletes and destroys each node hangs once, in the bucket of its key.
THEOREM NodesInOwnBucket == Spec => []InOwnBucket
BY StructureCorrect, PTL

\* hash_map_destroy, which frees what it finds by walking from begin, gives
\* back all the memory of the map but that of nodes whose hash was no bucket.
THEOREM OnlyBadHashesLeak == Spec => []NoOtherLeak
BY StructureCorrect, PTL

(***************************************************************************)
(* Walks                                                                   *)
(***************************************************************************)

\* An insert shifts one chain by one: what was ahead of the walk stays ahead,
\* and the new node, which func has not seen, is the only one to join it.
LEMMA InsertWalk ==
    ASSUME TypeOK, Structure, WalkPosition,
           NEW k \in Key, NEW n \in Node, hash_map_insert(k, n)
    PROVE  WalkPosition'
<1> DEFINE b == HashFunc[k]
           p == walk.pos.bucket
           New(c, j) == IF c = b THEN j + 1 ELSE j
<1> SUFFICES ASSUME walk.at \in {"func", "next"}
             PROVE  WalkPosition'
  BY DEF WalkPosition, hash_map_insert
<1>0. /\ b \in Bucket
      /\ n \notin Allocated
      /\ \A c \in Bucket : c # b => hlist'[c] = hlist[c]
      /\ DOMAIN hlist'[b] = 1 .. Len(hlist[b]) + 1
      /\ \A j \in 1 .. Len(hlist[b]) + 1 :
           hlist'[b][j] = IF j = 1 THEN n ELSE hlist[b][j - 1]
      /\ Allocated' = Allocated \cup {n}
  BY InsertChains
<1>1. PICK i \in DOMAIN hlist[p] :
        /\ hlist[p][i] = walk.pos.node
        /\ \A m \in walk.due : \E c \in Bucket : \E j \in DOMAIN hlist[c] :
             hlist[c][j] = m /\ Ahead(c, j, i)
        /\ \A c \in Bucket : \A j \in DOMAIN hlist[c] :
             Ahead(c, j, i) => hlist[c][j] \notin walk.visited
        /\ walk.visited \subseteq Allocated
  BY DEF WalkPosition
<1>2. walk' = walk /\ p \in Bucket
  BY DEF hash_map_insert, TypeOK
<1> HIDE DEF b
<1>3. \A c \in Bucket : hlist[c] \in Seq(Node) /\ Len(hlist[c]) \in Nat
                        /\ DOMAIN hlist[c] = 1 .. Len(hlist[c])
  BY EmptyLen DEF TypeOK
<1>4. ASSUME NEW c \in Bucket, NEW j \in DOMAIN hlist[c]
      PROVE  New(c, j) \in DOMAIN hlist'[c] /\ hlist'[c][New(c, j)] = hlist[c][j]
  <2>1. CASE c # b
    BY <1>0, <2>1
  <2>2. CASE c = b
    <3>1. j \in 1 .. Len(hlist[b]) /\ Len(hlist[b]) \in Nat
      BY <1>0, <1>3, <2>2
    <3>2. j + 1 \in 1 .. Len(hlist[b]) + 1 /\ j + 1 # 1 /\ (j + 1) - 1 = j
      BY <3>1
    <3> QED
      BY <1>0, <2>2, <3>2
  <2> QED
    BY <2>1, <2>2
<1>5. ASSUME NEW c \in Bucket, NEW j \in DOMAIN hlist'[c], hlist'[c][j] # n
      PROVE  \E g \in DOMAIN hlist[c] : j = New(c, g) /\ hlist'[c][j] = hlist[c][g]
  <2>1. CASE c # b
    BY <1>0, <2>1
  <2>2. CASE c = b
    <3>1. j \in 1 .. Len(hlist[b]) + 1 /\ Len(hlist[b]) \in Nat
      BY <1>0, <1>3, <2>2
    <3>2. j # 1 /\ hlist'[b][j] = hlist[b][j - 1]
      BY <1>0, <1>5, <2>2, <3>1
    <3>3. j - 1 \in DOMAIN hlist[b] /\ j = (j - 1) + 1
      BY <1>0, <1>3, <3>1, <3>2
    <3> QED
      BY <2>2, <3>2, <3>3
  <2> QED
    BY <2>1, <2>2
<1>6. ASSUME NEW c \in Bucket, NEW j \in DOMAIN hlist[c]
      PROVE  Ahead(c, j, i) <=> Ahead(c, New(c, j), New(p, i))'
  <2>1. j \in Int /\ i \in Int
    BY <1>2, <1>3
  <2> QED
    BY <1>2, <2>1 DEF Ahead
<1> HIDE DEF New, p
<1> DEFINE h == New(p, i)
<1>7. h \in DOMAIN hlist'[p] /\ hlist'[p][h] = walk.pos.node
  BY <1>1, <1>2, <1>4
<1>8. ASSUME NEW m \in walk.due
      PROVE  \E c \in Bucket : \E j \in DOMAIN hlist'[c] :
               hlist'[c][j] = m /\ Ahead(c, j, h)'
  <2>1. PICK c \in Bucket : \E j \in DOMAIN hlist[c] :
               hlist[c][j] = m /\ Ahead(c, j, i)
    BY <1>1
  <2>2. PICK j \in DOMAIN hlist[c] : hlist[c][j] = m /\ Ahead(c, j, i)
    BY <2>1
  <2> QED
    BY <1>4, <1>6, <2>2
<1>9. ASSUME NEW c \in Bucket, NEW j \in DOMAIN hlist'[c], Ahead(c, j, h)'
      PROVE  hlist'[c][j] \notin walk.visited
  <2>1. CASE hlist'[c][j] = n
    BY <1>0, <1>1, <2>1
  <2>2. CASE hlist'[c][j] # n
    BY <1>1, <1>5, <1>6, <1>9, <2>2
  <2> QED
    BY <2>1, <2>2
<1> QED
  BY <1>0, <1>1, <1>2, <1>7, <1>8, <1>9 DEF WalkPosition, p

\* A delete of another node keeps the order of the nodes that remain; a delete
\* of the node the walk stands at ends the walk.
LEMMA DeleteWalk ==
    ASSUME TypeOK, Structure, WalkPosition,
           NEW b \in Bucket, NEW d \in DOMAIN hlist[b], hash_map_delete(b, d)
    PROVE  WalkPosition'
<1> DEFINE n == hlist[b][d]
           p == walk.pos.bucket
           len == Len(hlist[b])
           Old(c, j) == IF c = b /\ j >= d THEN j + 1 ELSE j
<1>1. /\ len \in Nat
      /\ d \in 1 .. len
      /\ DOMAIN hlist[b] = 1 .. len
      /\ \A c \in Bucket : c # b => hlist'[c] = hlist[c]
      /\ DOMAIN hlist'[b] = 1 .. len - 1
      /\ \A j \in 1 .. len - 1 :
           hlist'[b][j] = IF j < d THEN hlist[b][j] ELSE hlist[b][j + 1]
      /\ Allocated' = Allocated \ {n}
  BY DeleteChains, EmptyLen
<1>2. /\ walk'.pos = walk.pos
      /\ walk'.due = walk.due \ {n}
      /\ walk'.visited = walk.visited \ {n}
      /\ walk'.at = IF walk.pos.node = n /\ walk.at \in {"func", "next"}
                     THEN "dangling" ELSE walk.at
  BY DEF hash_map_delete, TypeOK
<1> SUFFICES ASSUME walk'.at \in {"func", "next"}
             PROVE  WalkPosition'
  BY DEF WalkPosition
<1>3. walk'.at = walk.at /\ walk.at \in {"func", "next"} /\ walk.pos.node # n
  BY <1>2
<1>4. PICK i \in DOMAIN hlist[p] :
        /\ hlist[p][i] = walk.pos.node
        /\ \A m \in walk.due : \E c \in Bucket : \E j \in DOMAIN hlist[c] :
             hlist[c][j] = m /\ Ahead(c, j, i)
        /\ \A c \in Bucket : \A j \in DOMAIN hlist[c] :
             Ahead(c, j, i) => hlist[c][j] \notin walk.visited
        /\ walk.visited \subseteq Allocated
  BY <1>3 DEF WalkPosition
<1>5. p \in Bucket /\ \A c \in Bucket : /\ DOMAIN hlist[c] = 1 .. Len(hlist[c])
                                        /\ Len(hlist[c]) \in Nat
  BY EmptyLen DEF TypeOK
<1> HIDE DEF n, p, len
<1>6. ASSUME NEW c \in Bucket, NEW j \in DOMAIN hlist'[c]
      PROVE  Old(c, j) \in DOMAIN hlist[c] /\ hlist'[c][j] = hlist[c][Old(c, j)]
  <2>1. CASE c # b
    BY <1>1, <2>1
  <2>2. CASE c = b
    BY <1>1, <2>2
  <2> QED
    BY <2>1, <2>2
<1>7. ASSUME NEW c \in Bucket, NEW j \in DOMAIN hlist[c], hlist[c][j] # n
      PROVE  \E g \in DOMAIN hlist'[c] : j = Old(c, g)
  <2>1. CASE c # b
    BY <1>1, <2>1
  <2>2. CASE c = b
    <3>1. j \in 1 .. len /\ j # d
      BY <1>1, <1>7, <2>2 DEF n
    <3>2. CASE j < d
      <4>1. j \in 1 .. len - 1 /\ ~(j >= d)
        BY <1>1, <3>1, <3>2
      <4> QED
        BY <1>1, <2>2, <4>1
    <3>3. CASE j > d
      <4>1. j - 1 \in 1 .. len - 1 /\ j - 1 >= d /\ j = (j - 1) + 1
        BY <1>1, <3>1, <3>3
      <4> QED
        BY <1>1, <2>2, <4>1
    <3> QED
      BY <1>1, <3>1, <3>2, <3>3
  <2> QED
    BY <2>1, <2>2
<1>8. PICK h \in DOMAIN hlist'[p] : i = Old(p, h)
  BY <1>3, <1>4, <1>5, <1>7
<1>9. ASSUME NEW c \in Bucket, NEW j \in DOMAIN hlist'[c]
      PROVE  Ahead(c, Old(c, j), i) <=> Ahead(c, j, h)'
  <2>1. \A e \in Bucket : DOMAIN hlist'[e] \subseteq Int
    BY SMTT(30), <1>1, <1>5
  <2>2. j \in Int /\ h \in Int /\ d \in Int
    BY <1>1, <1>5, <2>1
  <2> QED
    BY <1>2, <1>3, <1>8, <2>2 DEF Ahead, p
<1> HIDE DEF Old
<1>10. hlist'[p][h] = walk.pos.node
  BY <1>4, <1>5, <1>6, <1>8
<1>11. ASSUME NEW m \in walk.due \ {n}
       PROVE  \E c \in Bucket : \E j \in DOMAIN hlist'[c] :
                hlist'[c][j] = m /\ Ahead(c, j, h)'
  <2>1. PICK c \in Bucket : \E j \in DOMAIN hlist[c] :
               hlist[c][j] = m /\ Ahead(c, j, i)
    BY <1>4
  <2>2. PICK j \in DOMAIN hlist[c] : hlist[c][j] = m /\ Ahead(c, j, i)
    BY <2>1
  <2>3. PICK g \in DOMAIN hlist'[c] : j = Old(c, g)
    BY <1>7, <2>2
  <2> QED
    BY <1>6, <1>9, <2>2, <2>3
<1>12. ASSUME NEW c \in Bucket, NEW j \in DOMAIN hlist'[c], Ahead(c, j, h)'
       PROVE  hlist'[c][j] \notin walk.visited
  BY <1>4, <1>6, <1>9, <1>12
<1>13. walk'.visited \subseteq Allocated'
  BY <1>1, <1>2, <1>4
<1> QED
  BY <1>2, <1>8, <1>10, <1>11, <1>12, <1>13 DEF WalkPosition, p

\* A walk starts with every node ahead of it.
LEMMA StartWalk ==
    ASSUME TypeOK, Structure, ForEachStart
    PROVE  WalkPosition' /\ WalkComplete'
<1>1. /\ hlist' = hlist /\ key' = key
      /\ walk'.at = IF begin.node = NULL THEN "done" ELSE "func"
      /\ walk'.pos = begin /\ walk'.due = Linked /\ walk'.visited = {}
      /\ walk'.again = FALSE
  BY DEF ForEachStart
<1>2. \A c \in Bucket : DOMAIN hlist[c] = 1 .. Len(hlist[c]) /\ Len(hlist[c]) \in Nat
                        /\ (hlist[c] = <<>> <=> Len(hlist[c]) = 0)
  BY EmptyLen DEF TypeOK
<1>3. CASE begin.node = NULL
  <2>1. Linked = {}
    BY <1>2, <1>3 DEF Linked, ToSet, Structure, BeginIsFirst
  <2> QED
    BY <1>1, <1>3, <2>1 DEF WalkPosition, WalkComplete
<1>4. CASE begin.node # NULL
  <2>1. /\ begin.bucket \in Bucket
        /\ 1 \in DOMAIN hlist[begin.bucket]
        /\ hlist[begin.bucket][1] = begin.node
        /\ \A c \in Bucket : c < begin.bucket => hlist[c] = <<>>
    BY <1>2, <1>4 DEF Structure, BeginIsFirst
  <2>2. ASSUME NEW c \in Bucket, NEW j \in DOMAIN hlist[c]
        PROVE  Ahead(c, j, 1)'
    <3>1. c >= begin.bucket /\ j >= 1 /\ c \in Int /\ j \in Int /\ begin.bucket \in Int
      BY <1>2, <2>1, BucketSizeAssumption
    <3> QED
      BY <1>1, <1>4, <3>1 DEF Ahead
  <2>3. \A m \in Linked : \E c \in Bucket : \E j \in DOMAIN hlist[c] : hlist[c][j] = m
    BY DEF Linked, ToSet
  <2> QED
    BY <1>1, <1>4, <2>1, <2>2, <2>3 DEF WalkPosition, WalkComplete
<1> QED
  BY <1>3, <1>4

\* Calling func moves one node from those ahead to those handed over.
LEMMA FuncWalk ==
    ASSUME TypeOK, Structure, WalkPosition, WalkComplete, ForEachFunc
    PROVE  WalkPosition' /\ WalkComplete'
<1> DEFINE p == walk.pos.bucket
           n == walk.pos.node
<1>1. /\ hlist' = hlist /\ key' = key /\ walk.at = "func" /\ walk'.at = "next"
      /\ walk'.pos = walk.pos /\ walk'.due = walk.due \ {n}
      /\ walk'.visited = walk.visited \cup {n}
      /\ walk'.again = (walk.again \/ n \in walk.visited)
  BY DEF ForEachFunc, TypeOK
<1>2. p \in Bucket /\ \A c \in Bucket : /\ DOMAIN hlist[c] = 1 .. Len(hlist[c])
                                        /\ Len(hlist[c]) \in Nat
  BY EmptyLen DEF TypeOK
<1>3. PICK i \in DOMAIN hlist[p] :
        /\ hlist[p][i] = n
        /\ \A m \in walk.due : \E c \in Bucket : \E j \in DOMAIN hlist[c] :
             hlist[c][j] = m /\ Ahead(c, j, i)
        /\ \A c \in Bucket : \A j \in DOMAIN hlist[c] :
             Ahead(c, j, i) => hlist[c][j] \notin walk.visited
        /\ walk.visited \subseteq Allocated
  BY <1>1 DEF WalkPosition
<1>4. Ahead(p, i, i)
  BY <1>1 DEF Ahead
<1>5. n \notin walk.visited /\ n \in Allocated
  BY <1>2, <1>3, <1>4 DEF Structure, InOwnBucket
<1>6. ASSUME NEW c \in Bucket, NEW j \in DOMAIN hlist[c]
      PROVE  Ahead(c, j, i)' <=> Ahead(c, j, i) /\ hlist[c][j] # n
  <2>1. hlist[c][j] = n => c = p /\ j = i
    BY <1>2, <1>3, OneChain DEF Structure
  <2>2. c \in Int /\ j \in Int /\ i \in Int /\ p \in Int
    BY <1>2, BucketSizeAssumption
  <2> QED
    BY <1>1, <1>3, <2>1, <2>2 DEF Ahead
<1>7. ASSUME NEW m \in walk.due \ {n}
      PROVE  \E c \in Bucket : \E j \in DOMAIN hlist[c] :
               hlist[c][j] = m /\ Ahead(c, j, i)'
  BY <1>3, <1>6
<1>8. ASSUME NEW c \in Bucket, NEW j \in DOMAIN hlist[c], Ahead(c, j, i)'
      PROVE  hlist[c][j] \notin walk'.visited
  BY <1>1, <1>3, <1>6, <1>8
<1>9. WalkPosition'
  BY <1>1, <1>3, <1>5, <1>7, <1>8 DEF WalkPosition
<1> QED
  BY <1>1, <1>5, <1>9 DEF WalkComplete

\* Advancing skips no node that lies ahead.
LEMMA NextWalk ==
    ASSUME TypeOK, Structure, WalkPosition, WalkComplete, ForEachNext
    PROVE  WalkPosition' /\ WalkComplete'
<1> DEFINE p == walk.pos.bucket
           len == Len(hlist[p])
<1>1. p \in Bucket /\ \A c \in Bucket : /\ DOMAIN hlist[c] = 1 .. Len(hlist[c])
                                        /\ Len(hlist[c]) \in Nat
                                        /\ (hlist[c] = <<>> <=> Len(hlist[c]) = 0)
  BY EmptyLen DEF TypeOK
<1>2. PICK i \in DOMAIN hlist[p] :
        /\ hlist[p][i] = walk.pos.node
        /\ \A m \in walk.due : \E c \in Bucket : \E j \in DOMAIN hlist[c] :
             hlist[c][j] = m /\ Ahead(c, j, i)
        /\ \A c \in Bucket : \A j \in DOMAIN hlist[c] :
             Ahead(c, j, i) => hlist[c][j] \notin walk.visited
        /\ walk.visited \subseteq Allocated
  BY DEF WalkPosition, ForEachNext
<1>3. PICK g \in DOMAIN hlist[p] :
        /\ hlist[p][g] = walk.pos.node
        /\ walk' = [walk EXCEPT
                      !.pos = hash_map_pos_next(p, g),
                      !.at = IF hash_map_pos_next(p, g).node = NULL
                             THEN "done" ELSE "func"]
  BY DEF ForEachNext
<1>4. g = i
  BY <1>1, <1>2, <1>3, OneChain DEF Structure
<1> DEFINE q == hash_map_pos_next(p, i)
<1>5. /\ hlist' = hlist /\ key' = key /\ walk.at = "next" /\ walk'.pos = q
      /\ walk'.at = IF q.node = NULL THEN "done" ELSE "func"
      /\ walk'.due = walk.due /\ walk'.visited = walk.visited
      /\ walk'.again = walk.again
  BY <1>3, <1>4 DEF ForEachNext, TypeOK
<1>6. \A c \in Bucket : \A j \in DOMAIN hlist[c] :
        Ahead(c, j, i) <=> c > p \/ (c = p /\ j > i)
  BY <1>5 DEF Ahead
<1>7. ASSUME NEW h, q.node # NULL, q.bucket \in Bucket, h \in DOMAIN hlist[q.bucket],
             hlist[q.bucket][h] = q.node,
             \A c \in Bucket : \A j \in DOMAIN hlist[c] :
               Ahead(c, j, h)' <=> Ahead(c, j, i)
      PROVE  WalkPosition' /\ WalkComplete'
  BY <1>2, <1>5, <1>7 DEF WalkPosition, WalkComplete
<1>8. CASE i < len
  <2>1. q = Pos(hlist[p][i + 1], p) /\ i + 1 \in DOMAIN hlist[p]
    BY <1>1, <1>8 DEF hash_map_pos_next
  <2>2. q.node # NULL
    BY <1>1, <2>1, EmptyLen, NullAssumption DEF TypeOK
  <2>3. ASSUME NEW c \in Bucket, NEW j \in DOMAIN hlist[c]
        PROVE  Ahead(c, j, i + 1)' <=> Ahead(c, j, i)
    <3>1. j \in Int /\ i \in Int /\ c \in Int /\ p \in Int
      BY <1>1, BucketSizeAssumption
    <3>2. Ahead(c, j, i + 1)' <=> c > p \/ (c = p /\ (j > i + 1 \/ j = i + 1))
      BY <1>5, <2>1, <2>2 DEF Ahead
    <3> QED
      BY <1>6, <3>1, <3>2
  <2> QED
    BY <1>1, <1>7, <2>1, <2>2, <2>3
<1>9. CASE ~(i < len)
  <2>1. q = FirstFrom(p + 1) /\ p + 1 \in Nat /\ i = len
    BY <1>1, <1>9, BucketSizeAssumption DEF hash_map_pos_next
  <2>2. \A c \in Bucket : \A j \in DOMAIN hlist[c] : Ahead(c, j, i) <=> c >= p + 1
    BY SMTT(30), <1>1, <1>6, <2>1, BucketSizeAssumption
  <2>3. CASE q.node = NULL
    <3>1. \A c \in Bucket : c >= p + 1 => hlist[c] = <<>>
      BY <2>1, <2>3, FirstFromProperties
    <3>2. walk.due = {}
      BY <1>1, <1>2, <2>2, <3>1
    <3> QED
      BY <1>5, <2>3, <3>2 DEF WalkPosition, WalkComplete
  <2>4. CASE q.node # NULL
    <3>1. /\ q.bucket \in Bucket
          /\ q.bucket >= p + 1
          /\ hlist[q.bucket] # <<>>
          /\ q.node = hlist[q.bucket][1]
          /\ \A c \in Bucket : c >= p + 1 /\ c < q.bucket => hlist[c] = <<>>
      BY <2>1, <2>4, FirstFromProperties
    <3>2. 1 \in DOMAIN hlist[q.bucket]
      BY <1>1, <3>1
    <3>3. ASSUME NEW c \in Bucket, NEW j \in DOMAIN hlist[c]
          PROVE  Ahead(c, j, 1)' <=> Ahead(c, j, i)
      <4>1. j \in Int /\ j >= 1 /\ c \in Int /\ q.bucket \in Int /\ p \in Int
            /\ hlist[c] # <<>>
        BY <1>1, <3>1, BucketSizeAssumption
      <4>2. Ahead(c, j, 1)' <=> c > q.bucket \/ (c = q.bucket /\ (j > 1 \/ j = 1))
        BY <1>5, <2>4 DEF Ahead
      <4>3. c >= p + 1 <=> c >= q.bucket
        BY <3>1, <4>1
      <4> QED
        BY <2>2, <4>1, <4>2, <4>3
    <3> QED
      BY <1>7, <2>4, <3>1, <3>2, <3>3
  <2> QED
    BY <2>3, <2>4
<1> QED
  BY <1>8, <1>9

\* hash_map_for_each, interleaved with any inserts, searches and deletes of
\* other nodes, calls func exactly once on every node that stays in the map.
THEOREM WalkCorrect == Spec => [](WalkComplete /\ WalkPosition)
<1>1. Init => WalkComplete /\ WalkPosition
  BY DEF Init, NoWalk, WalkComplete, WalkPosition
<1>2. TypeOK /\ Structure /\ WalkComplete /\ WalkPosition /\ [Next]_vars
        => WalkComplete' /\ WalkPosition'
  <2> SUFFICES ASSUME TypeOK, Structure, WalkComplete, WalkPosition, [Next]_vars
               PROVE  WalkComplete' /\ WalkPosition'
    OBVIOUS
  <2>1. ASSUME NEW k \in Key, NEW n \in Node, hash_map_insert(k, n)
        PROVE  WalkComplete' /\ WalkPosition'
    BY <2>1, InsertWalk DEF hash_map_insert, WalkComplete
  <2>2. ASSUME NEW k \in Key, NEW n \in Node, InsertBadHash(k, n)
        PROVE  WalkComplete' /\ WalkPosition'
    BY <2>2 DEF InsertBadHash, Store, WalkComplete, WalkPosition, Ahead
  <2>3. ASSUME NEW b \in Bucket, NEW i \in DOMAIN hlist[b], hash_map_delete(b, i)
        PROVE  WalkComplete' /\ WalkPosition'
    <3>1. /\ walk'.due = walk.due \ {hlist[b][i]}
          /\ walk'.again = walk.again
          /\ walk'.at = "done" => walk.at = "done"
      BY <2>3 DEF hash_map_delete, TypeOK
    <3> QED
      BY <2>3, <3>1, DeleteWalk DEF WalkComplete
  <2>4. ASSUME NEW b \in Bucket, NEW i \in DOMAIN hlist[b], Delete(b, i)
        PROVE  WalkComplete' /\ WalkPosition'
    BY <2>3, <2>4 DEF Delete
  <2>5. CASE DestroyStep
    BY <2>3, <2>5 DEF DestroyStep, TypeOK
  <2>6. CASE ForEach
    <3>1. CASE ForEachDangling
      BY <3>1 DEF ForEachDangling, NoWalk, WalkComplete, WalkPosition
    <3> QED
      BY <2>6, <3>1, StartWalk, FuncWalk, NextWalk DEF ForEach
  <2>7. CASE Create
    BY <2>7 DEF Create, NoWalk, WalkComplete, WalkPosition
  <2>8. CASE hlist' = hlist /\ key' = key /\ walk' = walk
    BY <2>8 DEF WalkComplete, WalkPosition, Ahead
  <2>9. ASSUME NEW k \in Key, Search(k)
        PROVE  WalkComplete' /\ WalkPosition'
    BY <2>8, <2>9 DEF Search
  <2>10. CASE CreateNoMem \/ DestroyStart \/ DestroyEnd \/ Halt \/ UNCHANGED vars
    BY <2>8, <2>10 DEF CreateNoMem, DestroyStart, DestroyEnd, Halt, vars
  <2> QED
    BY <2>1, <2>2, <2>4, <2>5, <2>6, <2>7, <2>9, <2>10 DEF Next, Operation
<1> QED
  BY <1>1, <1>2, TypeCorrect, StructureCorrect, PTL DEF Spec, Structure

\* Where a walk stands: the node of the position it goes on from is in its
\* chain, and all that func has still to be given lies ahead of it.
THEOREM WalkKeepsPosition == Spec => []WalkPosition
BY WalkCorrect, PTL

(***************************************************************************)
(* Refinement of KeyStacks                                                 *)
(***************************************************************************)

\* A set of pairs of nodes is known by the pairs it holds.
LEMMA SamePairs ==
    ASSUME NEW S, NEW A \in SUBSET (S \X S), NEW B \in SUBSET (S \X S),
           \A x, y \in S : <<x, y>> \in A <=> <<x, y>> \in B
    PROVE  A = B
  OBVIOUS

\* What a node and a pair of nodes must be to count in the mapping.
MappingView == /\ Linked \subseteq Node
               /\ \A n : n \in Linked <=>
                    \E b \in Bucket : \E i \in DOMAIN hlist[b] : hlist[b][i] = n
               /\ \A k \in Key : \A n : n \in Live[k] <=> n \in Linked /\ key[n] = k
               /\ Newer \in SUBSET (Node \X Node)
               /\ \A x, y : <<x, y>> \in Newer <=> key[x] = key[y] /\ InFront(x, y)
               /\ \A b \in Bucket : Len(hlist[b]) \in Nat
                                    /\ DOMAIN hlist[b] = 1 .. Len(hlist[b])

LEMMA MappedFacts == TypeOK /\ InOwnBucket => MappingView
<1> SUFFICES ASSUME TypeOK, InOwnBucket PROVE MappingView
  OBVIOUS
<1>1. /\ Linked \subseteq Node
      /\ \A n : n \in Linked <=>
           \E b \in Bucket : \E i \in DOMAIN hlist[b] : hlist[b][i] = n
      /\ \A b \in Bucket : Len(hlist[b]) \in Nat
                           /\ DOMAIN hlist[b] = 1 .. Len(hlist[b])
  BY EmptyLen DEF TypeOK, Linked, ToSet
<1>2. \A k \in Key : \A n : n \in Live[k] <=> n \in Linked /\ key[n] = k
  BY DEF Live
<1>3. Newer \in SUBSET (Node \X Node)
  BY <1>1 DEF Newer
<1>4. \A x, y : InFront(x, y) => x \in Linked /\ y \in Linked
  BY <1>1 DEF InFront
<1>5. \A x, y : <<x, y>> \in Newer <=> key[x] = key[y] /\ InFront(x, y)
  BY <1>4 DEF Newer
<1> QED
  BY <1>1, <1>2, <1>3, <1>5 DEF MappingView

\* The same of the next state.
LEMMA MappedFactsNext == TypeOK' /\ InOwnBucket' => MappingView'
BY MappedFacts, PTL

USE DEF MappingView

\* Of two nodes of one key, one is in front, and only one.
LEMMA FrontOrder ==
    ASSUME TypeOK, InOwnBucket, NEW n \in Linked, NEW m \in Linked,
           key[n] = key[m], n # m
    PROVE  /\ InFront(n, m) \/ InFront(m, n)
           /\ ~(InFront(n, m) /\ InFront(m, n))
<1>1. PICK b \in Bucket : \E i \in DOMAIN hlist[b] : hlist[b][i] = n
  BY MappedFacts
<1>2. PICK i \in DOMAIN hlist[b] : hlist[b][i] = n
  BY <1>1
<1>3. PICK c \in Bucket : \E j \in DOMAIN hlist[c] : hlist[c][j] = m
  BY MappedFacts
<1>4. PICK j \in DOMAIN hlist[c] : hlist[c][j] = m
  BY <1>3
<1>5. b = c
  BY <1>2, <1>4 DEF InOwnBucket
<1>6. i \in Nat /\ j \in Nat /\ i # j
  BY <1>2, <1>4, <1>5, MappedFacts
<1>7. InFront(n, m) \/ InFront(m, n)
  BY <1>2, <1>4, <1>5, <1>6 DEF InFront
<1>8. \A d \in Bucket : \A g, h \in DOMAIN hlist[d] :
        /\ hlist[d][g] = n => d = b /\ g = i
        /\ hlist[d][h] = m => d = b /\ h = j
  BY <1>2, <1>4, <1>5, OneChain
<1>9. InFront(n, m) => i < j
  BY <1>8 DEF InFront
<1>10. InFront(m, n) => j < i
  BY <1>8 DEF InFront
<1> QED
  BY <1>6, <1>7, <1>9, <1>10

\* hash_map_search returns the top of its key's stack.
LEMMA SearchesTop ==
    ASSUME TypeOK, InOwnBucket, NEW k \in Key
    PROVE  hash_map_search(k).node = Stacks!Top(k)
<1> DEFINE b == HashFunc[k]
           I == {i \in 1 .. Len(hlist[b]) : key[hlist[b][i]] = k}
<1>1. \A n : n \in Live[k] =>
        b \in Bucket /\ \E i \in DOMAIN hlist[b] : i \in I /\ hlist[b][i] = n
  <2> SUFFICES ASSUME NEW n \in Live[k]
               PROVE  b \in Bucket /\ \E i \in DOMAIN hlist[b] : i \in I /\ hlist[b][i] = n
    OBVIOUS
  <2>1. n \in Linked /\ key[n] = k
    BY MappedFacts
  <2>2. PICK c \in Bucket : \E i \in DOMAIN hlist[c] : hlist[c][i] = n
    BY <2>1, MappedFacts
  <2>3. PICK i \in DOMAIN hlist[c] : hlist[c][i] = n
    BY <2>2
  <2>4. c = b
    BY <2>1, <2>3 DEF InOwnBucket
  <2> QED
    BY <2>1, <2>3, <2>4, MappedFacts
<1>2. b \in Bucket => \A i \in I : i \in DOMAIN hlist[b] /\ hlist[b][i] \in Live[k]
  BY MappedFacts
<1>3. b \in Nat
  BY HashFuncAssumption
<1>4. CASE Live[k] = {}
  <2>1. Stacks!Top(k) = NULL
    BY <1>4 DEF Stacks!Top
  <2>2. CASE b >= BucketSize
    BY <2>1, <2>2 DEF hash_map_search
  <2>3. CASE ~(b >= BucketSize)
    <3>1. b \in Bucket /\ I = {}
      BY <1>2, <1>3, <1>4, <2>3, BucketSizeAssumption
    <3> QED
      BY <2>1, <2>3, <3>1 DEF hash_map_search, SelectInSeq
  <2> QED
    BY <2>2, <2>3
<1>5. CASE Live[k] # {}
  <2>1. b \in Bucket /\ I # {} /\ ~(b >= BucketSize)
    BY <1>1, <1>5, BucketSizeAssumption
  <2>2. I \subseteq Nat /\ \E m \in I : \A d \in I : m <= d
    <3>1. I \subseteq Nat
      OBVIOUS
    <3> HIDE DEF I
    <3> QED
      BY <2>1, <3>1, LeastExists
  <2>3. PICK i \in I : i = Min(I) /\ \A d \in I : i <= d
    BY <2>2 DEF Min
  <2>4. i # 0 /\ hash_map_search(k).node = hlist[b][i]
    BY <2>1, <2>3 DEF hash_map_search, SelectInSeq
  <2> DEFINE n == hlist[b][i]
  <2>5. n \in Live[k] /\ i \in DOMAIN hlist[b]
    BY <1>2, <2>1, <2>3
  <2>6. \A m \in Live[k] \ {n} : <<n, m>> \in Newer
    <3> SUFFICES ASSUME NEW m \in Live[k] \ {n} PROVE <<n, m>> \in Newer
      OBVIOUS
    <3>1. PICK j \in DOMAIN hlist[b] : j \in I /\ hlist[b][j] = m
      BY <1>1
    <3>2. i < j
      <4>1. i <= j /\ i # j
        BY <2>3, <3>1
      <4> QED
        BY <2>5, <3>1, <4>1, <2>1, MappedFacts
    <3>3. InFront(n, m)
      BY <2>1, <2>5, <3>1, <3>2 DEF InFront
    <3> QED
      BY <2>5, <3>3, MappedFacts
  <2>7. ASSUME NEW x \in Live[k], \A m \in Live[k] \ {x} : <<x, m>> \in Newer
        PROVE  x = n
    <3> SUFFICES ASSUME x # n PROVE FALSE
      OBVIOUS
    <3>1. <<x, n>> \in Newer /\ <<n, x>> \in Newer
      <4> HIDE DEF n
      <4> QED
        BY <2>5, <2>6, <2>7
    <3>2. InFront(x, n) /\ InFront(n, x)
      BY <3>1, MappedFacts
    <3>3. x \in Linked /\ n \in Linked /\ key[x] = key[n]
      BY <2>5, MappedFacts
    <3> QED
      BY <3>2, <3>3, FrontOrder
  <2>8. (CHOOSE x \in Live[k] : \A m \in Live[k] \ {x} : <<x, m>> \in Newer) = n
    <3> HIDE DEF n, I
    <3> QED
      BY <2>5, <2>6, <2>7
  <2> QED
    BY <1>5, <2>4, <2>8 DEF Stacks!Top
<1> QED
  BY <1>4, <1>5

\* hash_map_insert pushes an entry.
LEMMA InsertPushes ==
    ASSUME TypeOK, InOwnBucket, InOwnBucket', TypeOK',
           NEW k \in Key, NEW n \in Node, hash_map_insert(k, n)
    PROVE  Stacks!Insert(k, n)
<1> DEFINE b == HashFunc[k]
           len == Len(hlist[b])
<1>1. /\ b \in Bucket
      /\ n \notin Allocated
      /\ \A c \in Bucket : c # b => hlist'[c] = hlist[c]
      /\ DOMAIN hlist'[b] = 1 .. len + 1
      /\ \A j \in 1 .. len + 1 : hlist'[b][j] = IF j = 1 THEN n ELSE hlist[b][j - 1]
      /\ key' = [m \in Allocated \cup {n} |-> IF m = n THEN k ELSE key[m]]
  BY InsertChains
<1>2. len \in Nat /\ DOMAIN hlist[b] = 1 .. len
  BY <1>1, MappedFacts
<1>3. \A m \in Linked : m \in Allocated /\ m # n /\ key'[m] = key[m]
  BY <1>1, MappedFacts DEF InOwnBucket
<1>4. key'[n] = k
  BY <1>1
<1> HIDE DEF b, len
<1>5. \A j \in 1 .. len : j + 1 \in DOMAIN hlist'[b] /\ hlist'[b][j + 1] = hlist[b][j]
  <2> SUFFICES ASSUME NEW j \in 1 .. len
               PROVE  j + 1 \in DOMAIN hlist'[b] /\ hlist'[b][j + 1] = hlist[b][j]
    OBVIOUS
  <2>1. j + 1 \in 1 .. len + 1 /\ j + 1 # 1 /\ (j + 1) - 1 = j
    BY <1>2
  <2> QED
    BY <1>1, <2>1
<1>6. 1 \in DOMAIN hlist'[b] /\ hlist'[b][1] = n
  BY <1>1, <1>2
<1>7. \A j \in DOMAIN hlist'[b] : j # 1 =>
        j - 1 \in DOMAIN hlist[b] /\ hlist'[b][j] = hlist[b][j - 1]
  BY <1>1, <1>2
<1>8. /\ \A m : m \in Linked' <=>
             \E c \in Bucket : \E i \in DOMAIN hlist'[c] : hlist'[c][i] = m
      /\ \A h \in Key : \A m : m \in Live'[h] <=> m \in Linked' /\ key'[m] = h
      /\ Newer' \in SUBSET (Node \X Node)
      /\ \A x, y : <<x, y>> \in Newer' <=> key'[x] = key'[y] /\ InFront(x, y)'
  BY MappedFactsNext
<1>9. \A m : m \in Linked' <=> m \in Linked \/ m = n
  <2>1. ASSUME NEW m \in Linked' PROVE m \in Linked \/ m = n
    <3>1. PICK c \in Bucket : \E i \in DOMAIN hlist'[c] : hlist'[c][i] = m
      BY <1>8
    <3>2. PICK i \in DOMAIN hlist'[c] : hlist'[c][i] = m
      BY <3>1
    <3>3. CASE c = b
      <4>1. CASE i = 1
        BY <1>6, <3>2, <3>3, <4>1
      <4>2. CASE i # 1
        <5>1. i - 1 \in DOMAIN hlist[b] /\ hlist[b][i - 1] = m
          BY <1>7, <3>2, <3>3, <4>2
        <5> QED
          BY <1>1, <5>1, MappedFacts
      <4> QED
        BY <4>1, <4>2
    <3>4. CASE c # b
      BY <1>1, <3>2, <3>4, MappedFacts
    <3> QED
      BY <3>3, <3>4
  <2>2. ASSUME NEW m \in Linked PROVE m \in Linked'
    <3>1. PICK c \in Bucket : \E i \in DOMAIN hlist[c] : hlist[c][i] = m
      BY MappedFacts
    <3>2. PICK i \in DOMAIN hlist[c] : hlist[c][i] = m
      BY <3>1
    <3>3. CASE c = b
      BY <1>1, <1>2, <1>5, <1>8, <3>2, <3>3
    <3>4. CASE c # b
      BY <1>1, <1>8, <3>2, <3>4
    <3> QED
      BY <3>3, <3>4
  <2>3. n \in Linked'
    BY <1>1, <1>6, <1>8
  <2> QED
    BY <2>1, <2>2, <2>3
<1>10. \A h \in Key : \A m : m \in Live'[h] <=> m \in Live[h] \/ (h = k /\ m = n)
  BY <1>3, <1>4, <1>8, <1>9, MappedFacts
<1>11. Live' = [Live EXCEPT ![k] = @ \cup {n}]
  <2>1. /\ DOMAIN Live = Key /\ DOMAIN Live' = Key
        /\ Live' = [h \in Key |-> Live'[h]]
    BY DEF Live
  <2>2. \A h \in Key : Live'[h] = IF h = k THEN Live[h] \cup {n} ELSE Live[h]
    BY <1>10
  <2>3. Live' = [h \in Key |-> IF h = k THEN Live[h] \cup {n} ELSE Live[h]]
    BY <2>1, <2>2
  <2> QED
    BY <2>1, <2>3
<1>12. \A x, y : x \in Linked /\ y \in Linked => (InFront(x, y)' <=> InFront(x, y))
  <2> SUFFICES ASSUME NEW x, NEW y, x \in Linked, y \in Linked
               PROVE  InFront(x, y)' <=> InFront(x, y)
    OBVIOUS
  <2>1. ASSUME NEW c \in Bucket, NEW i \in DOMAIN hlist[c], NEW j \in DOMAIN hlist[c],
               i < j, hlist[c][i] = x, hlist[c][j] = y
        PROVE  InFront(x, y)'
    <3>1. CASE c = b
      <4>1. i + 1 < j + 1
        BY <1>2, <2>1, <3>1
      <4> QED
        BY ZenonT(30), <1>1, <1>2, <1>5, <2>1, <3>1, <4>1 DEF InFront
    <3>2. CASE c # b
      BY <1>1, <2>1, <3>2 DEF InFront
    <3> QED
      BY <3>1, <3>2
  <2>2. ASSUME NEW c \in Bucket, NEW i \in DOMAIN hlist'[c], NEW j \in DOMAIN hlist'[c],
               i < j, hlist'[c][i] = x, hlist'[c][j] = y
        PROVE  InFront(x, y)
    <3>1. CASE c = b
      <4>1. i # 1 /\ j # 1
        BY <1>3, <1>6, <2>2, <3>1
      <4>2. i - 1 < j - 1
        BY <1>1, <1>2, <2>2, <3>1
      <4> QED
        BY <1>1, <1>7, <2>2, <3>1, <4>1, <4>2 DEF InFront
    <3>2. CASE c # b
      BY <1>1, <2>2, <3>2 DEF InFront
    <3> QED
      BY <3>1, <3>2
  <2> QED
    BY <2>1, <2>2 DEF InFront
<1>13. \A x : ~InFront(x, n)'
  <2> SUFFICES ASSUME NEW x, NEW c \in Bucket, NEW i \in DOMAIN hlist'[c],
                      NEW j \in DOMAIN hlist'[c],
                      i < j, hlist'[c][j] = n
               PROVE  FALSE
    BY DEF InFront
  <2>1. j = 1 /\ c = b
    <3>1. \A d \in Bucket : \A h \in DOMAIN hlist[d] : hlist[d][h] # n
      BY <1>3, MappedFacts
    <3>2. c = b
      BY <1>1, <3>1
    <3> QED
      BY <1>1, <1>7, <3>1, <3>2
  <2> QED
    BY <1>1, <1>2, <2>1
<1>14. \A y \in Live[k] : InFront(n, y)'
  <2> SUFFICES ASSUME NEW y \in Live[k] PROVE InFront(n, y)'
    OBVIOUS
  <2>1. y \in Linked /\ key[y] = k
    BY MappedFacts
  <2>2. PICK c \in Bucket : \E i \in DOMAIN hlist[c] : hlist[c][i] = y
    BY <2>1, MappedFacts
  <2>3. PICK i \in DOMAIN hlist[c] : hlist[c][i] = y
    BY <2>2
  <2>4. c = b
    BY <2>1, <2>3 DEF InOwnBucket, b
  <2>5. 1 < i + 1
    BY <1>2, <2>3, <2>4
  <2> QED
    BY <1>1, <1>2, <1>5, <1>6, <2>3, <2>4, <2>5 DEF InFront
<1>15. \A x, y \in Node :
         <<x, y>> \in Newer' <=> <<x, y>> \in Newer \/ (x = n /\ y \in Live[k])
  <2> SUFFICES ASSUME NEW x \in Node, NEW y \in Node
               PROVE  <<x, y>> \in Newer' <=> <<x, y>> \in Newer \/ (x = n /\ y \in Live[k])
    OBVIOUS
  <2>1. InFront(x, y) => x \in Linked /\ y \in Linked
    BY MappedFacts DEF InFront
  <2>2. InFront(x, y)' => x \in Linked' /\ y \in Linked'
    BY <1>8 DEF InFront
  <2>3. CASE y = n
    BY <1>3, <1>8, <1>13, <2>1, <2>3, MappedFacts
  <2>4. CASE y # n /\ x = n
    BY <1>3, <1>4, <1>8, <1>9, <1>14, <2>1, <2>2, <2>4, MappedFacts
  <2>5. CASE y # n /\ x # n
    BY <1>3, <1>8, <1>9, <1>12, <2>1, <2>2, <2>5, MappedFacts
  <2> QED
    BY <2>3, <2>4, <2>5
<1>16. Newer' = Newer \cup ({n} \X Live[k])
  <2>1. Live[k] \subseteq Node
    BY MappedFacts
  <2>2. Newer \cup ({n} \X Live[k]) \in SUBSET (Node \X Node)
    BY <2>1, MappedFacts
  <2>3. \A x, y \in Node : <<x, y>> \in Newer \cup ({n} \X Live[k])
                             <=> <<x, y>> \in Newer \/ (x = n /\ y \in Live[k])
    OBVIOUS
  <2> QED
    BY <1>8, <1>15, <2>2, <2>3, SamePairs
<1>17. Open /\ Open' = Open /\ found' = found
  BY DEF hash_map_insert, Open
<1>18. n \notin Stacks!Entries
  BY <1>3, MappedFacts DEF Stacks!Entries
<1> QED
  BY <1>11, <1>16, <1>17, <1>18 DEF Stacks!Insert

\* hash_map_delete removes an entry, the top one or another, and leaves the
\* order of the rest.
LEMMA DeleteRemoves ==
    ASSUME TypeOK, InOwnBucket, InOwnBucket', TypeOK', Open, Open' = Open,
           found' = found, NEW b \in Bucket, NEW i \in DOMAIN hlist[b],
           hash_map_delete(b, i)
    PROVE  /\ key[hlist[b][i]] \in Key
           /\ hlist[b][i] \in Live[key[hlist[b][i]]]
           /\ Stacks!Delete(key[hlist[b][i]], hlist[b][i])
<1> DEFINE n == hlist[b][i]
           k == key[n]
           len == Len(hlist[b])
           Old(j) == IF j < i THEN j ELSE j + 1
           New(j) == IF j < i THEN j ELSE j - 1
<1>1. /\ len \in Nat
      /\ DOMAIN hlist[b] = 1 .. len
      /\ i \in 1 .. len
      /\ \A c \in Bucket : c # b => hlist'[c] = hlist[c]
      /\ DOMAIN hlist'[b] = 1 .. len - 1
      /\ key' = [m \in Allocated \ {n} |-> key[m]]
  BY DeleteChains, EmptyLen
<1>2. \A j \in 1 .. len - 1 : /\ hlist'[b][j] = hlist[b][Old(j)]
                              /\ Old(j) \in 1 .. len
                              /\ Old(j) # i
  BY <1>1, DeleteChains
<1>3. \A j \in 1 .. len : j # i => New(j) \in 1 .. len - 1 /\ Old(New(j)) = j
  BY <1>1
<1>4. /\ \A g, h \in 1 .. len - 1 : g < h => Old(g) < Old(h)
      /\ \A g, h \in 1 .. len : g # i /\ h # i /\ g < h => New(g) < New(h)
  BY <1>1
<1>5. \A c \in Bucket : \A j \in DOMAIN hlist[c] : hlist[c][j] = n => c = b /\ j = i
  BY OneChain
<1>6. n \in Linked /\ n \in Allocated /\ k \in Key /\ n \in Live[k]
  <2>1. n \in Linked
    BY MappedFacts
  <2>2. n \in Allocated
    BY DEF InOwnBucket
  <2>3. k \in Key
    BY <2>2 DEF TypeOK
  <2> HIDE DEF k, n
  <2>4. n \in Live[key[n]] <=> n \in Linked /\ key[n] = key[n]
    BY <2>3, MappedFacts DEF k
  <2> QED
    BY <2>1, <2>2, <2>3, <2>4 DEF k
<1> HIDE DEF n, k, len, Old, New
<1>7. \A m \in Linked : m \in Allocated /\ (m # n => key'[m] = key[m])
  BY <1>1, MappedFacts DEF InOwnBucket
<1>8. /\ \A m : m \in Linked' <=>
             \E c \in Bucket : \E j \in DOMAIN hlist'[c] : hlist'[c][j] = m
      /\ \A h \in Key : \A m : m \in Live'[h] <=> m \in Linked' /\ key'[m] = h
      /\ Newer' \in SUBSET (Node \X Node)
      /\ \A x, y : <<x, y>> \in Newer' <=> key'[x] = key'[y] /\ InFront(x, y)'
  BY MappedFactsNext
<1>9. \A j \in 1 .. len : j # i =>
        New(j) \in DOMAIN hlist'[b] /\ hlist'[b][New(j)] = hlist[b][j]
  BY <1>1, <1>2, <1>3
<1>10. \A m : m \in Linked' <=> m \in Linked /\ m # n
  <2>1. ASSUME NEW m \in Linked' PROVE m \in Linked /\ m # n
    <3>1. PICK c \in Bucket : \E j \in DOMAIN hlist'[c] : hlist'[c][j] = m
      BY <1>8
    <3>2. PICK j \in DOMAIN hlist'[c] : hlist'[c][j] = m
      BY <3>1
    <3>3. CASE c = b
      <4>1. Old(j) \in DOMAIN hlist[b] /\ hlist[b][Old(j)] = m /\ Old(j) # i
        BY <1>1, <1>2, <3>2, <3>3
      <4> QED
        BY <1>5, <4>1, MappedFacts
    <3>4. CASE c # b
      BY <1>1, <1>5, <3>2, <3>4, MappedFacts
    <3> QED
      BY <3>3, <3>4
  <2>2. ASSUME NEW m \in Linked, m # n PROVE m \in Linked'
    <3>1. PICK c \in Bucket : \E j \in DOMAIN hlist[c] : hlist[c][j] = m
      BY MappedFacts
    <3>2. PICK j \in DOMAIN hlist[c] : hlist[c][j] = m
      BY <3>1
    <3>3. CASE c = b
      <4>1. j \in 1 .. len /\ j # i
        BY <1>1, <2>2, <3>2, <3>3 DEF n
      <4> QED
        BY <1>8, <1>9, <3>2, <3>3, <4>1
    <3>4. CASE c # b
      BY <1>1, <1>8, <3>2, <3>4
    <3> QED
      BY <3>3, <3>4
  <2> QED
    BY <2>1, <2>2
<1>11. Live' = [Live EXCEPT ![k] = @ \ {n}]
  <2>1. \A h \in Key : \A m : m \in Live'[h] <=> m \in Live[h] /\ m # n
    BY <1>7, <1>8, <1>10, MappedFacts
  <2>2. n \in Linked /\ key[n] = k
    BY <1>6 DEF k
  <2>3. \A h \in Key : Live'[h] = IF h = k THEN Live[h] \ {n} ELSE Live[h]
    <3> SUFFICES ASSUME NEW h \in Key
                 PROVE  Live'[h] = IF h = k THEN Live[h] \ {n} ELSE Live[h]
      OBVIOUS
    <3>1. h # k => n \notin Live[h]
      BY <2>2, MappedFacts
    <3> QED
      BY <2>1, <3>1
  <2>4. /\ DOMAIN Live = Key /\ DOMAIN Live' = Key
        /\ Live' = [h \in Key |-> Live'[h]]
    BY DEF Live
  <2>5. Live' = [h \in Key |-> IF h = k THEN Live[h] \ {n} ELSE Live[h]]
    BY <2>3, <2>4
  <2> QED
    BY <2>4, <2>5
<1>12. \A x, y : InFront(x, y)' <=> InFront(x, y) /\ x # n /\ y # n
  <2> SUFFICES ASSUME NEW x, NEW y
               PROVE  InFront(x, y)' <=> InFront(x, y) /\ x # n /\ y # n
    OBVIOUS
  <2>1. ASSUME NEW c \in Bucket, NEW g \in DOMAIN hlist[c], NEW h \in DOMAIN hlist[c],
               g < h, hlist[c][g] = x, hlist[c][h] = y, x # n, y # n
        PROVE  InFront(x, y)'
    <3>1. CASE c = b
      <4>1. g \in 1 .. len /\ h \in 1 .. len /\ g # i /\ h # i
        BY <1>1, <2>1, <3>1 DEF n
      <4>2. New(g) < New(h)
        BY <1>4, <2>1, <4>1
      <4> QED
        BY <1>9, <2>1, <3>1, <4>1, <4>2 DEF InFront
    <3>2. CASE c # b
      BY <1>1, <2>1, <3>2 DEF InFront
    <3> QED
      BY <3>1, <3>2
  <2>2. ASSUME NEW c \in Bucket, NEW g \in DOMAIN hlist'[c], NEW h \in DOMAIN hlist'[c],
               g < h, hlist'[c][g] = x, hlist'[c][h] = y
        PROVE  InFront(x, y)
    <3>1. CASE c = b
      <4>1. g \in 1 .. len - 1 /\ h \in 1 .. len - 1
        BY <1>1, <2>2, <3>1
      <4>2. Old(g) < Old(h) /\ Old(g) \in DOMAIN hlist[b] /\ Old(h) \in DOMAIN hlist[b]
        BY <1>1, <1>2, <1>4, <2>2, <4>1
      <4>3. hlist[b][Old(g)] = x /\ hlist[b][Old(h)] = y
        BY <1>2, <2>2, <3>1, <4>1
      <4> QED
        BY <4>2, <4>3 DEF InFront
    <3>2. CASE c # b
      BY <1>1, <2>2, <3>2 DEF InFront
    <3> QED
      BY <3>1, <3>2
  <2>3. InFront(x, y)' => x # n /\ y # n
    <3>1. InFront(x, y)' => x \in Linked' /\ y \in Linked'
      BY <1>8 DEF InFront
    <3> QED
      BY <1>10, <3>1
  <2> QED
    BY <2>1, <2>2, <2>3 DEF InFront
<1>13. \A x, y \in Node :
         <<x, y>> \in Newer' <=> <<x, y>> \in Newer /\ x # n /\ y # n
  <2> SUFFICES ASSUME NEW x \in Node, NEW y \in Node
               PROVE  <<x, y>> \in Newer' <=> <<x, y>> \in Newer /\ x # n /\ y # n
    OBVIOUS
  <2>1. InFront(x, y) => x \in Linked /\ y \in Linked
    BY MappedFacts DEF InFront
  <2> QED
    BY <1>7, <1>8, <1>12, <2>1, MappedFacts
<1>14. Newer' = {p \in Newer : n \notin {p[1], p[2]}}
  <2> DEFINE Kept == {p \in Newer : n \notin {p[1], p[2]}}
  <2>1. Newer \in SUBSET (Node \X Node)
    BY MappedFacts
  <2>2. Kept \in SUBSET (Node \X Node)
    BY <2>1
  <2>3. \A x, y \in Node : <<x, y>> \in Kept <=> <<x, y>> \in Newer /\ x # n /\ y # n
    OBVIOUS
  <2> HIDE DEF Kept
  <2>4. Newer' = Kept
    <3>1. \A x, y \in Node : <<x, y>> \in Newer' <=> <<x, y>> \in Kept
      BY <1>13, <2>3
    <3>2. Newer' \in SUBSET (Node \X Node)
      BY <1>8
    <3> QED
      BY <2>2, <3>1, <3>2, SamePairs
  <2> QED
    BY <2>4 DEF Kept
<1>15. Stacks!Delete(k, n)
  BY <1>11, <1>14 DEF Stacks!Delete
<1> QED
  BY <1>6, <1>15 DEF k, n

\* A walk is under way only while the map is in use.
WalkInReady == walk.at \in {"func", "next", "dangling"} => phase = "ready"

\* A step that leaves the chains, their keys and what the caller has found
\* alone is not seen by the user of the stacks.
LEMMA UnseenStep ==
    ASSUME TypeOK, InOwnBucket, hlist' = hlist, found' = found, Open' = Open,
           \A m \in Linked : key'[m] = key[m]
    PROVE  UNCHANGED Stacks!vars
<1>1. Linked' = Linked /\ \A x, y : InFront(x, y)' <=> InFront(x, y)
  BY DEF Linked, InFront
<1>2. Live' = Live
  BY <1>1 DEF Live
<1>3. Newer' = Newer
  BY <1>1 DEF Newer
<1> QED
  BY <1>2, <1>3 DEF Stacks!vars

\* A table of empty chains is a map of empty stacks.
NoChains == \A b \in Bucket : hlist[b] = <<>>
NoStacks == Live = Stacks!Empty /\ Newer = {}

LEMMA EmptyTable == NoChains => NoStacks
<1> SUFFICES ASSUME NoChains PROVE NoStacks
  OBVIOUS
<1>1. Linked = {}
  BY DEF Linked, ToSet, NoChains
<1> QED
  BY <1>1 DEF Live, Newer, Stacks!Empty, NoStacks

\* The same of the next state.
LEMMA EmptyTableNext == NoChains' => NoStacks'
BY EmptyTable, PTL

\* Every step of the map is a step of the stacks, or is not seen at all.
LEMMA StackStep ==
    ASSUME TypeOK, Structure, GoneIsEmpty, WalkInReady, TypeOK', Structure', [Next]_vars
    PROVE  [Stacks!Next]_(Stacks!vars) /\ WalkInReady'
<1> USE DEF Structure
<1>1. ASSUME NEW k \in Key, NEW n \in Node, hash_map_insert(k, n)
      PROVE  Stacks!Next /\ WalkInReady'
  BY <1>1, InsertPushes DEF Stacks!Next, hash_map_insert, WalkInReady
<1>2. ASSUME NEW b \in Bucket, NEW i \in DOMAIN hlist[b], hash_map_delete(b, i),
             Open, phase' = phase, found' = found
      PROVE  Stacks!Next /\ WalkInReady'
  <2>1. Stacks!Next
    BY <1>2, DeleteRemoves DEF Stacks!Next, Open
  <2>2. walk'.at \in {"func", "next", "dangling"}
          => walk.at \in {"func", "next", "dangling"}
    BY <1>2 DEF hash_map_delete, TypeOK
  <2> QED
    BY <1>2, <2>1, <2>2 DEF WalkInReady
<1>3. ASSUME NEW b \in Bucket, NEW i \in DOMAIN hlist[b], Delete(b, i)
      PROVE  Stacks!Next /\ WalkInReady'
  BY <1>2, <1>3 DEF Delete, Open
<1>4. CASE DestroyStep
  BY <1>2, <1>4 DEF DestroyStep, Open, TypeOK
<1>5. ASSUME NEW k \in Key, Search(k)
      PROVE  Stacks!Next /\ WalkInReady'
  <2>1. Linked' = Linked /\ Live' = Live /\ Newer' = Newer
    BY <1>5 DEF Search, Linked, Live, Newer, InFront
  <2>2. Open /\ Open' = Open
    BY <1>5 DEF Search, Open
  <2>3. Stacks!Search(k)
    BY <1>5, <2>1, <2>2, SearchesTop DEF Search, Stacks!Search
  <2> QED
    BY <1>5, <2>3 DEF Stacks!Next, Search, WalkInReady
<1>6. CASE Create
  <2>1. Live' = (Stacks!Empty)' /\ Newer' = {}
    BY <1>6, EmptyTableNext DEF Create, NoChains, NoStacks
  <2>2. ~Open /\ Open' /\ found' = NULL
    BY <1>6 DEF Create, Open
  <2>3. Stacks!Open
    BY <2>1, <2>2 DEF Stacks!Open, Stacks!Empty
  <2> QED
    BY <1>6, <2>3 DEF Stacks!Next, Create, NoWalk, WalkInReady
<1>7. CASE DestroyEnd
  <2>1. \A b \in Bucket : hlist[b] = <<>>
    BY <1>7 DEF DestroyEnd, BeginIsFirst
  <2>2. Live = Stacks!Empty
    BY <2>1, EmptyTable DEF NoChains, NoStacks
  <2>3. Live' = Live /\ Newer' = Newer /\ found' = found
    BY <1>7 DEF DestroyEnd, Live, Newer, Linked, InFront
  <2>4. Open /\ ~Open'
    BY <1>7 DEF DestroyEnd, Open
  <2>5. Stacks!Close
    BY <2>2, <2>3, <2>4 DEF Stacks!Close
  <2> QED
    BY <1>7, <2>5 DEF Stacks!Next, DestroyEnd, WalkInReady
<1>8. ASSUME NEW k \in Key, NEW n \in Node, InsertBadHash(k, n)
      PROVE  UNCHANGED Stacks!vars /\ WalkInReady'
  <2>1. \A m \in Linked : m \in Allocated
    BY MappedFacts DEF InOwnBucket
  <2>2. \A m \in Linked : key'[m] = key[m]
    BY <1>8, <2>1 DEF InsertBadHash, Store
  <2> QED
    BY <1>8, <2>2, UnseenStep DEF InsertBadHash, Open, WalkInReady
<1>9. CASE /\ hlist' = hlist /\ key' = key /\ found' = found /\ Open' = Open
           /\ WalkInReady'
  BY <1>9, UnseenStep
<1>10. CASE CreateNoMem \/ DestroyStart \/ Halt \/ UNCHANGED vars
  BY <1>9, <1>10 DEF CreateNoMem, DestroyStart, Halt, vars, Open, WalkInReady
<1>11. CASE ForEach
  <2>1. CASE ForEachDangling
    BY <1>9, <2>1 DEF ForEachDangling, Open, NoWalk, WalkInReady
  <2>2. CASE ForEachStart
    BY <1>9, <2>2 DEF ForEachStart, Open, WalkInReady
  <2>3. CASE ForEachFunc \/ ForEachNext
    BY <1>9, <2>3 DEF ForEachFunc, ForEachNext, Open, WalkInReady
  <2> QED
    BY <1>11, <2>1, <2>2, <2>3 DEF ForEach
<1> QED
  BY <1>1, <1>3, <1>4, <1>5, <1>6, <1>7, <1>8, <1>9, <1>10, <1>11
  DEF Next, Operation

\* The chained table of hash_list.c, with its walks, its failing allocations
\* and its hash functions that leave the table, keeps the promise its users
\* rely on: the latest entry of a key is found, a delete uncovers the entry
\* below, and hash_map_destroy gives up an empty map.
THEOREM RefinesKeyStacks == Spec => ImplementsKeyStacks
<1>1. Init => Stacks!Init /\ WalkInReady
  <2> SUFFICES ASSUME Init PROVE Stacks!Init /\ WalkInReady
    OBVIOUS
  <2>1. Live = Stacks!Empty /\ Newer = {}
    BY EmptyTable DEF Init, NoChains, NoStacks
  <2> QED
    BY <2>1 DEF Init, Open, Stacks!Init, NoWalk, WalkInReady
<1>2. Init => GoneIsEmpty
  BY DEF Init, GoneIsEmpty
<1>3. TypeOK /\ Structure /\ GoneIsEmpty /\ [Next]_vars => GoneIsEmpty'
  BY StructureStep
<1>4. TypeOK /\ Structure /\ GoneIsEmpty /\ WalkInReady /\ TypeOK' /\ Structure'
        /\ [Next]_vars => [Stacks!Next]_(Stacks!vars) /\ WalkInReady'
  BY StackStep
<1> QED
  BY <1>1, <1>2, <1>3, <1>4, TypeCorrect, StructureCorrect, PTL
  DEF Spec, Structure, ImplementsKeyStacks, Stacks!Spec
=============================================================================
