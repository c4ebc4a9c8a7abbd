--------------------------- MODULE TaskAdminProofs ---------------------------
(***************************************************************************)
(* Proofs about TaskAdmin, for every set of writers and of tasks: no task  *)
(* is lost or doubled but those whose writers share the scratch pair, and  *)
(* the lists are queues.  And about Business, which makes the tasks,       *)
(* for every set of well-formed messages: all the parts of a message are   *)
(* handled in order and whole, and nothing behind it is read.              *)
(***************************************************************************)
EXTENDS TaskAdmin, Business, SequenceTheorems, FiniteSetTheorems, TLAPS

(***************************************************************************)
(* The inductive invariant                                                 *)
(***************************************************************************)

\* Does r belong into the list, or into the map, for ty of the admin a?
ListTask(a, ty, r) == /\ r \in Request /\ AdminOf(r) = a /\ r.type = ty
                      /\ slot_type(r) = "SYS_DESIGNATE"
MapTask(a, ty, r) == /\ r \in Request /\ AdminOf(r) = a /\ r.type = ty
                     /\ slot_type(r) = "USER_DESIGNATE"

Adding(t) == writer[t].at \in {"list", "map"}

\* What is in a list belongs there, was added, was not taken and is there once.
Contents ==
    \A a \in Admin, ty \in ListType :
      LET s == sys[a][ty]
      IN  /\ \A i \in DOMAIN s : ListTask(a, ty, s[i]) /\ s[i] \in done \ taken
          /\ \A i, j \in DOMAIN s : s[i] = s[j] => i = j

\* What was added to a list is in it or was taken.
Kept(r) == slot_type(r) = "SYS_DESIGNATE" => InPlace(r)
Placed == \A r \in done : /\ Supported(r)
                          /\ r \notin taken => Kept(r)

\* The tasks that writers hold are not added yet, and each is held by one.
Writers ==
    /\ \A t \in Thread : Adding(t) =>
         LET r == writer[t].req IN
           /\ r \in Request /\ Supported(r) /\ r \notin todo /\ r \notin done
           /\ writer[t].at = "list" => /\ slot_type(r) = "SYS_DESIGNATE"
                                       /\ before[r] \subseteq {q \in done : Together(q, r)}
           /\ writer[t].at = "map" => /\ slot_type(r) = "USER_DESIGNATE"
                                      /\ pair[AdminOf(r)] \in Pair
    /\ \A t, u \in Thread : Adding(t) /\ Adding(u) /\ writer[t].req = writer[u].req => t = u

\* No task comes before another by being added later.
NotYet == /\ todo \cap done = {} /\ taken \subseteq done
          /\ \A q, r \in Request :
               q \in todo \/ (\E t \in Thread : Adding(t) /\ writer[t].req = q)
                 => q \notin before[r]

\* The cached end is the last node until the list is emptied; from then on it
\* is a node that was taken.
Ends ==
    \A a \in Admin, ty \in ListType :
      LET s == sys[a][ty]
          e == end[a][ty]
      IN  \/ e = HEAD /\ \A r \in done : ~ListTask(a, ty, r)
          \/ e \in taken /\ AdminOf(e) = a
          \/ s # <<>> /\ e = s[Len(s)]

\* Behind the position that a writer has kept lies nothing that was added
\* before it began.
Positions ==
    \A t \in Thread : writer[t].at = "list" =>
      LET r == writer[t].req
          p == writer[t].pos
          s == sys[AdminOf(r)][r.type]
      IN  \/ p = HEAD /\ before[r] = {}
          \/ p \in taken /\ AdminOf(p) = AdminOf(r)
          \/ \E i \in DOMAIN s : s[i] = p /\ \A j \in DOMAIN s : j > i => s[j] \notin before[r]

IInv == /\ TypeOK /\ Contents /\ Placed /\ Writers /\ NotYet
        /\ Ends /\ Positions /\ RealTimeOrder

(***************************************************************************)
(* The lists                                                               *)
(***************************************************************************)

\* What t is when n has been put behind the i-th element of s.
Inserted(s, t, i, n) ==
    /\ Len(t) = Len(s) + 1
    /\ \A j \in 1 .. Len(s) + 1 :
         t[j] = IF j <= i THEN s[j] ELSE IF j = i + 1 THEN n ELSE s[j - 1]

Distinct(s) == \A i, j \in 1 .. Len(s) : s[i] = s[j] => i = j

LEMMA ConsInserts ==
    ASSUME NEW s \in Seq(Request), NEW n \in Request
    PROVE  <<n>> \o s \in Seq(Request) /\ Inserted(s, <<n>> \o s, 0, n)
<1>1. /\ <<n>> \o s \in Seq(Request) /\ Len(<<n>> \o s) = Len(s) + 1
      /\ \A j \in 1 .. Len(s) + 1 : (<<n>> \o s)[j] = IF j = 1 THEN n ELSE s[j - 1]
  OBVIOUS
<1> QED
  BY <1>1 DEF Inserted

LEMMA InsertAtInserts ==
    ASSUME NEW s \in Seq(Request), NEW n \in Request, NEW i \in 1 .. Len(s)
    PROVE  InsertAt(s, i + 1, n) \in Seq(Request) /\ Inserted(s, InsertAt(s, i + 1, n), i, n)
<1> DEFINE a == SubSeq(s, 1, (i + 1) - 1)
           b == SubSeq(s, i + 1, Len(s))
<1>1. Len(s) \in Nat /\ i \in Nat /\ i >= 1 /\ i <= Len(s)
  OBVIOUS
<1>2. a \in Seq(Request) /\ Len(a) = i /\ \A j \in 1 .. i : a[j] = s[j]
  BY <1>1
<1>3. b \in Seq(Request) /\ Len(b) = Len(s) - i /\ \A j \in 1 .. Len(s) - i : b[j] = s[i + j]
  BY <1>1
<1>4. InsertAt(s, i + 1, n) = a \o <<n>> \o b
  BY DEF InsertAt
<1> HIDE DEF a, b
<1>5. /\ a \o <<n>> \in Seq(Request) /\ Len(a \o <<n>>) = i + 1
      /\ \A j \in 1 .. i + 1 : (a \o <<n>>)[j] = IF j <= i THEN a[j] ELSE n
  BY <1>1, <1>2
<1> DEFINE c == a \o <<n>>
<1> HIDE DEF c
<1>6. /\ c \in Seq(Request) /\ Len(c) = i + 1
      /\ \A j \in 1 .. i + 1 : c[j] = IF j <= i THEN s[j] ELSE n
  BY <1>1, <1>2, <1>5 DEF c
<1>7. /\ c \o b \in Seq(Request) /\ Len(c \o b) = Len(s) + 1
      /\ \A j \in 1 .. Len(s) + 1 : (c \o b)[j] = IF j <= i + 1 THEN c[j] ELSE b[j - (i + 1)]
  <2>1. /\ c \o b \in Seq(Request) /\ Len(c \o b) = Len(c) + Len(b)
        /\ \A j \in 1 .. Len(c) + Len(b) : (c \o b)[j] = IF j <= Len(c) THEN c[j] ELSE b[j - Len(c)]
    BY <1>3, <1>6, ConcatProperties
  <2> QED
    BY <1>1, <1>3, <1>6, <2>1
<1>8. ASSUME NEW j \in 1 .. Len(s) + 1
      PROVE  (c \o b)[j] = IF j <= i THEN s[j] ELSE IF j = i + 1 THEN n ELSE s[j - 1]
  <2>1. CASE j <= i + 1
    BY <1>1, <1>6, <1>7, <2>1
  <2>2. CASE j > i + 1
    <3>1. j - (i + 1) \in 1 .. Len(s) - i /\ i + (j - (i + 1)) = j - 1
      BY <1>1, <2>2
    <3>2. b[j - (i + 1)] = s[j - 1]
      BY <1>3, <3>1
    <3> QED
      BY <1>1, <1>7, <2>2, <3>2
  <2>3. j <= i + 1 \/ j > i + 1
    BY <1>1
  <2> QED
    BY <2>1, <2>2, <2>3
<1>9. InsertAt(s, i + 1, n) = c \o b
  BY <1>4 DEF c
<1>10. Inserted(s, c \o b, i, n)
  BY <1>7, <1>8 DEF Inserted
<1> QED
  BY <1>7, <1>9, <1>10

\* What is in the list after an insertion.
LEMMA InsertedContents ==
    ASSUME NEW s \in Seq(Request), NEW t \in Seq(Request), Distinct(s), NEW i \in 0 .. Len(s),
           NEW n \in Request, \A j \in 1 .. Len(s) : s[j] # n, Inserted(s, t, i, n)
    PROVE  Distinct(t) /\ ToSet(t) = ToSet(s) \cup {n}
<1>1. Len(s) \in Nat /\ Len(t) = Len(s) + 1 /\ i \in Nat /\ i <= Len(s)
      /\ DOMAIN s = 1 .. Len(s) /\ DOMAIN t = 1 .. Len(s) + 1
  BY DEF Inserted
<1>2. \A j \in 1 .. Len(s) + 1 :
        t[j] = IF j <= i THEN s[j] ELSE IF j = i + 1 THEN n ELSE s[j - 1]
  BY DEF Inserted
<1>3. Distinct(t)
  BY SMTT(30), <1>1, <1>2 DEF Distinct
<1>4. ASSUME NEW j \in 1 .. Len(s) + 1 PROVE t[j] \in ToSet(s) \cup {n}
  <2>1. CASE j <= i
    BY <1>1, <1>2, <2>1 DEF ToSet
  <2>2. CASE j > i + 1
    <3>1. j - 1 \in 1 .. Len(s) /\ t[j] = s[j - 1]
      BY <1>1, <1>2, <2>2
    <3> QED
      BY <1>1, <3>1 DEF ToSet
  <2>3. CASE j = i + 1
    BY <1>1, <1>2, <2>3
  <2> QED
    BY <1>1, <2>1, <2>2, <2>3
<1>5. n \in ToSet(t)
  <2>1. i + 1 \in 1 .. Len(s) + 1 /\ t[i + 1] = n
    BY <1>1, <1>2
  <2> QED
    BY <1>1, <2>1 DEF ToSet
<1>6. ASSUME NEW j \in 1 .. Len(s) PROVE s[j] \in ToSet(t)
  <2>1. CASE j <= i
    BY <1>1, <1>2, <2>1 DEF ToSet
  <2>2. CASE j > i
    <3>1. j + 1 \in 1 .. Len(s) + 1 /\ t[j + 1] = s[j]
      BY <1>1, <1>2, <2>2
    <3> QED
      BY <1>1, <3>1 DEF ToSet
  <2> QED
    BY <1>1, <2>1, <2>2
<1> QED
  BY <1>1, <1>3, <1>4, <1>5, <1>6 DEF ToSet

\* Behind puts the new node behind the position.
LEMMA BehindInserts ==
    ASSUME NEW s \in Seq(Request), NEW r \in Request, Distinct(s),
           NEW p, p = HEAD \/ p \in ToSet(s)
    PROVE  /\ Behind(s, p, r) \in Seq(Request)
           /\ \E i \in 0 .. Len(s) : /\ Inserted(s, Behind(s, p, r), i, r)
                                     /\ IF i = 0 THEN p = HEAD ELSE p = s[i]
<1>1. CASE p = HEAD
  <2>1. Behind(s, p, r) = <<r>> \o s
    BY <1>1 DEF Behind
  <2>2. 0 \in 0 .. Len(s)
    OBVIOUS
  <2> QED
    BY <1>1, <2>1, <2>2, ConsInserts
<1>2. CASE p # HEAD
  <2>1. PICK i \in 1 .. Len(s) : s[i] = p
    BY <1>2 DEF ToSet
  <2>2. i + 1 \in 2 .. Len(s) + 1 /\ s[(i + 1) - 1] = p
    BY <2>1
  <2>3. ASSUME NEW k \in 2 .. Len(s) + 1, s[k - 1] = p
        PROVE  k = i + 1
    <3>1. k - 1 \in 1 .. Len(s)
      OBVIOUS
    <3>2. k - 1 = i
      BY <2>1, <2>3, <3>1 DEF Distinct
    <3> QED
      BY <3>2
  <2>4. (CHOOSE k \in 2 .. Len(s) + 1 : s[k - 1] = p) = i + 1
    BY <2>2, <2>3
  <2>5. Behind(s, p, r) = InsertAt(s, i + 1, r)
    BY <1>2, <2>4 DEF Behind
  <2>6. i \in 0 .. Len(s) /\ i # 0
    BY <2>1
  <2> QED
    BY <2>1, <2>5, <2>6, InsertAtInserts
<1> QED
  BY <1>1, <1>2

\* A queue without its first element.
LEMMA TailContents ==
    ASSUME NEW s \in Seq(Request), s # <<>>, Distinct(s)
    PROVE  /\ Tail(s) \in Seq(Request) /\ Len(s) \in Nat \ {0} /\ Len(Tail(s)) = Len(s) - 1
           /\ \A j \in 1 .. Len(s) - 1 : Tail(s)[j] = s[j + 1]
           /\ Head(s) = s[1] /\ Head(s) \in Request
           /\ Distinct(Tail(s))
           /\ ToSet(Tail(s)) = ToSet(s) \ {Head(s)}
<1>1. /\ Tail(s) \in Seq(Request) /\ Len(s) \in Nat \ {0} /\ Len(Tail(s)) = Len(s) - 1
      /\ \A j \in 1 .. Len(s) - 1 : Tail(s)[j] = s[j + 1]
      /\ Head(s) = s[1] /\ Head(s) \in Request
  OBVIOUS
<1>2. Distinct(Tail(s))
  BY <1>1 DEF Distinct
<1>3. DOMAIN s = 1 .. Len(s) /\ DOMAIN Tail(s) = 1 .. Len(s) - 1
  BY <1>1
<1>4. ASSUME NEW j \in 1 .. Len(s) - 1
      PROVE  Tail(s)[j] \in ToSet(s) /\ Tail(s)[j] # Head(s)
  <2>1. j + 1 \in 1 .. Len(s) /\ 1 \in 1 .. Len(s) /\ j + 1 # 1 /\ Tail(s)[j] = s[j + 1]
    BY <1>1
  <2> QED
    BY <1>1, <1>3, <2>1 DEF Distinct, ToSet
<1>5. ASSUME NEW j \in 1 .. Len(s), s[j] # Head(s)
      PROVE  s[j] \in ToSet(Tail(s))
  <2>1. j - 1 \in 1 .. Len(s) - 1 /\ Tail(s)[j - 1] = s[j]
    BY <1>1, <1>5
  <2> QED
    BY <1>3, <2>1 DEF ToSet
<1> QED
  BY <1>1, <1>2, <1>3, <1>4, <1>5 DEF ToSet

(***************************************************************************)
(* What the steps of a kind keep                                           *)
(***************************************************************************)

LEMMA Types ==
    ASSUME TypeOK
    PROVE  /\ \A a \in Admin, ty \in ListType :
                /\ sys[a][ty] \in Seq(Request) /\ DOMAIN sys[a][ty] = 1 .. Len(sys[a][ty])
                /\ Len(sys[a][ty]) \in Nat
                /\ user[a][ty] \in Seq(Pair) /\ DOMAIN user[a][ty] = 1 .. Len(user[a][ty])
                /\ Len(user[a][ty]) \in Nat
                /\ end[a][ty] \in Request \cup {HEAD}
           /\ todo \subseteq Request /\ done \subseteq Request /\ taken \subseteq Request
           /\ \A t \in Thread : writer[t].pos \in Request \cup {HEAD}
           /\ \A r : AdminOf(r) \in Admin
           /\ \A r : slot_type(r) \in {"SYS_DESIGNATE", "USER_DESIGNATE"}
           /\ \A r : Supported(r) => r.type \in ListType
           /\ HEAD \notin Request
<1>1. /\ \A a \in Admin, ty \in ListType : sys[a][ty] \in Seq(Request) /\ user[a][ty] \in Seq(Pair)
      /\ \A a \in Admin, ty \in ListType : end[a][ty] \in Request \cup {HEAD}
      /\ todo \subseteq Request /\ done \subseteq Request /\ taken \subseteq Request
      /\ \A t \in Thread : writer[t].pos \in Request \cup {HEAD}
  BY DEF TypeOK
<1>2. \A r : AdminOf(r) \in Admin
  BY DEF AdminOf, Admin
<1>3. \A r : slot_type(r) \in {"SYS_DESIGNATE", "USER_DESIGNATE"}
  BY DEF slot_type
<1>4. \A r : Supported(r) => r.type \in ListType
  BY DEF Supported
<1> HIDE DEF Admin, ListType
<1>5. \A a \in Admin, ty \in ListType :
        /\ DOMAIN sys[a][ty] = 1 .. Len(sys[a][ty]) /\ Len(sys[a][ty]) \in Nat
        /\ DOMAIN user[a][ty] = 1 .. Len(user[a][ty]) /\ Len(user[a][ty]) \in Nat
  BY <1>1, LenProperties
<1> QED
  BY <1>1, <1>2, <1>3, <1>4, <1>5, HeadAssumption

\* Whose writers are about to copy the scratch pair.
LEMMA InPairTasks ==
    ASSUME Writers, NEW a
    PROVE  /\ InPair(a) \subseteq Request
           /\ \A q \in InPair(a) : AdminOf(q) = a /\ slot_type(q) = "USER_DESIGNATE" /\ q \notin done
           /\ \A u \in Thread : writer[u].at = "map" /\ AdminOf(writer[u].req) = a
                               => writer[u].req \in InPair(a)
<1>1. ASSUME NEW q \in InPair(a)
      PROVE  q \in Request /\ AdminOf(q) = a /\ slot_type(q) = "USER_DESIGNATE" /\ q \notin done
  <2>1. PICK u \in Thread : writer[u].at = "map" /\ InAdmin(u, a) /\ q = writer[u].req
    BY DEF InPair
  <2> QED
    BY <2>1 DEF Writers, Adding, InAdmin
<1>2. \A u \in Thread : writer[u].at = "map" /\ AdminOf(writer[u].req) = a
                      => writer[u].req \in InPair(a)
  BY DEF InPair, InAdmin
<1> QED
  BY <1>1, <1>2

\* Steps that change neither the containers nor the history, nor begin an
\* add_task.
LEMMA QuietInv ==
    ASSUME IInv, TypeOK', UNCHANGED <<sys, end, user, pair, todo, done, taken, before>>,
           \A t \in Thread : Adding(t)' => Adding(t) /\ writer'[t] = writer[t]
    PROVE  IInv'
<1>1. Contents' /\ Placed' /\ Ends' /\ RealTimeOrder'
  <2>1. Contents'
    BY DEF IInv, Contents
  <2>2. Placed'
    BY DEF IInv, Placed, InPlace, Kept
  <2>3. Ends'
    BY DEF IInv, Ends
  <2>4. RealTimeOrder'
    BY DEF IInv, RealTimeOrder
  <2> QED
    BY <2>1, <2>2, <2>3, <2>4
<1>2. Writers'
  <2>1. Writers
    BY DEF IInv
  <2>2. ASSUME NEW t \in Thread, Adding(t)'
        PROVE  /\ Adding(t) /\ writer'[t] = writer[t]
    BY <2>2
  <2> QED
    BY <2>1, <2>2 DEF Writers
<1>3. NotYet'
  <2>1. NotYet
    BY DEF IInv
  <2> QED
    BY <2>1 DEF NotYet
<1>4. Positions'
  <2>1. Positions
    BY DEF IInv
  <2>2. ASSUME NEW t \in Thread, writer'[t].at = "list"
        PROVE  writer[t].at = "list" /\ writer'[t] = writer[t]
    BY <2>2 DEF Adding
  <2> QED
    BY <2>1, <2>2 DEF Positions
<1> QED
  BY <1>1, <1>2, <1>3, <1>4 DEF IInv

\* The beginning of an add_task, up to the allocation or to its end.
LEMMA BeginInv ==
    ASSUME IInv, TypeOK', NEW t \in Thread, NEW r \in Request, Begin(t, r),
           UNCHANGED <<sys, end, user, done, taken>>,
           \A u \in Thread \ {t} : writer'[u] = writer[u],
           \/ ~Adding(t)' /\ pair' = pair
           \/ /\ writer'[t] = [at |-> "list", req |-> r, pos |-> end[AdminOf(r)][r.type]]
              /\ Supported(r) /\ slot_type(r) = "SYS_DESIGNATE" /\ pair' = pair
           \/ /\ writer'[t].at = "map" /\ writer'[t].req = r
              /\ Supported(r) /\ slot_type(r) = "USER_DESIGNATE"
              /\ pair'[AdminOf(r)] \in Pair
              /\ \A b \in Admin : b # AdminOf(r) => pair'[b] = pair[b]
    PROVE  IInv'
<1>1. /\ r \in todo /\ r \notin done /\ ~Adding(t)
      /\ todo' = todo \ {r}
      /\ before'[r] = {q \in done : Together(q, r)}
      /\ \A q \in Request : q # r => before'[q] = before[q]
  <2>1. /\ r \in todo /\ writer[t].at = "idle" /\ todo' = todo \ {r}
        /\ before' = [before EXCEPT ![r] = {q \in done : Together(q, r)}]
    BY DEF Begin
  <2>2. before \in [Request -> SUBSET Request]
    BY DEF IInv, TypeOK
  <2>3. r \notin done
    BY <2>1 DEF IInv, NotYet
  <2> QED
    BY <2>1, <2>2, <2>3 DEF Adding
<1>2. /\ taken \subseteq done /\ done \subseteq Request /\ todo \subseteq Request
      /\ \A a : \A ty \in ListType : \A i \in DOMAIN sys[a][ty] : a \in Admin => sys[a][ty][i] \in done
  BY Types DEF IInv, NotYet, Contents
<1>3. \A u \in Thread : Adding(u) => /\ u # t /\ writer'[u] = writer[u] /\ Adding(u)'
                                     /\ writer[u].req \in Request /\ writer[u].req # r
                                     /\ writer[u].req \notin done
  BY <1>1 DEF IInv, Writers, Adding
<1>4. \A u \in Thread : Adding(u)' => \/ u = t /\ writer'[u].req = r
                                      \/ u # t /\ Adding(u) /\ writer'[u] = writer[u]
  BY DEF Adding
<1>5. Contents' /\ Placed' /\ Ends'
  <2>1. Contents'
    BY DEF IInv, Contents
  <2>2. Placed'
    BY DEF IInv, Placed, InPlace, Kept
  <2>3. Ends'
    BY DEF IInv, Ends
  <2> QED
    BY <2>1, <2>2, <2>3
<1>6. Writers'
  <2>1. ASSUME NEW u \in Thread, Adding(u)'
        PROVE  LET x == writer'[u].req IN
                 /\ x \in Request /\ Supported(x) /\ x \notin todo' /\ x \notin done'
                 /\ writer'[u].at = "list" => /\ slot_type(x) = "SYS_DESIGNATE"
                                              /\ before'[x] \subseteq {q \in done' : Together(q, x)}
                 /\ writer'[u].at = "map" => /\ slot_type(x) = "USER_DESIGNATE"
                                             /\ pair'[AdminOf(x)] \in Pair
    <3>1. CASE u = t
      <4>1. Adding(t)'
        BY <2>1, <3>1
      <4>2. writer'[t].req = r
        BY <4>1
      <4>3. Supported(r) /\ r \notin todo' /\ r \notin done'
        BY <4>1, <1>1
      <4>4. writer'[t].at = "list" => /\ slot_type(r) = "SYS_DESIGNATE"
                                      /\ before'[r] \subseteq {q \in done' : Together(q, r)}
        BY <4>1, <1>1
      <4>5. writer'[t].at = "map" => /\ slot_type(r) = "USER_DESIGNATE"
                                     /\ pair'[AdminOf(r)] \in Pair
        BY <4>1
      <4> QED
        BY <3>1, <4>2, <4>3, <4>4, <4>5
    <3>2. CASE u # t
      <4>1. Adding(u) /\ writer'[u] = writer[u]
        BY <1>4, <2>1, <3>2
      <4>2. LET x == writer[u].req IN
              /\ x \in Request /\ Supported(x) /\ x \notin todo /\ x \notin done
              /\ writer[u].at = "list" => /\ slot_type(x) = "SYS_DESIGNATE"
                                          /\ before[x] \subseteq {q \in done : Together(q, x)}
              /\ writer[u].at = "map" => /\ slot_type(x) = "USER_DESIGNATE"
                                         /\ pair[AdminOf(x)] \in Pair
        BY <4>1 DEF IInv, Writers
      <4>3. writer[u].req # r /\ before'[writer[u].req] = before[writer[u].req]
        BY <1>1, <1>3, <4>1, <4>2
      <4>4. writer[u].at = "map" => pair'[AdminOf(writer[u].req)] \in Pair
        BY <4>2, Types DEF IInv
      <4> QED
        BY <1>1, <4>1, <4>2, <4>3, <4>4
    <3> QED
      BY <3>1, <3>2
  <2>2. ASSUME NEW u \in Thread, NEW v \in Thread, Adding(u)', Adding(v)', writer'[u].req = writer'[v].req
        PROVE  u = v
    <3>1. CASE u # t /\ v # t
      <4>1. Adding(u) /\ writer'[u] = writer[u] /\ Adding(v) /\ writer'[v] = writer[v]
        BY <1>4, <2>2, <3>1
      <4> QED
        BY <2>2, <4>1 DEF IInv, Writers
    <3>2. CASE u = t /\ v # t
      BY <1>3, <1>4, <2>2, <3>2
    <3>3. CASE u # t /\ v = t
      BY <1>3, <1>4, <2>2, <3>3
    <3> QED
      BY <3>1, <3>2, <3>3
  <2> QED
    BY <2>1, <2>2 DEF Writers
<1>7. NotYet'
  <2>1. todo' \cap done' = {} /\ taken' \subseteq done'
    BY <1>1 DEF IInv, NotYet
  <2>2. ASSUME NEW q \in Request, NEW x \in Request,
               q \in todo' \/ (\E u \in Thread : Adding(u)' /\ writer'[u].req = q)
        PROVE  q \notin before'[x]
    <3>1. q \in todo \/ \E u \in Thread : Adding(u) /\ writer[u].req = q
      BY <1>1, <1>4, <2>2
    <3>2. q \notin before[x]
      BY <3>1 DEF IInv, NotYet
    <3>3. q \notin done
      BY <1>3, <3>1 DEF IInv, NotYet
    <3> QED
      BY <1>1, <3>2, <3>3
  <2> QED
    BY <2>1, <2>2 DEF NotYet
<1>8. Positions'
  <2>1. ASSUME NEW u \in Thread, writer'[u].at = "list"
        PROVE  LET x == writer'[u].req
                   p == writer'[u].pos
                   s == sys'[AdminOf(x)][x.type]
               IN  \/ p = HEAD /\ before'[x] = {}
                   \/ p \in taken' /\ AdminOf(p) = AdminOf(x)
                   \/ \E i \in DOMAIN s : s[i] = p /\ \A j \in DOMAIN s : j > i => s[j] \notin before'[x]
    <3>1. CASE u # t
      <4>1. Adding(u) /\ writer'[u] = writer[u] /\ writer[u].at = "list"
        BY <2>1, <3>1 DEF Adding
      <4>2. before'[writer[u].req] = before[writer[u].req]
        BY <1>1, <1>3, <4>1
      <4> QED
        BY <4>1, <4>2 DEF IInv, Positions
    <3>2. CASE u = t
      <4>1. /\ writer'[t] = [at |-> "list", req |-> r, pos |-> end[AdminOf(r)][r.type]]
            /\ Supported(r) /\ slot_type(r) = "SYS_DESIGNATE"
        BY <2>1, <3>2 DEF Adding
      <4> DEFINE a == AdminOf(r)
                 s == sys[a][r.type]
                 e == end[a][r.type]
      <4>2. a \in Admin /\ r.type \in ListType
        BY <4>1, Types DEF IInv
      <4>3. Len(s) \in Nat /\ DOMAIN s = 1 .. Len(s)
        BY <4>2, Types DEF IInv
      <4>4. \/ e = HEAD /\ \A q \in done : ~ListTask(a, r.type, q)
            \/ e \in taken /\ AdminOf(e) = a
            \/ s # <<>> /\ e = s[Len(s)]
        BY <4>2 DEF IInv, Ends
      <4>5. CASE e = HEAD /\ \A q \in done : ~ListTask(a, r.type, q)
        <5>1. before'[r] = {}
          BY <1>1, <1>2, <4>1, <4>5 DEF Together, ListTask
        <5> QED
          BY <3>2, <4>1, <4>5, <5>1
      <4>6. CASE e \in taken /\ AdminOf(e) = a
        BY <3>2, <4>1, <4>6
      <4>7. CASE s # <<>> /\ e = s[Len(s)]
        <5>1. Len(s) \in DOMAIN s /\ \A j \in DOMAIN s : ~(j > Len(s))
          <6>1. s \in Seq(Request)
            BY <4>2, Types DEF IInv
          <6>2. Len(s) # 0
            BY <4>7, <6>1
          <6> QED
            BY <4>3, <6>2
        <5>2. sys'[a][r.type] = s /\ writer'[u].pos = e /\ writer'[u].req = r
          BY <3>2, <4>1
        <5> QED
          BY <4>7, <5>1, <5>2
      <4> QED
        BY <4>4, <4>5, <4>6, <4>7
    <3> QED
      BY <3>1, <3>2
  <2> QED
    BY <2>1 DEF Positions
<1>9. RealTimeOrder'
  <2>1. ASSUME NEW a \in Admin, NEW ty \in ListType
        PROVE  LET s == sys[a][ty] IN
               /\ \A i, j \in DOMAIN s : i < j => s[j] \notin before'[s[i]]
               /\ \A q \in taken : AdminOf(q) = a /\ q.type = ty => before'[q] \cap ToSet(s) = {}
    <3>1. \A i \in DOMAIN sys[a][ty] : before'[sys[a][ty][i]] = before[sys[a][ty][i]]
      BY <1>1, <1>2
    <3>2. \A q \in taken : before'[q] = before[q]
      BY <1>1, <1>2
    <3>3. LET s == sys[a][ty] IN
               /\ \A i, j \in DOMAIN s : i < j => s[j] \notin before[s[i]]
               /\ \A q \in taken : AdminOf(q) = a /\ q.type = ty => before[q] \cap ToSet(s) = {}
      BY DEF IInv, RealTimeOrder
    <3> QED
      BY <3>1, <3>2, <3>3
  <2> QED
    BY <2>1 DEF RealTimeOrder
<1> QED
  BY <1>5, <1>6, <1>7, <1>8, <1>9 DEF IInv

(***************************************************************************)
(* What each step keeps: adding                                            *)
(***************************************************************************)

\* What Added does to the writers: t is through, the others are where they were.
LEMMA AddedWriters ==
    ASSUME TypeOK, Writers, NotYet, NEW t \in Thread, Adding(t), Added(t), UNCHANGED <<todo, pair, before>>
    PROVE  /\ Writers'
           /\ done' = done \cup {writer[t].req}
           /\ \A u \in Thread : Adding(u)' => Adding(u) /\ u # t /\ writer'[u] = writer[u]
           /\ \A u \in Thread : u # t /\ Adding(u) => writer[u].req # writer[t].req
<1>1. /\ done' = done \cup {writer[t].req}
      /\ writer' = [writer EXCEPT ![t] = [at |-> "idle", req |-> HEAD, pos |-> HEAD]]
  BY DEF Added, Return, Goto
<1>2. \A u \in Thread : Adding(u)' => Adding(u) /\ u # t /\ writer'[u] = writer[u]
  BY <1>1 DEF Adding, TypeOK
<1>3. \A u \in Thread : u # t /\ Adding(u) => writer[u].req # writer[t].req
  BY DEF Writers
<1>4. \A u \in Thread : Adding(u)' => writer'[u].req # writer[t].req
  BY <1>2, <1>3
<1>5. ASSUME NEW u \in Thread, Adding(u)'
      PROVE  LET x == writer'[u].req IN
               /\ x \in Request /\ Supported(x) /\ x \notin todo' /\ x \notin done'
               /\ writer'[u].at = "list" => /\ slot_type(x) = "SYS_DESIGNATE"
                                            /\ before'[x] \subseteq {q \in done' : Together(q, x)}
               /\ writer'[u].at = "map" => /\ slot_type(x) = "USER_DESIGNATE"
                                           /\ pair'[AdminOf(x)] \in Pair
  <2> DEFINE x == writer[u].req
  <2>1. Adding(u) /\ writer'[u] = writer[u] /\ x # writer[t].req
    BY <1>2, <1>4, <1>5
  <2>2. /\ x \in Request /\ Supported(x) /\ x \notin todo /\ x \notin done
        /\ writer[u].at = "list" => /\ slot_type(x) = "SYS_DESIGNATE"
                                    /\ before[x] \subseteq {q \in done : Together(q, x)}
        /\ writer[u].at = "map" => /\ slot_type(x) = "USER_DESIGNATE"
                                   /\ pair[AdminOf(x)] \in Pair
    BY <2>1 DEF Writers
  <2>3. pair' = pair /\ before' = before /\ todo' = todo
    OBVIOUS
  <2>4. x \notin done' /\ done \subseteq done'
    BY <1>1, <2>1, <2>2
  <2>5. {q \in done : Together(q, x)} \subseteq {q \in done' : Together(q, x)}
    BY <2>4
  <2>6. writer'[u].req = x /\ writer'[u].at = writer[u].at
    BY <2>1
  <2> HIDE DEF x
  <2> QED
    BY <2>2, <2>3, <2>4, <2>5, <2>6
<1>6. ASSUME NEW u \in Thread, NEW v \in Thread, Adding(u)', Adding(v)', writer'[u].req = writer'[v].req
      PROVE  u = v
  <2>1. Adding(u) /\ writer'[u] = writer[u] /\ Adding(v) /\ writer'[v] = writer[v]
    BY <1>2, <1>6
  <2> QED
    BY <1>6, <2>1 DEF Writers
<1>7. Writers'
  BY <1>5, <1>6 DEF Writers
<1> QED
  BY <1>1, <1>2, <1>3, <1>7

\* The node that is added takes its place behind everything that was done
\* before its add_task began, although others have added meanwhile.
LEMMA ListInsertInv ==
    ASSUME IInv, TypeOK', NEW t \in Thread, llist_insert(t)
    PROVE  IInv'
<1> DEFINE r == writer[t].req
           a == AdminOf(r)
           ty == r.type
           p == writer[t].pos
           s == sys[a][ty]
           n == sys'[a][ty]
<1>1. Adding(t) /\ Added(t) /\ UNCHANGED <<user, pair, todo, taken, before>>
  BY DEF llist_insert, Adding
<1>2. /\ Writers' /\ done' = done \cup {r}
      /\ \A u \in Thread : Adding(u)' => Adding(u) /\ u # t /\ writer'[u] = writer[u]
      /\ \A u \in Thread : u # t /\ Adding(u) => writer[u].req # r
  BY <1>1, AddedWriters DEF IInv
<1>3. /\ r \in Request /\ Supported(r) /\ r \notin done /\ r \notin taken
      /\ slot_type(r) = "SYS_DESIGNATE" /\ a \in Admin /\ ty \in ListType
  <2>1. /\ r \in Request /\ Supported(r) /\ r \notin done
        /\ slot_type(r) = "SYS_DESIGNATE"
    BY <1>1 DEF IInv, Writers, llist_insert
  <2> QED
    BY <2>1, Types DEF IInv, NotYet
<1>4. /\ s \in Seq(Request) /\ Len(s) \in Nat /\ DOMAIN s = 1 .. Len(s)
      /\ end[a][ty] \in Request \cup {HEAD}
  BY <1>3, Types DEF IInv
<1>5. /\ Distinct(s)
      /\ \A i \in 1 .. Len(s) : s[i] # r /\ s[i] \in done \ taken /\ ListTask(a, ty, s[i])
  BY <1>3, <1>4 DEF IInv, Contents, Distinct
<1>6. p = HEAD \/ p \in ToSet(s)
  BY DEF llist_insert, Linked
<1>7. n = Behind(s, p, r) /\ end'[a][ty] = (IF p = end[a][ty] THEN r ELSE end[a][ty])
      /\ \A b \in Admin, tz \in ListType : b # a \/ tz # ty => sys'[b][tz] = sys[b][tz] /\ end'[b][tz] = end[b][tz]
  <2>1. /\ sys' = [sys EXCEPT ![a][ty] = Behind(@, p, r)]
        /\ end' = [end EXCEPT ![a][ty] = IF p = @ THEN r ELSE @]
    BY DEF llist_insert
  <2>2. /\ sys \in [Admin -> [ListType -> Seq(Request)]]
        /\ end \in [Admin -> [ListType -> Request \cup {HEAD}]]
    BY DEF IInv, TypeOK
  <2> HIDE DEF r, p
  <2> QED
    BY <1>3, <2>1, <2>2
<1>8. PICK i \in 0 .. Len(s) : /\ n \in Seq(Request) /\ Inserted(s, n, i, r)
                               /\ IF i = 0 THEN p = HEAD ELSE p = s[i]
  <2> HIDE DEF r, p, s, n
  <2> QED
    BY <1>3, <1>4, <1>5, <1>6, <1>7, BehindInserts
<1>9. Distinct(n) /\ ToSet(n) = ToSet(s) \cup {r}
  <2> HIDE DEF r, p, s, n
  <2> QED
    BY <1>3, <1>4, <1>5, <1>8, InsertedContents
<1>10. /\ Len(n) = Len(s) + 1 /\ DOMAIN n = 1 .. Len(s) + 1 /\ i \in Nat /\ i <= Len(s)
       /\ \A j \in 1 .. Len(s) + 1 :
            n[j] = IF j <= i THEN s[j] ELSE IF j = i + 1 THEN r ELSE s[j - 1]
  <2> HIDE DEF r, p, s, n
  <2> QED
    BY <1>4, <1>8 DEF Inserted
\* What lies behind the position was not done when the writer began.
<1>11. \A j \in 1 .. Len(s) : j > i => s[j] \notin before[r]
  <2>1. \/ p = HEAD /\ before[r] = {}
        \/ p \in taken
        \/ \E k \in DOMAIN s : s[k] = p /\ \A j \in DOMAIN s : j > k => s[j] \notin before[r]
    BY DEF IInv, Positions, llist_insert
  <2> HIDE DEF r, p, s, n
  <2>2. p \notin taken
    <3>1. CASE p = HEAD
      BY <3>1, Types DEF IInv
    <3>2. CASE p \in ToSet(s)
      BY <1>4, <1>5, <3>2 DEF ToSet
    <3> QED
      BY <1>6, <3>1, <3>2
  <2>3. ASSUME NEW k \in DOMAIN s, s[k] = p
        PROVE  k = i
    <3>1. p # HEAD
      BY <1>4, <1>5, <2>3, Types DEF IInv
    <3>2. i \in 1 .. Len(s) /\ s[i] = p
      BY <1>4, <1>8, <1>10, <3>1
    <3> QED
      BY <1>4, <1>5, <2>3, <3>2 DEF Distinct
  <2> QED
    BY <1>4, <2>1, <2>2, <2>3
\* Nobody counts the new task as done before his own.
<1>12. \A x \in Request : r \notin before[x]
  BY <1>1, <1>3 DEF IInv, NotYet
<1> HIDE DEF r, a, ty, p, s, n
<1>14. Contents'
  <2>1. ASSUME NEW b \in Admin, NEW tz \in ListType
        PROVE  /\ \A j \in DOMAIN sys'[b][tz] : /\ ListTask(b, tz, sys'[b][tz][j])
                                                /\ sys'[b][tz][j] \in done' \ taken'
               /\ \A j, k \in DOMAIN sys'[b][tz] : sys'[b][tz][j] = sys'[b][tz][k] => j = k
    <3>1. /\ \A j \in DOMAIN sys[b][tz] : /\ ListTask(b, tz, sys[b][tz][j])
                                          /\ sys[b][tz][j] \in done \ taken
          /\ \A j, k \in DOMAIN sys[b][tz] : sys[b][tz][j] = sys[b][tz][k] => j = k
      BY DEF IInv, Contents
    <3>3. CASE b # a \/ tz # ty
      BY <1>1, <1>2, <1>7, <3>1, <3>3
    <3>4. CASE b = a /\ tz = ty
      <4>1. sys'[b][tz] = n
        BY <3>4 DEF n
      <4>2. ASSUME NEW j \in DOMAIN n
            PROVE  ListTask(a, ty, n[j]) /\ n[j] \in done' \ taken'
        <5>1. n[j] \in ToSet(n)
          BY DEF ToSet
        <5>2. CASE n[j] = r
          BY <1>1, <1>2, <1>3, <5>2 DEF ListTask, a, ty
        <5>3. CASE n[j] \in ToSet(s)
          BY <1>1, <1>2, <1>4, <1>5, <5>3 DEF ToSet
        <5> QED
          BY <1>9, <5>1, <5>2, <5>3
      <4>3. \A j, k \in DOMAIN n : n[j] = n[k] => j = k
        BY <1>9, <1>10 DEF Distinct
      <4> QED
        BY <3>4, <4>1, <4>2, <4>3
    <3> QED
      BY <3>3, <3>4
  <2> QED
    BY <2>1 DEF Contents
<1>15. Placed'
  <2>1. ASSUME NEW q \in done'
        PROVE  Supported(q) /\ (q \notin taken' => Kept(q)')
    <3>1. CASE q = r
      <4>1. /\ slot_type(q) = "SYS_DESIGNATE"
            /\ q \in ToSet(sys'[AdminOf(q)][q.type])
        BY <1>3, <1>9, <3>1 DEF a, ty, n
      <4> QED
        BY <1>3, <3>1, <4>1 DEF InPlace, Kept
    <3>2. CASE q \in done
      <4>1. Supported(q) /\ (q \notin taken => Kept(q))
        BY <3>2 DEF IInv, Placed
      <4>2. ASSUME slot_type(q) = "SYS_DESIGNATE", q \in ToSet(sys[AdminOf(q)][q.type])
            PROVE  q \in ToSet(sys'[AdminOf(q)][q.type])
        <5>1. AdminOf(q) \in Admin /\ q.type \in ListType
          BY <4>1, Types DEF IInv
        <5>2. CASE AdminOf(q) # a \/ q.type # ty
          BY <1>7, <4>2, <5>1, <5>2
        <5>3. CASE AdminOf(q) = a /\ q.type = ty
          BY <1>9, <4>2, <5>3 DEF n, s
        <5> QED
          BY <5>2, <5>3
      <4> QED
        BY <1>1, <4>1, <4>2 DEF InPlace, Kept
    <3> QED
      BY <1>2, <3>1, <3>2
  <2> QED
    BY <2>1 DEF Placed
<1>16. NotYet'
  <2>1. todo' \cap done' = {} /\ taken' \subseteq done'
    <3>1. r \notin todo
      BY <1>1 DEF IInv, Writers, r
    <3> QED
      BY <1>1, <1>2, <3>1 DEF IInv, NotYet
  <2>2. ASSUME NEW q \in Request, NEW x \in Request,
               q \in todo' \/ (\E u \in Thread : Adding(u)' /\ writer'[u].req = q)
        PROVE  q \notin before'[x]
    <3>1. q \in todo \/ \E u \in Thread : Adding(u) /\ writer[u].req = q
      BY <1>1, <1>2, <2>2
    <3> QED
      BY <1>1, <3>1 DEF IInv, NotYet
  <2> QED
    BY <2>1, <2>2 DEF NotYet
<1>17. Ends'
  <2>1. ASSUME NEW b \in Admin, NEW tz \in ListType
        PROVE  LET m == sys'[b][tz]
                   e == end'[b][tz]
               IN  \/ e = HEAD /\ \A q \in done' : ~ListTask(b, tz, q)
                   \/ e \in taken' /\ AdminOf(e) = b
                   \/ m # <<>> /\ e = m[Len(m)]
    <3>1. LET m == sys[b][tz]
              e == end[b][tz]
          IN  \/ e = HEAD /\ \A q \in done : ~ListTask(b, tz, q)
              \/ e \in taken /\ AdminOf(e) = b
              \/ m # <<>> /\ e = m[Len(m)]
      BY DEF IInv, Ends
    <3>2. CASE b # a \/ tz # ty
      <4>1. ~ListTask(b, tz, r)
        BY <3>2 DEF ListTask, a, ty
      <4> QED
        BY <1>1, <1>2, <1>7, <3>1, <3>2, <4>1
    <3>3. CASE b = a /\ tz = ty
      <4> DEFINE e == end[a][ty]
      <4>0. \/ e = HEAD /\ \A q \in done : ~ListTask(a, ty, q)
            \/ e \in taken /\ AdminOf(e) = a
            \/ s # <<>> /\ e = s[Len(s)]
        BY <3>1, <3>3 DEF s
      <4>1. sys'[b][tz] = n /\ end'[b][tz] = (IF p = e THEN r ELSE e) /\ n # <<>>
        BY <1>4, <1>7, <1>10, <3>3 DEF n
      <4> HIDE DEF e
      <4>2. CASE e = HEAD /\ \A q \in done : ~ListTask(a, ty, q)
        <5>1. Len(s) = 0
          <6>1. ~(1 \in 1 .. Len(s))
            BY <1>5, <4>2
          <6> QED
            BY <1>4, <6>1
        <5>2. i = 0 /\ p = HEAD
          BY <1>8, <1>10, <5>1
        <5>3. n[Len(n)] = r
          BY <1>10, <5>1, <5>2
        <5> QED
          BY <4>1, <4>2, <5>2, <5>3
      <4>3. CASE e \in taken /\ AdminOf(e) = a
        <5>1. p # e
          <6>1. CASE p = HEAD
            BY <4>3, <6>1, Types DEF IInv
          <6>2. CASE p \in ToSet(s)
            BY <1>4, <1>5, <4>3, <6>2 DEF ToSet
          <6> QED
            BY <1>6, <6>1, <6>2
        <5> QED
          BY <1>1, <3>3, <4>1, <4>3, <5>1
      <4>4. CASE s # <<>> /\ e = s[Len(s)]
        <5>1. Len(s) \in 1 .. Len(s) /\ Len(s) > 0
          BY <1>4, <4>4
        <5>2. CASE i = Len(s)
          <6>1. p = e /\ n[Len(n)] = r
            BY <1>4, <1>8, <1>10, <4>4, <5>1, <5>2
          <6> QED
            BY <4>1, <6>1
        <5>3. CASE i < Len(s)
          <6>1. n[Len(n)] = e
            BY <1>4, <1>10, <4>4, <5>1, <5>3
          <6>2. p # e
            <7>1. CASE i = 0
              BY <1>4, <1>8, <4>4, <5>1, <7>1, Types, ElementOfSeq DEF IInv
            <7>2. CASE i # 0
              BY <1>4, <1>5, <1>8, <1>10, <4>4, <5>1, <5>3, <7>2 DEF Distinct
            <7> QED
              BY <7>1, <7>2
          <6> QED
            BY <4>1, <6>1, <6>2
        <5>4. i = Len(s) \/ i < Len(s)
          <6>1. Len(s) \in Nat
            BY <1>4
          <6> HIDE DEF s
          <6> QED
            BY <6>1
        <5> QED
          BY Zenon, <5>2, <5>3, <5>4
      <4> QED
        BY <4>0, <4>2, <4>3, <4>4
    <3> QED
      BY <3>2, <3>3
  <2> QED
    BY <2>1 DEF Ends
<1>18. Positions'
  <2>1. ASSUME NEW u \in Thread, writer'[u].at = "list"
        PROVE  LET x == writer'[u].req
                   e == writer'[u].pos
                   m == sys'[AdminOf(x)][x.type]
               IN  \/ e = HEAD /\ before'[x] = {}
                   \/ e \in taken' /\ AdminOf(e) = AdminOf(x)
                   \/ \E k \in DOMAIN m : m[k] = e /\ \A j \in DOMAIN m : j > k => m[j] \notin before'[x]
    <3>1. Adding(u) /\ u # t /\ writer'[u] = writer[u] /\ writer[u].at = "list"
      BY <1>2, <2>1 DEF Adding
    <3> DEFINE x == writer[u].req
               e == writer[u].pos
               m == sys[AdminOf(x)][x.type]
    <3>2. x \in Request /\ AdminOf(x) \in Admin /\ x.type \in ListType
      BY <3>1, Types DEF IInv, Writers
    <3>3. \/ e = HEAD /\ before[x] = {}
          \/ e \in taken /\ AdminOf(e) = AdminOf(x)
          \/ \E k \in DOMAIN m : m[k] = e /\ \A j \in DOMAIN m : j > k => m[j] \notin before[x]
      BY <3>1 DEF IInv, Positions
    <3>4. CASE (e = HEAD /\ before[x] = {}) \/ (e \in taken /\ AdminOf(e) = AdminOf(x))
      BY <1>1, <3>1, <3>4
    <3>5. CASE AdminOf(x) # a \/ x.type # ty
      <4>1. sys'[AdminOf(x)][x.type] = m
        BY <1>7, <3>2, <3>5
      <4> QED
        BY <1>1, <3>1, <3>3, <4>1
    <3>6. ASSUME AdminOf(x) = a, x.type = ty,
                 NEW k \in DOMAIN m, m[k] = e, \A j \in DOMAIN m : j > k => m[j] \notin before[x]
          PROVE  \E l \in DOMAIN n : n[l] = e /\ \A j \in DOMAIN n : j > l => n[j] \notin before[x]
      <4>1. m = s
        BY <3>6 DEF s
      <4>2. r \notin before[x]
        BY <1>12, <3>2
      <4> HIDE DEF x, e, m
      <4>3. k \in 1 .. Len(s) /\ s[k] = e /\ \A j \in 1 .. Len(s) : j > k => s[j] \notin before[x]
        BY <1>4, <3>6, <4>1
      <4>4. CASE k <= i
        <5>1. k \in DOMAIN n /\ n[k] = e
          BY <1>4, <1>10, <4>3, <4>4
        <5>2. ASSUME NEW j \in DOMAIN n, j > k PROVE n[j] \notin before[x]
          <6>1. CASE j <= i
            BY <1>4, <1>10, <4>3, <5>2, <6>1
          <6>2. CASE j = i + 1
            BY <1>10, <4>2, <6>2
          <6>3. CASE j > i + 1
            <7>1. j - 1 \in 1 .. Len(s) /\ j - 1 > k /\ n[j] = s[j - 1]
              BY <1>4, <1>10, <4>3, <4>4, <6>3
            <7> QED
              BY <4>3, <7>1
          <6> QED
            BY <1>10, <6>1, <6>2, <6>3
        <5> QED
          BY <5>1, <5>2
      <4>5. CASE k > i
        <5>1. k + 1 \in DOMAIN n /\ n[k + 1] = e
          BY <1>4, <1>10, <4>3, <4>5
        <5>2. ASSUME NEW j \in DOMAIN n, j > k + 1 PROVE n[j] \notin before[x]
          <6>1. j - 1 \in 1 .. Len(s) /\ j - 1 > k /\ n[j] = s[j - 1]
            BY <1>4, <1>10, <4>3, <4>5, <5>2
          <6> QED
            BY <4>3, <6>1
        <5> QED
          BY <5>1, <5>2
      <4> QED
        BY <1>10, <4>3, <4>4, <4>5
    <3>7. CASE AdminOf(x) = a /\ x.type = ty
      <4>1. sys'[AdminOf(x)][x.type] = n
        BY <3>7 DEF n
      <4>2. writer'[u].req = x /\ writer'[u].pos = e /\ before' = before /\ taken' = taken
        BY <1>1, <3>1
      <4> HIDE DEF x, e, m
      <4> QED
        BY <3>3, <3>6, <3>7, <4>1, <4>2
    <3> QED
      BY <3>4, <3>5, <3>7
  <2> QED
    BY <2>1 DEF Positions
<1>19. RealTimeOrder'
  <2>1. ASSUME NEW b \in Admin, NEW tz \in ListType
        PROVE  LET m == sys'[b][tz] IN
               /\ \A j, k \in DOMAIN m : j < k => m[k] \notin before'[m[j]]
               /\ \A q \in taken' : AdminOf(q) = b /\ q.type = tz => before'[q] \cap ToSet(m) = {}
    <3>1. LET m == sys[b][tz] IN
               /\ \A j, k \in DOMAIN m : j < k => m[k] \notin before[m[j]]
               /\ \A q \in taken : AdminOf(q) = b /\ q.type = tz => before[q] \cap ToSet(m) = {}
      BY DEF IInv, RealTimeOrder
    <3>2. CASE b # a \/ tz # ty
      BY <1>1, <1>7, <3>1, <3>2
    <3>3. CASE b = a /\ tz = ty
      <4>0. sys'[b][tz] = n
        BY <3>3 DEF n
      <4>1. /\ \A j, k \in 1 .. Len(s) : j < k => s[k] \notin before[s[j]]
            /\ \A q \in taken : AdminOf(q) = a /\ q.type = ty => before[q] \cap ToSet(s) = {}
        BY <1>4, <3>1, <3>3 DEF s
      <4>2. ASSUME NEW j \in DOMAIN n, NEW k \in DOMAIN n, j < k
            PROVE  n[k] \notin before[n[j]]
        <5>1. \A l \in 1 .. Len(s) + 1 : n[l] \in Request
          BY <1>8, <1>10, ElementOfSeq
        <5>2. CASE k = i + 1
          BY <1>10, <1>12, <5>1, <5>2
        <5>3. CASE j = i + 1
          <6>1. k - 1 \in 1 .. Len(s) /\ k - 1 > i /\ n[k] = s[k - 1] /\ n[j] = r
            BY <1>4, <1>10, <4>2, <5>3
          <6> QED
            BY <1>11, <6>1
        <5>4. CASE k # i + 1 /\ j # i + 1
          <6>1. PICK jj \in 1 .. Len(s), kk \in 1 .. Len(s) : n[j] = s[jj] /\ n[k] = s[kk] /\ jj < kk
            <7>1. CASE k <= i
              BY <1>4, <1>10, <4>2, <7>1
            <7>2. CASE k > i + 1 /\ j <= i
              <8>1. k - 1 \in 1 .. Len(s) /\ n[k] = s[k - 1] /\ j \in 1 .. Len(s) /\ n[j] = s[j] /\ j < k - 1
                BY <1>4, <1>10, <4>2, <7>2
              <8> QED
                BY <8>1
            <7>3. CASE k > i + 1 /\ j > i + 1
              <8>1. /\ k - 1 \in 1 .. Len(s) /\ n[k] = s[k - 1]
                    /\ j - 1 \in 1 .. Len(s) /\ n[j] = s[j - 1] /\ j - 1 < k - 1
                BY <1>4, <1>10, <4>2, <7>3
              <8> QED
                BY <8>1
            <7>4. k <= i \/ (k > i + 1 /\ j <= i) \/ (k > i + 1 /\ j > i + 1)
              BY <1>10, <5>4
            <7> QED
              BY <7>1, <7>2, <7>3, <7>4
          <6> QED
            BY <4>1, <6>1
        <5> QED
          BY <5>2, <5>3, <5>4
      <4>3. \A q \in taken : AdminOf(q) = a /\ q.type = ty => before[q] \cap ToSet(n) = {}
        <5>1. taken \subseteq Request
          BY Types DEF IInv
        <5> QED
          BY <1>9, <1>12, <4>1, <5>1
      <4> QED
        BY <1>1, <3>3, <4>0, <4>2, <4>3
    <3> QED
      BY <3>2, <3>3
  <2> QED
    BY <2>1 DEF RealTimeOrder
<1> QED
  BY <1>2, <1>14, <1>15, <1>16, <1>17, <1>18, <1>19 DEF IInv

\* A task that a map was given, or had no memory for, concerns no list.
LEMMA MapAddedInv ==
    ASSUME IInv, TypeOK', NEW t \in Thread, writer[t].at = "map", Added(t),
           UNCHANGED <<sys, end, pair, todo, taken, before>>
    PROVE  IInv'
<1> DEFINE r == writer[t].req
<1>1. Adding(t) /\ Added(t) /\ UNCHANGED <<sys, end, pair, todo, taken, before>>
  BY DEF Adding
<1>2. /\ Writers' /\ done' = done \cup {r}
      /\ \A u \in Thread : Adding(u)' => Adding(u) /\ u # t /\ writer'[u] = writer[u]
      /\ \A u \in Thread : u # t /\ Adding(u) => writer[u].req # r
  BY <1>1, AddedWriters DEF IInv
<1>3. /\ r \in Request /\ Supported(r) /\ r \notin done /\ r \notin taken
      /\ slot_type(r) = "USER_DESIGNATE"
  BY <1>1 DEF IInv, Writers, NotYet
<1>4. \A x \in Request : r \notin before[x]
  BY <1>1, <1>3 DEF IInv, NotYet
<1> HIDE DEF r
<1>5. Contents'
  BY <1>1, <1>2 DEF IInv, Contents
<1>6. Placed'
  <2>1. ASSUME NEW q \in done'
        PROVE  Supported(q) /\ (q \notin taken' => Kept(q)')
    <3>1. CASE q = r
      BY <1>3, <3>1 DEF Kept
    <3>2. CASE q \in done
      <4>1. Supported(q) /\ (q \notin taken => Kept(q))
        BY <3>2 DEF IInv, Placed
      <4> QED
        BY <1>1, <4>1 DEF InPlace, Kept
    <3> QED
      BY <1>2, <3>1, <3>2
  <2> QED
    BY <2>1 DEF Placed
<1>7. NotYet'
  <2>1. todo' \cap done' = {} /\ taken' \subseteq done'
    <3>1. r \notin todo
      BY <1>1 DEF IInv, Writers, r
    <3> QED
      BY <1>1, <1>2, <3>1 DEF IInv, NotYet
  <2>2. ASSUME NEW q \in Request, NEW x \in Request,
               q \in todo' \/ (\E u \in Thread : Adding(u)' /\ writer'[u].req = q)
        PROVE  q \notin before'[x]
    <3>1. q \in todo \/ \E u \in Thread : Adding(u) /\ writer[u].req = q
      BY <1>1, <1>2, <2>2
    <3> QED
      BY <1>1, <3>1 DEF IInv, NotYet
  <2> QED
    BY <2>1, <2>2 DEF NotYet
<1>8. Ends'
  <2>1. \A b, tz : ~ListTask(b, tz, r)
    BY <1>3 DEF ListTask
  <2> QED
    BY <1>1, <1>2, <2>1 DEF IInv, Ends
<1>9. Positions'
  <2>1. ASSUME NEW u \in Thread, writer'[u].at = "list"
        PROVE  writer'[u] = writer[u]
    BY <1>2, <2>1 DEF Adding
  <2> QED
    BY <1>1, <2>1 DEF IInv, Positions
<1>10. RealTimeOrder'
  BY <1>1 DEF IInv, RealTimeOrder
<1> QED
  BY <1>2, <1>5, <1>6, <1>7, <1>8, <1>9, <1>10 DEF IInv

(***************************************************************************)
(* What each step keeps: taking and destroying                             *)
(***************************************************************************)

\* get_task takes what was there first.
LEMMA GetSysInv ==
    ASSUME IInv, TypeOK', NEW a \in Admin, NEW slot_num, GetSys(a, slot_num)
    PROVE  IInv'
<1> DEFINE s == sys[a]["DATA"]
           n == sys'[a]["DATA"]
           h == Head(s)
<1>1. /\ s # <<>> /\ "DATA" \in ListType
      /\ sys' = [sys EXCEPT ![a]["DATA"] = Tail(s)]
      /\ taken' = taken \cup {h}
      /\ UNCHANGED <<end, user, pair, writer, todo, done, before>>
  BY DEF GetSys, ListType
<1>2. /\ n = Tail(s)
      /\ \A b \in Admin, tz \in ListType : b # a \/ tz # "DATA" => sys'[b][tz] = sys[b][tz]
  <2>1. sys \in [Admin -> [ListType -> Seq(Request)]]
    BY DEF IInv, TypeOK
  <2> QED
    BY <1>1, <2>1
<1>3. s \in Seq(Request) /\ Len(s) \in Nat /\ DOMAIN s = 1 .. Len(s)
  BY <1>1, Types DEF IInv
<1>4. /\ Distinct(s)
      /\ \A i \in 1 .. Len(s) : s[i] \in done \ taken /\ ListTask(a, "DATA", s[i])
  BY <1>1, <1>3 DEF IInv, Contents, Distinct
<1> HIDE DEF s, n, h
<1>5. /\ n \in Seq(Request) /\ Len(s) \in Nat \ {0} /\ Len(n) = Len(s) - 1
      /\ \A j \in 1 .. Len(s) - 1 : n[j] = s[j + 1]
      /\ h = s[1] /\ h \in Request
      /\ Distinct(n) /\ ToSet(n) = ToSet(s) \ {h}
  BY <1>1, <1>2, <1>3, <1>4, TailContents DEF h
<1>6. DOMAIN n = 1 .. Len(s) - 1 /\ 1 \in 1 .. Len(s)
  BY <1>5
<1>7. h \in done \ taken /\ ListTask(a, "DATA", h) /\ h \in ToSet(s)
  BY <1>3, <1>4, <1>5, <1>6 DEF ToSet
<1>8. /\ AdminOf(h) = a /\ h.type = "DATA" /\ slot_type(h) = "SYS_DESIGNATE"
  BY <1>7 DEF ListTask
<1>9. Contents'
  <2>1. ASSUME NEW b \in Admin, NEW tz \in ListType
        PROVE  /\ \A j \in DOMAIN sys'[b][tz] : /\ ListTask(b, tz, sys'[b][tz][j])
                                                /\ sys'[b][tz][j] \in done' \ taken'
               /\ \A j, k \in DOMAIN sys'[b][tz] : sys'[b][tz][j] = sys'[b][tz][k] => j = k
    <3>1. /\ \A j \in DOMAIN sys[b][tz] : /\ ListTask(b, tz, sys[b][tz][j])
                                          /\ sys[b][tz][j] \in done \ taken
          /\ \A j, k \in DOMAIN sys[b][tz] : sys[b][tz][j] = sys[b][tz][k] => j = k
      BY DEF IInv, Contents
    <3>3. CASE b # a \/ tz # "DATA"
      <4>1. \A q : ListTask(b, tz, q) => q # h
        BY <1>8, <3>3 DEF ListTask
      <4> QED
        BY <1>1, <1>2, <3>1, <3>3, <4>1
    <3>4. CASE b = a /\ tz = "DATA"
      <4>1. sys'[b][tz] = n
        BY <3>4 DEF n
      <4>2. ASSUME NEW j \in DOMAIN n
            PROVE  ListTask(a, "DATA", n[j]) /\ n[j] \in done' \ taken'
        <5>1. n[j] \in ToSet(s) /\ n[j] # h
          BY <1>5 DEF ToSet
        <5> QED
          BY <1>1, <1>3, <1>4, <5>1 DEF ToSet
      <4>3. \A j, k \in DOMAIN n : n[j] = n[k] => j = k
        BY <1>5, <1>6 DEF Distinct
      <4> QED
        BY <3>4, <4>1, <4>2, <4>3
    <3> QED
      BY <3>3, <3>4
  <2> QED
    BY <2>1 DEF Contents
<1>10. Placed'
  <2>1. ASSUME NEW q \in done
        PROVE  Supported(q) /\ (q \notin taken' => Kept(q)')
    <3>1. Supported(q) /\ (q \notin taken => Kept(q))
      BY DEF IInv, Placed
    <3>2. ASSUME q \notin taken', q \in ToSet(sys[AdminOf(q)][q.type])
          PROVE  q \in ToSet(sys'[AdminOf(q)][q.type])
      <4>1. AdminOf(q) \in Admin /\ q.type \in ListType /\ q # h
        BY <1>1, <3>1, <3>2, Types DEF IInv
      <4>2. CASE AdminOf(q) # a \/ q.type # "DATA"
        BY <1>2, <3>2, <4>1, <4>2
      <4>3. CASE AdminOf(q) = a /\ q.type = "DATA"
        BY <1>5, <3>2, <4>1, <4>3 DEF n, s
      <4> QED
        BY <4>2, <4>3
    <3> QED
      BY <1>1, <3>1, <3>2 DEF InPlace, Kept
  <2> QED
    BY <1>1, <2>1 DEF Placed
<1>11. Writers' /\ NotYet'
  <2>1. Writers'
    BY <1>1 DEF IInv, Writers, Adding
  <2>2. NotYet'
    BY <1>1, <1>7 DEF IInv, NotYet, Adding
  <2> QED
    BY <2>1, <2>2
<1>12. Ends'
  <2>1. ASSUME NEW b \in Admin, NEW tz \in ListType
        PROVE  LET m == sys'[b][tz]
                   e == end'[b][tz]
               IN  \/ e = HEAD /\ \A q \in done' : ~ListTask(b, tz, q)
                   \/ e \in taken' /\ AdminOf(e) = b
                   \/ m # <<>> /\ e = m[Len(m)]
    <3>1. LET m == sys[b][tz]
              e == end[b][tz]
          IN  \/ e = HEAD /\ \A q \in done : ~ListTask(b, tz, q)
              \/ e \in taken /\ AdminOf(e) = b
              \/ m # <<>> /\ e = m[Len(m)]
      BY DEF IInv, Ends
    <3>2. CASE b # a \/ tz # "DATA"
      BY <1>1, <1>2, <3>1, <3>2
    <3>3. CASE b = a /\ tz = "DATA" /\ end[b][tz] = s[Len(s)]
      <4>1. CASE Len(s) = 1
        BY <1>1, <1>5, <1>8, <3>3, <4>1
      <4>2. CASE Len(s) # 1
        <5>1. Len(s) - 1 \in 1 .. Len(s) - 1 /\ (Len(s) - 1) + 1 = Len(s)
          BY <1>5, <4>2
        <5>2. n[Len(n)] = s[Len(s)] /\ n # <<>>
          BY <1>5, <1>6, <5>1
        <5> QED
          BY <1>1, <3>3, <5>2 DEF n
      <4> QED
        BY <4>1, <4>2
    <3>4. CASE b = a /\ tz = "DATA" /\ end[b][tz] # s[Len(s)]
      BY <1>1, <3>1, <3>4 DEF s
    <3> QED
      BY <3>2, <3>3, <3>4
  <2> QED
    BY <2>1 DEF Ends
<1>13. Positions'
  <2>1. ASSUME NEW u \in Thread, writer[u].at = "list"
        PROVE  LET x == writer[u].req
                   e == writer[u].pos
                   m == sys'[AdminOf(x)][x.type]
               IN  \/ e = HEAD /\ before[x] = {}
                   \/ e \in taken' /\ AdminOf(e) = AdminOf(x)
                   \/ \E k \in DOMAIN m : m[k] = e /\ \A j \in DOMAIN m : j > k => m[j] \notin before[x]
    <3> DEFINE x == writer[u].req
               e == writer[u].pos
               m == sys[AdminOf(x)][x.type]
    <3>1. x \in Request /\ AdminOf(x) \in Admin /\ x.type \in ListType
      BY <2>1, Types DEF IInv, Writers, Adding
    <3>2. \/ e = HEAD /\ before[x] = {}
          \/ e \in taken /\ AdminOf(e) = AdminOf(x)
          \/ \E k \in DOMAIN m : m[k] = e /\ \A j \in DOMAIN m : j > k => m[j] \notin before[x]
      BY <2>1 DEF IInv, Positions
    <3>3. CASE AdminOf(x) # a \/ x.type # "DATA"
      <4>1. sys'[AdminOf(x)][x.type] = m
        BY <1>2, <3>1, <3>3
      <4> QED
        BY <1>1, <3>2, <4>1
    <3>4. ASSUME AdminOf(x) = a, x.type = "DATA",
                 NEW k \in DOMAIN m, m[k] = e, \A j \in DOMAIN m : j > k => m[j] \notin before[x]
          PROVE  \/ e \in taken' /\ AdminOf(e) = AdminOf(x)
                 \/ \E l \in DOMAIN n : n[l] = e /\ \A j \in DOMAIN n : j > l => n[j] \notin before[x]
      <4>1. m = s
        BY <3>4 DEF s
      <4> HIDE DEF m, e, x
      <4>2. k \in 1 .. Len(s) /\ s[k] = e /\ \A j \in 1 .. Len(s) : j > k => s[j] \notin before[x]
        BY <1>3, <3>4, <4>1
      <4>3. CASE k = 1
        BY <1>1, <1>5, <1>8, <3>4, <4>2, <4>3
      <4>4. CASE k # 1
        <5>1. k - 1 \in 1 .. Len(s) - 1 /\ n[k - 1] = e
          BY <1>5, <4>2, <4>4
        <5>2. ASSUME NEW j \in 1 .. Len(s) - 1, j > k - 1
              PROVE  n[j] \notin before[x]
          <6>1. j + 1 \in 1 .. Len(s) /\ j + 1 > k /\ n[j] = s[j + 1]
            BY <1>5, <4>2, <5>2
          <6> QED
            BY <4>2, <6>1
        <5> QED
          BY <1>6, <5>1, <5>2
      <4> QED
        BY <4>3, <4>4
    <3>5. CASE AdminOf(x) = a /\ x.type = "DATA"
      <4>1. sys'[AdminOf(x)][x.type] = n
        BY <3>5 DEF n
      <4>2. taken \subseteq taken'
        BY <1>1
      <4> HIDE DEF m, e, x
      <4>3. \/ e = HEAD /\ before[x] = {}
            \/ e \in taken' /\ AdminOf(e) = AdminOf(x)
            \/ \E l \in DOMAIN n : n[l] = e /\ \A j \in DOMAIN n : j > l => n[j] \notin before[x]
        BY <3>2, <3>4, <3>5, <4>2
      <4> QED
        BY <4>1, <4>3 DEF e, x
    <3> QED
      BY <3>3, <3>5
  <2> QED
    BY <1>1, <2>1 DEF Positions
<1>14. RealTimeOrder'
  <2>1. ASSUME NEW b \in Admin, NEW tz \in ListType
        PROVE  LET m == sys'[b][tz] IN
               /\ \A j, k \in DOMAIN m : j < k => m[k] \notin before'[m[j]]
               /\ \A q \in taken' : AdminOf(q) = b /\ q.type = tz => before'[q] \cap ToSet(m) = {}
    <3>1. LET m == sys[b][tz] IN
               /\ \A j, k \in DOMAIN m : j < k => m[k] \notin before[m[j]]
               /\ \A q \in taken : AdminOf(q) = b /\ q.type = tz => before[q] \cap ToSet(m) = {}
      BY DEF IInv, RealTimeOrder
    <3>2. CASE b # a \/ tz # "DATA"
      <4>1. \A q \in taken' : AdminOf(q) = b /\ q.type = tz => q \in taken
        BY <1>1, <1>8, <3>2
      <4> QED
        BY <1>1, <1>2, <3>1, <3>2, <4>1
    <3>3. CASE b = a /\ tz = "DATA"
      <4>1. sys'[b][tz] = n
        BY <3>3 DEF n
      <4>2. /\ \A j, k \in 1 .. Len(s) : j < k => s[k] \notin before[s[j]]
            /\ \A q \in taken : AdminOf(q) = a /\ q.type = "DATA" => before[q] \cap ToSet(s) = {}
        BY <1>3, <3>1, <3>3 DEF s
      <4>3. ASSUME NEW j \in DOMAIN n, NEW k \in DOMAIN n, j < k
            PROVE  n[k] \notin before[n[j]]
        <5>1. j + 1 \in 1 .. Len(s) /\ k + 1 \in 1 .. Len(s) /\ j + 1 < k + 1
              /\ n[j] = s[j + 1] /\ n[k] = s[k + 1]
          BY <1>5, <1>6, <4>3
        <5> QED
          BY <4>2, <5>1
      <4>4. ASSUME NEW q \in taken', AdminOf(q) = a, q.type = "DATA"
            PROVE  before[q] \cap ToSet(n) = {}
        <5>1. CASE q \in taken
          BY <1>5, <4>2, <4>4, <5>1
        <5>2. CASE q = h
          <6>1. ASSUME NEW j \in DOMAIN n PROVE n[j] \notin before[s[1]]
            <7>1. j + 1 \in 1 .. Len(s) /\ n[j] = s[j + 1] /\ 1 < j + 1
              BY <1>5, <1>6
            <7> QED
              BY <1>6, <4>2, <7>1
          <6> QED
            BY <1>5, <5>2, <6>1 DEF ToSet
        <5> QED
          BY <1>1, <5>1, <5>2
      <4> QED
        BY <1>1, <3>3, <4>1, <4>3, <4>4
    <3> QED
      BY <3>2, <3>3
  <2> QED
    BY <2>1 DEF RealTimeOrder
<1> QED
  BY <1>9, <1>10, <1>11, <1>12, <1>13, <1>14 DEF IInv

\* Nobody is adding to an admin that is destroyed.
LEMMA DestroyInv ==
    ASSUME IInv, TypeOK', NEW a \in Admin, destroy_task_admin(a)
    PROVE  IInv'
<1>1. /\ UNCHANGED <<writer, todo, before>>
      /\ done' = {r \in done : AdminOf(r) # a} /\ taken' = {r \in taken : AdminOf(r) # a}
      /\ \A t \in Thread : Adding(t) => AdminOf(writer[t].req) # a
  BY DEF destroy_task_admin, InAdmin, Adding
<1>2. /\ \A ty \in ListType : sys'[a][ty] = <<>> /\ user'[a][ty] = <<>> /\ end'[a][ty] = HEAD
      /\ \A b \in Admin : b # a => /\ sys'[b] = sys[b] /\ user'[b] = user[b]
                                   /\ end'[b] = end[b] /\ pair'[b] = pair[b]
  <2>1. /\ sys' = [sys EXCEPT ![a] = [ty \in ListType |-> <<>>]]
        /\ end' = [end EXCEPT ![a] = [ty \in ListType |-> HEAD]]
        /\ user' = [user EXCEPT ![a] = [ty \in ListType |-> <<>>]]
        /\ pair' = [pair EXCEPT ![a] = NoPair]
    BY DEF destroy_task_admin
  <2>2. /\ sys \in [Admin -> [ListType -> Seq(Request)]]
        /\ end \in [Admin -> [ListType -> Request \cup {HEAD}]]
        /\ user \in [Admin -> [ListType -> Seq(Pair)]]
        /\ pair \in [Admin -> Pair \cup {NoPair}]
    BY DEF IInv, TypeOK
  <2> QED
    BY <2>1, <2>2
<1>3. Contents'
  <2>1. ASSUME NEW b \in Admin, NEW tz \in ListType
        PROVE  /\ \A j \in DOMAIN sys'[b][tz] : /\ ListTask(b, tz, sys'[b][tz][j])
                                                /\ sys'[b][tz][j] \in done' \ taken'
               /\ \A j, k \in DOMAIN sys'[b][tz] : sys'[b][tz][j] = sys'[b][tz][k] => j = k
    <3>1. CASE b = a
      <4>1. DOMAIN sys'[b][tz] = {} /\ DOMAIN user'[b][tz] = {}
        BY <1>2, <3>1
      <4> QED
        BY <4>1
    <3>2. CASE b # a
      <4>1. /\ \A j \in DOMAIN sys[b][tz] : /\ ListTask(b, tz, sys[b][tz][j])
                                            /\ sys[b][tz][j] \in done \ taken
            /\ \A j, k \in DOMAIN sys[b][tz] : sys[b][tz][j] = sys[b][tz][k] => j = k
        BY DEF IInv, Contents
      <4>2. \A q : ListTask(b, tz, q) \/ MapTask(b, tz, q) => AdminOf(q) # a
        BY <3>2 DEF ListTask, MapTask
      <4>3. sys'[b] = sys[b] /\ user'[b] = user[b]
        BY <1>2, <3>2
      <4> QED
        BY <1>1, <4>1, <4>2, <4>3
    <3> QED
      BY <3>1, <3>2
  <2> QED
    BY <2>1 DEF Contents
<1>4. Placed'
  <2>1. ASSUME NEW q \in done, AdminOf(q) # a
        PROVE  Supported(q) /\ (q \notin taken' => Kept(q)')
    <3>1. Supported(q) /\ (q \notin taken => Kept(q))
      BY DEF IInv, Placed
    <3>2. AdminOf(q) \in Admin
      BY Types DEF IInv
    <3>3. sys'[AdminOf(q)] = sys[AdminOf(q)] /\ user'[AdminOf(q)] = user[AdminOf(q)]
      BY <1>2, <2>1, <3>2
    <3> QED
      BY <1>1, <2>1, <3>1, <3>3 DEF InPlace, Kept
  <2> QED
    BY <1>1, <2>1 DEF Placed
<1>5. Writers'
  <2>1. ASSUME NEW t \in Thread, Adding(t)
        PROVE  LET r == writer[t].req IN
                 /\ r \in Request /\ Supported(r) /\ r \notin todo /\ r \notin done'
                 /\ writer[t].at = "list" => /\ slot_type(r) = "SYS_DESIGNATE"
                                             /\ before[r] \subseteq {q \in done' : Together(q, r)}
                 /\ writer[t].at = "map" => /\ slot_type(r) = "USER_DESIGNATE"
                                            /\ pair'[AdminOf(r)] \in Pair
    <3> DEFINE r == writer[t].req
    <3>1. /\ r \in Request /\ Supported(r) /\ r \notin todo /\ r \notin done
          /\ writer[t].at = "list" => /\ slot_type(r) = "SYS_DESIGNATE"
                                      /\ before[r] \subseteq {q \in done : Together(q, r)}
          /\ writer[t].at = "map" => /\ slot_type(r) = "USER_DESIGNATE"
                                     /\ pair[AdminOf(r)] \in Pair
      BY <2>1 DEF IInv, Writers
    <3>2. AdminOf(r) # a /\ AdminOf(r) \in Admin
      BY <1>1, <2>1, Types DEF IInv
    <3>3. \A q \in done : Together(q, r) => q \in done'
      BY <1>1, <3>2 DEF Together
    <3> QED
      BY <1>1, <1>2, <3>1, <3>2, <3>3
  <2>2. \A t, u \in Thread : Adding(t) /\ Adding(u) /\ writer[t].req = writer[u].req => t = u
    BY DEF IInv, Writers
  <2>3. \A t \in Thread : Adding(t)' <=> Adding(t)
    BY <1>1 DEF Adding
  <2> QED
    BY <1>1, <2>1, <2>2, <2>3 DEF Writers
<1>6. NotYet'
  BY <1>1 DEF IInv, NotYet, Adding
<1>7. Ends'
  <2>1. ASSUME NEW b \in Admin, NEW tz \in ListType
        PROVE  LET m == sys'[b][tz]
                   e == end'[b][tz]
               IN  \/ e = HEAD /\ \A q \in done' : ~ListTask(b, tz, q)
                   \/ e \in taken' /\ AdminOf(e) = b
                   \/ m # <<>> /\ e = m[Len(m)]
    <3>1. CASE b = a
      <4>1. \A q \in done' : ~ListTask(b, tz, q)
        BY <1>1, <3>1 DEF ListTask
      <4> QED
        BY <1>2, <3>1, <4>1
    <3>2. CASE b # a
      <4>1. LET m == sys[b][tz]
                e == end[b][tz]
            IN  \/ e = HEAD /\ \A q \in done : ~ListTask(b, tz, q)
                \/ e \in taken /\ AdminOf(e) = b
                \/ m # <<>> /\ e = m[Len(m)]
        BY DEF IInv, Ends
      <4>2. sys'[b] = sys[b] /\ end'[b] = end[b]
        BY <1>2, <3>2
      <4> QED
        BY <1>1, <3>2, <4>1, <4>2
    <3> QED
      BY <3>1, <3>2
  <2> QED
    BY <2>1 DEF Ends
<1>8. Positions'
  <2>1. ASSUME NEW u \in Thread, writer[u].at = "list"
        PROVE  LET x == writer[u].req
                   e == writer[u].pos
                   m == sys'[AdminOf(x)][x.type]
               IN  \/ e = HEAD /\ before[x] = {}
                   \/ e \in taken' /\ AdminOf(e) = AdminOf(x)
                   \/ \E k \in DOMAIN m : m[k] = e /\ \A j \in DOMAIN m : j > k => m[j] \notin before[x]
    <3> DEFINE x == writer[u].req
               e == writer[u].pos
               m == sys[AdminOf(x)][x.type]
    <3>1. AdminOf(x) # a /\ AdminOf(x) \in Admin
      BY <1>1, <2>1, Types DEF IInv, Adding
    <3>2. \/ e = HEAD /\ before[x] = {}
          \/ e \in taken /\ AdminOf(e) = AdminOf(x)
          \/ \E k \in DOMAIN m : m[k] = e /\ \A j \in DOMAIN m : j > k => m[j] \notin before[x]
      BY <2>1 DEF IInv, Positions
    <3>3. sys'[AdminOf(x)] = sys[AdminOf(x)]
      BY <1>2, <3>1
    <3> QED
      BY <1>1, <3>1, <3>2, <3>3
  <2> QED
    BY <1>1, <2>1 DEF Positions
<1>9. RealTimeOrder'
  <2>1. ASSUME NEW b \in Admin, NEW tz \in ListType
        PROVE  LET m == sys'[b][tz] IN
               /\ \A j, k \in DOMAIN m : j < k => m[k] \notin before'[m[j]]
               /\ \A q \in taken' : AdminOf(q) = b /\ q.type = tz => before'[q] \cap ToSet(m) = {}
    <3>1. CASE b = a
      <4>1. DOMAIN sys'[b][tz] = {} /\ ToSet(sys'[b][tz]) = {}
        BY <1>2, <3>1 DEF ToSet
      <4> QED
        BY <4>1
    <3>2. CASE b # a
      <4>1. LET m == sys[b][tz] IN
              /\ \A j, k \in DOMAIN m : j < k => m[k] \notin before[m[j]]
              /\ \A q \in taken : AdminOf(q) = b /\ q.type = tz => before[q] \cap ToSet(m) = {}
        BY DEF IInv, RealTimeOrder
      <4>2. sys'[b] = sys[b]
        BY <1>2, <3>2
      <4> QED
        BY <1>1, <4>1, <4>2
    <3> QED
      BY <3>1, <3>2
  <2> QED
    BY <2>1 DEF RealTimeOrder
<1> QED
  BY <1>3, <1>4, <1>5, <1>6, <1>7, <1>8, <1>9 DEF IInv

(***************************************************************************)
(* The inductive invariant holds                                           *)
(***************************************************************************)

LEMMA InitInv == Init => IInv
<1> SUFFICES ASSUME Init PROVE IInv
  OBVIOUS
<1> USE DEF Init
<1>1. TypeOK
  <2>1. sys \in [Admin -> [ListType -> Seq(Request)]] /\ user \in [Admin -> [ListType -> Seq(Pair)]]
    OBVIOUS
  <2>2. todo \subseteq Request
    BY BatchesAssumption
  <2>3. writer \in [Thread -> [at : {"idle", "list", "map"} \cup Dead,
                               req : Request \cup {HEAD}, pos : Request \cup {HEAD}]]
    BY DEF Idle
  <2> QED
    BY <2>1, <2>2, <2>3 DEF TypeOK, history
<1>2. \A t \in Thread : writer[t].at = "idle" /\ ~Adding(t)
  BY DEF Idle, Adding
<1>3. \A a \in Admin, ty \in ListType : /\ DOMAIN sys[a][ty] = {} /\ DOMAIN user[a][ty] = {}
                                        /\ end[a][ty] = HEAD
  OBVIOUS
<1>4. done = {} /\ taken = {} /\ \A r \in Request : before[r] = {}
  OBVIOUS
<1>5. Contents /\ Placed /\ Ends /\ RealTimeOrder
  BY <1>3, <1>4 DEF Contents, Placed, Ends, RealTimeOrder
<1>6. Writers /\ NotYet /\ Positions
  BY <1>2, <1>4 DEF Writers, NotYet, Positions
<1> QED
  BY <1>1, <1>5, <1>6 DEF IInv

LEMMA NextType ==
    ASSUME IInv, Next
    PROVE  TypeOK'
<1> USE DEF TypeOK, vars, containers, history
<1>0. TypeOK
  BY DEF IInv
<1>1. ASSUME NEW a \in Admin, create_task_admin(a) \/ CreateFails(a)
      PROVE  TypeOK'
  BY <1>0, <1>1 DEF create_task_admin, CreateFails
<1>2. ASSUME NEW a \in Admin, destroy_task_admin(a)
      PROVE  TypeOK'
  <2>1. /\ [ty \in ListType |-> <<>>] \in [ListType -> Seq(Request)]
        /\ [ty \in ListType |-> <<>>] \in [ListType -> Seq(Pair)]
        /\ [ty \in ListType |-> HEAD] \in [ListType -> Request \cup {HEAD}]
        /\ [ty \in ListType |-> FALSE] \in [ListType -> BOOLEAN]
    OBVIOUS
  <2>2. /\ sys' \in [Admin -> [ListType -> Seq(Request)]]
        /\ user' \in [Admin -> [ListType -> Seq(Pair)]]
    BY <1>0, <1>2, <2>1 DEF destroy_task_admin
  <2>3. /\ end' \in [Admin -> [ListType -> Request \cup {HEAD}]]
        /\ headless' \in [Admin -> [ListType -> BOOLEAN]]
    BY <1>0, <1>2, <2>1 DEF destroy_task_admin
  <2>4. admin' \in [Admin -> {"none", "ready", "null", "dead"}] /\ pair' \in [Admin -> Pair \cup {NoPair}]
    BY <1>0, <1>2 DEF destroy_task_admin
  <2>5. {todo, done, refused, mixed, taken}' \subseteq SUBSET Request /\ UNCHANGED <<writer, consumer, before>>
    BY <1>0, <1>2 DEF destroy_task_admin
  <2> QED
    BY <1>0, <2>2, <2>3, <2>4, <2>5
<1>3. ASSUME NEW a \in Admin, get_task(a)
      PROVE  TypeOK'
  <2>1. PICK r \in Request : \/ GetUser(a, r.slot_num) \/ GetSys(a, r.slot_num) \/ GetEmpty(a, r.slot_num)
    BY <1>3 DEF get_task
  <2>2. "DATA" \in ListType
    BY DEF ListType
  <2>3. CASE GetUser(a, r.slot_num)
    BY <1>0, <2>3 DEF GetUser
  <2>4. CASE GetSys(a, r.slot_num)
    <3>1. sys[a]["DATA"] \in Seq(Request) /\ sys[a]["DATA"] # <<>>
      BY <1>0, <2>2, <2>4 DEF GetSys
    <3>2. Tail(sys[a]["DATA"]) \in Seq(Request) /\ Head(sys[a]["DATA"]) \in Request
      BY <3>1
    <3>3. sys' = [sys EXCEPT ![a]["DATA"] = Tail(sys[a]["DATA"])]
      BY <2>4 DEF GetSys
    <3>4. sys' \in [Admin -> [ListType -> Seq(Request)]]
      BY <1>0, <3>2, <3>3
    <3>5. taken' \subseteq Request
      BY <1>0, <2>4, <3>2 DEF GetSys
    <3> QED
      BY <1>0, <2>4, <3>4, <3>5 DEF GetSys
  <2>5. CASE GetEmpty(a, r.slot_num)
    <3>1. headless' \in [Admin -> [ListType -> BOOLEAN]]
      BY <1>0, <2>2, <2>5 DEF GetEmpty
    <3> QED
      BY <1>0, <2>5, <3>1 DEF GetEmpty
  <2> QED
    BY <2>1, <2>3, <2>4, <2>5
<1>4. ASSUME NEW t \in Thread, add_task(t)
      PROVE  TypeOK'
  <2>1. PICK r \in Request : \/ AddUnsupported(t, r) \/ AddToNull(t, r)
                             \/ llist_push_back(t, r) \/ make_pair(t, r)
    BY <1>4 DEF add_task
  <2>2. Begin(t, r) => todo' \subseteq Request /\ before' \in [Request -> SUBSET Request]
    BY <1>0 DEF Begin
  <2>3. ASSUME NEW where \in {"idle", "list", "map"} \cup Dead, NEW p \in Request \cup {HEAD}, Goto(t, where, r, p)
        PROVE  writer' \in [Thread -> [at : {"idle", "list", "map"} \cup Dead,
                                       req : Request \cup {HEAD}, pos : Request \cup {HEAD}]]
    BY <1>0, <2>3 DEF Goto
  <2>4. CASE AddUnsupported(t, r)
    BY <1>0, <2>2, <2>4 DEF AddUnsupported
  <2>5. CASE AddToNull(t, r)
    <3>1. writer' \in [Thread -> [at : {"idle", "list", "map"} \cup Dead,
                                  req : Request \cup {HEAD}, pos : Request \cup {HEAD}]]
      BY <2>3, <2>5 DEF AddToNull, Dead
    <3> QED
      BY <1>0, <2>2, <2>5, <3>1 DEF AddToNull
  <2>6. CASE llist_push_back(t, r)
    <3>1. end[AdminOf(r)][r.type] \in Request \cup {HEAD}
      BY <1>0, <2>6, Types DEF llist_push_back
    <3>2. writer' \in [Thread -> [at : {"idle", "list", "map"} \cup Dead,
                                  req : Request \cup {HEAD}, pos : Request \cup {HEAD}]]
      BY <2>3, <2>6, <3>1 DEF llist_push_back
    <3> QED
      BY <1>0, <2>2, <2>6, <3>2 DEF llist_push_back
  <2>7. CASE make_pair(t, r)
    <3>1. writer' \in [Thread -> [at : {"idle", "list", "map"} \cup Dead,
                                  req : Request \cup {HEAD}, pos : Request \cup {HEAD}]]
      BY <2>3, <2>7 DEF make_pair, Dead
    <3>2. pair' \in [Admin -> Pair \cup {NoPair}]
      <4>1. pair \in [Admin -> Pair \cup {NoPair}]
        BY <1>0
      <4>2. ASSUME NEW k \in Byte2, pair' = [pair EXCEPT ![AdminOf(r)] = [key |-> k, task |-> r]]
            PROVE  pair' \in [Admin -> Pair \cup {NoPair}]
        <5>1. [key |-> k, task |-> r] \in Pair
          BY DEF Pair
        <5> HIDE DEF Pair
        <5> QED
          BY <4>1, <4>2, <5>1
      <4> QED
        BY <2>7, <4>1, <4>2 DEF make_pair
    <3>3. mixed' \subseteq Request
      <4>1. mixed' = mixed \/ mixed' = mixed \cup InPair(AdminOf(r)) \cup {r}
        BY <2>7 DEF make_pair
      <4>2. InPair(AdminOf(r)) \subseteq Request /\ mixed \subseteq Request
        BY <1>0, InPairTasks DEF IInv
      <4> QED
        BY <4>1, <4>2
    <3> QED
      BY <1>0, <2>2, <2>7, <3>1, <3>2, <3>3 DEF make_pair
  <2> QED
    BY <2>1, <2>4, <2>5, <2>6, <2>7
<1>5. ASSUME NEW t \in Thread, FinishAdd(t)
      PROVE  TypeOK'
  <2>1. ASSUME NEW where \in {"idle", "list", "map"} \cup Dead,
               NEW q \in Request \cup {HEAD}, NEW p \in Request \cup {HEAD}, Goto(t, where, q, p)
        PROVE  writer' \in [Thread -> [at : {"idle", "list", "map"} \cup Dead,
                                       req : Request \cup {HEAD}, pos : Request \cup {HEAD}]]
    BY <1>0, <2>1 DEF Goto
  <2> DEFINE r == writer[t].req
             a == AdminOf(r)
  <2>2. Adding(t) => /\ r \in Request /\ a \in Admin /\ r.type \in ListType
                     /\ writer[t].at = "map" => pair[a] \in Pair
    <3>1. ASSUME Adding(t)
          PROVE  /\ r \in Request /\ a \in Admin /\ r.type \in ListType
                 /\ writer[t].at = "map" => pair[a] \in Pair
      BY <1>0, <3>1, Types DEF IInv, Writers
    <3> QED
      BY <3>1
  <2>3. Added(t) /\ Adding(t) =>
          /\ done' \subseteq Request
          /\ writer' \in [Thread -> [at : {"idle", "list", "map"} \cup Dead,
                                     req : Request \cup {HEAD}, pos : Request \cup {HEAD}]]
    BY <1>0, <2>1, <2>2 DEF Added, Return
  <2>4. CASE llist_insert(t)
    <3>1. Adding(t) /\ Added(t)
      BY <2>4 DEF llist_insert, Adding
    <3> DEFINE s == sys[a][r.type]
               p == writer[t].pos
               n == Behind(s, p, r)
    <3>2. s \in Seq(Request) /\ Distinct(s)
      BY <1>0, <2>2, <3>1, Types DEF IInv, Contents, Distinct
    <3>3. p = HEAD \/ p \in ToSet(s)
      BY <2>4 DEF llist_insert, Linked
    <3>4. n \in Seq(Request)
      <4>1. r \in Request
        BY <2>2, <3>1
      <4> HIDE DEF s, p, r
      <4> QED
        BY <3>2, <3>3, <4>1, BehindInserts
    <3>5. /\ sys' = [sys EXCEPT ![a][r.type] = n]
          /\ end' = [end EXCEPT ![a][r.type] = IF p = @ THEN r ELSE @]
      BY <2>4 DEF llist_insert
    <3>6. r \in Request /\ a \in Admin /\ r.type \in ListType
      BY <2>2, <3>1
    <3> HIDE DEF r, a, p, n
    <3>7. /\ sys' \in [Admin -> [ListType -> Seq(Request)]]
          /\ end' \in [Admin -> [ListType -> Request \cup {HEAD}]]
      BY <1>0, <3>4, <3>5, <3>6
    <3> QED
      BY <1>0, <2>3, <2>4, <3>1, <3>7 DEF llist_insert
  <2>5. CASE InsertDies(t)
    <3>1. writer' \in [Thread -> [at : {"idle", "list", "map"} \cup Dead,
                                  req : Request \cup {HEAD}, pos : Request \cup {HEAD}]]
      <4>1. r \in Request \cup {HEAD} /\ writer[t].pos \in Request \cup {HEAD}
        BY <1>0
      <4>2. Goto(t, "nomem", r, writer[t].pos) \/ Goto(t, "poison", r, writer[t].pos)
        BY <2>5 DEF InsertDies
      <4> HIDE DEF r
      <4> QED
        BY <2>1, <4>1, <4>2 DEF Dead
    <3> QED
      BY <1>0, <2>5, <3>1 DEF InsertDies
  <2>6. CASE hash_map_insert(t)
    <3>1. Adding(t) /\ Added(t) /\ writer[t].at = "map"
      BY <2>6 DEF hash_map_insert, Adding
    <3>2. user' = [user EXCEPT ![a][r.type] = <<pair[a]>> \o @]
      BY <2>6 DEF hash_map_insert
    <3>3. pair[a] \in Pair /\ a \in Admin /\ r.type \in ListType
      BY <2>2, <3>1
    <3> HIDE DEF r, a
    <3>4. user[a][r.type] \in Seq(Pair)
      BY <1>0, <3>3
    <3>5. <<pair[a]>> \o user[a][r.type] \in Seq(Pair)
      BY <3>3, <3>4
    <3>6. user' \in [Admin -> [ListType -> Seq(Pair)]]
      BY <1>0, <3>2, <3>3, <3>5
    <3> QED
      BY <1>0, <2>3, <2>6, <3>1, <3>6 DEF hash_map_insert
  <2>7. CASE InsertRefused(t)
    <3>1. Adding(t) /\ Added(t) /\ refused' = refused \cup {r}
      BY <2>7 DEF InsertRefused, Adding
    <3>2. refused' \subseteq Request
      BY <1>0, <2>2, <3>1
    <3> HIDE DEF r, a
    <3> QED
      BY <1>0, <2>3, <2>7, <3>1, <3>2 DEF InsertRefused
  <2> QED
    BY <1>5, <2>4, <2>5, <2>6, <2>7 DEF FinishAdd
<1> QED
  BY <1>1, <1>2, <1>3, <1>4, <1>5 DEF Next

LEMMA NextInv ==
    ASSUME IInv, Next
    PROVE  IInv'
<1>0. TypeOK' /\ TypeOK
  BY NextType DEF IInv
<1>1. ASSUME NEW a \in Admin, create_task_admin(a) \/ CreateFails(a)
      PROVE  IInv'
  <2>1. UNCHANGED <<sys, end, user, pair, todo, done, taken, before, writer>>
    BY <1>1 DEF create_task_admin, CreateFails, containers, history
  <2> QED
    BY <1>0, <2>1, QuietInv DEF Adding
<1>2. ASSUME NEW a \in Admin, destroy_task_admin(a)
      PROVE  IInv'
  BY <1>0, <1>2, DestroyInv
<1>3. ASSUME NEW a \in Admin, get_task(a)
      PROVE  IInv'
  <2>1. PICK r \in Request : \/ GetUser(a, r.slot_num) \/ GetSys(a, r.slot_num) \/ GetEmpty(a, r.slot_num)
    BY <1>3 DEF get_task
  <2>2. CASE GetUser(a, r.slot_num) \/ GetEmpty(a, r.slot_num)
    <3>1. UNCHANGED <<sys, end, user, pair, todo, done, taken, before, writer>>
      BY <2>2 DEF GetUser, GetEmpty, vars, containers, history
    <3> QED
      BY <1>0, <3>1, QuietInv DEF Adding
  <2>3. CASE GetSys(a, r.slot_num)
    BY <1>0, <2>3, GetSysInv
  <2> QED
    BY <2>1, <2>2, <2>3
<1>4. ASSUME NEW t \in Thread, add_task(t)
      PROVE  IInv'
  <2>1. PICK r \in Request : \/ AddUnsupported(t, r) \/ AddToNull(t, r)
                             \/ llist_push_back(t, r) \/ make_pair(t, r)
    BY <1>4 DEF add_task
  <2>2. Begin(t, r) /\ UNCHANGED <<sys, end, user, done, taken>>
    BY <2>1 DEF AddUnsupported, AddToNull, llist_push_back, make_pair, containers
  <2>3. ASSUME NEW where, NEW p, Goto(t, where, r, p)
        PROVE  /\ writer'[t] = [at |-> where, req |-> r, pos |-> p]
               /\ \A u \in Thread \ {t} : writer'[u] = writer[u]
    BY <1>0, <2>3 DEF Goto, TypeOK
  <2>4. CASE AddUnsupported(t, r)
    <3>1. writer' = writer /\ pair' = pair /\ ~Adding(t)'
      BY <2>2, <2>4 DEF AddUnsupported, Begin, Adding
    <3> QED
      BY <1>0, <2>2, <3>1, BeginInv
  <2>5. CASE AddToNull(t, r)
    <3>1. Goto(t, "null", r, HEAD) /\ pair' = pair
      BY <2>5 DEF AddToNull
    <3>2. /\ writer'[t] = [at |-> "null", req |-> r, pos |-> HEAD]
          /\ \A u \in Thread \ {t} : writer'[u] = writer[u]
      BY <2>3, <3>1
    <3>3. ~Adding(t)'
      BY <3>2 DEF Adding
    <3> QED
      BY <1>0, <2>2, <3>1, <3>2, <3>3, BeginInv
  <2>6. CASE llist_push_back(t, r)
    <3>1. /\ Goto(t, "list", r, end[AdminOf(r)][r.type]) /\ pair' = pair
          /\ Supported(r) /\ slot_type(r) = "SYS_DESIGNATE"
      BY <2>6 DEF llist_push_back
    <3>2. /\ writer'[t] = [at |-> "list", req |-> r, pos |-> end[AdminOf(r)][r.type]]
          /\ \A u \in Thread \ {t} : writer'[u] = writer[u]
      BY <2>3, <3>1
    <3> QED
      BY <1>0, <2>2, <3>1, <3>2, BeginInv
  <2>7. CASE make_pair(t, r)
    <3>1. /\ Supported(r) /\ slot_type(r) = "USER_DESIGNATE"
      BY <2>7 DEF make_pair
    <3>2. CASE Goto(t, "fault", r, HEAD) /\ pair' = pair
      <4>1. /\ writer'[t] = [at |-> "fault", req |-> r, pos |-> HEAD]
            /\ \A u \in Thread \ {t} : writer'[u] = writer[u]
        BY <2>3, <3>2
      <4>2. ~Adding(t)'
        BY <4>1 DEF Adding
      <4> QED
        BY <1>0, <2>2, <3>2, <4>1, <4>2, BeginInv
    <3>3. ASSUME NEW k \in Byte2, Goto(t, "map", r, HEAD),
                 pair' = [pair EXCEPT ![AdminOf(r)] = [key |-> k, task |-> r]]
          PROVE  IInv'
      <4>0. /\ writer'[t] = [at |-> "map", req |-> r, pos |-> HEAD]
            /\ \A u \in Thread \ {t} : writer'[u] = writer[u]
        BY <2>3, <3>3
      <4>1. /\ writer'[t].at = "map" /\ writer'[t].req = r
            /\ \A u \in Thread \ {t} : writer'[u] = writer[u]
        BY <4>0
      <4>2. AdminOf(r) \in Admin /\ pair \in [Admin -> Pair \cup {NoPair}]
        BY <1>0, Types DEF TypeOK
      <4>3. /\ pair'[AdminOf(r)].task = r /\ pair'[AdminOf(r)] \in Pair
            /\ \A b \in Admin : b # AdminOf(r) => pair'[b] = pair[b]
        <5>1. [key |-> k, task |-> r] \in Pair
          BY DEF Pair
        <5> HIDE DEF Pair
        <5> QED
          BY <3>3, <4>2, <5>1
      <4> QED
        BY <1>0, <2>2, <3>1, <4>1, <4>3, BeginInv
    <3> QED
      BY <2>7, <3>2, <3>3 DEF make_pair
  <2> QED
    BY <2>1, <2>4, <2>5, <2>6, <2>7
<1>5. ASSUME NEW t \in Thread, FinishAdd(t)
      PROVE  IInv'
  <2>1. CASE llist_insert(t)
    BY <1>0, <2>1, ListInsertInv
  <2>2. CASE hash_map_insert(t) \/ InsertRefused(t)
    <3>1. /\ writer[t].at = "map" /\ Added(t)
          /\ UNCHANGED <<sys, end, pair, todo, taken, before>>
      BY <2>2 DEF hash_map_insert, InsertRefused, containers
    <3> QED
      BY <1>0, <3>1, MapAddedInv
  <2>3. CASE InsertDies(t)
    <3>1. /\ UNCHANGED <<sys, end, user, pair, todo, done, taken, before>>
          /\ \E where \in {"nomem", "poison"} : \E q, p : Goto(t, where, q, p)
      BY <2>3 DEF InsertDies, containers, history
    <3>2. \A u \in Thread : Adding(u)' => Adding(u) /\ writer'[u] = writer[u]
      BY <1>0, <3>1 DEF Goto, Adding, TypeOK
    <3> QED
      BY <1>0, <3>1, <3>2, QuietInv
  <2> QED
    BY <1>5, <2>1, <2>2, <2>3 DEF FinishAdd
<1> QED
  BY <1>1, <1>2, <1>3, <1>4, <1>5 DEF Next

LEMMA Inductive == Spec => []IInv
<1>1. IInv /\ [Next]_vars => IInv'
  <2>1. ASSUME IInv, UNCHANGED vars PROVE IInv'
    <3>1. UNCHANGED <<sys, end, user, pair, todo, done, taken, before, writer>> /\ TypeOK'
      BY <2>1 DEF vars, containers, history, IInv, TypeOK
    <3> QED
      BY <2>1, <3>1, QuietInv DEF Adding
  <2> QED
    BY <2>1, NextInv
<1> QED
  BY <1>1, InitInv, PTL DEF Spec

(***************************************************************************)
(* The maps                                                                *)
(***************************************************************************)

\* What lists and maps got, in different records.
Records == /\ IsFiniteSet(done) /\ refused \subseteq done
           /\ \A r \in taken : slot_type(r) = "SYS_DESIGNATE"
           /\ \A r \in refused \cup mixed : slot_type(r) = "USER_DESIGNATE"

\* What is in a map belongs to the admin; unless it is mixed it belongs into
\* this map, was added and is there once.
Entries ==
    \A a \in Admin, ty \in ListType :
      LET m == user[a][ty]
      IN  /\ \A i \in DOMAIN m :
               /\ AdminOf(m[i].task) = a
               /\ m[i].task \notin mixed => /\ MapTask(a, ty, m[i].task)
                                            /\ m[i].task \in done \ refused
          /\ \A i, j \in DOMAIN m : m[i].task = m[j].task /\ m[i].task \notin mixed => i = j

\* What was added to a map is in it, unless it was refused or is mixed.
Entered ==
    \A r \in done \ (refused \cup mixed) :
      slot_type(r) = "USER_DESIGNATE" =>
        \E i \in DOMAIN user[AdminOf(r)][r.type] : user[AdminOf(r)][r.type][i].task = r

\* A map has an entry for each task that was added, whichever it is.
Counted ==
    \A a \in Admin, ty \in ListType :
      Len(user[a][ty]) = Cardinality(UserDone(a, ty) \ refused)

\* A writer that is alone at the maps of its admin finds its own pair there;
\* those that are not are mixed, and find the pair of one that is mixed too.
Sharing ==
    /\ \A t \in Thread : writer[t].at = "map" =>
         LET r == writer[t].req
             q == pair[AdminOf(r)].task
         IN  IF r \in mixed THEN q \in mixed /\ AdminOf(q) = AdminOf(r) ELSE q = r
    /\ \A t, u \in Thread :
         /\ writer[t].at = "map" /\ writer[u].at = "map"
         /\ AdminOf(writer[t].req) = AdminOf(writer[u].req)
         /\ t # u
         => writer[t].req \in mixed

MapInv == Records /\ Entries /\ Entered /\ Counted /\ Sharing

\* Steps that change no map and no record of one, and bring no writer to one.
LEMMA QuietMaps ==
    ASSUME MapInv, UNCHANGED <<user, pair, done, refused, mixed, taken>>,
           \A t \in Thread : writer'[t].at = "map" => writer[t].at = "map" /\ writer'[t] = writer[t]
    PROVE  MapInv'
<1>1. Records' /\ Entries' /\ Entered' /\ Counted'
  BY DEF MapInv, Records, Entries, Entered, Counted, UserDone
<1>2. Sharing'
  BY DEF MapInv, Sharing
<1> QED
  BY <1>1, <1>2 DEF MapInv

\* make_pair overwrites the pair of the writers that are at the maps already.
LEMMA MakePairMaps ==
    ASSUME IInv, MapInv, NEW t \in Thread, NEW r \in Request,
           slot_type(r) = "USER_DESIGNATE", writer[t].at = "idle",
           UNCHANGED <<user, done, refused, taken>>,
           writer'[t].at = "map", writer'[t].req = r,
           \A u \in Thread \ {t} : writer'[u] = writer[u],
           pair'[AdminOf(r)].task = r,
           \A b \in Admin : b # AdminOf(r) => pair'[b] = pair[b],
           mixed' = IF InPair(AdminOf(r)) = {} THEN mixed
                    ELSE mixed \cup InPair(AdminOf(r)) \cup {r}
    PROVE  MapInv'
<1> DEFINE a == AdminOf(r)
<1>1. /\ \A q \in InPair(a) : AdminOf(q) = a /\ slot_type(q) = "USER_DESIGNATE" /\ q \notin done
      /\ \A u \in Thread : writer[u].at = "map" /\ AdminOf(writer[u].req) = a
                          => writer[u].req \in InPair(a)
  BY InPairTasks DEF IInv
<1>2. mixed \subseteq mixed'
  OBVIOUS
<1>3. Records'
  BY <1>1 DEF MapInv, Records
<1>4. Entries'
  BY <1>2 DEF MapInv, Entries
<1>5. Entered'
  BY <1>2 DEF MapInv, Entered
<1>6. Counted'
  BY DEF MapInv, Counted, UserDone
<1>7. Sharing'
  <2>1. ASSUME NEW u \in Thread, writer'[u].at = "map", AdminOf(writer'[u].req) = a
        PROVE  /\ pair'[a].task = r
               /\ u = t \/ (writer[u].at = "map" /\ writer'[u] = writer[u] /\ writer[u].req \in InPair(a))
    BY <1>1, <2>1
  <2>2. ASSUME NEW u \in Thread, writer'[u].at = "map", AdminOf(writer'[u].req) # a
        PROVE  /\ u # t /\ writer[u].at = "map" /\ writer'[u] = writer[u]
               /\ AdminOf(writer[u].req) \in Admin
               /\ pair'[AdminOf(writer[u].req)] = pair[AdminOf(writer[u].req)]
    BY <2>2 DEF AdminOf, Admin
  <2>3. ASSUME NEW u \in Thread, writer'[u].at = "map"
        PROVE  LET x == writer'[u].req
                   q == pair'[AdminOf(x)].task
               IN  IF x \in mixed' THEN q \in mixed' /\ AdminOf(q) = AdminOf(x) ELSE q = x
    <3>1. CASE AdminOf(writer'[u].req) = a
      <4>1. CASE InPair(a) = {}
        BY <2>1, <2>3, <3>1, <4>1
      <4>2. CASE InPair(a) # {}
        BY <2>1, <2>3, <3>1, <4>2
      <4> QED
        BY <4>1, <4>2
    <3>2. CASE AdminOf(writer'[u].req) # a
      <4>1. /\ writer'[u] = writer[u] /\ writer[u].at = "map"
            /\ pair'[AdminOf(writer[u].req)] = pair[AdminOf(writer[u].req)]
        BY <2>2, <2>3, <3>2
      <4>2. writer[u].req \in mixed' => writer[u].req \in mixed
        BY <1>1, <3>2, <4>1
      <4> QED
        BY <1>2, <4>1, <4>2 DEF MapInv, Sharing
    <3> QED
      BY <3>1, <3>2
  <2>4. ASSUME NEW u \in Thread, NEW v \in Thread, writer'[u].at = "map", writer'[v].at = "map",
               AdminOf(writer'[u].req) = AdminOf(writer'[v].req), u # v
        PROVE  writer'[u].req \in mixed'
    <3>1. CASE AdminOf(writer'[u].req) = a
      <4>1. InPair(a) # {}
        BY <2>1, <2>4, <3>1
      <4> QED
        BY <2>1, <2>4, <3>1, <4>1
    <3>2. CASE AdminOf(writer'[u].req) # a
      BY <1>2, <2>2, <2>4, <3>2 DEF MapInv, Sharing
    <3> QED
      BY <3>1, <3>2
  <2> QED
    BY <2>3, <2>4 DEF Sharing
<1> QED
  BY <1>3, <1>4, <1>5, <1>6, <1>7 DEF MapInv

\* The entry that hash_map_insert makes is of its writer's task, or that of a
\* mixed one if the writer was not alone.
LEMMA MapInsertMaps ==
    ASSUME IInv, MapInv, NEW t \in Thread, hash_map_insert(t)
    PROVE  MapInv'
<1> DEFINE r == writer[t].req
           a == AdminOf(r)
           ty == r.type
           m == user[a][ty]
           n == user'[a][ty]
           q == pair[a].task
<1>1. Adding(t) /\ Added(t) /\ UNCHANGED <<pair, todo, refused, mixed, taken, before>>
  BY DEF hash_map_insert, Adding
<1>2. /\ done' = done \cup {r}
      /\ \A u \in Thread : Adding(u)' => Adding(u) /\ u # t /\ writer'[u] = writer[u]
  BY <1>1, AddedWriters DEF IInv
<1>3. /\ r \in Request /\ r \notin done /\ r \notin refused
      /\ slot_type(r) = "USER_DESIGNATE" /\ a \in Admin /\ ty \in ListType
      /\ pair[a] \in Pair /\ writer[t].at = "map"
  <2>1. writer[t].at = "map"
    BY DEF hash_map_insert
  <2>2. r \in Request /\ Supported(r) /\ r \notin done /\ slot_type(r) = "USER_DESIGNATE" /\ pair[a] \in Pair
    BY <1>1, <2>1 DEF IInv, Writers
  <2> QED
    BY <2>1, <2>2, Types DEF IInv, MapInv, Records
<1>4. IF r \in mixed THEN q \in mixed /\ AdminOf(q) = a ELSE q = r
  BY <1>3 DEF MapInv, Sharing
<1>5. /\ n = <<pair[a]>> \o m
      /\ \A b \in Admin, tz \in ListType : b # a \/ tz # ty => user'[b][tz] = user[b][tz]
  <2>1. user' = [user EXCEPT ![a][ty] = <<pair[a]>> \o @]
    BY DEF hash_map_insert
  <2>2. user \in [Admin -> [ListType -> Seq(Pair)]]
    BY DEF IInv, TypeOK
  <2> HIDE DEF r
  <2> QED
    BY <1>3, <2>1, <2>2
<1>6. m \in Seq(Pair) /\ Len(m) \in Nat /\ DOMAIN m = 1 .. Len(m)
  BY <1>3, Types DEF IInv
<1>7. /\ Len(n) = Len(m) + 1 /\ DOMAIN n = 1 .. Len(m) + 1
      /\ \A j \in 1 .. Len(m) + 1 : n[j] = IF j = 1 THEN pair[a] ELSE m[j - 1]
  <2> HIDE DEF r, m, n, a
  <2> QED
    BY <1>3, <1>5, <1>6
<1>8. /\ \A j \in 1 .. Len(m) :
           /\ AdminOf(m[j].task) = a
           /\ m[j].task \notin mixed => MapTask(a, ty, m[j].task) /\ m[j].task \in done \ refused
      /\ \A j, k \in 1 .. Len(m) : m[j].task = m[k].task /\ m[j].task \notin mixed => j = k
  BY <1>3, <1>6 DEF MapInv, Entries
<1> HIDE DEF r, a, ty, m, n, q
<1>9. Records'
  <2>1. IsFiniteSet(done \cup {r})
    BY FS_AddElement DEF MapInv, Records
  <2> QED
    BY <1>1, <1>2, <2>1 DEF MapInv, Records
<1>10. \A j \in DOMAIN n : \/ j = 1 /\ n[j].task = q
                           \/ j # 1 /\ j - 1 \in 1 .. Len(m) /\ n[j] = m[j - 1]
  BY <1>6, <1>7 DEF q
<1>11. Entries'
  <2>1. ASSUME NEW b \in Admin, NEW tz \in ListType
        PROVE  /\ \A i \in DOMAIN user'[b][tz] :
                    /\ AdminOf(user'[b][tz][i].task) = b
                    /\ user'[b][tz][i].task \notin mixed =>
                         /\ MapTask(b, tz, user'[b][tz][i].task)
                         /\ user'[b][tz][i].task \in done' \ refused
               /\ \A i, j \in DOMAIN user'[b][tz] :
                    user'[b][tz][i].task = user'[b][tz][j].task /\ user'[b][tz][i].task \notin mixed
                      => i = j
    <3>1. CASE b # a \/ tz # ty
      <4>1. user'[b][tz] = user[b][tz]
        BY <1>5, <3>1
      <4> QED
        BY <1>2, <4>1 DEF MapInv, Entries
    <3>2. CASE b = a /\ tz = ty
      <4>1. user'[b][tz] = n
        BY <3>2 DEF n
      <4>2. ASSUME NEW j \in DOMAIN n
            PROVE  /\ AdminOf(n[j].task) = a
                   /\ n[j].task \notin mixed => MapTask(a, ty, n[j].task) /\ n[j].task \in done' \ refused
        <5>1. CASE j = 1 /\ n[j].task = q
          BY <1>2, <1>3, <1>4, <5>1 DEF MapTask, a, ty
        <5>2. CASE j - 1 \in 1 .. Len(m) /\ n[j] = m[j - 1]
          BY <1>2, <1>8, <5>2
        <5> QED
          BY <1>10, <5>1, <5>2
      <4>3. ASSUME NEW j \in DOMAIN n, NEW k \in DOMAIN n, n[j].task = n[k].task, n[j].task \notin mixed
            PROVE  j = k
        <5>1. \A i \in 1 .. Len(m) : m[i].task \notin mixed => m[i].task # q
          BY <1>3, <1>4, <1>8
        <5>2. CASE j = 1 /\ n[j].task = q
          BY <1>10, <4>3, <5>1, <5>2
        <5>3. CASE j # 1 /\ j - 1 \in 1 .. Len(m) /\ n[j] = m[j - 1]
          <6>1. k # 1 /\ k - 1 \in 1 .. Len(m) /\ n[k] = m[k - 1]
            BY <1>10, <4>3, <5>1, <5>3
          <6>2. j - 1 = k - 1
            BY <1>8, <4>3, <5>3, <6>1
          <6> QED
            BY <1>6, <1>7, <6>2
        <5> QED
          BY <1>10, <5>2, <5>3
      <4> QED
        BY <3>2, <4>1, <4>2, <4>3
    <3> QED
      BY <3>1, <3>2
  <2> QED
    BY <1>1, <2>1 DEF Entries
<1>12. Entered'
  <2>1. ASSUME NEW x \in done', x \notin refused, x \notin mixed, slot_type(x) = "USER_DESIGNATE"
        PROVE  \E i \in DOMAIN user'[AdminOf(x)][x.type] : user'[AdminOf(x)][x.type][i].task = x
    <3>1. CASE x = r
      <4>1. 1 \in DOMAIN n /\ n[1].task = r
        BY <1>4, <1>6, <1>7, <2>1, <3>1 DEF q
      <4> QED
        BY <3>1, <4>1 DEF n, a, ty
    <3>2. CASE x \in done
      <4>1. PICK i \in DOMAIN user[AdminOf(x)][x.type] : user[AdminOf(x)][x.type][i].task = x
        BY <2>1, <3>2 DEF MapInv, Entered
      <4>2. AdminOf(x) \in Admin /\ x.type \in ListType
        BY <3>2, Types DEF IInv, Placed
      <4>3. CASE AdminOf(x) # a \/ x.type # ty
        BY <1>5, <4>1, <4>2, <4>3
      <4>4. CASE AdminOf(x) = a /\ x.type = ty
        <5>1. i \in 1 .. Len(m) /\ m[i].task = x
          BY <1>6, <4>1, <4>4 DEF m
        <5>2. i + 1 \in DOMAIN n /\ n[i + 1] = m[i]
          BY <1>6, <1>7, <5>1
        <5>3. user'[AdminOf(x)][x.type] = n
          BY <4>4 DEF n
        <5> QED
          BY <5>1, <5>2, <5>3
      <4> QED
        BY <4>3, <4>4
    <3> QED
      BY <1>2, <3>1, <3>2
  <2> QED
    BY <1>1, <2>1 DEF Entered
<1>13. Counted'
  <2>1. ASSUME NEW b \in Admin, NEW tz \in ListType
        PROVE  Len(user'[b][tz]) = Cardinality(UserDone(b, tz)' \ refused)
    <3>0. Len(user[b][tz]) = Cardinality(UserDone(b, tz) \ refused)
      BY DEF MapInv, Counted
    <3>1. CASE b # a \/ tz # ty
      <4>1. UserDone(b, tz)' = UserDone(b, tz)
        BY <1>2, <3>1 DEF UserDone, a, ty
      <4>2. user'[b][tz] = user[b][tz]
        BY <1>5, <3>1
      <4> QED
        BY <3>0, <4>1, <4>2
    <3>2. CASE b = a /\ tz = ty
      <4> DEFINE S == UserDone(b, tz) \ refused
      <4>1. UserDone(b, tz)' = UserDone(b, tz) \cup {r}
        BY <1>2, <1>3, <3>2 DEF UserDone, a, ty
      <4>2. UserDone(b, tz)' \ refused = S \cup {r} /\ r \notin S
        BY <1>3, <4>1 DEF UserDone
      <4>3. IsFiniteSet(S)
        <5>1. S \subseteq done
          BY DEF UserDone
        <5> QED
          BY <5>1, FS_Subset DEF MapInv, Records
      <4> HIDE DEF S
      <4>4. Cardinality(S \cup {r}) = Cardinality(S) + 1
        BY <4>2, <4>3, FS_AddElement
      <4>5. Len(user'[b][tz]) = Len(user[b][tz]) + 1
        BY <1>7, <3>2 DEF m, n
      <4>6. Len(user[b][tz]) = Cardinality(S)
        BY <3>0 DEF S
      <4> QED
        BY <4>2, <4>4, <4>5, <4>6
    <3> QED
      BY <3>1, <3>2
  <2> QED
    BY <1>1, <2>1 DEF Counted
<1>14. Sharing'
  BY <1>1, <1>2 DEF MapInv, Sharing, Adding
<1> QED
  BY <1>9, <1>11, <1>12, <1>13, <1>14 DEF MapInv

\* A task that is refused leaves the map as it is, and so does one for a list.
LEMMA AddedElsewhere ==
    ASSUME IInv, MapInv, NEW t \in Thread, Adding(t), Added(t),
           UNCHANGED <<user, pair, todo, mixed, taken, before>>,
           \/ writer[t].at = "map" /\ refused' = refused \cup {writer[t].req}
           \/ writer[t].at = "list" /\ refused' = refused
    PROVE  MapInv'
<1> DEFINE r == writer[t].req
<1>1. /\ done' = done \cup {r}
      /\ \A u \in Thread : Adding(u)' => Adding(u) /\ u # t /\ writer'[u] = writer[u]
  BY AddedWriters DEF IInv
<1>2. r \notin done /\ \/ slot_type(r) = "USER_DESIGNATE" /\ refused' = refused \cup {r}
                       \/ slot_type(r) = "SYS_DESIGNATE" /\ refused' = refused
  BY DEF IInv, Writers
<1>3. r \notin refused
  BY <1>2 DEF MapInv, Records
<1> HIDE DEF r
<1>4. Records'
  <2>1. IsFiniteSet(done \cup {r})
    BY FS_AddElement DEF MapInv, Records
  <2> QED
    BY <1>1, <1>2, <2>1 DEF MapInv, Records
<1>5. Entries'
  <2>1. \A x \in done \ refused : x \in done' \ refused'
    BY <1>1, <1>2
  <2> QED
    BY <2>1 DEF MapInv, Entries
<1>6. Entered'
  <2>1. \A x \in done' \ (refused' \cup mixed') : slot_type(x) = "USER_DESIGNATE" =>
          x \in done \ (refused \cup mixed)
    BY <1>1, <1>2
  <2> QED
    BY <2>1 DEF MapInv, Entered
<1>7. Counted'
  <2>1. ASSUME NEW b \in Admin, NEW tz \in ListType
        PROVE  UserDone(b, tz)' \ refused' = UserDone(b, tz) \ refused
    BY <1>1, <1>2, <1>3 DEF UserDone
  <2> QED
    BY <2>1 DEF MapInv, Counted
<1>8. Sharing'
  BY <1>1 DEF MapInv, Sharing, Adding
<1> QED
  BY <1>4, <1>5, <1>6, <1>7, <1>8 DEF MapInv

\* What get_task takes is from a list.
LEMMA GetSysMaps ==
    ASSUME IInv, MapInv, NEW a \in Admin, NEW slot_num, GetSys(a, slot_num)
    PROVE  MapInv'
<1> DEFINE s == sys[a]["DATA"]
<1>1. /\ s # <<>> /\ taken' = taken \cup {Head(s)} /\ "DATA" \in ListType
      /\ UNCHANGED <<user, pair, writer, done, refused, mixed>>
  BY DEF GetSys, ListType
<1>2. s \in Seq(Request) /\ DOMAIN s = 1 .. Len(s)
  BY <1>1, Types DEF IInv
<1>3. Head(s) = s[1] /\ 1 \in 1 .. Len(s)
  BY <1>1, <1>2
<1>4. slot_type(Head(s)) = "SYS_DESIGNATE"
  BY <1>1, <1>2, <1>3 DEF IInv, Contents, ListTask
<1> HIDE DEF s
<1>5. Records'
  BY <1>1, <1>4 DEF MapInv, Records
<1>6. Entries' /\ Entered' /\ Counted' /\ Sharing'
  BY <1>1 DEF MapInv, Entries, Entered, Counted, UserDone, Sharing
<1> QED
  BY <1>5, <1>6 DEF MapInv

\* The maps and the records of an admin go together.
LEMMA DestroyMaps ==
    ASSUME IInv, MapInv, NEW a \in Admin, destroy_task_admin(a)
    PROVE  MapInv'
<1>1. /\ UNCHANGED writer
      /\ done' = {r \in done : AdminOf(r) # a} /\ taken' = {r \in taken : AdminOf(r) # a}
      /\ refused' = {r \in refused : AdminOf(r) # a} /\ mixed' = {r \in mixed : AdminOf(r) # a}
      /\ \A t \in Thread : writer[t].at = "map" => AdminOf(writer[t].req) # a
  BY DEF destroy_task_admin, InAdmin
<1>2. /\ \A ty \in ListType : user'[a][ty] = <<>>
      /\ \A b \in Admin : b # a => user'[b] = user[b] /\ pair'[b] = pair[b]
  <2>1. /\ user' = [user EXCEPT ![a] = [ty \in ListType |-> <<>>]]
        /\ pair' = [pair EXCEPT ![a] = NoPair]
    BY DEF destroy_task_admin
  <2>2. /\ user \in [Admin -> [ListType -> Seq(Pair)]]
        /\ pair \in [Admin -> Pair \cup {NoPair}]
    BY DEF IInv, TypeOK
  <2> QED
    BY <2>1, <2>2
<1>3. Records'
  <2>1. IsFiniteSet(done')
    BY <1>1, FS_Subset DEF MapInv, Records
  <2> QED
    BY <1>1, <2>1 DEF MapInv, Records
<1>4. Entries'
  <2>1. ASSUME NEW b \in Admin, NEW tz \in ListType, b # a
        PROVE  /\ \A i \in DOMAIN user[b][tz] :
                    /\ AdminOf(user[b][tz][i].task) = b
                    /\ user[b][tz][i].task \notin mixed' =>
                         /\ MapTask(b, tz, user[b][tz][i].task)
                         /\ user[b][tz][i].task \in done' \ refused'
               /\ \A i, j \in DOMAIN user[b][tz] :
                    user[b][tz][i].task = user[b][tz][j].task /\ user[b][tz][i].task \notin mixed'
                      => i = j
    <3>1. \A x : AdminOf(x) = b => /\ x \in mixed' <=> x \in mixed
                                   /\ x \in done' \ refused' <=> x \in done \ refused
      BY <1>1, <2>1
    <3> QED
      BY <3>1 DEF MapInv, Entries
  <2>2. \A ty \in ListType : DOMAIN user'[a][ty] = {}
    BY <1>2
  <2> QED
    BY <1>2, <2>1, <2>2 DEF Entries
<1>5. Entered'
  <2>1. ASSUME NEW x \in done' \ (refused' \cup mixed')
        PROVE  /\ x \in done \ (refused \cup mixed) /\ user'[AdminOf(x)] = user[AdminOf(x)]
    <3>1. AdminOf(x) \in Admin /\ AdminOf(x) # a
      BY <1>1 DEF AdminOf, Admin
    <3> QED
      BY <1>1, <1>2, <3>1
  <2> QED
    BY <2>1 DEF MapInv, Entered
<1>6. Counted'
  <2>1. ASSUME NEW b \in Admin, NEW tz \in ListType
        PROVE  Len(user'[b][tz]) = Cardinality(UserDone(b, tz)' \ refused')
    <3>1. CASE b = a
      <4>1. UserDone(b, tz)' = {}
        BY <1>1, <3>1 DEF UserDone
      <4>2. user'[b][tz] = <<>> /\ UserDone(b, tz)' \ refused' = {}
        BY <1>2, <3>1, <4>1
      <4>3. Len(user'[b][tz]) = 0
        BY <4>2
      <4>4. Cardinality({}) = 0
        BY FS_EmptySet
      <4> QED
        BY Zenon, <4>2, <4>3, <4>4
    <3>2. CASE b # a
      <4>1. UserDone(b, tz)' \ refused' = UserDone(b, tz) \ refused
        BY <1>1, <3>2 DEF UserDone
      <4> QED
        BY <1>2, <3>2, <4>1 DEF MapInv, Counted
    <3> QED
      BY <3>1, <3>2
  <2> QED
    BY <2>1 DEF Counted
<1>7. Sharing'
  <2>1. ASSUME NEW t \in Thread, writer[t].at = "map"
        PROVE  LET r == writer[t].req
                   q == pair'[AdminOf(r)].task
               IN  IF r \in mixed' THEN q \in mixed' /\ AdminOf(q) = AdminOf(r) ELSE q = r
    <3> DEFINE r == writer[t].req
    <3>1. AdminOf(r) # a /\ AdminOf(r) \in Admin
      BY <1>1, <2>1 DEF AdminOf, Admin
    <3>2. LET q == pair[AdminOf(r)].task
          IN  IF r \in mixed THEN q \in mixed /\ AdminOf(q) = AdminOf(r) ELSE q = r
      BY <2>1 DEF MapInv, Sharing
    <3> HIDE DEF r
    <3>3. pair'[AdminOf(r)] = pair[AdminOf(r)]
      BY <1>2, <3>1
    <3>4. r \in mixed' <=> r \in mixed
      BY <1>1, <3>1
    <3>5. IF r \in mixed' THEN /\ pair'[AdminOf(r)].task \in mixed'
                               /\ AdminOf(pair'[AdminOf(r)].task) = AdminOf(r)
          ELSE pair'[AdminOf(r)].task = r
      BY <1>1, <3>1, <3>2, <3>3, <3>4
    <3> QED
      BY <3>5 DEF r
  <2>2. ASSUME NEW t \in Thread, NEW u \in Thread, writer[t].at = "map", writer[u].at = "map",
               AdminOf(writer[t].req) = AdminOf(writer[u].req), t # u
        PROVE  writer[t].req \in mixed'
    <3>1. writer[t].req \in mixed
      BY <2>2 DEF MapInv, Sharing
    <3> QED
      BY <1>1, <2>2, <3>1
  <2> QED
    BY <1>1, <2>1, <2>2 DEF Sharing
<1> QED
  BY <1>3, <1>4, <1>5, <1>6, <1>7 DEF MapInv

LEMMA MapsNext ==
    ASSUME IInv, MapInv, Next
    PROVE  MapInv'
<1>0. TypeOK
  BY DEF IInv
<1>1. ASSUME NEW a \in Admin, create_task_admin(a) \/ CreateFails(a) \/ destroy_task_admin(a)
      PROVE  MapInv'
  <2>1. CASE create_task_admin(a) \/ CreateFails(a)
    BY <2>1, QuietMaps DEF create_task_admin, CreateFails, containers, history
  <2> QED
    BY <1>1, <2>1, DestroyMaps
<1>2. ASSUME NEW a \in Admin, get_task(a)
      PROVE  MapInv'
  <2>1. PICK r \in Request : \/ GetUser(a, r.slot_num) \/ GetSys(a, r.slot_num) \/ GetEmpty(a, r.slot_num)
    BY <1>2 DEF get_task
  <2>2. CASE GetUser(a, r.slot_num) \/ GetEmpty(a, r.slot_num)
    BY <2>2, QuietMaps DEF GetUser, GetEmpty, vars, containers, history
  <2> QED
    BY <2>1, <2>2, GetSysMaps
<1>3. ASSUME NEW t \in Thread, add_task(t)
      PROVE  MapInv'
  <2>1. PICK r \in Request : \/ AddUnsupported(t, r) \/ AddToNull(t, r)
                             \/ llist_push_back(t, r) \/ make_pair(t, r)
    BY <1>3 DEF add_task
  <2>2. ASSUME NEW where, NEW p, Goto(t, where, r, p)
        PROVE  /\ writer'[t] = [at |-> where, req |-> r, pos |-> p]
               /\ \A u \in Thread \ {t} : writer'[u] = writer[u]
    BY <1>0, <2>2 DEF Goto, TypeOK
  <2>3. ASSUME NEW where, where # "map", Goto(t, where, r, HEAD) \/ Goto(t, where, r, end[AdminOf(r)][r.type]),
               UNCHANGED <<user, pair, done, refused, mixed, taken>>
        PROVE  MapInv'
    <3>1. CASE Goto(t, where, r, HEAD)
      <4>1. writer'[t] = [at |-> where, req |-> r, pos |-> HEAD]
            /\ \A u \in Thread \ {t} : writer'[u] = writer[u]
        BY Zenon, <2>2, <3>1
      <4> QED
        BY <2>3, <4>1, QuietMaps
    <3>2. CASE Goto(t, where, r, end[AdminOf(r)][r.type])
      <4>1. writer'[t] = [at |-> where, req |-> r, pos |-> end[AdminOf(r)][r.type]]
            /\ \A u \in Thread \ {t} : writer'[u] = writer[u]
        BY Zenon, <2>2, <3>2
      <4> QED
        BY <2>3, <4>1, QuietMaps
    <3> QED
      BY <2>3, <3>1, <3>2
  <2>4. CASE AddUnsupported(t, r)
    BY <2>4, QuietMaps DEF AddUnsupported, containers
  <2>5. CASE AddToNull(t, r)
    BY <2>3, <2>5 DEF AddToNull, containers
  <2>6. CASE llist_push_back(t, r)
    BY <2>3, <2>6 DEF llist_push_back, containers
  <2>7. CASE make_pair(t, r)
    <3>1. /\ slot_type(r) = "USER_DESIGNATE" /\ writer[t].at = "idle"
          /\ UNCHANGED <<user, done, refused, taken>>
      BY <2>7 DEF make_pair, Begin, containers
    <3>2. CASE Goto(t, "fault", r, HEAD) /\ UNCHANGED <<pair, mixed>>
      BY <2>3, <3>1, <3>2
    <3>3. ASSUME NEW k \in Byte2, pair' = [pair EXCEPT ![AdminOf(r)] = [key |-> k, task |-> r]],
                 Goto(t, "map", r, HEAD),
                 mixed' = IF InPair(AdminOf(r)) = {} THEN mixed
                          ELSE mixed \cup InPair(AdminOf(r)) \cup {r}
          PROVE  MapInv'
      <4>0. /\ writer'[t] = [at |-> "map", req |-> r, pos |-> HEAD]
            /\ \A u \in Thread \ {t} : writer'[u] = writer[u]
        BY Zenon, <2>2, <3>3
      <4>1. /\ writer'[t].at = "map" /\ writer'[t].req = r
            /\ \A u \in Thread \ {t} : writer'[u] = writer[u]
        BY <4>0
      <4>2. AdminOf(r) \in Admin /\ pair \in [Admin -> Pair \cup {NoPair}]
        BY <1>0, Types DEF TypeOK
      <4>3. /\ pair'[AdminOf(r)].task = r
            /\ \A b \in Admin : b # AdminOf(r) => pair'[b] = pair[b]
        BY <3>3, <4>2
      <4> QED
        BY <3>1, <3>3, <4>1, <4>3, MakePairMaps
    <3> QED
      BY <2>7, <3>2, <3>3 DEF make_pair
  <2> QED
    BY <2>1, <2>4, <2>5, <2>6, <2>7
<1>4. ASSUME NEW t \in Thread, FinishAdd(t)
      PROVE  MapInv'
  <2>1. CASE llist_insert(t)
    <3>1. /\ writer[t].at = "list" /\ Adding(t) /\ Added(t)
          /\ UNCHANGED <<user, pair, todo, refused, mixed, taken, before>>
      BY <2>1 DEF llist_insert, Adding
    <3> QED
      BY <3>1, AddedElsewhere
  <2>2. CASE hash_map_insert(t)
    BY <2>2, MapInsertMaps
  <2>3. CASE InsertRefused(t)
    <3>1. /\ writer[t].at = "map" /\ Adding(t) /\ Added(t) /\ refused' = refused \cup {writer[t].req}
          /\ UNCHANGED <<user, pair, todo, mixed, taken, before>>
      BY <2>3 DEF InsertRefused, Adding, containers
    <3> QED
      BY <3>1, AddedElsewhere
  <2>4. CASE InsertDies(t)
    <3>1. /\ UNCHANGED <<user, pair, done, refused, mixed, taken>>
          /\ \E where \in {"nomem", "poison"} : \E q, p : Goto(t, where, q, p)
      BY <2>4 DEF InsertDies, containers, history
    <3>2. \A u \in Thread : writer'[u].at = "map" => writer[u].at = "map" /\ writer'[u] = writer[u]
      BY <1>0, <3>1 DEF Goto, TypeOK
    <3> QED
      BY <3>1, <3>2, QuietMaps
  <2> QED
    BY <1>4, <2>1, <2>2, <2>3, <2>4 DEF FinishAdd
<1> QED
  BY <1>1, <1>2, <1>3, <1>4 DEF Next

LEMMA MapsInductive == Spec => []MapInv
<1>1. Init => MapInv
  <2> SUFFICES ASSUME Init PROVE MapInv
    OBVIOUS
  <2>1. /\ done = {} /\ refused = {} /\ mixed = {} /\ taken = {}
        /\ \A t \in Thread : writer[t].at # "map"
        /\ \A a \in Admin, ty \in ListType : user[a][ty] = <<>> /\ DOMAIN user[a][ty] = {}
    BY DEF Init, Idle
  <2>2. Records
    BY <2>1, FS_EmptySet DEF Records
  <2>3. Counted
    <3>1. ASSUME NEW a \in Admin, NEW ty \in ListType
          PROVE  Len(user[a][ty]) = 0 /\ UserDone(a, ty) \ refused = {}
      BY <2>1 DEF UserDone
    <3> QED
      BY <3>1, FS_EmptySet DEF Counted
  <2>4. Entries /\ Entered /\ Sharing
    BY <2>1 DEF Entries, Entered, Sharing
  <2> QED
    BY <2>2, <2>3, <2>4 DEF MapInv
<1>2. IInv /\ MapInv /\ [Next]_vars => MapInv'
  <2>1. ASSUME MapInv, UNCHANGED vars PROVE MapInv'
    BY <2>1, QuietMaps DEF vars, containers, history
  <2> QED
    BY <2>1, MapsNext
<1> QED
  BY <1>1, <1>2, Inductive, PTL DEF Spec

(***************************************************************************)
(* The theorems                                                            *)
(***************************************************************************)

\* What the variables of task_admin.c hold has its type.
THEOREM TypeCorrect == Spec => []TypeOK
<1>1. IInv => TypeOK
  BY DEF IInv
<1> QED
  BY <1>1, Inductive, PTL

\* The lists of the system's slots are queues: whatever add_task and get_task
\* do between the two steps of another add_task, a task that was done before
\* it began is taken first -- also when several processes write to the maps.
THEOREM QueuesKeepOrder == Spec => []RealTimeOrder
<1>1. IInv => RealTimeOrder
  BY DEF IInv
<1> QED
  BY <1>1, Inductive, PTL

\* The places of a container, without their set.
LEMMA PlacesAre ==
    ASSUME NEW c, NEW x
    PROVE  x \in Places(c) <=> \E a \in Admin, ty \in ListType : \E i \in DOMAIN c[a][ty] :
                                 x = <<a, ty, i>>
<1> DEFINE At(a, ty) == {<<a, ty, i>> : i \in DOMAIN c[a][ty]}
           All == {At(a, ty) : a \in Admin, ty \in ListType}
<1>1. Places(c) = UNION All
  BY DEF Places
<1>2. \A a, ty : x \in At(a, ty) <=> \E i \in DOMAIN c[a][ty] : x = <<a, ty, i>>
  OBVIOUS
<1>3. \A S : S \in All <=> \E a \in Admin, ty \in ListType : S = At(a, ty)
  OBVIOUS
<1> HIDE DEF At, All
<1>4. x \in Places(c) <=> \E S \in All : x \in S
  BY <1>1
<1>5. ASSUME x \in Places(c)
      PROVE  \E a \in Admin, ty \in ListType : x \in At(a, ty)
  BY <1>3, <1>4, <1>5
<1>6. ASSUME NEW a \in Admin, NEW ty \in ListType, x \in At(a, ty)
      PROVE  x \in Places(c)
  BY <1>3, <1>4, <1>6
<1> QED
  BY <1>2, <1>5, <1>6

\* What add_task has returned for is in its list or map, once and nowhere
\* else, until get_task takes it, whatever writers overlap: only tasks that a
\* map had no memory for are missing, and only tasks whose writers shared the
\* scratch pair can stand for one another, in a map that has one entry for each.
THEOREM OnlyOverlapMixesTasks == Spec => []TasksKept
<1>1. ASSUME IInv, MapInv, NEW r \in done, r \notin mixed
      PROVE  IF r \in taken \cup refused THEN Copies(r) = 0 ELSE Copies(r) = 1 /\ InPlace(r)
  <2> DEFINE L == {x \in Places(sys) : sys[x[1]][x[2]][x[3]] = r}
             M == {x \in Places(user) : user[x[1]][x[2]][x[3]].task = r}
  <2>1. Copies(r) = Cardinality(L) + Cardinality(M)
    BY DEF Copies
  <2>2. ASSUME NEW x \in L
        PROVE  \E i \in DOMAIN sys[AdminOf(r)][r.type] :
                 x = <<AdminOf(r), r.type, i>> /\ sys[AdminOf(r)][r.type][i] = r
    <3>1. PICK a \in Admin, ty \in ListType : \E i \in DOMAIN sys[a][ty] : x = <<a, ty, i>>
      BY PlacesAre
    <3>2. PICK i \in DOMAIN sys[a][ty] : x = <<a, ty, i>>
      BY <3>1
    <3>3. sys[a][ty][i] = r
      BY <3>2
    <3>4. ListTask(a, ty, r)
      BY <1>1, <3>3 DEF IInv, Contents
    <3> QED
      BY <3>2, <3>3, <3>4 DEF ListTask
  <2>3. ASSUME NEW x \in M
        PROVE  \E i \in DOMAIN user[AdminOf(r)][r.type] :
                 x = <<AdminOf(r), r.type, i>> /\ user[AdminOf(r)][r.type][i].task = r
    <3>1. PICK a \in Admin, ty \in ListType : \E i \in DOMAIN user[a][ty] : x = <<a, ty, i>>
      BY PlacesAre
    <3>2. PICK i \in DOMAIN user[a][ty] : x = <<a, ty, i>>
      BY <3>1
    <3>3. user[a][ty][i].task = r
      BY <3>2
    <3>4. MapTask(a, ty, r)
      BY <1>1, <3>3 DEF MapInv, Entries
    <3> QED
      BY <3>2, <3>3, <3>4 DEF MapTask
  <2>4. /\ Supported(r) /\ AdminOf(r) \in Admin /\ r.type \in ListType
        /\ slot_type(r) \in {"SYS_DESIGNATE", "USER_DESIGNATE"}
        /\ r \in taken => slot_type(r) = "SYS_DESIGNATE"
        /\ r \in refused => slot_type(r) = "USER_DESIGNATE"
        /\ slot_type(r) = "SYS_DESIGNATE" /\ r \notin taken => InPlace(r)
    BY <1>1, Types DEF IInv, Placed, Kept, MapInv, Records
  <2> DEFINE a == AdminOf(r)
             ty == r.type
  <2>5. /\ \A i \in DOMAIN sys[a][ty] : /\ slot_type(sys[a][ty][i]) = "SYS_DESIGNATE"
                                        /\ sys[a][ty][i] \notin taken
        /\ \A i, j \in DOMAIN sys[a][ty] : sys[a][ty][i] = sys[a][ty][j] => i = j
        /\ \A i \in DOMAIN user[a][ty] :
             user[a][ty][i].task = r => slot_type(r) = "USER_DESIGNATE" /\ r \notin refused
        /\ \A i, j \in DOMAIN user[a][ty] :
             user[a][ty][i].task = r /\ user[a][ty][j].task = r => i = j
    BY <1>1, <2>4 DEF IInv, Contents, ListTask, MapInv, Entries, MapTask
  <2>6. ASSUME NEW i \in DOMAIN sys[a][ty], sys[a][ty][i] = r
        PROVE  <<a, ty, i>> \in L
    BY <2>4, <2>6, PlacesAre
  <2>7. ASSUME NEW i \in DOMAIN user[a][ty], user[a][ty][i].task = r
        PROVE  <<a, ty, i>> \in M
    BY <2>4, <2>7, PlacesAre
  <2> HIDE DEF L, M
  <2>8. CASE r \in taken \cup refused
    <3>1. L = {} /\ M = {}
      BY <2>2, <2>3, <2>4, <2>5, <2>8
    <3> QED
      BY <2>1, <2>8, <3>1, FS_EmptySet
  <2>9. CASE r \notin taken \cup refused /\ slot_type(r) = "SYS_DESIGNATE"
    <3>1. PICK i \in DOMAIN sys[a][ty] : sys[a][ty][i] = r
      BY <2>4, <2>9 DEF InPlace, ToSet
    <3>2. L = {<<a, ty, i>>}
      BY <2>2, <2>5, <2>6, <3>1
    <3>3. M = {}
      BY <2>3, <2>5, <2>9
    <3>4. Cardinality(L) = 1 /\ Cardinality(M) = 0
      BY <3>2, <3>3, FS_EmptySet, FS_Singleton
    <3> QED
      BY <2>1, <2>4, <2>9, <3>4
  <2>10. CASE r \notin taken \cup refused /\ slot_type(r) = "USER_DESIGNATE"
    <3>1. PICK i \in DOMAIN user[a][ty] : user[a][ty][i].task = r
      BY <1>1, <2>4, <2>10 DEF MapInv, Entered
    <3>2. M = {<<a, ty, i>>}
      BY <2>3, <2>5, <2>7, <3>1
    <3>3. L = {}
      BY <2>2, <2>5, <2>10
    <3>4. Cardinality(M) = 1 /\ Cardinality(L) = 0
      BY <3>2, <3>3, FS_EmptySet, FS_Singleton
    <3>5. InPlace(r)
      BY <2>10, <3>1 DEF InPlace, ToSet
    <3> QED
      BY <2>1, <2>10, <3>4, <3>5
  <2> QED
    BY <2>4, <2>8, <2>9, <2>10
<1>2. IInv /\ MapInv => TasksKept
  BY <1>1 DEF TasksKept, MapInv, Counted
<1> QED
  BY <1>2, Inductive, MapsInductive, PTL

(***************************************************************************)
(* Business: the parts of a message                                        *)
(***************************************************************************)

AnalyzersOf(cmd) == CASE cmd = "3008" -> {"3008"} [] cmd = "3010" -> {"3054"}
                      [] cmd = "301b" -> {"3050", "3052"} [] OTHER -> {}

\* What a message has.
Cmd(m) == m.cmd
Size(m) == m.size
Datum(m, k) == m.data[k]
Parts(m) == Len(m.parts)
PartAt(m, p) == m.parts[p].at
PartLen(m, p) == m.parts[p].len
PartEmb(m, p) == m.parts[p].emb

\* The analyzer for part p.
AnalyzerOf(m, p) == CASE Cmd(m) = "3008" -> "3008" [] Cmd(m) = "3010" -> "3054"
                      [] OTHER -> IF PartEmb(m, p) = 0 THEN "3050" ELSE "3052"

\* What the call has done so far: os is at the next part, and the parts before it
\* have been handled.
InCall ==
    /\ message \in Messages
    /\ count = Parts(message) /\ nth \in 0 .. count
    /\ nth < count => os = PartAt(message, nth + 1)
    /\ handled = [p \in 1 .. nth |-> ForAnalyzer(message, p)]
    /\ far \in Int /\ far < Size(message)
    /\ pdata \in [AnalyzersOf(Cmd(message)) -> [0 .. 99 -> 0 .. 255]]

NoCall == /\ message = NoMessage
          /\ os = 0 /\ nth = 0 /\ count = 0 /\ pdata = <<>> /\ handled = <<>> /\ far = -1

CallInv == InCall \/ NoCall

LEMMA NoMessageFacts == NoMessage \notin Messages
<1> SUFFICES ASSUME NoMessage \in Messages PROVE FALSE
  OBVIOUS
<1>1. NoMessage.cmd \in Commands
  BY Zenon, MessagesAssumption DEF WellFormed
<1>2. NoMessage.cmd = "none"
  BY DEF NoMessage
<1> QED
  BY <1>1, <1>2 DEF Commands

LEMMA MessageForm ==
    ASSUME NEW m \in Messages
    PROVE  /\ Cmd(m) \in Commands /\ Size(m) \in 2 .. 1024
           /\ m.data \in [0 .. Size(m) - 1 -> 0 .. 255]
           /\ m.parts \in Seq([at : Nat, len : 1 .. 100, emb : 0 .. 255])
           /\ Cmd(m) = "other" => m.parts = <<>>
           /\ Cmd(m) = "3008" => Parts(m) = 1 /\ PartAt(m, 1) = 0 /\ PartLen(m, 1) = Size(m)
           /\ Cmd(m) \in {"3010", "301b"} =>
                /\ Size(m) >= HeadLen(Cmd(m))
                /\ Datum(m, HeadLen(Cmd(m)) - 1) = Parts(m)
                /\ \A p \in DOMAIN m.parts :
                     /\ PartAt(m, p) = IF p = 1 THEN HeadLen(Cmd(m))
                                       ELSE PartAt(m, p - 1) + PartLen(m, p - 1)
                     /\ PartAt(m, p) + PartLen(m, p) <= Size(m) /\ PartLen(m, p) <= 98
                     /\ Cmd(m) = "3010" =>
                          PartLen(m, p) >= 3 /\ Datum(m, PartAt(m, p) + 2) = PartLen(m, p) - 3
                     /\ Cmd(m) = "301b" =>
                          PartLen(m, p) >= 2 /\ Datum(m, PartAt(m, p)) = PartLen(m, p)
                          /\ Datum(m, PartAt(m, p) + 1) = PartEmb(m, p)
<1>1. WellFormed(m)
  BY MessagesAssumption
<1> QED
  BY ZenonT(60), <1>1 DEF WellFormed, Cmd, Size, Datum, Parts, PartAt, PartLen, PartEmb

LEMMA ContainerForm ==
    ASSUME NEW m \in Messages, Cmd(m) \in {"3010", "301b"}
    PROVE  /\ Size(m) >= HeadLen(Cmd(m))
           /\ Datum(m, HeadLen(Cmd(m)) - 1) = Parts(m)
           /\ \A p \in DOMAIN m.parts :
                /\ PartAt(m, p) = IF p = 1 THEN HeadLen(Cmd(m))
                                  ELSE PartAt(m, p - 1) + PartLen(m, p - 1)
                /\ PartAt(m, p) + PartLen(m, p) <= Size(m) /\ PartLen(m, p) <= 98
                /\ Cmd(m) = "3010" =>
                     PartLen(m, p) >= 3 /\ Datum(m, PartAt(m, p) + 2) = PartLen(m, p) - 3
                /\ Cmd(m) = "301b" =>
                     PartLen(m, p) >= 2 /\ Datum(m, PartAt(m, p)) = PartLen(m, p)
                     /\ Datum(m, PartAt(m, p) + 1) = PartEmb(m, p)
BY SMTT(60), MessageForm

LEMMA DatumFacts ==
    ASSUME NEW m \in Messages, NEW k \in 0 .. Size(m) - 1
    PROVE  Datum(m, k) \in 0 .. 255 /\ k \in DOMAIN m.data
<1>1. m.data \in [0 .. Size(m) - 1 -> 0 .. 255]
  BY Zenon, MessageForm
<1> QED
  BY Zenon, <1>1 DEF Datum

PartRecord == [at : Nat, len : 1 .. 100, emb : 0 .. 255]

LEMMA PartForm ==
    ASSUME NEW part \in PartRecord
    PROVE  part.at \in Nat /\ part.len \in 1 .. 100
BY DEF PartRecord

LEMMA Elements ==
    ASSUME NEW S, NEW s \in Seq(S)
    PROVE  /\ Len(s) \in Nat /\ DOMAIN s = 1 .. Len(s)
           /\ \A p \in 1 .. Len(s) : s[p] \in S
OBVIOUS

LEMMA KindFacts ==
    ASSUME NEW m \in Messages
    PROVE  Cmd(m) \in Commands /\ Size(m) \in Nat /\ 2 <= Size(m) /\ Size(m) <= 1024
<1>1. Cmd(m) \in Commands /\ Size(m) \in 2 .. 1024
  <2>1. WellFormed(m)
    BY MessagesAssumption
  <2> QED
    BY ZenonT(60), <2>1 DEF WellFormed, Cmd, Size
<1> QED
  BY <1>1

\* What a well-formed message has.
LEMMA PartsFacts ==
    ASSUME NEW m \in Messages
    PROVE  /\ Cmd(m) \in Commands /\ Size(m) \in Nat /\ 2 <= Size(m) /\ Size(m) <= 1024
           /\ Parts(m) \in Nat /\ DOMAIN m.parts = 1 .. Parts(m) /\ Parts(m) <= 255
           /\ \A p \in 1 .. Parts(m) :
                /\ PartAt(m, p) \in Nat /\ PartLen(m, p) \in Nat
                /\ 1 <= PartLen(m, p) /\ PartLen(m, p) <= 100
                /\ PartAt(m, p) + PartLen(m, p) <= Size(m)
<1>1. /\ Parts(m) \in Nat /\ DOMAIN m.parts = 1 .. Parts(m)
      /\ \A p \in 1 .. Parts(m) : m.parts[p] \in PartRecord
  <2>1. m.parts \in Seq(PartRecord)
    BY Zenon, MessageForm DEF PartRecord
  <2> DEFINE t == m.parts
  <2>3. Parts(m) = Len(t)
    BY DEF Parts
  <2> HIDE DEF t
  <2>4. t \in Seq(PartRecord)
    BY Zenon, <2>1 DEF t
  <2>5. Len(t) \in Nat /\ DOMAIN t = 1 .. Len(t) /\ \A p \in 1 .. Len(t) : t[p] \in PartRecord
    BY <2>4, Elements
  <2>6. Parts(m) \in Nat /\ DOMAIN t = 1 .. Parts(m) /\ \A p \in 1 .. Parts(m) : t[p] \in PartRecord
    BY Zenon, <2>3, <2>5
  <2> QED
    BY Zenon, <2>6 DEF t
<1>2. ASSUME NEW p \in 1 .. Parts(m)
      PROVE  PartAt(m, p) \in Nat /\ PartLen(m, p) \in 1 .. 100
  <2>1. m.parts[p] \in PartRecord
    BY Zenon, <1>1
  <2>2. m.parts[p].at \in Nat /\ m.parts[p].len \in 1 .. 100
    BY Zenon, <2>1, PartForm
  <2> QED
    BY Zenon, <2>2 DEF PartAt, PartLen
<1>3. Cmd(m) \in Commands /\ Size(m) \in Nat /\ 2 <= Size(m) /\ Size(m) <= 1024
  BY KindFacts
<1>4. Parts(m) <= 255
      /\ \A p \in 1 .. Parts(m) : PartAt(m, p) + PartLen(m, p) <= Size(m)
  <2>1. CASE Cmd(m) = "other"
    <3>1. m.parts = <<>>
      BY Zenon, <2>1, MessageForm
    <3>2. Parts(m) = 0
      <4>1. Len(<<>>) = 0
        OBVIOUS
      <4> QED
        BY Zenon, <3>1, <4>1 DEF Parts
    <3> QED
      BY <3>2
  <2>2. CASE Cmd(m) = "3008"
    <3>1. Parts(m) = 1 /\ PartAt(m, 1) = 0 /\ PartLen(m, 1) = Size(m)
      BY Zenon, <2>2, MessageForm
    <3> QED
      BY <1>3, <3>1
  <2>3. CASE Cmd(m) \in {"3010", "301b"}
    <3>1. /\ Size(m) >= HeadLen(Cmd(m))
          /\ Datum(m, HeadLen(Cmd(m)) - 1) = Parts(m)
          /\ \A p \in DOMAIN m.parts : PartAt(m, p) + PartLen(m, p) <= Size(m)
      BY ZenonT(60), <2>3, ContainerForm
    <3>2. HeadLen(Cmd(m)) - 1 \in 0 .. Size(m) - 1
      BY <1>3, <3>1 DEF HeadLen
    <3>3. Parts(m) \in 0 .. 255
      BY Zenon, <3>1, <3>2, DatumFacts
    <3>4. \A p \in 1 .. Parts(m) : PartAt(m, p) + PartLen(m, p) <= Size(m)
      BY Zenon, <1>1, <3>1
    <3> QED
      BY <3>3, <3>4
  <2> QED
    BY <1>3, <2>1, <2>2, <2>3 DEF Commands
<1>5. \A p \in 1 .. Parts(m) :
        PartAt(m, p) \in Nat /\ PartLen(m, p) \in Nat /\ 1 <= PartLen(m, p) /\ PartLen(m, p) <= 100
  BY <1>2
<1>6. Parts(m) \in Nat /\ DOMAIN m.parts = 1 .. Parts(m)
  BY Zenon, <1>1
<1> QED
  BY Zenon, <1>3, <1>4, <1>5, <1>6

\* Positions in an array of 100 bytes, counted from 1 and from 0.
LEMMA FromOne ==
    ASSUME NEW len \in 0 .. 100, NEW k \in 1 .. len
    PROVE  k - 1 \in 0 .. 99 /\ k - 1 < len /\ (k - 1) + 1 = k
OBVIOUS

LEMMA FromZero ==
    ASSUME NEW len \in 0 .. 100, NEW k \in 0 .. 99, k < len
    PROVE  k + 1 \in 1 .. len
OBVIOUS

\* A part lies within its message.
LEMMA PartSize ==
    ASSUME NEW m \in Messages, NEW p \in 1 .. Parts(m)
    PROVE  /\ PartAt(m, p) \in Nat /\ PartLen(m, p) \in Nat /\ Size(m) \in Nat
           /\ PartAt(m, p) + PartLen(m, p) <= Size(m)
<1>1. /\ Size(m) \in Nat
      /\ \A q \in 1 .. Parts(m) : PartAt(m, q) \in Nat /\ PartLen(m, q) \in Nat
                                 /\ PartAt(m, q) + PartLen(m, q) <= Size(m)
  BY PartsFacts
<1> QED
  BY Zenon, <1>1

\* What the parts of a container have.
LEMMA ContainerFacts ==
    ASSUME NEW m \in Messages, Cmd(m) \in {"3010", "301b"}
    PROVE  /\ Size(m) >= HeadLen(Cmd(m))
           /\ Datum(m, HeadLen(Cmd(m)) - 1) = Parts(m)
           /\ Parts(m) > 0 => PartAt(m, 1) = HeadLen(Cmd(m))
           /\ \A p \in 1 .. Parts(m) :
                /\ PartLen(m, p) <= 98
                /\ p < Parts(m) => PartAt(m, p + 1) = PartAt(m, p) + PartLen(m, p)
                /\ Cmd(m) = "3010" => /\ PartLen(m, p) >= 3
                                      /\ Datum(m, PartAt(m, p) + 2) = PartLen(m, p) - 3
                /\ Cmd(m) = "301b" => /\ PartLen(m, p) >= 2
                                      /\ Datum(m, PartAt(m, p)) = PartLen(m, p)
                                      /\ Datum(m, PartAt(m, p) + 1) = PartEmb(m, p)
<1>1. Parts(m) \in Nat /\ DOMAIN m.parts = 1 .. Parts(m)
  BY PartsFacts
<1>2. /\ Size(m) >= HeadLen(Cmd(m))
      /\ Datum(m, HeadLen(Cmd(m)) - 1) = Parts(m)
      /\ \A p \in 1 .. Parts(m) :
              /\ PartAt(m, p) = IF p = 1 THEN HeadLen(Cmd(m))
                                ELSE PartAt(m, p - 1) + PartLen(m, p - 1)
              /\ PartLen(m, p) <= 98
              /\ Cmd(m) = "3010" =>
                   PartLen(m, p) >= 3 /\ Datum(m, PartAt(m, p) + 2) = PartLen(m, p) - 3
              /\ Cmd(m) = "301b" =>
                   PartLen(m, p) >= 2 /\ Datum(m, PartAt(m, p)) = PartLen(m, p)
                   /\ Datum(m, PartAt(m, p) + 1) = PartEmb(m, p)
  BY ZenonT(60), <1>1, ContainerForm
<1>3. ASSUME NEW p \in 1 .. Parts(m), p < Parts(m)
      PROVE  PartAt(m, p + 1) = PartAt(m, p) + PartLen(m, p)
  <2>1. p + 1 \in 1 .. Parts(m) /\ p + 1 # 1 /\ (p + 1) - 1 = p
    BY <1>1, <1>3
  <2> QED
    BY <1>2, <2>1
<1>4. Parts(m) > 0 => PartAt(m, 1) = HeadLen(Cmd(m))
  BY <1>1, <1>2
<1> QED
  BY <1>2, <1>3, <1>4

LEMMA ForAnalyzerForm ==
    ASSUME NEW m \in Messages, NEW p \in 1 .. Parts(m)
    PROVE  ForAnalyzer(m, p) =
             [pa |-> AnalyzerOf(m, p),
              bytes |-> Number(AnalyzerOf(m, p))
                        \o [k \in 1 .. PartLen(m, p) |-> Datum(m, PartAt(m, p) + k - 1)]]
BY Zenon DEF ForAnalyzer, AnalyzerOf, Cmd, PartEmb, PartLen, PartAt, Datum

LEMMA ReadDatum ==
    ASSUME message \in Messages, NEW k \in 0 .. Size(message) - 1
    PROVE  Read(k) = Datum(message, k)
<1>1. k \in DOMAIN message.data
  BY DatumFacts
<1> QED
  BY Zenon, <1>1 DEF Read, Datum

LEMMA NumberFacts ==
    \A a : /\ Number(a) \in Seq(0 .. 255) /\ Len(Number(a)) \in 0 .. 2
           /\ (a = "3008" => Len(Number(a)) = 0)
<1> SUFFICES ASSUME NEW a
             PROVE  /\ Number(a) \in Seq(0 .. 255) /\ Len(Number(a)) \in 0 .. 2
                    /\ (a = "3008" => Len(Number(a)) = 0)
  OBVIOUS
<1>1. a \in {"3050", "3052", "3054"} \/ Number(a) = <<>>
  BY DEF Number
<1>2. CASE a = "3050"
  BY <1>2 DEF Number
<1>3. CASE a = "3052"
  BY <1>3 DEF Number
<1>4. CASE a = "3054"
  BY <1>4 DEF Number
<1>5. CASE Number(a) = <<>>
  BY <1>5
<1>6. a = "3008" => Number(a) = <<>>
  BY DEF Number
<1>7. Number(a) \in Seq(0 .. 255) /\ Len(Number(a)) \in 0 .. 2
  BY <1>1, <1>2, <1>3, <1>4, <1>5
<1> QED
  BY <1>6, <1>7

LEMMA SameSequence ==
    ASSUME NEW S, NEW t \in Seq(S), NEW f, f = [k \in 1 .. Len(t) |-> f[k]],
           \A k \in 1 .. Len(t) : f[k] = t[k]
    PROVE  f = t
OBVIOUS

\* The counters of the loop do not overflow.
LEMMA NextPartFacts ==
    ASSUME nth \in 0 .. 254, NEW n \in Nat, os \in Nat,
           NEW size \in Nat, size <= 1024, os + n <= size, NextPart(n)
    PROVE  nth' = nth + 1 /\ os' = os + n /\ message' = message /\ count' = count
<1>1. nth' = (nth + 1) % 256 /\ os' = (os + n) % 65536 /\ message' = message /\ count' = count
  BY DEF NextPart
<1>2. (nth + 1) % 256 = nth + 1
  OBVIOUS
<1>3. (os + n) % 65536 = os + n
  OBVIOUS
<1> QED
  BY <1>1, <1>2, <1>3

LEMMA ConcatIndex ==
    ASSUME NEW S, NEW s \in Seq(S), NEW t \in Seq(S)
    PROVE  /\ s \o t \in Seq(S) /\ Len(s \o t) = Len(s) + Len(t)
           /\ \A k \in 1 .. Len(s) + Len(t) :
                (s \o t)[k] = IF k <= Len(s) THEN s[k] ELSE t[k - Len(s)]
OBVIOUS

\* What memcpy and the analyzer make of n bytes of the message.
LEMMA ParseFacts ==
    ASSUME message \in Messages, NEW a \in AnalyzersOf(Cmd(message)),
           pdata \in [AnalyzersOf(Cmd(message)) -> [0 .. 99 -> 0 .. 255]],
           NEW from \in Nat, NEW n \in Nat,
           from + n <= Size(message), Len(Number(a)) + n <= 100,
           Parse(a, from, n)
    PROVE  /\ pdata' \in [AnalyzersOf(Cmd(message)) -> [0 .. 99 -> 0 .. 255]]
           /\ handled' = Append(handled,
                [pa |-> a, bytes |-> Number(a) \o [k \in 1 .. n |-> Datum(message, from + k - 1)]])
<1> DEFINE As == AnalyzersOf(Cmd(message))
           num == Number(a)
           len == Len(num) + n
           Copied(k) == IF k <= Len(num) THEN num[k] ELSE Read(from + k - Len(num) - 1)
           new == [k \in 0 .. 99 |-> IF k < len THEN Copied(k + 1) ELSE pdata[a][k]]
           part == [k \in 1 .. n |-> Datum(message, from + k - 1)]
           all == num \o part
<1>1. num \in Seq(0 .. 255) /\ Len(num) \in 0 .. 2 /\ Size(message) \in Nat
  <2>1. Size(message) \in Nat
    BY Zenon, KindFacts
  <2>2. \A b : Number(b) \in Seq(0 .. 255) /\ Len(Number(b)) \in 0 .. 2
    BY Zenon, NumberFacts
  <2> QED
    BY Zenon, <2>1, <2>2
<1>2. pdata \in [As -> [0 .. 99 -> 0 .. 255]] /\ a \in As
  OBVIOUS
<1>3. pdata' = [pdata EXCEPT ![a] = new]
      /\ handled' = Append(handled, [pa |-> a, bytes |-> [k \in 1 .. len |-> pdata'[a][k - 1]]])
  <2>1. DOMAIN pdata[a] = 0 .. 99
    OBVIOUS
  <2> QED
    BY <2>1 DEF Parse
<1>4. \A k \in 1 .. n : /\ from + k - 1 \in 0 .. Size(message) - 1
                       /\ Read(from + k - 1) = Datum(message, from + k - 1)
                       /\ Datum(message, from + k - 1) \in 0 .. 255
  <2> SUFFICES ASSUME NEW k \in 1 .. n
               PROVE  /\ from + k - 1 \in 0 .. Size(message) - 1
                      /\ Read(from + k - 1) = Datum(message, from + k - 1)
                      /\ Datum(message, from + k - 1) \in 0 .. 255
    OBVIOUS
  <2>1. from + k - 1 \in 0 .. Size(message) - 1
    BY <1>1
  <2> QED
    BY Zenon, <2>1, ReadDatum, DatumFacts
<1>5. part \in Seq(0 .. 255) /\ Len(part) = n
  <2>1. \A k \in 1 .. n : Datum(message, from + k - 1) \in 0 .. 255
    BY <1>4
  <2> QED
    BY <2>1
<1>6. all \in Seq(0 .. 255) /\ Len(all) = len /\ len \in 0 .. 100
      /\ \A k \in 1 .. len : all[k] = IF k <= Len(num) THEN num[k] ELSE part[k - Len(num)]
  <2>1. Len(num) + n <= 100 /\ n \in Nat
    BY Zenon
  <2> HIDE DEF num, part
  <2>3. Len(num) + n \in 0 .. 100
    <3>1. \A x \in 0 .. 2, y \in Nat : x + y <= 100 => x + y \in 0 .. 100
      OBVIOUS
    <3> QED
      BY Zenon, <1>1, <2>1, <3>1
  <2>4. len = Len(num) + Len(part) /\ len \in 0 .. 100
    BY Zenon, <1>5, <2>3
  <2> HIDE DEF len
  <2>2. /\ num \o part \in Seq(0 .. 255) /\ Len(num \o part) = Len(num) + Len(part)
        /\ \A k \in 1 .. Len(num) + Len(part) :
             (num \o part)[k] = IF k <= Len(num) THEN num[k] ELSE part[k - Len(num)]
    BY ZenonT(30), <1>1, <1>5, ConcatIndex
  <2> QED
    BY Zenon, <2>2, <2>4
<1>7. ASSUME NEW k \in 1 .. len PROVE Copied(k) = all[k]
  <2> HIDE DEF num, all
  <2>1. CASE k <= Len(num)
    BY Zenon, <1>6, <2>1
  <2>2. CASE ~(k <= Len(num))
    <3>1. all[k] = part[k - Len(num)]
      BY Zenon, <1>6, <2>2
    <3>2. k - Len(num) \in 1 .. n /\ from + k - Len(num) - 1 = from + (k - Len(num)) - 1
      BY <1>1, <2>2
    <3>3. part[k - Len(num)] = Datum(message, from + (k - Len(num)) - 1)
      BY <3>2
    <3>4. Read(from + (k - Len(num)) - 1) = Datum(message, from + (k - Len(num)) - 1)
      BY Zenon, <1>4, <3>2
    <3> QED
      BY Zenon, <2>2, <3>1, <3>2, <3>3, <3>4
  <2> QED
    BY <2>1, <2>2
<1> HIDE DEF num, part, len, Copied, all
<1>12. len \in 0 .. 100
  BY Zenon, <1>6
<1>8. [k \in 1 .. len |-> pdata'[a][k - 1]] = all
  <2>1. pdata'[a] = new
    <3> HIDE DEF new
    <3> QED
      BY <1>2, <1>3
  <2>2. \A k \in 1 .. len : k - 1 \in 0 .. 99 /\ k - 1 < len /\ (k - 1) + 1 = k
    BY Zenon, <1>12, FromOne
  <2>3. \A k \in 1 .. len : pdata'[a][k - 1] = all[k]
    BY <1>7, <2>1, <2>2
  <2> DEFINE f == [k \in 1 .. Len(all) |-> pdata'[a][k - 1]]
  <2>4. Len(all) = len /\ all \in Seq(0 .. 255)
    BY Zenon, <1>6
  <2>5. \A k \in 1 .. Len(all) : f[k] = all[k]
    BY Zenon, <2>3, <2>4
  <2>6. f = [k \in 1 .. Len(all) |-> f[k]]
    OBVIOUS
  <2> HIDE DEF f
  <2>7. f = all
    BY <2>4, <2>5, <2>6, SameSequence
  <2> QED
    BY Zenon, <2>4, <2>7 DEF f
<1>9. new \in [0 .. 99 -> 0 .. 255]
  <2>1. ASSUME NEW k \in 0 .. 99, k < len PROVE Copied(k + 1) \in 0 .. 255
    <3>1. k + 1 \in 1 .. len
      BY Zenon, <1>12, <2>1, FromZero
    <3>2. all[k + 1] \in 0 .. 255
      BY Zenon, <1>6, <3>1, Elements
    <3> QED
      BY Zenon, <1>7, <3>1, <3>2
  <2>2. pdata[a] \in [0 .. 99 -> 0 .. 255]
    BY Zenon, <1>2
  <2> QED
    BY <2>1, <2>2
<1> HIDE DEF new
<1>10. pdata' \in [As -> [0 .. 99 -> 0 .. 255]]
  <2> HIDE DEF As
  <2> QED
    BY <1>2, <1>3, <1>9
<1>11. handled' = Append(handled, [pa |-> a, bytes |-> all])
  BY Zenon, <1>3, <1>8
<1> QED
  BY Zenon, <1>10, <1>11 DEF all, num, part

\* One part more was handled, and os is at the next one.
LEMMA PartHandled ==
    ASSUME InCall, nth < count,
           NEW a \in AnalyzersOf(Cmd(message)), a = AnalyzerOf(message, nth + 1),
           Len(Number(a)) + PartLen(message, nth + 1) <= 100,
           Cmd(message) \in {"3010", "301b"} \/ count = 1,
           Parse(a, os, PartLen(message, nth + 1)),
           Reads(os + PartLen(message, nth + 1) - 1),
           NEW step \in {PartLen(message, nth + 1), 0}, step = 0 => count = 1,
           NextPart(step)
    PROVE  InCall'
<1> DEFINE p == nth + 1
           n == PartLen(message, p)
           G(q) == ForAnalyzer(message, q)
<1>1. message \in Messages /\ count = Parts(message) /\ nth \in 0 .. count
      /\ pdata \in [AnalyzersOf(Cmd(message)) -> [0 .. 99 -> 0 .. 255]]
      /\ handled = [q \in 1 .. nth |-> G(q)]
      /\ far \in Int /\ far < Size(message)
      /\ os = PartAt(message, p)
  BY Zenon DEF InCall
<1>2. /\ Size(message) \in Nat /\ Size(message) <= 1024
      /\ Parts(message) \in Nat /\ Parts(message) <= 255
      /\ \A q \in 1 .. Parts(message) :
            /\ PartAt(message, q) \in Nat /\ PartLen(message, q) \in Nat
            /\ 1 <= PartLen(message, q) /\ PartLen(message, q) <= 100
            /\ PartAt(message, q) + PartLen(message, q) <= Size(message)
  <2>1. /\ Cmd(message) \in Commands /\ Size(message) \in Nat /\ 2 <= Size(message)
        /\ Size(message) <= 1024
        /\ Parts(message) \in Nat /\ DOMAIN message.parts = 1 .. Parts(message)
        /\ Parts(message) <= 255
        /\ \A q \in 1 .. Parts(message) :
              /\ PartAt(message, q) \in Nat /\ PartLen(message, q) \in Nat
              /\ 1 <= PartLen(message, q) /\ PartLen(message, q) <= 100
              /\ PartAt(message, q) + PartLen(message, q) <= Size(message)
    BY ZenonT(120), <1>1, PartsFacts
  <2> QED
    BY Zenon, <2>1
<1>3. nth \in Nat /\ p \in 1 .. Parts(message) /\ p <= 255 /\ p \in 0 .. count
  <2>1. count \in Nat /\ count <= 255 /\ nth \in 0 .. count /\ nth < count
    BY Zenon, <1>1, <1>2
  <2>2. \A c \in Nat, k \in Nat : k < c /\ c <= 255 => k + 1 \in 1 .. c /\ k + 1 <= 255 /\ k + 1 \in 0 .. c
    OBVIOUS
  <2>3. \A c \in Nat : \A k \in 0 .. c : k \in Nat
    OBVIOUS
  <2>4. nth \in Nat
    BY Zenon, <2>1, <2>3
  <2>5. nth + 1 \in 1 .. count /\ nth + 1 <= 255 /\ nth + 1 \in 0 .. count
    BY Zenon, <2>1, <2>2, <2>4
  <2> QED
    BY Zenon, <1>1, <2>4, <2>5
<1>4. os \in Nat /\ n \in Nat /\ 1 <= n /\ n <= 100 /\ os + n <= Size(message)
  BY Zenon, <1>1, <1>2, <1>3
<1> HIDE DEF p, n
<1>5. message' = message /\ count' = count /\ nth' = p /\ os' = os + step
  <2>1. nth \in 0 .. 254
    BY <1>3 DEF p
  <2>2. step = n \/ step = 0
    BY Zenon DEF n, p
  <2>3. step \in Nat /\ os + step <= Size(message)
    BY <1>2, <1>4, <2>2
  <2> QED
    BY <1>2, <1>4, <2>1, <2>3, NextPartFacts DEF p
<1>7. ASSUME p < count PROVE os' = PartAt(message, p + 1)
  <2>1. count # 1 /\ p \in 1 .. Parts(message) /\ p < Parts(message)
    <3>1. p \in 1 .. Parts(message) /\ p < count /\ count = Parts(message) /\ Parts(message) \in Nat
      BY Zenon, <1>1, <1>2, <1>3, <1>7
    <3> QED
      BY <3>1
  <2>2. Cmd(message) \in {"3010", "301b"} /\ step = n
    BY Zenon, <2>1 DEF n, p
  <2>3. PartAt(message, p + 1) = os + n
    <3>1. PartAt(message, p + 1) = PartAt(message, p) + PartLen(message, p)
      BY Zenon, <1>1, <2>1, <2>2, ContainerFacts
    <3> QED
      BY Zenon, <1>1, <3>1 DEF n
  <2> QED
    BY Zenon, <1>5, <2>2, <2>3
<1>8. /\ pdata' \in [AnalyzersOf(Cmd(message)) -> [0 .. 99 -> 0 .. 255]]
      /\ handled' = Append(handled,
           [pa |-> a, bytes |-> Number(a) \o [k \in 1 .. n |-> Datum(message, os + k - 1)]])
  <2>1. Parse(a, os, n) /\ Len(Number(a)) + n <= 100
    BY Zenon DEF n, p
  <2>2. message \in Messages
        /\ pdata \in [AnalyzersOf(Cmd(message)) -> [0 .. 99 -> 0 .. 255]]
        /\ os \in Nat /\ n \in Nat /\ os + n <= Size(message)
    BY Zenon, <1>1, <1>4
  <2> QED
    BY ZenonT(60), <2>1, <2>2, ParseFacts
<1>9. handled' = [q \in 1 .. p |-> G(q)]
  <2>1. G(p) = [pa |-> a, bytes |-> Number(a) \o [k \in 1 .. n |-> Datum(message, os + k - 1)]]
    <3>1. a = AnalyzerOf(message, p)
      BY Zenon DEF p
    <3>2. ForAnalyzer(message, p) =
             [pa |-> AnalyzerOf(message, p),
              bytes |-> Number(AnalyzerOf(message, p))
                        \o [k \in 1 .. PartLen(message, p) |-> Datum(message, PartAt(message, p) + k - 1)]]
      BY Zenon, <1>1, <1>3, ForAnalyzerForm
    <3> QED
      BY Zenon, <1>1, <3>1, <3>2 DEF n
  <2> HIDE DEF G
  <2>2. handled' = Append([q \in 1 .. nth |-> G(q)], G(p))
    BY Zenon, <1>1, <1>8, <2>1
  <2>3. Append([q \in 1 .. nth |-> G(q)], G(nth + 1)) = [q \in 1 .. nth + 1 |-> G(q)]
    BY <1>3
  <2> QED
    BY Zenon, <2>2, <2>3 DEF p
<1>10. far' \in Int /\ far' < Size(message)
  <2>1. far' = IF os + n - 1 > far THEN os + n - 1 ELSE far
    BY Zenon DEF Reads, n, p
  <2>2. far \in Int /\ far < Size(message)
    BY Zenon, <1>1
  <2> QED
    BY <1>2, <1>4, <2>1, <2>2
<1> QED
  <2>1. message' \in Messages /\ count' = Parts(message') /\ nth' \in 0 .. count'
    BY Zenon, <1>1, <1>3, <1>5
  <2>2. nth' < count' => os' = PartAt(message', nth' + 1)
    BY Zenon, <1>5, <1>7
  <2>3. handled' = [q \in 1 .. nth' |-> ForAnalyzer(message', q)]
    BY Zenon, <1>5, <1>9
  <2>4. far' \in Int /\ far' < Size(message')
        /\ pdata' \in [AnalyzersOf(Cmd(message')) -> [0 .. 99 -> 0 .. 255]]
    BY Zenon, <1>5, <1>8, <1>10
  <2> QED
    BY Zenon, <2>1, <2>2, <2>3, <2>4 DEF InCall

\* While the call runs, its message is one of user space's.
LEMMA Running == CallInv /\ message.cmd \in Commands => InCall
BY DEF CallInv, NoCall, NoMessage, Commands

LEMMA CallStep == CallInv /\ [BusNext]_busVars => CallInv'
<1> SUFFICES ASSUME CallInv, [BusNext]_busVars PROVE CallInv'
  OBVIOUS
<1>1. ASSUME NEW m \in Messages, process_protocol(m), message = NoMessage PROVE CallInv'
  <2>1. NoCall
    BY Zenon, <1>1, NoMessageFacts DEF CallInv, InCall
  <2>2. /\ Cmd(m) \in Commands /\ Size(m) \in Nat /\ 2 <= Size(m)
        /\ Parts(m) \in Nat
    <3>1. Parts(m) \in Nat
      BY ZenonT(60), PartsFacts
    <3>2. /\ Cmd(m) \in Commands /\ Size(m) \in Nat /\ 2 <= Size(m) /\ Size(m) <= 1024
      BY Zenon, KindFacts
    <3> QED
      BY Zenon, <3>1, <3>2
  <2>3. /\ Cmd(m) = "other" => m.parts = <<>>
        /\ Cmd(m) = "3008" => Parts(m) = 1 /\ PartAt(m, 1) = 0
    BY ZenonT(60), MessageForm
  <2>4. Cmd(m) = "other" => Parts(m) = 0
    <3>1. Len(<<>>) = 0
      OBVIOUS
    <3> QED
      BY Zenon, <2>3, <3>1 DEF Parts
  <2>5. Cmd(m) \in {"3010", "301b"} =>
          /\ Size(m) >= HeadLen(Cmd(m))
          /\ Datum(m, HeadLen(Cmd(m)) - 1) = Parts(m)
          /\ Parts(m) > 0 => PartAt(m, 1) = HeadLen(Cmd(m))
    <3> SUFFICES ASSUME Cmd(m) \in {"3010", "301b"}
                 PROVE  /\ Size(m) >= HeadLen(Cmd(m))
                        /\ Datum(m, HeadLen(Cmd(m)) - 1) = Parts(m)
                        /\ Parts(m) > 0 => PartAt(m, 1) = HeadLen(Cmd(m))
      OBVIOUS
    <3> QED
      BY ZenonT(60), ContainerFacts
  <2>6. message' = m /\ nth' = 0 /\ handled' = <<>>
        /\ os' = (IF Cmd(m) \in {"3010", "301b"} THEN HeadLen(Cmd(m)) ELSE 0)
        /\ far' = os' - 1
    <3>1. UNCHANGED <<nth, handled>> => nth' = nth /\ handled' = handled
      OBVIOUS
    <3>2. UNCHANGED <<nth, handled>> /\ message' = m /\ far' = os' - 1
          /\ os' = (IF Cmd(m) \in {"3010", "301b"} THEN HeadLen(Cmd(m)) ELSE 0)
      BY Zenon, <1>1 DEF process_protocol, Cmd
    <3> QED
      BY Zenon, <2>1, <3>1, <3>2 DEF NoCall
  <2>7. count' = Parts(m)
    <3>1. count' = CASE Cmd(m) = "3008" -> 1 [] Cmd(m) = "other" -> 0
                     [] OTHER -> Datum(m, HeadLen(Cmd(m)) - 1)
      BY Zenon, <1>1 DEF process_protocol, Cmd, Datum
    <3> QED
      BY <2>2, <2>3, <2>4, <2>5, <3>1 DEF Commands
  <2>8. pdata' \in [AnalyzersOf(Cmd(m)) -> [0 .. 99 -> 0 .. 255]]
    <3>1. pdata' = [a \in AnalyzersOf(Cmd(m)) |-> NewAnalyzer]
      BY Zenon, <1>1 DEF process_protocol, AnalyzersOf, Cmd
    <3>2. NewAnalyzer \in [0 .. 99 -> 0 .. 255]
      BY DEF NewAnalyzer
    <3> QED
      BY Zenon, <3>1, <3>2
  <2>9. os' \in Nat /\ os' <= Size(m)
    BY <2>2, <2>5, <2>6 DEF HeadLen
  <2>10. far' \in Int /\ far' < Size(m)
    BY <2>2, <2>6, <2>9
  <2>11. 0 < Parts(m) => os' = PartAt(m, 1)
    BY <2>2, <2>3, <2>4, <2>5, <2>6 DEF Commands
  <2>12. handled' = [p \in 1 .. 0 |-> ForAnalyzer(m, p)]
    <3> DEFINE G(p) == ForAnalyzer(m, p)
    <3> HIDE DEF G
    <3>1. <<>> = [p \in 1 .. 0 |-> G(p)]
      OBVIOUS
    <3> QED
      BY Zenon, <2>6, <3>1 DEF G
  <2>13. 0 \in 0 .. Parts(m) /\ 0 + 1 = 1
    BY <2>2
  <2>14. InCall'
    BY Zenon, <2>6, <2>7, <2>8, <2>10, <2>11, <2>12, <2>13 DEF InCall
  <2> QED
    BY Zenon, <2>14 DEF CallInv
<1>2. ASSUME do_command_0x3008 PROVE CallInv'
  <2>1. message.cmd = "3008" /\ nth < count
        /\ Parse("3008", 0, message.size) /\ Reads(message.size - 1) /\ NextPart(0)
    BY Zenon, <1>2 DEF do_command_0x3008
  <2>2. InCall
    BY Zenon, <2>1, Running DEF Commands
  <2>3. Cmd(message) = "3008" /\ message \in Messages /\ count = Parts(message)
        /\ nth \in 0 .. count /\ os = PartAt(message, nth + 1)
    BY Zenon, <2>1, <2>2 DEF InCall, Cmd
  <2>4. Parts(message) = 1 /\ PartAt(message, 1) = 0 /\ PartLen(message, 1) = Size(message)
    BY ZenonT(60), <2>3, MessageForm
  <2>5. nth = 0 /\ nth + 1 = 1 /\ count = 1
    BY <2>1, <2>3, <2>4
  <2> DEFINE n == PartLen(message, nth + 1)
  <2>6. os = 0 /\ n = Size(message)
    BY Zenon, <2>3, <2>4, <2>5
  <2>7. n \in Nat /\ n <= 100
    <3>1. 1 \in 1 .. Parts(message)
      BY <2>4
    <3> QED
      BY ZenonT(30), <2>3, <2>5, <3>1, PartsFacts
  <2>8. Parse("3008", os, n)
    BY Zenon, <2>1, <2>6 DEF Size
  <2>9. Reads(os + n - 1)
    <3>1. 0 + Size(message) - 1 = Size(message) - 1
      <4>1. \A k \in Nat : 0 + k - 1 = k - 1
        OBVIOUS
      <4> QED
        BY Zenon, <2>6, <2>7, <4>1
    <3> QED
      BY Zenon, <2>1, <2>6, <3>1 DEF Size
  <2>10. "3008" \in AnalyzersOf(Cmd(message)) /\ "3008" = AnalyzerOf(message, nth + 1)
    BY <2>3 DEF AnalyzersOf, AnalyzerOf
  <2>11. Len(Number("3008")) + n <= 100
    <3>1. Len(Number("3008")) = 0
      BY Zenon, NumberFacts
    <3> HIDE DEF n
    <3> QED
      BY <2>7, <3>1
  <2>12. 0 \in {n, 0}
    OBVIOUS
  <2> QED
    BY ZenonT(30), <2>1, <2>2, <2>5, <2>8, <2>9, <2>10, <2>11, <2>12, PartHandled DEF CallInv
<1>3. ASSUME do_command_0x3010 PROVE CallInv'
  <2> DEFINE read == Read(os + 2)
             p == nth + 1
             n == PartLen(message, p)
  <2>1. message.cmd = "3010" /\ nth < count
        /\ Parse("3054", os, read + 3) /\ Reads(os + read + 2) /\ NextPart(read + 3)
    BY Zenon, <1>3 DEF do_command_0x3010
  <2>2. InCall
    BY Zenon, <2>1, Running DEF Commands
  <2>3. Cmd(message) = "3010" /\ message \in Messages /\ count = Parts(message)
        /\ nth \in 0 .. count /\ os = PartAt(message, p)
    BY Zenon, <2>1, <2>2 DEF InCall, Cmd
  <2>4. p \in 1 .. Parts(message)
    <3>1. Parts(message) \in Nat
      BY Zenon, <2>3, PartsFacts
    <3> QED
      BY <2>1, <2>3, <3>1
  <2>5. os \in Nat /\ n \in Nat /\ os + n <= Size(message) /\ Size(message) \in Nat
    BY Zenon, <2>3, <2>4, PartSize
  <2>6. n >= 3 /\ n <= 98 /\ Datum(message, os + 2) = n - 3
    BY ZenonT(30), <2>3, <2>4, ContainerFacts
  <2> HIDE DEF n
  <2>7. os + 2 \in 0 .. Size(message) - 1
    BY <2>5, <2>6
  <2>8. read = n - 3
    BY Zenon, <2>3, <2>6, <2>7, ReadDatum
  <2>9. read + 3 = n /\ os + read + 2 = os + n - 1
    <3>1. (n - 3) + 3 = n /\ os + (n - 3) + 2 = os + n - 1
      BY <2>5
    <3> HIDE DEF read
    <3> QED
      BY <2>8, <3>1
  <2>10. Parse("3054", os, n) /\ Reads(os + n - 1) /\ NextPart(n)
    BY Zenon, <2>1, <2>9
  <2>11. "3054" \in AnalyzersOf(Cmd(message)) /\ "3054" = AnalyzerOf(message, p)
    BY <2>3 DEF AnalyzersOf, AnalyzerOf
  <2>12. Len(Number("3054")) + n <= 100
    <3>1. Len(Number("3054")) \in 0 .. 2
      BY Zenon, NumberFacts
    <3>2. \A x \in 0 .. 2, y \in Nat : y <= 98 => x + y <= 100
      OBVIOUS
    <3> QED
      BY Zenon, <2>5, <2>6, <3>1, <3>2
  <2>13. n \in {n, 0} /\ n # 0
    BY <2>6
  <2> QED
    BY ZenonT(30), <2>1, <2>2, <2>3, <2>10, <2>11, <2>12, <2>13, PartHandled DEF CallInv, n
<1>4. ASSUME do_command_0x301b PROVE CallInv'
  <2> DEFINE read == Read(os)
             p == nth + 1
             n == PartLen(message, p)
             a == IF PartEmb(message, p) = 0 THEN "3050" ELSE "3052"
  <2>1. message.cmd = "301b" /\ nth < count
        /\ Parse(IF Read(os + 1) = 0 THEN "3050" ELSE "3052", os, read)
        /\ Reads(os + read - 1) /\ NextPart(read)
    BY Zenon, <1>4 DEF do_command_0x301b
  <2>2. InCall
    BY Zenon, <2>1, Running DEF Commands
  <2>3. Cmd(message) = "301b" /\ message \in Messages /\ count = Parts(message)
        /\ nth \in 0 .. count /\ os = PartAt(message, p)
    BY Zenon, <2>1, <2>2 DEF InCall, Cmd
  <2>4. p \in 1 .. Parts(message)
    <3>1. Parts(message) \in Nat
      BY Zenon, <2>3, PartsFacts
    <3> QED
      BY <2>1, <2>3, <3>1
  <2>5. os \in Nat /\ n \in Nat /\ os + n <= Size(message) /\ Size(message) \in Nat
    BY Zenon, <2>3, <2>4, PartSize
  <2>6. n >= 2 /\ n <= 98 /\ Datum(message, os) = n /\ Datum(message, os + 1) = PartEmb(message, p)
    BY ZenonT(30), <2>3, <2>4, ContainerFacts
  <2> HIDE DEF n
  <2>7. os \in 0 .. Size(message) - 1 /\ os + 1 \in 0 .. Size(message) - 1
    BY <2>5, <2>6
  <2>8. read = n /\ Read(os + 1) = PartEmb(message, p)
    BY Zenon, <2>3, <2>6, <2>7, ReadDatum
  <2>10. Parse(a, os, n) /\ Reads(os + n - 1) /\ NextPart(n)
    BY Zenon, <2>1, <2>8
  <2>11. a \in AnalyzersOf(Cmd(message)) /\ a = AnalyzerOf(message, p)
    BY <2>3 DEF AnalyzersOf, AnalyzerOf
  <2> HIDE DEF a
  <2>12. Len(Number(a)) + n <= 100
    <3>1. Len(Number(a)) \in 0 .. 2
      BY Zenon, NumberFacts
    <3>2. \A x \in 0 .. 2, y \in Nat : y <= 98 => x + y <= 100
      OBVIOUS
    <3> QED
      BY Zenon, <2>5, <2>6, <3>1, <3>2
  <2>13. n \in {n, 0} /\ n # 0
    BY <2>6
  <2> QED
    BY ZenonT(30), <2>1, <2>2, <2>3, <2>10, <2>11, <2>12, <2>13, PartHandled DEF CallInv, n
<1>5. ASSUME BusReturn PROVE CallInv'
  BY <1>5 DEF BusReturn, CallInv, NoCall
<1>6. ASSUME UNCHANGED busVars PROVE CallInv'
  <2>1. UNCHANGED busVars => /\ message' = message /\ os' = os /\ nth' = nth /\ count' = count
                             /\ pdata' = pdata /\ handled' = handled /\ far' = far
    BY DEF busVars
  <2> QED
    BY Zenon, <1>6, <2>1 DEF CallInv, NoCall, InCall
<1> QED
  BY Zenon, <1>1, <1>2, <1>3, <1>4, <1>5, <1>6 DEF BusNext

\* For every well-formed message, every part reaches the analyzer of its kind
\* whole, in its place and once, whatever do_command_0x3010 and do_command_0x301b
\* find in the lengths that the parts before it carry.
THEOREM PartsAreInOrder == BusSpec => []PartsInOrder
<1>1. BusInit => CallInv
  BY DEF BusInit, CallInv, NoCall
<1>2. CallInv => PartsInOrder
  <2>1. ASSUME NoCall PROVE PartsInOrder
    <3> DEFINE G(p) == ForAnalyzer(message, p)
    <3>1. message.parts = <<>> /\ handled = <<>>
      BY <2>1 DEF NoCall, NoMessage
    <3> HIDE DEF G
    <3>2. <<>> = [p \in DOMAIN <<>> |-> G(p)]
      OBVIOUS
    <3> QED
      BY Zenon, <3>1, <3>2 DEF PartsInOrder, G
  <2>2. ASSUME InCall, nth >= count
        PROVE  handled = [p \in DOMAIN message.parts |-> ForAnalyzer(message, p)]
    <3>1. message \in Messages /\ count = Parts(message) /\ nth \in 0 .. count
          /\ handled = [p \in 1 .. nth |-> ForAnalyzer(message, p)]
      BY Zenon, <2>2 DEF InCall
    <3>2. Parts(message) \in Nat /\ DOMAIN message.parts = 1 .. Parts(message)
      BY ZenonT(30), <3>1, PartsFacts
    <3>3. Parts(message) \in Nat /\ nth \in 0 .. Parts(message) /\ nth >= Parts(message)
      BY Zenon, <2>2, <3>1, <3>2
    <3>4. nth = Parts(message)
      BY <3>3
    <3> QED
      BY Zenon, <3>1, <3>2, <3>4
  <2> QED
    BY Zenon, <2>1, <2>2 DEF CallInv, PartsInOrder
<1> QED
  BY <1>1, <1>2, CallStep, PTL DEF BusSpec

\* For every well-formed message, the loops of do_command_0x3010 and
\* do_command_0x301b read no byte behind its end.
THEOREM NothingReadBehind == BusSpec => []WithinMessage
<1>1. BusInit => CallInv
  BY DEF BusInit, CallInv, NoCall
<1>2. CallInv => WithinMessage
  <2>1. NoCall => WithinMessage
    BY DEF NoCall, WithinMessage, NoMessage
  <2>2. InCall => WithinMessage
    BY Zenon DEF InCall, WithinMessage, Size
  <2> QED
    BY Zenon, <2>1, <2>2 DEF CallInv
<1> QED
  BY <1>1, <1>2, CallStep, PTL DEF BusSpec
=============================================================================
