----------------------- MODULE ProtocolFormatSetProofs -----------------------
(***************************************************************************)
(* Proofs about ProtocolFormatSet, for every set of formats and of writers *)
(* and every size of the set: what an analyzer copies while the probe      *)
(* registers is a whole format, and where all numbers lie in the array     *)
(* nothing else is touched and nothing is left behind.                     *)
(***************************************************************************)
EXTENDS ProtocolFormatSet, SequenceTheorems, FiniteSetTheorems, TLAPS

(***************************************************************************)
(* The inductive invariant                                                 *)
(***************************************************************************)

\* The numbers that are registered lie in the array, and below the bound of
\* pfs_add_proto_link_list.
NumbersFit == \A p \in DOMAIN Formats : Index(p) < MaxNum /\ Index(p) <= MaxProtocolNum

\* Nobody asks for the number behind the last one, which pa_check_protocol_num
\* lets through, nor for those that it lets through while base or maximum are
\* still zero.
WantedFit == \A num \in Wanted : num \notin {0, Base, Base + MaxNum}

\* Before the first format, while there are formats to register, and after that.
Setup == {"base", "array", "memset", "max"}
Registering == {"head", "field", "add"}
Ending == {"destroy", "gone"}

\* How far init_proto_format_set has come.
Steps == /\ pfs.max = MaxNum => /\ pfs.base = Base
                                /\ pfs.mem = IF reg.at = "gone" THEN "freed" ELSE "zeroed"
         /\ reg.at \in Registering \cup {"done", "destroy", "gone"} => pfs.max = MaxNum
         /\ reg.at \in Setup => pfs.max = 0 /\ DOMAIN lists = {} /\ DOMAIN array = {} /\ lost = {}
         /\ reg.at # "base" => pfs.base = Base
         /\ reg.at = "max" => pfs.mem = "zeroed"

\* l holds the fields of the format num up to the n-th, in order, but those in
\* none, which had no memory.
Kept(num, n, none) == {m \in 1 .. n : <<num, m>> \notin none}
Enumerates(l, num, n, none) ==
    \E f \in [1 .. Len(l) -> 1 .. n] :
      /\ \A j, k \in 1 .. Len(l) : j < k => f[j] < f[k]
      /\ {f[k] : k \in 1 .. Len(l)} = Kept(num, n, none)
      /\ \A k \in 1 .. Len(l) : l[k] = Formats[num][f[k]]

Size(h) == Len(Formats[Order[h]])
Complete(l, h, none) == Enumerates(l, Order[h], Size(h), none)

\* The registrar, being at r, has passed h, or the n-th field of h.
Passed(h, r) == r.at \in Registering => h < r.h
PassedField(h, n, r) == \/ Passed(h, r)
                        \/ r.at = "field" /\ h = r.h /\ n < r.n
                        \/ r.at = "add" /\ h = r.h

\* The list that is being made, and the fields that are lost.
Progress ==
    /\ IsFiniteSet(lost)
    /\ reg.at \in Registering => reg.h \in Heads
    /\ reg.at = "head" => reg.h \notin DOMAIN lists
    /\ reg.at \in {"field", "add"} => reg.h \in DOMAIN lists
    /\ reg.at \in Registering => \A h \in DOMAIN lists : h <= reg.h
    /\ reg.at = "field" => /\ reg.n \in 1 .. Size(reg.h)
                           /\ Enumerates(lists[reg.h], Order[reg.h], reg.n - 1, lost)
    /\ reg.at = "add" => Complete(lists[reg.h], reg.h, lost)
    /\ \A h \in Heads : \A n \in 1 .. Size(h) : <<Order[h], n>> \in lost => PassedField(h, n, reg)

\* What has been entered is a complete list, at the index of its format.
Entries ==
    \A i \in DOMAIN array :
      /\ i \in 0 .. MaxNum - 1 /\ array[i] \in DOMAIN lists
      /\ i = Index(Order[array[i]])
      /\ Passed(array[i], reg)
      /\ Complete(lists[array[i]], array[i], lost)

\* Every list has been entered, but the one that is being made.
AllEntered ==
    \A h \in DOMAIN lists :
      \/ reg.at = "dead"
      \/ reg.at \in {"field", "add"} /\ h = reg.h
      \/ Index(Order[h]) \in DOMAIN array /\ array[Index(Order[h])] = h

\* What a writer, being at w, knows of the set.
Knows(w, set, cells, r, none) ==
    /\ w.at \in {"read", "copy"} => r.at \notin Ending
    /\ w.at \in {"read", "copy", "ready"} => w.num \in Wanted
    /\ w.at = "read" => w.copy = <<>>
    /\ w.at = "read" /\ WantedFit => set.max = MaxNum /\ w.num > Base /\ w.num < Base + MaxNum
    /\ w.at \in {"copy", "ready"} => /\ r.at \notin Setup /\ w.src \in Heads
                                     /\ Order[w.src] = w.num /\ Passed(w.src, r)
    /\ w.at = "copy" => /\ w.src \in DOMAIN cells
                        /\ Complete(cells[w.src], w.src, none)
                        /\ Len(w.copy) <= Len(cells[w.src])
                        /\ \A k \in 1 .. Len(w.copy) : w.copy[k] = cells[w.src][k]
    /\ w.at = "ready" => Complete(w.copy, w.src, none)
Writers == \A w \in Writer : Knows(writer[w], pfs, lists, reg, lost)

\* The loop that destroys the set.
Destroying == /\ reg.at = "destroy" => \A i \in DOMAIN array : i >= reg.n
              /\ reg.at = "gone" => DOMAIN array = {}

WriterType == [at : {"idle", "read", "copy", "ready", "failed", "fault"},
               num : Nat, src : Nat, copy : Seq(STRING)]
Sequences == /\ lists \in [DOMAIN lists -> Seq(STRING)]
             /\ writer \in [Writer -> WriterType]

IInv == /\ TypeOK /\ Sequences /\ Steps /\ Progress /\ Entries /\ Writers /\ Destroying
        /\ NumbersFit => AllEntered
        /\ NumbersFit /\ WantedFit => WithinSet

(***************************************************************************)
(* Functions and sequences                                                 *)
(***************************************************************************)

LEMMA EnumEmpty ==
    ASSUME NEW num, NEW none
    PROVE  Enumerates(<<>>, num, 0, none)
<1>1. Len(<<>>) = 0 /\ 1 .. 0 = {}
  OBVIOUS
<1>2. Kept(num, 0, none) = {}
  BY <1>1 DEF Kept
<1> DEFINE f == [k \in 1 .. Len(<<>>) |-> k]
<1>3. f \in [1 .. Len(<<>>) -> 1 .. 0] /\ {f[k] : k \in 1 .. Len(<<>>)} = {}
  BY <1>1
<1> HIDE DEF f
<1>4. \A j \in 1 .. Len(<<>>) : FALSE
  BY <1>1
<1> QED
  BY <1>2, <1>3, <1>4 DEF Enumerates

\* A field that has memory.
LEMMA EnumAppend ==
    ASSUME NEW l \in Seq(STRING), NEW num, NEW n \in Nat \ {0}, NEW none,
           Formats[num][n] \in STRING,
           Enumerates(l, num, n - 1, none), <<num, n>> \notin none
    PROVE  Enumerates(Append(l, Formats[num][n]), num, n, none)
<1> DEFINE e == Append(l, Formats[num][n])
<1>1. PICK f \in [1 .. Len(l) -> 1 .. n - 1] :
        /\ \A j, k \in 1 .. Len(l) : j < k => f[j] < f[k]
        /\ {f[k] : k \in 1 .. Len(l)} = Kept(num, n - 1, none)
        /\ \A k \in 1 .. Len(l) : l[k] = Formats[num][f[k]]
  BY DEF Enumerates
<1>2. /\ Len(l) \in Nat /\ Len(e) = Len(l) + 1
      /\ \A k \in 1 .. Len(l) : e[k] = l[k]
      /\ e[Len(l) + 1] = Formats[num][n]
  OBVIOUS
<1> HIDE DEF e
<1> DEFINE g == [k \in 1 .. Len(e) |-> IF k = Len(e) THEN n ELSE f[k]]
<1>3. /\ g \in [1 .. Len(e) -> 1 .. n]
      /\ g[Len(l) + 1] = n
      /\ \A k \in 1 .. Len(l) : g[k] = f[k] /\ f[k] \in 1 .. n - 1
  BY <1>2
<1> HIDE DEF g
<1>4. ASSUME NEW j \in 1 .. Len(e), NEW k \in 1 .. Len(e), j < k
      PROVE  g[j] < g[k]
  <2>1. j \in 1 .. Len(l)
    BY <1>2, <1>4
  <2>2. CASE k \in 1 .. Len(l)
    BY <1>1, <1>3, <1>4, <2>1, <2>2
  <2>3. CASE k = Len(l) + 1
    BY <1>3, <2>1, <2>3
  <2> QED
    BY <1>2, <2>2, <2>3
<1>5. Kept(num, n, none) = Kept(num, n - 1, none) \cup {n}
  BY DEF Kept
<1>6. {g[k] : k \in 1 .. Len(e)} = {f[k] : k \in 1 .. Len(l)} \cup {n}
  <2>1. 1 .. Len(e) = 1 .. Len(l) \cup {Len(l) + 1}
    BY <1>2
  <2>2. \A k \in 1 .. Len(e) : g[k] \in {f[i] : i \in 1 .. Len(l)} \cup {n}
    BY <1>3, <2>1
  <2>3. \A k \in 1 .. Len(l) : k \in 1 .. Len(e) /\ f[k] = g[k]
    BY <1>3, <2>1
  <2>4. Len(l) + 1 \in 1 .. Len(e) /\ n = g[Len(l) + 1]
    BY <1>3, <2>1
  <2> QED
    BY <2>2, <2>3, <2>4
<1>7. ASSUME NEW k \in 1 .. Len(e)
      PROVE  e[k] = Formats[num][g[k]]
  <2>1. CASE k \in 1 .. Len(l)
    BY <1>1, <1>2, <1>3, <2>1
  <2>2. CASE k = Len(l) + 1
    BY <1>2, <1>3, <2>2
  <2> QED
    BY <1>2, <2>1, <2>2
<1>8. {g[k] : k \in 1 .. Len(e)} = Kept(num, n, none)
  BY <1>1, <1>5, <1>6
<1> QED
  BY <1>3, <1>4, <1>7, <1>8 DEF Enumerates, e

\* A field without.
LEMMA EnumSkip ==
    ASSUME NEW l \in Seq(STRING), NEW num, NEW n \in Nat \ {0}, NEW none,
           Enumerates(l, num, n - 1, none)
    PROVE  Enumerates(l, num, n, none \cup {<<num, n>>})
<1>1. PICK f \in [1 .. Len(l) -> 1 .. n - 1] :
        /\ \A j, k \in 1 .. Len(l) : j < k => f[j] < f[k]
        /\ {f[k] : k \in 1 .. Len(l)} = Kept(num, n - 1, none)
        /\ \A k \in 1 .. Len(l) : l[k] = Formats[num][f[k]]
  BY DEF Enumerates
<1>2. f \in [1 .. Len(l) -> 1 .. n]
  OBVIOUS
<1>3. Kept(num, n, none \cup {<<num, n>>}) = Kept(num, n - 1, none)
  BY DEF Kept
<1> QED
  BY <1>1, <1>2, <1>3 DEF Enumerates

\* What is lost of other formats does not matter.
LEMMA EnumFrame ==
    ASSUME NEW l, NEW num, NEW n, NEW none, NEW more, Enumerates(l, num, n, none),
           \A m \in 1 .. n : <<num, m>> \in more <=> <<num, m>> \in none
    PROVE  Enumerates(l, num, n, more)
<1>1. Kept(num, n, more) = Kept(num, n, none)
  BY DEF Kept
<1> QED
  BY <1>1 DEF Enumerates

\* The values of an increasing function are as many as its arguments.
LEMMA Increasing ==
    ASSUME NEW N \in Nat, NEW n \in Nat, NEW f \in [1 .. N -> 1 .. n],
           \A j, k \in 1 .. N : j < k => f[j] < f[k], NEW i \in 0 .. N
    PROVE  Cardinality({f[k] : k \in 1 .. i}) = i
<1> DEFINE S == {f[k] : k \in 1 .. i}
           g == [k \in 1 .. i |-> f[k]]
<1>1. i \in Nat /\ \A k \in 1 .. i : k \in 1 .. N
  OBVIOUS
<1>2. ASSUME NEW j \in 1 .. N, NEW k \in 1 .. N, f[j] = f[k]
      PROVE  j = k
  <2>1. f[j] \in Int /\ j \in Int /\ k \in Int
    OBVIOUS
  <2>2. ~(j < k) /\ ~(k < j)
    BY <1>2, <2>1
  <2> QED
    BY <2>1, <2>2
<1>3. g \in [1 .. i -> S] /\ \A k \in 1 .. i : g[k] = f[k]
  OBVIOUS
<1>4. \A s \in S : \E k \in 1 .. i : g[k] = s
  OBVIOUS
<1>5. \A j, k \in 1 .. i : g[j] = g[k] => j = k
  BY <1>1, <1>2, <1>3
<1> HIDE DEF g, S
<1>6. g \in Bijection(1 .. i, S)
  BY <1>3, <1>4, <1>5 DEF Bijection, Injection, Surjection, IsInjective
<1>7. ExistsBijection(1 .. i, S)
  BY <1>6 DEF ExistsBijection
<1>8. IsFiniteSet(1 .. i) /\ Cardinality(1 .. i) = i
  BY <1>1, FS_Interval
<1>9. Cardinality(S) = i
  BY <1>7, <1>8, FS_Bijection
<1> QED
  BY <1>9 DEF S

\* The fields of num whose numbers are in K, in order.
Numbered(num, K) == [k \in 1 .. Cardinality(K) |->
                       Formats[num][CHOOSE x \in K : Cardinality({m \in K : m <= x}) = k]]

\* The fields with memory are counted by the places of the list.
LEMMA EnumIsCopy ==
    ASSUME NEW l \in Seq(STRING), NEW num, NEW n \in Nat, NEW none,
           Enumerates(l, num, n, none)
    PROVE  l = Numbered(num, Kept(num, n, none))
<1> DEFINE K == Kept(num, n, none)
           N == Len(l)
<1>1. PICK f \in [1 .. N -> 1 .. n] :
        /\ \A j, k \in 1 .. N : j < k => f[j] < f[k]
        /\ {f[k] : k \in 1 .. N} = K
        /\ \A k \in 1 .. N : l[k] = Formats[num][f[k]]
  BY DEF Enumerates
<1>2. N \in Nat /\ \A k \in 1 .. N : f[k] \in 1 .. n
  OBVIOUS
<1> HIDE DEF K, N
<1>3. \A i \in 0 .. N : Cardinality({f[k] : k \in 1 .. i}) = i
  <2>1. f \in [1 .. N -> 1 .. n] /\ \A j, k \in 1 .. N : j < k => f[j] < f[k]
    BY <1>1
  <2> QED
    BY <1>2, <2>1, Increasing
<1>4. Cardinality(K) = N
  <2>1. N \in 0 .. N
    BY <1>2
  <2> QED
    BY <1>1, <1>3, <2>1
<1>5. ASSUME NEW i \in 1 .. N
      PROVE  Cardinality({m \in K : m <= f[i]}) = i
  <2>1. {m \in K : m <= f[i]} = {f[k] : k \in 1 .. i}
    <3>1. ASSUME NEW k \in 1 .. N
          PROVE  f[k] <= f[i] <=> k <= i
      BY <1>1, <1>2
    <3> QED
      BY <1>1, <1>2, <3>1
  <2>2. i \in 0 .. N
    BY <1>2
  <2> QED
    BY <1>3, <2>1, <2>2
<1>6. ASSUME NEW i \in 1 .. N
      PROVE  (CHOOSE x \in K : Cardinality({m \in K : m <= x}) = i) = f[i]
  <2>1. f[i] \in K /\ Cardinality({m \in K : m <= f[i]}) = i
    BY <1>1, <1>5
  <2>2. ASSUME NEW x \in K, Cardinality({m \in K : m <= x}) = i
        PROVE  x = f[i]
    <3>1. PICK j \in 1 .. N : x = f[j]
      BY <1>1
    <3>2. Cardinality({m \in K : m <= f[j]}) = j
      BY <1>5
    <3> QED
      BY <2>2, <3>1, <3>2
  <2> QED
    BY <2>1, <2>2
<1>7. l = [k \in 1 .. N |-> l[k]]
  BY DEF N
<1>8. \A k \in 1 .. N : l[k] = Formats[num][CHOOSE x \in K : Cardinality({m \in K : m <= x}) = k]
  BY <1>1, <1>6
<1> QED
  BY <1>4, <1>7, <1>8 DEF Numbered, K

(***************************************************************************)
(* What each step keeps: init_proto_format_set                             *)
(***************************************************************************)

\* The formats and the order of their registration.
LEMMA Registered ==
    /\ Len(Order) \in Nat /\ Heads = 1 .. Len(Order)
    /\ \A h \in Heads : /\ Order[h] \in DOMAIN Formats /\ Order[h] \in Nat
                        /\ Index(Order[h]) \in Nat
                        /\ Size(h) \in Nat \ {0}
                        /\ \A m \in 1 .. Size(h) : Formats[Order[h]][m] \in STRING
    /\ \A h, k \in Heads : Order[h] = Order[k] => h = k
<1>1. /\ Len(Order) \in Nat /\ Heads = 1 .. Len(Order)
      /\ \A h \in Heads : Order[h] \in DOMAIN Formats
  BY OrderAssumption DEF Heads
<1>2. \A h, k \in Heads : Order[h] = Order[k] => h = k
  BY OrderAssumption DEF Heads, IsInjective
<1>3. ASSUME NEW h \in Heads
      PROVE  Order[h] \in Nat /\ Index(Order[h]) \in Nat
  BY <1>1, OrderAssumption, FormatsAssumption, SetAssumption DEF Index
<1>4. ASSUME NEW h \in Heads
      PROVE  /\ Size(h) \in Nat \ {0}
             /\ \A m \in 1 .. Size(h) : Formats[Order[h]][m] \in STRING
  <2>1. Formats[Order[h]] \in Seq(STRING) \ {<<>>}
    BY <1>1, FormatsAssumption
  <2> QED
    BY <2>1 DEF Size
<1> QED
  BY <1>1, <1>2, <1>3, <1>4

\* A format that is registered is not touched by what is lost afterwards.
LEMMA KnowsFrame ==
    ASSUME NEW w, NEW set, NEW cells, NEW r, NEW none, Knows(w, set, cells, r, none),
           NEW set2, NEW cells2, NEW r2, NEW none2,
           w.at \in {"read", "copy"} => r2.at \notin Ending,
           set.max = MaxNum => set2.max = MaxNum,
           r.at \notin Setup => r2.at \notin Setup,
           \A h \in Heads : Passed(h, r) /\ r.at \notin Setup =>
             /\ Passed(h, r2)
             /\ \A m \in 1 .. Size(h) : <<Order[h], m>> \in none2 <=> <<Order[h], m>> \in none,
           \A h \in Heads \cap DOMAIN cells : Passed(h, r) /\ r.at \notin Setup /\ w.at = "copy" =>
             h \in DOMAIN cells2 /\ cells2[h] = cells[h]
    PROVE  Knows(w, set2, cells2, r2, none2)
<1>1. /\ w.at \in {"read", "copy"} => r2.at \notin Ending
      /\ w.at \in {"read", "copy", "ready"} => w.num \in Wanted
      /\ w.at = "read" => w.copy = <<>>
      /\ w.at = "read" /\ WantedFit => set2.max = MaxNum /\ w.num > Base /\ w.num < Base + MaxNum
  BY DEF Knows
<1>2. w.at \in {"copy", "ready"} =>
        /\ w.src \in Heads /\ Order[w.src] = w.num
        /\ r.at \notin Setup /\ Passed(w.src, r)
  BY DEF Knows
<1>3. w.at \in {"copy", "ready"} =>
        /\ r2.at \notin Setup /\ w.src \in Heads
        /\ Order[w.src] = w.num /\ Passed(w.src, r2)
  BY <1>2
<1>4. ASSUME w.at \in {"copy", "ready"}, NEW l, Complete(l, w.src, none)
      PROVE  Complete(l, w.src, none2)
  <2>1. \A m \in 1 .. Size(w.src) : <<Order[w.src], m>> \in none2 <=> <<Order[w.src], m>> \in none
    BY <1>2, <1>4
  <2> QED
    BY <1>4, <2>1, EnumFrame DEF Complete
<1>5. w.at = "copy" => /\ w.src \in DOMAIN cells
                       /\ Complete(cells[w.src], w.src, none)
                       /\ Len(w.copy) <= Len(cells[w.src])
                       /\ \A k \in 1 .. Len(w.copy) : w.copy[k] = cells[w.src][k]
  BY DEF Knows
<1>6. w.at = "copy" => w.src \in DOMAIN cells2 /\ cells2[w.src] = cells[w.src]
  BY <1>2, <1>5
<1>7. w.at = "copy" => /\ w.src \in DOMAIN cells2
                       /\ Complete(cells2[w.src], w.src, none2)
                       /\ Len(w.copy) <= Len(cells2[w.src])
                       /\ \A k \in 1 .. Len(w.copy) : w.copy[k] = cells2[w.src][k]
  BY <1>4, <1>5, <1>6
<1>8. w.at = "ready" => Complete(w.copy, w.src, none2)
  BY <1>4 DEF Knows
<1> QED
  BY <1>1, <1>3, <1>7, <1>8 DEF Knows

\* A list has no more fields than there are numbers.
LEMMA EnumLen ==
    ASSUME NEW l \in Seq(STRING), NEW num, NEW n \in Nat, NEW none, Enumerates(l, num, n, none)
    PROVE  Len(l) <= n
<1>1. IsFiniteSet(1 .. n) /\ Cardinality(1 .. n) = n
  BY FS_Interval
<1>2. Kept(num, n, none) \subseteq 1 .. n
  BY DEF Kept
<1>3. Cardinality(Kept(num, n, none)) <= n /\ Cardinality(Kept(num, n, none)) \in Nat
  BY <1>1, <1>2, FS_Subset, FS_CardinalityType
<1>4. PICK f \in [1 .. Len(l) -> 1 .. n] :
        /\ \A j, k \in 1 .. Len(l) : j < k => f[j] < f[k]
        /\ {f[k] : k \in 1 .. Len(l)} = Kept(num, n, none)
  BY DEF Enumerates
<1>5. Len(l) \in Nat /\ Len(l) \in 0 .. Len(l)
  OBVIOUS
<1>6. Cardinality({f[k] : k \in 1 .. Len(l)}) = Len(l)
  BY <1>4, <1>5, Increasing
<1> QED
  BY <1>3, <1>4, <1>6

\* init_proto_format_set: there are neither lists nor copies.
LEMMA SetupKeeps ==
    ASSUME IInv, SetBase \/ AllocArray \/ ZeroArray \/ SetMax
    PROVE  IInv'
<1>1. /\ reg.at \in Setup /\ DOMAIN lists = {} /\ DOMAIN array = {} /\ lost = {} /\ pfs.max = 0
      /\ UNCHANGED <<array, lists, writer, lost, astray>>
  BY DEF IInv, Steps, SetBase, AllocArray, ZeroArray, SetMax, Setup
<1>2. /\ reg' \in [at : {"array", "memset", "max", "dead", "head", "done"},
                   h : 0 .. Len(Order) + 1, n : Nat]
      /\ reg'.at = "head" => reg'.h \in Heads
  BY Registered
     DEF IInv, TypeOK, SetBase, AllocArray, ZeroArray, SetMax, Goto, NextFormat
<1>3. /\ pfs' \in [base : {0, Base}, max : {0, MaxNum}, mem : {"null", "raw", "zeroed", "freed"}]
      /\ reg'.at \notin {"array", "memset", "max", "dead"} =>
           pfs'.max = MaxNum /\ pfs'.mem = "zeroed"
      /\ reg'.at \in {"array", "memset", "max"} => pfs'.max = 0
      /\ pfs'.base = Base
      /\ reg'.at = "max" => pfs'.mem = "zeroed"
      /\ reg'.at = "dead" => pfs'.max = 0
  BY <1>1, SetAssumption
     DEF IInv, TypeOK, Steps, SetBase, AllocArray, ZeroArray, SetMax, Goto, NextFormat, Setup
<1>4. TypeOK'
  BY <1>1, <1>2, <1>3 DEF IInv, TypeOK
<1>5. Sequences' /\ Steps'
  BY <1>1, <1>2, <1>3, SetAssumption DEF IInv, Sequences, Steps, Setup, Registering
<1>6. Progress' /\ Entries' /\ Destroying' /\ AllEntered'
  BY <1>1, <1>2 DEF IInv, Progress, Entries, Destroying, AllEntered, Registering
<1>7. Writers'
  <2>1. pfs.max # MaxNum
    BY <1>1, SetAssumption
  <2>2. ASSUME NEW w \in Writer
        PROVE  Knows(writer[w], pfs', lists', reg', lost')
    <3>1. Knows(writer[w], pfs, lists, reg, lost)
      BY DEF IInv, Writers
    <3>2. writer[w].at \in {"read", "copy"} => reg'.at \notin Ending
      BY <1>2 DEF Ending
    <3> QED
      BY <1>1, <2>1, <3>1, <3>2, KnowsFrame
  <2> QED
    BY <1>1, <2>2 DEF Writers
<1>8. (NumbersFit /\ WantedFit => WithinSet)'
  BY <1>1 DEF IInv, WithinSet, NumbersFit, WantedFit
<1> QED
  BY <1>4, <1>5, <1>6, <1>7, <1>8 DEF IInv

(***************************************************************************)
(* pfs_set_pdt_drv_proto_format                                            *)
(***************************************************************************)

LEMMA WithOne ==
    ASSUME NEW f, NEW x, NEW e
    PROVE  /\ DOMAIN With(f, x, e) = DOMAIN f \cup {x}
           /\ With(f, x, e)[x] = e
           /\ \A y \in DOMAIN f \ {x} : With(f, x, e)[y] = f[y]
  BY DEF With

RegType == [at : {"base", "array", "memset", "max", "head", "field", "add",
                  "done", "destroy", "gone", "dead"},
            h : 0 .. Len(Order) + 1, n : Nat]

\* Where the registrar stands between init_proto_format_set and the last format.
LEMMA AtFormat ==
    ASSUME IInv, reg.at \in Registering
    PROVE  /\ reg.h \in Heads /\ reg.h \in Nat /\ reg.n \in Nat
           /\ reg \in RegType
           /\ reg.at \notin Setup \cup Ending
           /\ pfs.max = MaxNum /\ pfs.base = Base /\ pfs.mem = "zeroed"
           /\ DOMAIN lists \subseteq Heads
           /\ \A h \in DOMAIN lists : lists[h] \in Seq(STRING)
<1>1. reg.h \in Heads
  BY DEF IInv, Progress
<1>2. reg \in RegType
  BY DEF IInv, TypeOK, RegType
<1>3. reg.at \notin Setup \cup Ending /\ reg.at # "gone"
  BY DEF Registering, Setup, Ending
<1>4. pfs.max = MaxNum /\ pfs.base = Base /\ pfs.mem = "zeroed"
  BY <1>3 DEF IInv, Steps
<1>5. DOMAIN lists \subseteq Heads /\ \A h \in DOMAIN lists : lists[h] \in Seq(STRING)
  BY DEF IInv, TypeOK, Sequences
<1> QED
  BY <1>1, <1>2, <1>3, <1>4, <1>5, Registered DEF RegType

\* A new list is not known to anybody.
LEMMA CreateKeeps ==
    ASSUME IInv, pfs_create_head_list
    PROVE  IInv'
<1> DEFINE h == reg.h
<1>1. /\ reg.at = "head" /\ reg.at \in Registering /\ h \notin DOMAIN lists
      /\ UNCHANGED <<pfs, array, writer, lost, astray>>
  BY DEF IInv, Progress, pfs_create_head_list, Registering
<1>2. /\ h \in Heads /\ h \in Nat /\ reg.n \in Nat /\ reg \in RegType
      /\ reg.at \notin Setup \cup Ending
      /\ pfs.max = MaxNum /\ pfs.base = Base /\ pfs.mem = "zeroed"
      /\ DOMAIN lists \subseteq Heads
      /\ \A k \in DOMAIN lists : lists[k] \in Seq(STRING)
  BY <1>1, AtFormat
<1>3. \/ /\ lists' = With(lists, h, <<>>)
         /\ reg' \in RegType
         /\ reg'.at = "field" /\ reg'.h = h /\ reg'.n = 1
      \/ /\ lists' = lists
         /\ reg' \in RegType
         /\ reg'.at = "dead" /\ reg'.h = h /\ reg'.n = reg.n
  <2>1. \/ lists' = With(lists, h, <<>>) /\ reg' = [reg EXCEPT !.at = "field", !.n = 1]
        \/ lists' = lists /\ reg' = [reg EXCEPT !.at = "dead"]
    BY DEF pfs_create_head_list, Goto
  <2> HIDE DEF h
  <2>2. reg \in RegType /\ h = reg.h
    BY <1>2 DEF h
  <2>3. 1 \in Nat /\ "field" # "dead"
    OBVIOUS
  <2> QED
    BY <2>1, <2>2, <2>3 DEF RegType
<1>4. /\ \A k \in DOMAIN lists : k \in DOMAIN lists' /\ lists'[k] = lists[k]
      /\ DOMAIN lists' \subseteq DOMAIN lists \cup {h}
      /\ reg'.at = "field" => h \in DOMAIN lists' /\ lists'[h] = <<>>
      /\ reg'.at = "dead" => DOMAIN lists' = DOMAIN lists
      /\ lists' \in [DOMAIN lists' -> Seq(STRING)]
  <2>1. CASE lists' = With(lists, h, <<>>) /\ reg'.at = "field"
    <3> HIDE DEF h
    <3>1. /\ DOMAIN lists' = DOMAIN lists \cup {h} /\ lists'[h] = <<>>
          /\ \A y \in DOMAIN lists \ {h} : lists'[y] = lists[y]
      BY <2>1 DEF With
    <3>2. lists' = [y \in DOMAIN lists' |-> lists'[y]]
      BY <2>1 DEF With
    <3>3. \A y \in DOMAIN lists' : lists'[y] \in Seq(STRING)
      <4>1. <<>> \in Seq(STRING)
        OBVIOUS
      <4> QED
        BY <1>2, <3>1, <4>1
    <3> QED
      BY <1>1, <2>1, <3>1, <3>2, <3>3
  <2>2. CASE lists' = lists /\ reg'.at = "dead"
    BY <2>2 DEF IInv, Sequences
  <2> QED
    BY <1>3, <2>1, <2>2
<1>5. \A k \in Heads : \A n : PassedField(k, n, reg) => PassedField(k, n, reg')
  BY <1>1, <1>3 DEF PassedField, Passed, Registering
<1>6. \A k : Passed(k, reg) => Passed(k, reg')
  BY <1>1, <1>3 DEF Passed, Registering
<1> HIDE DEF h
<1>7. TypeOK'
  <2>1. reg' \in [at : {"base", "array", "memset", "max", "head", "field", "add",
                        "done", "destroy", "gone", "dead"}, h : 0 .. Len(Order) + 1, n : Nat]
    BY <1>3 DEF RegType
  <2>2. \A k \in DOMAIN lists' : Len(lists'[k]) <= Len(Formats[Order[k]])
    <3>1. \A k \in DOMAIN lists : Len(lists[k]) <= Len(Formats[Order[k]])
      BY DEF IInv, TypeOK
    <3>2. reg'.at = "field" => Len(lists'[h]) <= Len(Formats[Order[h]])
      BY <1>2, <1>4, Registered DEF Size
    <3> QED
      BY <1>3, <1>4, <3>1, <3>2
  <2> QED
    BY <1>1, <1>2, <1>4, <2>1, <2>2 DEF IInv, TypeOK
<1>8. Sequences' /\ Steps'
  BY <1>1, <1>2, <1>3, <1>4 DEF IInv, Sequences, Steps, Setup, Registering
<1>9. Progress'
  <2>1. reg'.at = "field" => /\ reg'.n \in 1 .. Size(reg'.h)
                             /\ Enumerates(lists'[reg'.h], Order[reg'.h], reg'.n - 1, lost')
    BY <1>2, <1>3, <1>4, Registered, EnumEmpty
  <2>2. \A k \in DOMAIN lists : k <= h
    BY <1>1 DEF IInv, Progress, h
  <2>3. \A k \in Heads : \A n \in 1 .. Size(k) : <<Order[k], n>> \in lost' => PassedField(k, n, reg')
    BY <1>1, <1>5 DEF IInv, Progress
  <2> QED
    BY <1>1, <1>2, <1>3, <1>4, <2>1, <2>2, <2>3 DEF IInv, Progress, Registering
<1>10. Entries'
  BY <1>1, <1>4, <1>6 DEF IInv, Entries
<1>11. Writers'
  <2>1. ASSUME NEW w \in Writer
        PROVE  Knows(writer[w], pfs', lists', reg', lost')
    <3>1. Knows(writer[w], pfs, lists, reg, lost)
      BY DEF IInv, Writers
    <3>2. reg'.at \notin Ending /\ reg'.at \notin Setup
      BY <1>3 DEF Ending, Setup
    <3> QED
      BY <1>1, <1>4, <1>6, <3>1, <3>2, KnowsFrame
  <2> QED
    BY <1>1, <2>1 DEF Writers
<1>12. Destroying' /\ (NumbersFit /\ WantedFit => WithinSet)'
  BY <1>1, <1>3 DEF IInv, Destroying, WithinSet, NumbersFit, WantedFit
<1>13. (NumbersFit => AllEntered)'
  <2>1. ASSUME AllEntered PROVE AllEntered'
    BY <1>1, <1>3, <1>4, <2>1 DEF AllEntered
  <2> QED
    BY <2>1 DEF IInv, NumbersFit
<1> QED
  BY <1>7, <1>8, <1>9, <1>10, <1>11, <1>12, <1>13 DEF IInv

\* What is lost of the format that is being registered concerns no other.
LEMMA FieldKeeps ==
    ASSUME IInv, pfs_set_proto_info
    PROVE  IInv'
<1> DEFINE h == reg.h
           num == Order[reg.h]
           n == reg.n
           size == Size(reg.h)
           l == lists[reg.h]
<1>1. /\ reg.at = "field" /\ reg.at \in Registering /\ h \in DOMAIN lists
      /\ \A k \in DOMAIN lists : k <= h
      /\ n \in 1 .. size /\ Enumerates(l, num, n - 1, lost)
      /\ IsFiniteSet(lost)
      /\ \A k \in Heads : \A m \in 1 .. Size(k) : <<Order[k], m>> \in lost => PassedField(k, m, reg)
      /\ UNCHANGED <<pfs, array, writer, astray>>
  BY DEF IInv, Progress, pfs_set_proto_info, Registering
<1>2. /\ h \in Heads /\ h \in Nat /\ n \in Nat /\ reg \in RegType
      /\ reg.at \notin Setup \cup Ending
      /\ pfs.max = MaxNum /\ pfs.base = Base /\ pfs.mem = "zeroed"
      /\ DOMAIN lists \subseteq Heads
      /\ \A k \in DOMAIN lists : lists[k] \in Seq(STRING)
  BY <1>1, AtFormat
<1>3. /\ n \in Nat \ {0} /\ n <= size /\ size \in Nat /\ l \in Seq(STRING)
      /\ Formats[num][n] \in STRING
      /\ \A k \in Heads : k # h => Order[k] # num
  BY <1>1, <1>2, Registered
<1>4. \/ lists' = [lists EXCEPT ![h] = Append(l, Formats[num][n])] /\ lost' = lost
      \/ /\ lists' = lists /\ lost' = lost \cup {<<num, n>>}
         /\ Cardinality(lost) < MaxLost
  BY DEF pfs_set_proto_info
<1>5. reg' = IF n = size THEN [reg EXCEPT !.at = "add"] ELSE [reg EXCEPT !.n = n + 1]
  BY DEF pfs_set_proto_info, Size
<1>6. num = Order[h] /\ h = reg.h /\ n = reg.n /\ size = Size(h) /\ l = lists[h]
  OBVIOUS
<1> HIDE DEF h, num, n, size, l
<1>7. /\ reg' \in RegType /\ reg'.h = h
      /\ \/ n = size /\ reg'.at = "add"
         \/ n < size /\ reg'.at = "field" /\ reg'.n = n + 1
  <2>1. n + 1 \in Nat /\ (n = size \/ n < size)
    BY <1>3
  <2> QED
    BY <1>1, <1>2, <1>5, <1>6, <2>1 DEF RegType
<1>8. <<num, n>> \notin lost
  BY <1>1, <1>2, <1>3, <1>6 DEF PassedField, Passed
<1>9. /\ lists' \in [DOMAIN lists -> Seq(STRING)]
      /\ \A k \in DOMAIN lists \ {h} : lists'[k] = lists[k]
      /\ lists'[h] \in Seq(STRING) /\ Enumerates(lists'[h], num, n, lost')
  <2>1. CASE lists' = [lists EXCEPT ![h] = Append(l, Formats[num][n])] /\ lost' = lost
    <3> DEFINE e == Append(l, Formats[num][n])
    <3>1. e \in Seq(STRING) /\ Enumerates(e, num, n, lost)
      BY <1>1, <1>3, <1>8, EnumAppend
    <3>2. lists \in [DOMAIN lists -> Seq(STRING)]
      BY DEF IInv, Sequences
    <3> HIDE DEF e
    <3>3. lists' = [lists EXCEPT ![h] = e]
      BY <2>1 DEF e
    <3> QED
      BY <1>1, <2>1, <3>1, <3>2, <3>3
  <2>2. CASE lists' = lists /\ lost' = lost \cup {<<num, n>>}
    <3>1. Enumerates(l, num, n, lost')
      BY <1>1, <1>3, <2>2, EnumSkip
    <3> QED
      BY <1>3, <1>6, <2>2, <3>1 DEF IInv, Sequences
  <2> QED
    BY <1>4, <2>1, <2>2
<1>10. /\ IsFiniteSet(lost') /\ Cardinality(lost') <= MaxLost
       /\ \A k \in Heads : \A m : k # h => (<<Order[k], m>> \in lost' <=> <<Order[k], m>> \in lost)
       /\ \A m : <<num, m>> \in lost' => <<num, m>> \in lost \/ m = n
  <2>1. Cardinality(lost) <= MaxLost /\ Cardinality(lost) \in Nat /\ MaxLost \in Nat
    BY <1>1, SetAssumption, FS_CardinalityType DEF IInv, TypeOK
  <2>2. CASE lost' = lost
    BY <1>1, <2>1, <2>2
  <2>3. CASE lost' = lost \cup {<<num, n>>} /\ Cardinality(lost) < MaxLost
    <3>1. IsFiniteSet(lost \cup {<<num, n>>}) /\ Cardinality(lost \cup {<<num, n>>}) = Cardinality(lost) + 1
      BY <1>1, <1>8, FS_AddElement
    <3>2. IsFiniteSet(lost') /\ Cardinality(lost') <= MaxLost
      BY <2>1, <2>3, <3>1
    <3> QED
      BY <1>3, <2>3, <3>2
  <2> QED
    BY <1>4, <2>2, <2>3
<1>11. \A k \in Heads : \A m \in 1 .. Size(k) : PassedField(k, m, reg) => PassedField(k, m, reg')
  BY <1>1, <1>2, <1>3, <1>6, <1>7 DEF PassedField, Passed, Registering
<1>12. \A k \in Heads : Passed(k, reg) => Passed(k, reg') /\ k # h
  BY <1>1, <1>2, <1>6, <1>7 DEF Passed, Registering
<1>13. \A k \in Heads : \A m \in 1 .. Size(k) : <<Order[k], m>> \in lost' => PassedField(k, m, reg')
  <2>1. ASSUME NEW k \in Heads, NEW m \in 1 .. Size(k), <<Order[k], m>> \in lost'
        PROVE  PassedField(k, m, reg')
    <3>1. CASE <<Order[k], m>> \in lost
      BY <1>1, <1>11, <3>1
    <3>2. CASE k = h /\ m = n
      BY <1>3, <1>7, <3>2 DEF PassedField
    <3> QED
      BY <1>6, <1>10, <2>1, <3>1, <3>2
  <2> QED
    BY <2>1
<1>14. TypeOK'
  <2>1. reg' \in [at : {"base", "array", "memset", "max", "head", "field", "add",
                        "done", "destroy", "gone", "dead"}, h : 0 .. Len(Order) + 1, n : Nat]
    BY <1>7 DEF RegType
  <2>2. \A k \in DOMAIN lists' : Len(lists'[k]) <= Len(Formats[Order[k]])
    <3>1. \A k \in DOMAIN lists : Len(lists[k]) <= Len(Formats[Order[k]])
      BY DEF IInv, TypeOK
    <3>2. Len(lists'[h]) <= n /\ Len(lists'[h]) \in Nat
      BY <1>3, <1>9, EnumLen
    <3>3. Len(lists'[h]) <= Len(Formats[Order[h]])
      BY <1>3, <1>6, <3>2 DEF Size
    <3> QED
      BY <1>9, <3>1, <3>3
  <2>3. DOMAIN lists' \subseteq Heads
    BY <1>2, <1>9
  <2> QED
    BY <1>1, <1>10, <2>1, <2>2, <2>3 DEF IInv, TypeOK
<1>15. Sequences' /\ Steps'
  BY <1>1, <1>2, <1>7, <1>9 DEF IInv, Sequences, Steps, Setup, Registering
<1>16. Progress'
  <2>1. reg'.at = "field" => /\ reg'.n \in 1 .. Size(reg'.h)
                             /\ Enumerates(lists'[reg'.h], Order[reg'.h], reg'.n - 1, lost')
    <3>1. reg'.at = "field" => reg'.n - 1 = n
      BY <1>3, <1>7
    <3>2. reg'.at = "field" => reg'.n \in 1 .. size
      BY <1>3, <1>7
    <3> QED
      BY <1>6, <1>7, <1>9, <3>1, <3>2
  <2>2. reg'.at = "add" => Complete(lists'[reg'.h], reg'.h, lost')
    BY <1>6, <1>7, <1>9 DEF Complete
  <2>3. reg'.h \in Heads /\ reg'.at # "head" /\ reg'.h \in DOMAIN lists' /\ \A k \in DOMAIN lists' : k <= reg'.h
    BY <1>1, <1>2, <1>7, <1>9
  <2> QED
    BY <1>10, <1>13, <2>1, <2>2, <2>3 DEF Progress
<1>17. \A k \in Heads \ {h} : \A s : Complete(s, k, lost) => Complete(s, k, lost')
  BY <1>10, EnumFrame DEF Complete
<1>18. Entries'
  <2>1. ASSUME NEW i \in DOMAIN array
        PROVE  /\ i \in 0 .. MaxNum - 1 /\ array[i] \in DOMAIN lists'
               /\ i = Index(Order[array[i]])
               /\ Passed(array[i], reg')
               /\ Complete(lists'[array[i]], array[i], lost')
    <3> DEFINE k == array[i]
    <3>1. /\ i \in 0 .. MaxNum - 1 /\ k \in DOMAIN lists
          /\ i = Index(Order[k])
          /\ Passed(k, reg) /\ Complete(lists[k], k, lost)
      BY DEF IInv, Entries
    <3> HIDE DEF k
    <3>2. k \in Heads /\ k # h /\ Passed(k, reg')
      BY <1>2, <1>12, <3>1
    <3>3. lists'[k] = lists[k] /\ k \in DOMAIN lists' /\ Complete(lists[k], k, lost')
      BY <1>9, <1>17, <3>1, <3>2
    <3> QED
      BY <3>1, <3>2, <3>3 DEF k
  <2> QED
    BY <1>1, <2>1 DEF Entries
<1>19. Writers'
  <2>1. ASSUME NEW w \in Writer
        PROVE  Knows(writer[w], pfs', lists', reg', lost')
    <3>1. Knows(writer[w], pfs, lists, reg, lost)
      BY DEF IInv, Writers
    <3>2. reg'.at \notin Ending /\ reg'.at \notin Setup
      BY <1>7 DEF Ending, Setup
    <3>3. \A k \in Heads : Passed(k, reg) =>
            /\ Passed(k, reg')
            /\ \A m \in 1 .. Size(k) : <<Order[k], m>> \in lost' <=> <<Order[k], m>> \in lost
      BY <1>10, <1>12
    <3>4. \A k \in Heads \cap DOMAIN lists : Passed(k, reg) => k \in DOMAIN lists' /\ lists'[k] = lists[k]
      BY <1>9, <1>12
    <3> QED
      BY <1>1, <3>1, <3>2, <3>3, <3>4, KnowsFrame
  <2> QED
    BY <1>1, <2>1 DEF Writers
<1>20. Destroying' /\ (NumbersFit /\ WantedFit => WithinSet)'
  BY <1>1, <1>7 DEF IInv, Destroying, WithinSet, NumbersFit, WantedFit
<1>21. (NumbersFit => AllEntered)'
  <2>1. ASSUME AllEntered PROVE AllEntered'
    BY <1>1, <1>6, <1>7, <1>9, <2>1 DEF AllEntered
  <2> QED
    BY <2>1 DEF IInv, NumbersFit
<1> QED
  BY <1>14, <1>15, <1>16, <1>18, <1>19, <1>20, <1>21 DEF IInv

\* A list is entered when it is complete, at an index of its own.
LEMMA AddKeeps ==
    ASSUME IInv, pfs_add_proto_link_list
    PROVE  IInv'
<1> DEFINE h == reg.h
           i == Index(Order[reg.h])
<1>1. /\ reg.at = "add" /\ reg.at \in Registering /\ h \in DOMAIN lists
      /\ \A k \in DOMAIN lists : k <= h
      /\ Complete(lists[h], h, lost)
      /\ UNCHANGED <<pfs, lists, writer, lost>>
  BY DEF IInv, Progress, pfs_add_proto_link_list, Registering
<1>2. /\ h \in Heads /\ h \in Nat /\ reg \in RegType
      /\ reg.at \notin Setup \cup Ending
      /\ pfs.max = MaxNum /\ pfs.base = Base /\ pfs.mem = "zeroed"
      /\ DOMAIN lists \subseteq Heads
  BY <1>1, AtFormat
<1>3. \/ UNCHANGED <<array, astray>> /\ (NumbersFit => FALSE)
      \/ i < MaxNum /\ array' = With(array, i, h) /\ astray' = astray
      \/ astray' = astray \cup {"beyond"} /\ array' = array /\ (NumbersFit => FALSE)
  <2>1. NumbersFit => i < MaxNum /\ i <= MaxProtocolNum
    BY <1>2, Registered DEF NumbersFit
  <2>2. i \in Nat /\ MaxNum \in Nat /\ MaxProtocolNum \in Nat
    BY <1>2, Registered, SetAssumption
  <2> QED
    BY <2>1, <2>2 DEF pfs_add_proto_link_list
<1>4. reg' = [at |-> IF h = Len(Order) THEN "done" ELSE "head", h |-> h + 1, n |-> 0]
  BY DEF pfs_add_proto_link_list, NextFormat
<1>5. /\ i \in Nat /\ i = Index(Order[h])
      /\ \A k \in Heads : k # h => Index(Order[k]) # i
  <2>1. \A k \in Heads : k # h => Order[k] # Order[h] /\ Order[k] \in Nat /\ Order[h] \in Nat
    BY <1>2, Registered
  <2>2. Base \in Nat
    BY SetAssumption
  <2> QED
    BY <1>2, <2>1, <2>2, Registered DEF Index
<1>6. h = reg.h
  OBVIOUS
<1> HIDE DEF h, i
<1>7. /\ reg' \in RegType /\ reg'.h = h + 1
      /\ \/ reg'.at = "done"
         \/ reg'.at = "head" /\ h + 1 \in Heads
  <2>1. h + 1 \in 0 .. Len(Order) + 1 /\ (h # Len(Order) => h + 1 \in Heads)
    BY <1>2, Registered
  <2> QED
    BY <1>4, <2>1 DEF RegType
<1>8. \A k \in Heads : Passed(k, reg) => Passed(k, reg')
  BY <1>1, <1>2, <1>6, <1>7, Registered DEF Passed, Registering
<1>9. Passed(h, reg')
  BY <1>2, <1>7 DEF Passed
<1>10. \A k \in Heads : \A n : PassedField(k, n, reg) => PassedField(k, n, reg')
  BY <1>1, <1>6, <1>8, <1>9 DEF PassedField
<1>11. /\ DOMAIN array' \subseteq DOMAIN array \cup {i}
       /\ \A j \in DOMAIN array : j # i => j \in DOMAIN array' /\ array'[j] = array[j]
       /\ i \in DOMAIN array' =>
            \/ i < MaxNum /\ array'[i] = h
            \/ i \in DOMAIN array /\ array'[i] = array[i]
       /\ NumbersFit => i \in DOMAIN array' /\ array'[i] = h
  <2>1. CASE array' = array /\ (NumbersFit => FALSE)
    BY <2>1
  <2>2. CASE i < MaxNum /\ array' = With(array, i, h)
    BY <2>2 DEF With
  <2> QED
    BY <1>3, <2>1, <2>2
<1>12. TypeOK'
  <2>1. reg' \in [at : {"base", "array", "memset", "max", "head", "field", "add",
                        "done", "destroy", "gone", "dead"}, h : 0 .. Len(Order) + 1, n : Nat]
    BY <1>7 DEF RegType
  <2>2. DOMAIN array' \subseteq 0 .. MaxNum - 1 /\ \A j \in DOMAIN array' : array'[j] \in Heads
    <3>1. DOMAIN array \subseteq 0 .. MaxNum - 1 /\ \A j \in DOMAIN array : array[j] \in Heads
      BY DEF IInv, TypeOK
    <3>2. i < MaxNum => i \in 0 .. MaxNum - 1
      BY <1>5, SetAssumption
    <3> QED
      BY <1>2, <1>11, <3>1, <3>2
  <2>3. astray' \subseteq {"beyond", "raw", "null", "freed"}
    BY <1>3 DEF IInv, TypeOK
  <2> QED
    BY <1>1, <2>1, <2>2, <2>3 DEF IInv, TypeOK
<1>13. Sequences' /\ Steps'
  BY <1>1, <1>2, <1>7 DEF IInv, Sequences, Steps, Setup, Registering
<1>14. Progress'
  <2>1. reg'.at = "head" => /\ reg'.h \in Heads /\ reg'.h \notin DOMAIN lists
                            /\ \A k \in DOMAIN lists : k <= reg'.h
    BY <1>1, <1>2, <1>7, Registered
  <2>2. reg'.at \in Registering => reg'.at = "head"
    BY <1>7 DEF Registering
  <2>3. \A k \in Heads : \A n \in 1 .. Size(k) : <<Order[k], n>> \in lost' => PassedField(k, n, reg')
    BY <1>1, <1>10 DEF IInv, Progress
  <2>4. IsFiniteSet(lost)
    BY DEF IInv, Progress
  <2> QED
    BY <1>1, <1>7, <2>1, <2>2, <2>3, <2>4 DEF Progress
<1>15. Entries'
  <2>1. ASSUME NEW j \in DOMAIN array'
        PROVE  /\ j \in 0 .. MaxNum - 1 /\ array'[j] \in DOMAIN lists
               /\ j = Index(Order[array'[j]])
               /\ Passed(array'[j], reg')
               /\ Complete(lists[array'[j]], array'[j], lost)
    <3>1. CASE j \in DOMAIN array /\ array'[j] = array[j]
      <4>1. /\ j \in 0 .. MaxNum - 1 /\ array[j] \in DOMAIN lists
            /\ j = Index(Order[array[j]])
            /\ Passed(array[j], reg)
            /\ Complete(lists[array[j]], array[j], lost)
        BY <3>1 DEF IInv, Entries
      <4> QED
        BY <1>2, <1>8, <3>1, <4>1
    <3>2. CASE j = i /\ i < MaxNum /\ array'[i] = h
      <4>1. i \in 0 .. MaxNum - 1
        BY <1>5, <3>2, SetAssumption
      <4> QED
        BY <1>1, <1>5, <1>9, <3>2, <4>1
    <3> QED
      BY <1>11, <2>1, <3>1, <3>2
  <2> QED
    BY <1>1, <2>1 DEF Entries
<1>16. Writers'
  <2>1. ASSUME NEW w \in Writer
        PROVE  Knows(writer[w], pfs', lists', reg', lost')
    <3>1. Knows(writer[w], pfs, lists, reg, lost)
      BY DEF IInv, Writers
    <3>2. reg'.at \notin Ending /\ reg'.at \notin Setup
      BY <1>7 DEF Ending, Setup
    <3> QED
      BY <1>1, <1>8, <3>1, <3>2, KnowsFrame
  <2> QED
    BY <1>1, <2>1 DEF Writers
<1>17. Destroying'
  BY <1>7 DEF Destroying
<1>18. (NumbersFit /\ WantedFit => WithinSet)'
  BY <1>3 DEF IInv, WithinSet, NumbersFit, WantedFit
<1>19. (NumbersFit => AllEntered)'
  <2>1. ASSUME NumbersFit, AllEntered PROVE AllEntered'
    <3>1. ASSUME NEW k \in DOMAIN lists
          PROVE  \/ reg'.at = "dead"
                 \/ Index(Order[k]) \in DOMAIN array' /\ array'[Index(Order[k])] = k
      <4>1. CASE k = h
        BY <1>5, <1>11, <2>1, <4>1
      <4>2. CASE k # h
        <5>1. Index(Order[k]) \in DOMAIN array /\ array[Index(Order[k])] = k
          BY <1>1, <1>6, <2>1, <4>2 DEF AllEntered
        <5>2. Index(Order[k]) # i
          BY <1>2, <1>5, <4>2
        <5> QED
          BY <1>11, <5>1, <5>2
      <4> QED
        BY <4>1, <4>2
    <3> QED
      BY <1>1, <3>1 DEF AllEntered
  <2> QED
    BY <2>1 DEF IInv, NumbersFit
<1> QED
  BY <1>12, <1>13, <1>14, <1>15, <1>16, <1>17, <1>18, <1>19 DEF IInv

(***************************************************************************)
(* pa_init_protocol_analyzer and pfs_destroy_protocol_format_set           *)
(***************************************************************************)

\* A writer changes nothing but what it knows.
LEMMA UseFrame ==
    ASSUME IInv, NEW w \in Writer, NEW r \in WriterType, SetWriter(w, r),
           r.num \in Wanted \cup {Base}, r.src \in Heads \cup {0},
           Knows(r, pfs, lists, reg, lost),
           astray' \subseteq {"beyond", "raw", "null", "freed"},
           NumbersFit /\ WantedFit => astray' = astray
    PROVE  IInv'
<1>1. writer' = [writer EXCEPT ![w] = r] /\ UNCHANGED <<pfs, array, lists, reg, lost>>
  BY DEF SetWriter
<1>2. writer \in [Writer -> WriterType]
  BY DEF IInv, Sequences
<1>3. /\ writer' \in [Writer -> WriterType]
      /\ \A v \in Writer : writer'[v] = IF v = w THEN r ELSE writer[v]
  BY <1>1, <1>2
<1>4. TypeOK'
  BY <1>1, <1>3 DEF IInv, TypeOK, WriterType
<1>5. Sequences'
  BY <1>1, <1>3 DEF IInv, Sequences
<1>6. Steps' /\ Progress' /\ Entries' /\ Destroying' /\ (NumbersFit => AllEntered)'
  BY <1>1 DEF IInv, Steps, Progress, Entries, Destroying, AllEntered, NumbersFit
<1>7. Writers'
  BY <1>1, <1>3 DEF IInv, Writers
<1>8. (NumbersFit /\ WantedFit => WithinSet)'
  BY DEF IInv, WithinSet, NumbersFit, WantedFit
<1> QED
  BY <1>4, <1>5, <1>6, <1>7, <1>8 DEF IInv

LEMMA UseKeeps ==
    ASSUME IInv, NEW w \in Writer, Use(w)
    PROVE  IInv'
<1> DEFINE c == writer[w]
<1>1. /\ c \in WriterType
      /\ c.num \in Wanted \cup {Base} /\ c.src \in Heads \cup {0}
      /\ Knows(c, pfs, lists, reg, lost)
      /\ astray \subseteq {"beyond", "raw", "null", "freed"}
      /\ pfs.max \in {0, MaxNum} /\ pfs.base \in {0, Base} /\ pfs.mem \in {"null", "raw", "zeroed", "freed"}
  BY DEF IInv, TypeOK, Sequences, Writers
<1>2. Base \in Nat /\ MaxNum \in Nat \ {0} /\ Wanted \subseteq Nat
  BY SetAssumption, FormatsAssumption
<1>3. Heads \subseteq Nat
  BY Registered
<1>4. CASE \E num \in Wanted : pa_check_protocol_num(w, num)
  <2>1. PICK num \in Wanted : pa_check_protocol_num(w, num)
    BY <1>4
  <2> DEFINE r == [Idle EXCEPT !.num = num,
                               !.at = IF num > pfs.base + pfs.max \/ num < pfs.base
                                      THEN "failed" ELSE "read"]
  <2>2. SetWriter(w, r) /\ astray' = astray /\ reg.at \notin Ending
    BY <2>1 DEF pa_check_protocol_num, Ending
  <2>3. /\ r \in WriterType /\ r.at \in {"failed", "read"} /\ r.num = num /\ r.src = 0 /\ r.copy = <<>>
        /\ r.at = "read" => num <= pfs.base + pfs.max /\ num >= pfs.base
    <3> DEFINE a == IF num > pfs.base + pfs.max \/ num < pfs.base THEN "failed" ELSE "read"
    <3>1. /\ a \in {"failed", "read"}
          /\ a = "read" => num <= pfs.base + pfs.max /\ num >= pfs.base
      BY <1>1, <1>2
    <3>2. Idle \in WriterType /\ Idle.src = 0 /\ Idle.copy = <<>> /\ num \in Nat
      BY <1>2 DEF Idle, WriterType
    <3>3. r = [Idle EXCEPT !.num = num, !.at = a]
      OBVIOUS
    <3> HIDE DEF a, r
    <3> QED
      BY <3>1, <3>2, <3>3 DEF WriterType
  <2>4. r.at = "read" /\ WantedFit => pfs.max = MaxNum /\ num > Base /\ num < Base + MaxNum
    <3>1. pfs.max = MaxNum => pfs.base = Base
      BY DEF IInv, Steps
    <3>2. WantedFit => num # 0 /\ num # Base /\ num # Base + MaxNum
      BY DEF WantedFit
    <3> HIDE DEF r
    <3>3. num \in Nat
      BY <1>2
    <3> QED
      BY <1>1, <1>2, <2>3, <3>1, <3>2, <3>3
  <2> HIDE DEF r
  <2>5. Knows(r, pfs, lists, reg, lost)
    BY <2>2, <2>3, <2>4 DEF Knows
  <2> QED
    BY <1>1, <2>2, <2>3, <2>5, UseFrame
<1>5. CASE pa_find_protocol_format(w)
  <2> DEFINE i == c.num - pfs.base
             wrong == IF pfs.mem # "zeroed" THEN {pfs.mem}
                      ELSE IF i >= MaxNum THEN {"beyond"} ELSE {}
             r == IF wrong # {} THEN [c EXCEPT !.at = "fault"]
                  ELSE IF i \in DOMAIN array
                  THEN [c EXCEPT !.at = "copy", !.src = array[i]]
                  ELSE [c EXCEPT !.at = "failed"]
  <2>1. c.at = "read" /\ SetWriter(w, r) /\ astray' = astray \cup wrong
    BY <1>5 DEF pa_find_protocol_format
  <2>2. wrong \subseteq {"beyond", "raw", "null", "freed"}
    BY <1>1
  <2>3. /\ reg.at \notin Ending /\ c.num \in Wanted /\ c.copy = <<>> /\ c.num \in Nat
        /\ WantedFit => pfs.max = MaxNum /\ c.num > Base /\ c.num < Base + MaxNum
    BY <1>1, <1>2, <2>1 DEF Knows
  <2>4. WantedFit => wrong = {}
    <3>1. reg.at # "gone"
      BY <2>3 DEF Ending
    <3>2. pfs.max = MaxNum => pfs.base = Base /\ pfs.mem = "zeroed"
      BY <3>1 DEF IInv, Steps
    <3> HIDE DEF c
    <3> QED
      BY <1>2, <2>3, <3>2
  <2>5. i \in DOMAIN array =>
          /\ reg.at \notin Setup /\ array[i] \in Heads /\ array[i] \in DOMAIN lists
          /\ Order[array[i]] = c.num /\ Passed(array[i], reg)
          /\ Complete(lists[array[i]], array[i], lost)
          /\ lists[array[i]] \in Seq(STRING)
    <3> HIDE DEF c, wrong, r
    <3>1. ASSUME i \in DOMAIN array
          PROVE  /\ reg.at \notin Setup /\ array[i] \in Heads /\ array[i] \in DOMAIN lists
                 /\ i = Index(Order[array[i]]) /\ Passed(array[i], reg)
                 /\ Complete(lists[array[i]], array[i], lost)
                 /\ lists[array[i]] \in Seq(STRING)
      <4> HIDE DEF i
      <4> QED
        BY <3>1 DEF IInv, Entries, Steps, TypeOK, Sequences
    <3>2. i \in DOMAIN array => pfs.base = Base
      BY <3>1 DEF IInv, Steps, Setup
    <3>3. i \in DOMAIN array => Order[array[i]] \in Nat
      BY <3>1, Registered
    <3>4. i \in DOMAIN array => Order[array[i]] = c.num
      BY <1>2, <2>3, <3>1, <3>2, <3>3 DEF Index
    <3> QED
      BY <3>1, <3>4
  <2> HIDE DEF c, i, wrong
  <2>6. \/ r = [c EXCEPT !.at = "fault"]
        \/ r = [c EXCEPT !.at = "copy", !.src = array[i]] /\ i \in DOMAIN array
        \/ r = [c EXCEPT !.at = "failed"]
    OBVIOUS
  <2> HIDE DEF r
  <2>7. /\ r \in WriterType /\ r.at \in {"fault", "failed", "copy"}
        /\ r.num = c.num /\ r.copy = c.copy /\ r.src \in Heads \cup {0}
        /\ r.at = "copy" => i \in DOMAIN array /\ r.src = array[i]
    BY ZenonT(30), <1>1, <1>3, <2>5, <2>6 DEF WriterType
  <2>8. Knows(r, pfs, lists, reg, lost)
    <3>1. \A k \in 1 .. Len(<<>>) : FALSE
      OBVIOUS
    <3>2. r.at = "copy" => /\ Len(r.copy) <= Len(lists[r.src])
                           /\ \A k \in 1 .. Len(r.copy) : r.copy[k] = lists[r.src][k]
      BY <2>3, <2>5, <2>7, <3>1
    <3> QED
      BY <2>3, <2>5, <2>7, <3>2 DEF Knows
  <2> QED
    BY <1>1, <2>1, <2>2, <2>3, <2>4, <2>7, <2>8, UseFrame
<1>6. CASE pa_copy_protocol_format(w)
  <2>1. c.at = "copy"
    BY <1>6 DEF pa_copy_protocol_format
  <2>2. /\ reg.at \notin Ending \cup Setup /\ c.num \in Wanted /\ c.src \in Heads /\ c.src \in DOMAIN lists
        /\ Order[c.src] = c.num /\ Passed(c.src, reg)
        /\ Complete(lists[c.src], c.src, lost)
        /\ Len(c.copy) <= Len(lists[c.src])
        /\ \A k \in 1 .. Len(c.copy) : c.copy[k] = lists[c.src][k]
    BY <1>1, <2>1 DEF Knows
  <2> DEFINE n == Len(c.copy) + 1
             l == lists[c.src]
  <2>3. /\ astray' = astray
        /\ \/ n > Len(l) /\ SetWriter(w, [c EXCEPT !.at = "ready"])
           \/ n <= Len(l) /\ SetWriter(w, [c EXCEPT !.copy = Append(@, l[n])])
           \/ SetWriter(w, [c EXCEPT !.at = "fault"])
    <3>1. l \in Seq(STRING) /\ c.copy \in Seq(STRING)
      BY <1>1, <2>2 DEF IInv, Sequences, WriterType
    <3>2. n \in Nat /\ Len(l) \in Nat
      BY <3>1
    <3> QED
      BY <1>6, <2>2, <3>2 DEF pa_copy_protocol_format
  <2>4. l \in Seq(STRING) /\ c.copy \in Seq(STRING)
    BY <1>1, <2>2 DEF IInv, Sequences, WriterType
  <2> HIDE DEF c
  <2>5. CASE n > Len(l) /\ SetWriter(w, [c EXCEPT !.at = "ready"])
    <3> DEFINE r == [c EXCEPT !.at = "ready"]
    <3>1. r \in WriterType /\ r.at = "ready" /\ r.num = c.num /\ r.src = c.src /\ r.copy = c.copy
      BY <1>1 DEF WriterType
    <3>2. SetWriter(w, r)
      BY <2>5
    <3> HIDE DEF r
    <3>3. c.copy = l
      BY <2>2, <2>4, <2>5
    <3>4. Knows(r, pfs, lists, reg, lost)
      BY <2>2, <3>1, <3>3 DEF Knows
    <3> QED
      BY <1>1, <2>3, <3>1, <3>2, <3>4, UseFrame
  <2>6. CASE n <= Len(l) /\ SetWriter(w, [c EXCEPT !.copy = Append(@, l[n])])
    <3> DEFINE e == Append(c.copy, l[n])
               r == [c EXCEPT !.copy = e]
    <3>1. /\ e \in Seq(STRING) /\ Len(e) <= Len(l)
          /\ \A k \in 1 .. Len(e) : e[k] = l[k]
      <4>1. l[n] \in STRING /\ Len(c.copy) \in Nat
        BY <2>4, <2>6
      <4>2. /\ Len(e) = n /\ e \in Seq(STRING) /\ e[n] = l[n]
            /\ \A k \in 1 .. Len(c.copy) : e[k] = c.copy[k]
        BY <2>4, <4>1
      <4> HIDE DEF e
      <4> QED
        BY <2>2, <2>6, <4>1, <4>2
    <3>2. SetWriter(w, r)
      BY <2>6
    <3> HIDE DEF e
    <3>3. r \in WriterType /\ r.at = "copy" /\ r.num = c.num /\ r.src = c.src /\ r.copy = e
      BY <1>1, <2>1, <3>1 DEF WriterType
    <3> HIDE DEF r
    <3>4. Knows(r, pfs, lists, reg, lost)
      BY <2>2, <3>1, <3>3 DEF Knows
    <3> QED
      BY <1>1, <2>3, <3>3, <3>2, <3>4, UseFrame
  <2>7. CASE SetWriter(w, [c EXCEPT !.at = "fault"])
    <3> DEFINE r == [c EXCEPT !.at = "fault"]
    <3>1. r \in WriterType /\ r.at = "fault" /\ r.num = c.num /\ r.src = c.src
      BY <1>1 DEF WriterType
    <3>2. SetWriter(w, r)
      BY <2>7
    <3> HIDE DEF r
    <3>3. Knows(r, pfs, lists, reg, lost)
      BY <3>1 DEF Knows
    <3> QED
      BY <1>1, <2>3, <3>1, <3>2, <3>3, UseFrame
  <2> QED
    BY <2>3, <2>5, <2>6, <2>7
<1>7. CASE pa_destroy_protocol_analyzer(w)
  <2>1. SetWriter(w, Idle) /\ astray' = astray
    BY <1>7 DEF pa_destroy_protocol_analyzer
  <2>2. Idle \in WriterType /\ Idle.at = "idle" /\ Idle.num = Base /\ Idle.src = 0
    BY <1>2 DEF Idle, WriterType
  <2>3. Knows(Idle, pfs, lists, reg, lost)
    BY <2>2 DEF Knows
  <2> QED
    BY <1>1, <2>1, <2>2, <2>3, UseFrame
<1> QED
  BY <1>4, <1>5, <1>6, <1>7 DEF Use

\* pfs_destroy_protocol_format_set starts when nobody reads the set.
LEMMA StartKeeps ==
    ASSUME IInv, DestroyStart
    PROVE  IInv'
<1>1. /\ reg.at = "done" /\ UNCHANGED <<pfs, array, lists, writer, lost, astray>>
      /\ \A w \in Writer : writer[w].at \notin {"read", "copy"}
      /\ reg' = [at |-> "destroy", h |-> 0, n |-> 0]
  BY DEF DestroyStart
<1>2. reg'.at = "destroy" /\ reg'.h = 0 /\ reg'.n = 0
  BY <1>1
<1>3. \A k : Passed(k, reg')
  BY <1>2 DEF Passed, Registering
<1>4. reg' \in RegType
  BY <1>1, Registered DEF RegType
<1>5. TypeOK' /\ Sequences' /\ Steps'
  BY <1>1, <1>2, <1>4 DEF IInv, TypeOK, Sequences, Steps, RegType, Setup, Registering
<1>6. Progress' /\ Entries'
  BY <1>1, <1>2, <1>3 DEF IInv, Progress, Entries, PassedField, Registering
<1>7. Writers'
  <2>1. ASSUME NEW w \in Writer
        PROVE  Knows(writer[w], pfs', lists', reg', lost')
    <3>1. Knows(writer[w], pfs, lists, reg, lost) /\ writer[w].at \notin {"read", "copy"}
      BY <1>1 DEF IInv, Writers
    <3>2. reg'.at \notin Setup
      BY <1>2 DEF Setup
    <3> QED
      BY <1>1, <1>3, <3>1, <3>2, KnowsFrame
  <2> QED
    BY <1>1, <2>1 DEF Writers
<1>8. Destroying'
  <2>1. \A i \in DOMAIN array : i >= 0
    BY SetAssumption DEF IInv, Entries
  <2> QED
    BY <1>1, <1>2, <2>1 DEF Destroying
<1>9. (NumbersFit => AllEntered)' /\ (NumbersFit /\ WantedFit => WithinSet)'
  BY <1>1, <1>2 DEF IInv, AllEntered, WithinSet, NumbersFit, WantedFit
<1> QED
  BY <1>5, <1>6, <1>7, <1>8, <1>9 DEF IInv

\* Every head is reached, and no other format has the list that it frees.
LEMMA IndexKeeps ==
    ASSUME IInv, DestroyIndex
    PROVE  IInv'
<1> DEFINE n == reg.n
           k == array[reg.n]
<1>1. /\ reg.at = "destroy" /\ n < pfs.max /\ UNCHANGED <<pfs, writer, lost, astray>>
      /\ \A i \in DOMAIN array : i >= n
      /\ pfs.max = MaxNum /\ pfs.base = Base /\ pfs.mem = "zeroed"
      /\ \A w \in Writer : writer[w].at \notin {"read", "copy"}
      /\ reg \in RegType /\ n \in Nat
  <2>1. reg.at = "destroy" /\ n < pfs.max /\ UNCHANGED <<pfs, writer, lost, astray>>
    BY DEF DestroyIndex
  <2>2. \A i \in DOMAIN array : i >= n
    BY <2>1 DEF IInv, Destroying
  <2>3. pfs.max = MaxNum /\ pfs.base = Base /\ pfs.mem = "zeroed"
    BY <2>1 DEF IInv, Steps
  <2>4. \A w \in Writer : writer[w].at \notin {"read", "copy"}
    BY <2>1 DEF IInv, Writers, Knows, Ending
  <2>5. reg \in RegType
    BY DEF IInv, TypeOK, RegType
  <2> QED
    BY <2>1, <2>2, <2>3, <2>4, <2>5 DEF RegType
<1>2. /\ n \in DOMAIN array => lists' = Without(lists, k) /\ array' = Without(array, n)
      /\ n \notin DOMAIN array => lists' = lists /\ array' = array
  BY DEF DestroyIndex, pfs_del_list_for_each
<1>3. reg' = [reg EXCEPT !.n = (n + 1) % 256]
  BY DEF DestroyIndex
<1>4. k = array[n] /\ n = reg.n
  OBVIOUS
<1> HIDE DEF n, k
<1>5. (n + 1) % 256 \in Nat /\ (n + 1) % 256 <= n + 1
  BY <1>1
<1>6. reg' \in RegType /\ reg'.at = "destroy" /\ reg'.n = (n + 1) % 256
  BY <1>1, <1>3, <1>5 DEF RegType
<1>7. /\ n \notin DOMAIN array'
      /\ DOMAIN array' \subseteq DOMAIN array /\ \A i \in DOMAIN array' : array'[i] = array[i]
      /\ \A i \in DOMAIN array \ {n} : i \in DOMAIN array'
      /\ DOMAIN lists' \subseteq DOMAIN lists /\ \A h \in DOMAIN lists' : lists'[h] = lists[h]
      /\ \A h \in DOMAIN lists \ {k} : h \in DOMAIN lists'
      /\ n \in DOMAIN array => k \notin DOMAIN lists'
      /\ n \notin DOMAIN array => DOMAIN lists' = DOMAIN lists
      /\ lists' = [h \in DOMAIN lists' |-> lists'[h]]
  <2>1. CASE n \in DOMAIN array
    BY <1>2, <2>1 DEF Without
  <2>2. CASE n \notin DOMAIN array
    BY <1>2, <2>2 DEF IInv, Sequences
  <2> QED
    BY <2>1, <2>2
<1>8. \A i \in DOMAIN array : /\ i \in 0 .. MaxNum - 1 /\ array[i] \in DOMAIN lists
                              /\ i = Index(Order[array[i]])
                              /\ Complete(lists[array[i]], array[i], lost)
  BY DEF IInv, Entries
<1>9. \A h : Passed(h, reg')
  BY <1>6 DEF Passed, Registering
<1>10. TypeOK' /\ Sequences' /\ Steps'
  <2>1. TypeOK'
    BY <1>1, <1>6, <1>7 DEF IInv, TypeOK, RegType
  <2>2. Sequences'
    <3>1. \A h \in DOMAIN lists' : lists'[h] \in Seq(STRING)
      BY <1>7 DEF IInv, Sequences
    <3> QED
      BY <1>1, <1>7, <3>1 DEF IInv, Sequences
  <2>3. Steps'
    BY <1>1, <1>6 DEF Steps, Setup, Registering
  <2> QED
    BY <2>1, <2>2, <2>3
<1>11. Progress'
  BY <1>1, <1>6, <1>9 DEF IInv, Progress, PassedField, Registering
<1>12. Entries'
  <2>1. ASSUME NEW i \in DOMAIN array'
        PROVE  /\ i \in 0 .. MaxNum - 1 /\ array'[i] \in DOMAIN lists'
               /\ i = Index(Order[array'[i]])
               /\ Passed(array'[i], reg')
               /\ Complete(lists'[array'[i]], array'[i], lost)
    <3>1. i \in DOMAIN array /\ i # n /\ array'[i] = array[i]
      BY <1>7
    <3>2. n \in DOMAIN array => array[i] # k
      BY <1>4, <1>8, <3>1
    <3>3. array[i] \in DOMAIN lists'
      BY <1>7, <1>8, <3>1, <3>2
    <3> QED
      BY <1>7, <1>8, <1>9, <3>1, <3>3
  <2> QED
    BY <1>1, <2>1 DEF Entries
<1>13. Writers'
  <2>1. ASSUME NEW w \in Writer
        PROVE  Knows(writer[w], pfs', lists', reg', lost')
    <3>1. Knows(writer[w], pfs, lists, reg, lost) /\ writer[w].at \notin {"read", "copy"}
      BY <1>1 DEF IInv, Writers
    <3>2. reg'.at \notin Setup
      BY <1>6 DEF Setup
    <3> QED
      BY <1>1, <1>9, <3>1, <3>2, KnowsFrame
  <2> QED
    BY <1>1, <2>1 DEF Writers
<1>14. Destroying'
  <2>1. ASSUME NEW i \in DOMAIN array'
        PROVE  i >= reg'.n
    <3>1. i >= n /\ i # n /\ i \in Int
      BY <1>1, <1>7, <1>8, SetAssumption
    <3> QED
      BY <1>1, <1>5, <1>6, <3>1
  <2> QED
    BY <1>6, <2>1 DEF Destroying
<1>15. (NumbersFit => AllEntered)'
  <2>1. ASSUME AllEntered PROVE AllEntered'
    <3>1. ASSUME NEW h \in DOMAIN lists'
          PROVE  Index(Order[h]) \in DOMAIN array' /\ array'[Index(Order[h])] = h
      <4>1. Index(Order[h]) \in DOMAIN array /\ array[Index(Order[h])] = h
        BY <1>1, <1>7, <2>1 DEF AllEntered
      <4>2. Index(Order[h]) # n
        BY <1>4, <1>7, <4>1
      <4> QED
        BY <1>7, <4>1, <4>2
    <3> QED
      BY <3>1 DEF AllEntered
  <2> QED
    BY <2>1 DEF IInv, NumbersFit
<1>16. (NumbersFit /\ WantedFit => WithinSet)'
  BY <1>1 DEF IInv, WithinSet, NumbersFit, WantedFit
<1> QED
  BY <1>10, <1>11, <1>12, <1>13, <1>14, <1>15, <1>16 DEF IInv

LEMMA EndKeeps ==
    ASSUME IInv, DestroyEnd
    PROVE  IInv'
<1>1. /\ reg.at = "destroy" /\ reg.n >= pfs.max /\ UNCHANGED <<array, lists, writer, lost, astray>>
      /\ pfs' = [pfs EXCEPT !.mem = "freed"] /\ reg' = [reg EXCEPT !.at = "gone"]
  BY DEF DestroyEnd, Goto
<1>2. /\ pfs.max = MaxNum /\ pfs.base = Base /\ reg \in RegType
      /\ pfs \in [base : {0, Base}, max : {0, MaxNum}, mem : {"null", "raw", "zeroed", "freed"}]
  BY <1>1 DEF IInv, Steps, TypeOK, RegType
<1>3. /\ reg' \in RegType /\ reg'.at = "gone" /\ reg'.h = reg.h /\ reg'.n = reg.n
      /\ pfs'.max = MaxNum /\ pfs'.base = Base /\ pfs'.mem = "freed"
      /\ pfs' \in [base : {0, Base}, max : {0, MaxNum}, mem : {"null", "raw", "zeroed", "freed"}]
  BY <1>1, <1>2 DEF RegType
<1>4. DOMAIN array = {}
  <2>1. \A i \in DOMAIN array : i >= reg.n /\ i \in 0 .. MaxNum - 1
    BY <1>1 DEF IInv, Destroying, Entries
  <2>2. reg.n \in Nat /\ reg.n >= MaxNum /\ MaxNum \in Nat
    BY <1>1, <1>2, SetAssumption DEF RegType
  <2>3. ASSUME NEW i \in DOMAIN array PROVE FALSE
    <3>1. i >= reg.n /\ i \in 0 .. MaxNum - 1
      BY <2>1
    <3> QED
      BY <2>2, <3>1
  <2> QED
    BY <2>3
<1>5. TypeOK' /\ Sequences' /\ Steps'
  BY <1>1, <1>3 DEF IInv, TypeOK, Sequences, Steps, RegType, Setup, Registering
<1>6. Progress' /\ Entries' /\ Destroying'
  BY <1>1, <1>3, <1>4 DEF IInv, Progress, Entries, Destroying, PassedField, Passed, Registering
<1>7. Writers'
  <2>1. ASSUME NEW w \in Writer
        PROVE  Knows(writer[w], pfs', lists', reg', lost')
    <3>1. Knows(writer[w], pfs, lists, reg, lost)
      BY DEF IInv, Writers
    <3>2. writer[w].at \notin {"read", "copy"}
      BY <1>1, <3>1 DEF Knows, Ending
    <3>3. reg'.at \notin Setup /\ \A k : Passed(k, reg')
      BY <1>3 DEF Setup, Passed, Registering
    <3>4. lists' = lists /\ lost' = lost
      BY <1>1
    <3>5. pfs'.max = MaxNum
      BY <1>3
    <3> QED
      BY <3>1, <3>2, <3>3, <3>4, <3>5, KnowsFrame
  <2> QED
    BY <1>1, <2>1 DEF Writers
<1>8. (NumbersFit => AllEntered)' /\ (NumbersFit /\ WantedFit => WithinSet)'
  BY <1>1, <1>3 DEF IInv, AllEntered, WithinSet, NumbersFit, WantedFit
<1> QED
  BY <1>5, <1>6, <1>7, <1>8 DEF IInv

(***************************************************************************)
(* The theorems                                                            *)
(***************************************************************************)

LEMMA InitOK == Init => IInv
<1> SUFFICES ASSUME Init PROVE IInv
  OBVIOUS
<1>1. /\ pfs = [base |-> 0, max |-> 0, mem |-> "null"]
      /\ array = <<>> /\ lists = <<>> /\ lost = {} /\ astray = {}
      /\ reg = [at |-> "base", h |-> 0, n |-> 0]
      /\ writer = [w \in Writer |-> Idle]
  BY DEF Init, NoSet
<1>2. DOMAIN array = {} /\ DOMAIN lists = {} /\ lists \in [DOMAIN lists -> Seq(STRING)]
  BY <1>1
<1>3. Idle \in WriterType /\ Idle.at = "idle" /\ Idle.num = Base /\ Idle.src = 0
  BY SetAssumption DEF Idle, WriterType
<1>4. IsFiniteSet(lost) /\ Cardinality(lost) = 0
  BY <1>1, FS_EmptySet
<1>5. reg \in RegType
  BY <1>1, Registered DEF RegType
<1>6. TypeOK
  BY <1>1, <1>2, <1>3, <1>4, <1>5, SetAssumption DEF TypeOK, RegType
<1>7. Sequences /\ Steps
  BY <1>1, <1>2, <1>3, SetAssumption DEF Sequences, Steps, Registering
<1>8. Progress /\ Entries /\ Destroying /\ AllEntered /\ WithinSet
  BY <1>1, <1>2, <1>4 DEF Progress, Entries, Destroying, AllEntered, WithinSet, Registering
<1>9. Writers
  BY <1>1, <1>3 DEF Writers, Knows
<1> QED
  BY <1>6, <1>7, <1>8, <1>9 DEF IInv

LEMMA Inductive == IInv /\ [Next]_vars => IInv'
<1> SUFFICES ASSUME IInv, [Next]_vars PROVE IInv'
  OBVIOUS
<1>1. CASE Register
  BY <1>1, SetupKeeps, CreateKeeps, FieldKeeps, AddKeeps DEF Register
<1>2. CASE DestroyStart
  BY <1>2, StartKeeps
<1>3. CASE Destroy
  BY <1>3, IndexKeeps, EndKeeps DEF Destroy
<1>4. CASE \E w \in Writer : Use(w)
  BY <1>4, UseKeeps
<1>5. CASE UNCHANGED vars
  BY <1>5 DEF vars, IInv, TypeOK, Sequences, Steps, Progress, Entries, Writers, Destroying,
              AllEntered, WithinSet, NumbersFit, WantedFit
<1> QED
  BY <1>1, <1>2, <1>3, <1>4, <1>5 DEF Next

THEOREM Invariant == Spec => []IInv
  BY InitOK, Inductive, PTL DEF Spec

\* Every variable keeps its type: neither the registrar's loops nor the writers'
\* leave the formats, and no list outgrows its format.
THEOREM TypeCorrect == Spec => []TypeOK
<1>1. IInv => TypeOK
  BY DEF IInv
<1> QED
  BY <1>1, Invariant, PTL

\* pa_copy_protocol_format, at whatever point of the registration, gives the
\* analyzer the fields of the format that was asked for: in order, none twice, and
\* all but those that pfs_set_proto_info had no memory for.
THEOREM CopiesAreWhole == Spec => []CopyComplete
<1>1. IInv => CopyComplete
  <2> SUFFICES ASSUME IInv, NEW w \in Writer, writer[w].at = "ready"
               PROVE  LET num == writer[w].num
                          kept == {n \in DOMAIN Formats[num] : <<num, n>> \notin lost}
                      IN  writer[w].copy = [k \in 1 .. Cardinality(kept) |->
                                              Formats[num][CHOOSE n \in kept :
                                                Cardinality({m \in kept : m <= n}) = k]]
    BY DEF CopyComplete
  <2> DEFINE c == writer[w]
             num == c.num
             size == Size(c.src)
             kept == {n \in DOMAIN Formats[num] : <<num, n>> \notin lost}
  <2>1. c.copy \in Seq(STRING)
    BY DEF IInv, Sequences, WriterType
  <2>2. c.src \in Heads /\ Order[c.src] = num /\ Complete(c.copy, c.src, lost)
    BY DEF IInv, Writers, Knows
  <2>3. size \in Nat /\ DOMAIN Formats[num] = 1 .. size
    <3>1. num \in DOMAIN Formats /\ size = Len(Formats[num])
      BY <2>2, Registered DEF Size
    <3>2. Formats[num] \in Seq(STRING)
      BY <3>1, FormatsAssumption
    <3> QED
      BY <3>1, <3>2
  <2>4. Enumerates(c.copy, num, size, lost)
    BY <2>2 DEF Complete
  <2>5. kept = Kept(num, size, lost)
    BY <2>3 DEF Kept
  <2> HIDE DEF c, num, size, kept
  <2>6. c.copy = Numbered(num, kept)
    BY <2>1, <2>3, <2>4, <2>5, EnumIsCopy
  <2> QED
    BY <2>6 DEF Numbered, c, num, kept
<1> QED
  BY <1>1, Invariant, PTL

\* Where the numbers lie in the array and nobody asks for one that
\* pa_check_protocol_num lets through by mistake, the array is neither written nor
\* read beyond its end or before it is cleared, and no freed list is copied.
THEOREM SetIsNotLeft == ASSUME NumbersFit, WantedFit PROVE Spec => []WithinSet
<1>1. IInv => WithinSet
  BY NumbersFit, WantedFit DEF IInv
<1> QED
  BY <1>1, Invariant, PTL

\* Where the numbers lie in the array, pfs_destroy_protocol_format_set leaves no
\* list in memory.
THEOREM NothingLeft == ASSUME NumbersFit PROVE Spec => []AllFreed
<1>1. IInv => AllFreed
  <2> SUFFICES ASSUME IInv, reg.at = "gone" PROVE lists = <<>>
    BY DEF AllFreed
  <2>1. DOMAIN array = {}
    BY DEF IInv, Destroying
  <2>2. AllEntered
    BY NumbersFit DEF IInv
  <2>3. DOMAIN lists = {}
    BY <2>1, <2>2 DEF AllEntered
  <2>4. lists \in [DOMAIN lists -> Seq(STRING)]
    BY DEF IInv, Sequences
  <2> QED
    BY <2>3, <2>4
<1> QED
  BY <1>1, Invariant, PTL
=============================================================================
