------------------------ MODULE ProtocolAnalyzerProofs ------------------------
(***************************************************************************)
(* Proofs about ProtocolAnalyzer, for every set of formats, all lengths    *)
(* and bytes of messages and any size of the array.  And about BitFields,  *)
(* for every layout of bit fields, all values and whatever the array held: *)
(* generating puts exactly the values' bits into it, parsing reads them.   *)
(***************************************************************************)
EXTENDS ProtocolAnalyzer, BitFields, SequenceTheorems, WellFoundedInduction, TLAPS

Byte == 0 .. 255

(***************************************************************************)
(* Sums                                                                    *)
(***************************************************************************)

LEMMA LeastNumber ==
    ASSUME NEW T \in SUBSET Nat, T # {}
    PROVE  \E x \in T : \A y \in T : x <= y
<1> DEFINE R == OpToRel(<, Nat)
<1>1. IsWellFoundedOn(R, Nat)
  BY NatLessThanWellFounded
<1>2. \A x, y \in Nat : x < y => <<x, y>> \in R
  BY DEF OpToRel
<1> HIDE DEF R
<1>3. PICK x \in T : \A y \in T : ~ (<<y, x>> \in R)
  BY <1>1, WFMin
<1>4. \A y \in T : ~(y < x)
  BY <1>2, <1>3
<1> QED
  BY <1>4

\* What holds at a and carries over from each number to the next, holds up to b.
LEMMA Upwards ==
    ASSUME NEW a \in Nat, NEW b \in Nat, NEW S, a \in S,
           \A i \in Nat : a <= i /\ i < b /\ i \in S => i + 1 \in S
    PROVE  \A i \in Nat : a <= i /\ i <= b => i \in S
<1> SUFFICES ASSUME NEW k \in Nat, a <= k, k <= b, k \notin S PROVE FALSE
  OBVIOUS
<1> DEFINE T == {i \in Nat : a <= i /\ i <= b /\ i \notin S}
<1>1. T \in SUBSET Nat /\ T # {}
  OBVIOUS
<1>2. PICK x \in T : \A y \in T : x <= y
  BY <1>1, LeastNumber
<1>3. x \in Nat /\ a <= x /\ x <= b /\ x # a
  BY <1>2
<1>4. x - 1 \in Nat /\ a <= x - 1 /\ x - 1 < b /\ (x - 1) + 1 = x /\ ~(x <= x - 1)
  BY <1>3
<1>5. x - 1 \in S
  BY <1>2, <1>4
<1> QED
  BY <1>2, <1>4, <1>5

IsSum(sum, s, n) == sum = [i \in 0 .. n |-> IF i = 0 THEN 0 ELSE sum[i - 1] + s[i]]

\* The recursive function of Sums exists.
LEMMA SumsExist ==
    ASSUME NEW s, NEW n \in Nat
    PROVE  \E sum : IsSum(sum, s, n)
<1> DEFINE S == {k \in Nat : \E sum : IsSum(sum, s, k)}
<1>1. 0 \in S
  <2> DEFINE g == [i \in 0 .. 0 |-> 0]
  <2>1. g = [i \in 0 .. 0 |-> IF i = 0 THEN 0 ELSE g[i - 1] + s[i]]
    OBVIOUS
  <2> HIDE DEF g
  <2> QED
    BY <2>1 DEF IsSum
<1>2. ASSUME NEW k \in Nat, k \in S PROVE k + 1 \in S
  <2>1. PICK g : g = [i \in 0 .. k |-> IF i = 0 THEN 0 ELSE g[i - 1] + s[i]]
    BY <1>2 DEF IsSum
  <2> DEFINE h == [i \in 0 .. k + 1 |-> IF i = k + 1 THEN g[k] + s[k + 1] ELSE g[i]]
  <2>2. ASSUME NEW i \in 0 .. k + 1
        PROVE  h[i] = IF i = 0 THEN 0 ELSE h[i - 1] + s[i]
    <3>1. CASE i = k + 1
      <4>1. i - 1 = k /\ k \in 0 .. k + 1 /\ k # k + 1 /\ i # 0
        BY <1>2, <3>1
      <4>2. h[i - 1] = g[k] /\ h[i] = g[k] + s[k + 1]
        BY <3>1, <4>1
      <4> QED
        BY <3>1, <4>1, <4>2
    <3>2. CASE i # k + 1 /\ i # 0
      <4>1. i \in 0 .. k /\ i - 1 \in 0 .. k + 1 /\ i - 1 # k + 1
        BY <1>2, <3>2
      <4>2. g[i] = g[i - 1] + s[i] /\ h[i] = g[i] /\ h[i - 1] = g[i - 1]
        BY <2>1, <3>2, <4>1
      <4> QED
        BY <3>2, <4>2
    <3>3. CASE i # k + 1 /\ i = 0
      <4>1. 0 \in 0 .. k /\ g[0] = 0
        BY <1>2, <2>1
      <4> QED
        BY <3>3, <4>1
    <3> QED
      BY <3>1, <3>2, <3>3
  <2>3. h = [i \in 0 .. k + 1 |-> IF i = 0 THEN 0 ELSE h[i - 1] + s[i]]
    BY <2>2
  <2> HIDE DEF h
  <2> QED
    BY <1>2, <2>3 DEF IsSum
<1> HIDE DEF S
<1>3. n \in S
  BY <1>1, <1>2, Upwards
<1> QED
  BY <1>3 DEF S

\* What Sums computes of natural numbers.
LEMMA SumsFacts ==
    ASSUME NEW s \in Seq(Nat)
    PROVE  /\ Sums(s)[0] = 0
           /\ \A i \in 1 .. Len(s) : Sums(s)[i] = Sums(s)[i - 1] + s[i]
           /\ \A i \in 0 .. Len(s) : Sums(s)[i] \in Nat
           /\ \A i, j \in 0 .. Len(s) : i <= j => Sums(s)[i] <= Sums(s)[j]
<1> DEFINE n == Len(s)
           g == CHOOSE sum : IsSum(sum, s, n)
<1>1. n \in Nat /\ \A i \in 1 .. n : s[i] \in Nat
  OBVIOUS
<1>2. IsSum(g, s, n)
  BY <1>1, SumsExist
<1>3. Sums(s) = g
  BY DEF Sums, IsSum
<1> HIDE DEF g, n
<1>4. g[0] = 0 /\ \A i \in 1 .. n : g[i] = g[i - 1] + s[i]
  BY <1>1, <1>2 DEF IsSum
<1> DEFINE S == {i \in Nat : i <= n => g[i] \in Nat}
<1>5. \A i \in 0 .. n : g[i] \in Nat
  <2>1. 0 \in S
    BY <1>4
  <2>2. ASSUME NEW i \in Nat, i < n, i \in S PROVE i + 1 \in S
    <3>1. i + 1 \in 1 .. n /\ (i + 1) - 1 = i
      BY <1>1, <2>2
    <3> QED
      BY SMTT(30), <1>1, <1>4, <2>2, <3>1
  <2> HIDE DEF S
  <2>3. \A i \in Nat : 0 <= i /\ i <= n => i \in S
    BY <1>1, <2>1, <2>2, Upwards
  <2> QED
    BY <1>1, <2>3 DEF S
<1>6. ASSUME NEW i \in 0 .. n, NEW j \in 0 .. n, i <= j PROVE g[i] <= g[j]
  <2> DEFINE U == {k \in Nat : k <= n => g[i] <= g[k]}
  <2>1. i \in U
    BY <1>1, <1>5
  <2>2. ASSUME NEW k \in Nat, i <= k, k < n, k \in U PROVE k + 1 \in U
    <3>1. k + 1 \in 1 .. n /\ (k + 1) - 1 = k /\ k \in 0 .. n /\ k + 1 \in 0 .. n
      BY <1>1, <2>2
    <3>2. g[i] <= g[k] /\ g[k + 1] = g[k] + s[k + 1]
      BY <1>4, <2>2, <3>1
    <3>3. g[i] \in Nat /\ g[k] \in Nat /\ g[k + 1] \in Nat /\ s[k + 1] \in Nat
      BY <1>1, <1>5, <3>1
    <3> QED
      BY <3>2, <3>3
  <2> HIDE DEF U
  <2>3. i \in Nat
    BY <1>1
  <2>4. \A k \in Nat : i <= k /\ k <= n => k \in U
    BY <1>1, <2>1, <2>2, <2>3, Upwards
  <2> QED
    BY <1>1, <1>6, <2>4 DEF U
<1> QED
  BY <1>3, <1>4, <1>5, <1>6 DEF n

(***************************************************************************)
(* Bytes and numbers                                                       *)
(***************************************************************************)

LEMMA Weights == Weight[0] = 1 /\ Weight[1] = 256 /\ Weight[2] = 65536 /\ Weight[3] = 16777216
BY SMT DEF Weight

\* A number is made of at most four bytes, and gives them back.
LEMMA BytesRoundTrip ==
    ASSUME NEW bytes \in Seq(Byte), Len(bytes) <= 4
    PROVE  /\ pa_get_protocol_byte_data(bytes) \in Nat
           /\ pa_set_protocol_byte_data(pa_get_protocol_byte_data(bytes), Len(bytes)) = bytes
           /\ Len(bytes) = 1 => pa_get_protocol_byte_data(bytes) = bytes[1]
<1> DEFINE n == pa_get_protocol_byte_data(bytes)
           len == Len(bytes)
           out == pa_set_protocol_byte_data(n, len)
<1>1. len \in Nat /\ len <= 4 /\ bytes \in [1 .. len -> Byte]
  OBVIOUS
<1>2. n = (IF 1 <= len THEN bytes[1] * Weight[len - 1] ELSE 0)
           + (IF 2 <= len THEN bytes[2] * Weight[len - 2] ELSE 0)
           + (IF 3 <= len THEN bytes[3] * Weight[len - 3] ELSE 0)
           + (IF 4 <= len THEN bytes[4] * Weight[len - 4] ELSE 0)
  BY DEF pa_get_protocol_byte_data
<1>3. out = [i \in 1 .. len |-> (n \div Weight[len - i]) % 256]
  BY DEF pa_set_protocol_byte_data
<1> HIDE DEF n, out, len
<1>4. CASE len = 0
  <2>1. n = 0 /\ out = bytes
    BY <1>1, <1>2, <1>3, <1>4
  <2> QED
    BY <1>4, <2>1 DEF n, out, len
<1>5. CASE len = 1
  <2>1. PICK d \in Byte : bytes[1] = d
    BY <1>1, <1>5
  <2>2. Weight[len - 1] = 1
    BY SMT, <1>5, Weights
  <2>3. n = d * 1 + 0 + 0 + 0
    BY SMT, <1>2, <1>5, <2>1, <2>2
  <2>4. n \in Nat /\ n \div 1 = d
    BY SMT, <2>3 DEF Byte
  <2>5. /\ (d) % 256 = d
    BY SMT DEF Byte
  <2>6. /\ (n \div Weight[len - 1]) % 256 = d
    BY SMT, <2>2, <2>4, <2>5
  <2>7. \A i \in 1 .. len : out[i] = bytes[i]
    BY SMT, <1>3, <1>5, <2>1, <2>6
  <2>8. out = bytes
    BY <1>1, <1>3, <2>7
  <2>9. n = bytes[1]
    BY SMT, <2>1, <2>3 DEF Byte
  <2> QED
    BY <2>4, <2>8, <2>9 DEF n, out, len
<1>6. CASE len = 2
  <2>1. PICK c \in Byte, d \in Byte : bytes[1] = c /\ bytes[2] = d
    BY <1>1, <1>6
  <2>2. Weight[len - 1] = 256 /\ Weight[len - 2] = 1
    BY SMT, <1>6, Weights
  <2>3. n = c * 256 + d * 1 + 0 + 0
    BY SMT, <1>2, <1>6, <2>1, <2>2
  <2>4. n \in Nat /\ n \div 1 = c * 256 + d
    BY SMT, <2>3 DEF Byte
  <2>5. n \div 256 = c
    BY SMT, <2>3 DEF Byte
  <2>6. /\ (c) % 256 = c
        /\ (c * 256 + d) % 256 = d
    BY SMT DEF Byte
  <2>7. /\ (n \div Weight[len - 1]) % 256 = c
        /\ (n \div Weight[len - 2]) % 256 = d
    BY SMT, <2>2, <2>4, <2>5, <2>6
  <2>8. \A i \in 1 .. len : out[i] = bytes[i]
    BY SMT, <1>3, <1>6, <2>1, <2>7
  <2>9. out = bytes
    BY <1>1, <1>3, <2>8
  <2> QED
    BY <1>6, <2>4, <2>9 DEF n, out, len
<1>7. CASE len = 3
  <2>1. PICK b \in Byte, c \in Byte, d \in Byte : bytes[1] = b /\ bytes[2] = c /\ bytes[3] = d
    BY <1>1, <1>7
  <2>2. Weight[len - 1] = 65536 /\ Weight[len - 2] = 256 /\ Weight[len - 3] = 1
    BY SMT, <1>7, Weights
  <2>3. n = b * 65536 + c * 256 + d * 1 + 0
    BY SMT, <1>2, <1>7, <2>1, <2>2
  <2>4. n \in Nat /\ n \div 1 = b * 65536 + c * 256 + d
    BY SMT, <2>3 DEF Byte
  <2>5. n \div 256 = b * 256 + c
    BY SMT, <2>3 DEF Byte
  <2>6. n \div 65536 = b
    BY SMT, <2>3 DEF Byte
  <2>7. /\ (b) % 256 = b
        /\ (b * 256 + c) % 256 = c
        /\ (b * 65536 + c * 256 + d) % 256 = d
    BY SMT DEF Byte
  <2>8. /\ (n \div Weight[len - 1]) % 256 = b
        /\ (n \div Weight[len - 2]) % 256 = c
        /\ (n \div Weight[len - 3]) % 256 = d
    BY SMT, <2>2, <2>4, <2>5, <2>6, <2>7
  <2>9. \A i \in 1 .. len : out[i] = bytes[i]
    BY SMT, <1>3, <1>7, <2>1, <2>8
  <2>10. out = bytes
    BY <1>1, <1>3, <2>9
  <2> QED
    BY <1>7, <2>4, <2>10 DEF n, out, len
<1>8. CASE len = 4
  <2>1. PICK a \in Byte, b \in Byte, c \in Byte, d \in Byte : bytes[1] = a /\ bytes[2] = b /\ bytes[3] = c /\ bytes[4] = d
    BY <1>1, <1>8
  <2>2. Weight[len - 1] = 16777216 /\ Weight[len - 2] = 65536 /\ Weight[len - 3] = 256 /\ Weight[len - 4] = 1
    BY SMT, <1>8, Weights
  <2>3. n = a * 16777216 + b * 65536 + c * 256 + d * 1
    BY SMT, <1>2, <1>8, <2>1, <2>2
  <2>4. n \in Nat /\ n \div 1 = a * 16777216 + b * 65536 + c * 256 + d
    BY SMT, <2>3 DEF Byte
  <2>5. n \div 256 = a * 65536 + b * 256 + c
    BY SMT, <2>3 DEF Byte
  <2>6. n \div 65536 = a * 256 + b
    BY SMT, <2>3 DEF Byte
  <2>7. n \div 16777216 = a
    BY SMT, <2>3 DEF Byte
  <2>8. /\ (a) % 256 = a
        /\ (a * 256 + b) % 256 = b
        /\ (a * 65536 + b * 256 + c) % 256 = c
        /\ (a * 16777216 + b * 65536 + c * 256 + d) % 256 = d
    BY SMT DEF Byte
  <2>9. /\ (n \div Weight[len - 1]) % 256 = a
        /\ (n \div Weight[len - 2]) % 256 = b
        /\ (n \div Weight[len - 3]) % 256 = c
        /\ (n \div Weight[len - 4]) % 256 = d
    BY SMT, <2>2, <2>4, <2>5, <2>6, <2>7, <2>8
  <2>10. \A i \in 1 .. len : out[i] = bytes[i]
    BY SMT, <1>3, <1>8, <2>1, <2>9
  <2>11. out = bytes
    BY <1>1, <1>3, <2>10
  <2> QED
    BY <1>8, <2>4, <2>11 DEF n, out, len
<1> QED
  BY <1>1, <1>4, <1>5, <1>6, <1>7, <1>8

\* The bytes of a number.
LEMMA BytesOfNumber ==
    ASSUME NEW n \in Nat, NEW len \in 0 .. 4
    PROVE  /\ pa_set_protocol_byte_data(n, len) \in Seq(Byte)
           /\ Len(pa_set_protocol_byte_data(n, len)) = len
<1>1. ASSUME NEW i \in 1 .. len PROVE (n \div Weight[len - i]) % 256 \in Byte
  <2>1. len - i \in 0 .. 3 /\ \A k \in 0 .. 3 : Weight[k] \in Nat \ {0}
    BY SMT, Weights
  <2>2. n \div Weight[len - i] \in Nat
    BY <2>1
  <2> QED
    BY SMT, <2>2 DEF Byte
<1> QED
  BY <1>1 DEF pa_set_protocol_byte_data

(***************************************************************************)
(* Messages                                                                *)
(***************************************************************************)

\* What a message of a format is, and what it is in a format that is well laid.
IsValues(format, m) ==
    /\ DOMAIN m = DOMAIN format
    /\ \A i \in DOMAIN format : m[i] \in Seq(Byte) /\ Len(m[i]) <= 255

IsMessage(format, m) ==
    /\ IsValues(format, m)
    /\ \A i \in DOMAIN format : format[i].index = NoIndex => Len(m[i]) = format[i].len
    /\ \A i, j \in DOMAIN format :
         format[i].index # NoIndex /\ format[j].name = format[i].index
           => Len(m[j]) = 1 /\ m[j][1] = Len(m[i])

LEMMA FormatFacts ==
    ASSUME NEW p \in DOMAIN Formats
    PROVE  /\ Len(Formats[p]) \in Nat \ {0}
           /\ DOMAIN Formats[p] = 1 .. Len(Formats[p])
           /\ \A i \in DOMAIN Formats[p] :
                /\ Formats[p][i].name \in STRING /\ Formats[p][i].index \in STRING
                /\ Formats[p][i].pos \in Byte /\ Formats[p][i].len \in Byte
<1>1. Formats[p] \in Seq([name : STRING, pos : Byte, len : Byte, index : STRING]) \ {<<>>}
  BY FormatsAssumption DEF Byte
<1> DEFINE f == Formats[p]
           R == [name : STRING, pos : Byte, len : Byte, index : STRING]
<1>2. f \in Seq(R) \ {<<>>}
  BY <1>1
<1> HIDE DEF f, R
<1>3. Len(f) \in Nat \ {0} /\ DOMAIN f = 1 .. Len(f)
  BY <1>2
<1>4. \A i \in DOMAIN f : f[i] \in R
  BY <1>2, <1>3
<1> QED
  BY <1>3, <1>4 DEF f, R

\* The messages of Message are messages.
LEMMA MessageFacts ==
    ASSUME NEW p \in DOMAIN Formats, NEW lens \in [LengthFields(Formats[p]) -> Lens],
           NEW t \in {0, 1}
    PROVE  /\ IsValues(Formats[p], Message(Formats[p], lens, t))
           /\ WellLaid(Formats[p]) => IsMessage(Formats[p], Message(Formats[p], lens, t))
<1> DEFINE f == Formats[p]
           m == Message(f, lens, t)
<1>1. /\ DOMAIN f = 1 .. Len(f) /\ Len(f) \in Nat
      /\ \A i \in DOMAIN f : f[i].len \in Byte
  BY FormatFacts
<1>2. \A x \in LengthFields(f) : lens[x] \in Byte
  BY SizesAssumption DEF Byte
<1>3. \A i \in DOMAIN f : f[i].index # NoIndex => f[i].index \in LengthFields(f)
  BY DEF LengthFields
<1>4. \A i \in DOMAIN f : LenOf(f, lens, i) \in Byte
  BY <1>1, <1>2, <1>3 DEF LenOf
<1>5. /\ DOMAIN m = DOMAIN f
      /\ \A i \in DOMAIN f :
           m[i] = IF f[i].name \in LengthFields(f) THEN <<lens[f[i].name]>>
                  ELSE [k \in 1 .. LenOf(f, lens, i) |-> Octet(i, k, t)]
  BY DEF Message
<1> HIDE DEF m
<1>6. ASSUME NEW i \in DOMAIN f
      PROVE  /\ m[i] \in Seq(Byte) /\ Len(m[i]) <= 255
             /\ f[i].name \notin LengthFields(f) => Len(m[i]) = LenOf(f, lens, i)
  <2>1. CASE f[i].name \in LengthFields(f)
    <3>1. m[i] = <<lens[f[i].name]>> /\ lens[f[i].name] \in Byte
      BY <1>2, <1>5, <2>1
    <3> QED
      BY <2>1, <3>1
  <2>2. CASE f[i].name \notin LengthFields(f)
    <3> DEFINE n == LenOf(f, lens, i)
    <3>1. n \in Nat /\ n <= 255
      BY <1>4 DEF Byte
    <3>2. ASSUME NEW k \in 1 .. n PROVE Octet(i, k, t) \in Byte
      <4>1. k \in 1 .. 255
        BY <3>1
      <4> QED
        BY <4>1, OctetAssumption, ZenonT(30) DEF Byte
    <3>3. m[i] = [k \in 1 .. n |-> Octet(i, k, t)]
      BY <1>5, <2>2
    <3> HIDE DEF n
    <3>4. m[i] \in Seq(Byte) /\ Len(m[i]) = n
      BY <3>1, <3>2, <3>3
    <3> QED
      BY <3>1, <3>4 DEF n
  <2> QED
    BY <2>1, <2>2
<1>7. IsValues(f, m)
  BY <1>5, <1>6 DEF IsValues
<1>8. ASSUME WellLaid(f) PROVE IsMessage(f, m)
  <2>1. ASSUME NEW i \in DOMAIN f, f[i].index = NoIndex PROVE Len(m[i]) = f[i].len
    <3>1. CASE f[i].name \notin LengthFields(f)
      BY <1>6, <2>1, <3>1 DEF LenOf
    <3>2. CASE f[i].name \in LengthFields(f)
      <4>1. PICK k \in DOMAIN f : f[k].index = f[i].name /\ f[k].index # NoIndex
        BY <3>2 DEF LengthFields
      <4>2. PICK j \in 1 .. k - 1 : f[j].name = f[k].index /\ f[j].len = 1
        BY <1>8, <4>1 DEF WellLaid
      <4>3. j \in DOMAIN f
        BY <1>1, <4>2
      <4>4. j = i
        BY <1>8, <4>1, <4>2, <4>3 DEF WellLaid
      <4>5. m[i] = <<lens[f[i].name]>>
        BY <1>5, <3>2
      <4> QED
        BY <4>2, <4>4, <4>5
    <3> QED
      BY <3>1, <3>2
  <2>2. ASSUME NEW i \in DOMAIN f, NEW j \in DOMAIN f,
               f[i].index # NoIndex, f[j].name = f[i].index
        PROVE  Len(m[j]) = 1 /\ m[j][1] = Len(m[i])
    <3>1. f[j].name \in LengthFields(f)
      BY <1>3, <2>2
    <3>2. m[j] = <<lens[f[j].name]>>
      BY <1>5, <3>1
    <3>3. f[i].name \notin LengthFields(f)
      <4> SUFFICES ASSUME f[i].name \in LengthFields(f) PROVE FALSE
        OBVIOUS
      <4>1. PICK k \in DOMAIN f : f[k].index = f[i].name /\ f[k].index # NoIndex
        BY DEF LengthFields
      <4>2. PICK h \in 1 .. k - 1 : f[h].name = f[k].index /\ f[h].index = NoIndex
        BY <1>8, <4>1 DEF WellLaid
      <4>3. h \in DOMAIN f
        BY <1>1, <4>2
      <4>4. h = i
        BY <1>8, <4>1, <4>2, <4>3 DEF WellLaid
      <4> QED
        BY <2>2, <4>2, <4>4
    <3>4. Len(m[i]) = lens[f[j].name]
      BY <1>6, <2>2, <3>3 DEF LenOf
    <3> QED
      BY <3>2, <3>4
  <2> QED
    BY <1>7, <2>1, <2>2 DEF IsMessage
<1> QED
  BY <1>7, <1>8 DEF m

LEMMA BytesAreNumbers == \A x \in Byte : x \in Nat
BY DEF Byte

\* Where the fields begin.
LEMMA StartFacts ==
    ASSUME NEW p \in DOMAIN Formats, NEW m, IsValues(Formats[p], m)
    PROVE  LET f == Formats[p]
               s == Sums(Added(f, m))
           IN  /\ s[0] = 0
               /\ \A i \in 0 .. Len(f) : s[i] \in Nat
               /\ \A i, j \in 0 .. Len(f) : i <= j => s[i] <= s[j]
               /\ \A i \in 1 .. Len(f) :
                    /\ s[i] = s[i - 1] + (IF f[i].index = NoIndex THEN 0 ELSE Len(m[i]))
                    /\ Start(f, m, i) = f[i].pos + s[i - 1]
                    /\ Start(f, m, i) \in Nat
<1> DEFINE f == Formats[p]
           a == Added(f, m)
           s == Sums(a)
<1>1. /\ DOMAIN f = 1 .. Len(f) /\ Len(f) \in Nat
      /\ \A i \in DOMAIN f : f[i].pos \in Byte
  BY FormatFacts
<1>2. \A i \in DOMAIN f : Len(m[i]) \in Nat
  BY DEF IsValues
<1>3. a = [i \in 1 .. Len(f) |-> IF f[i].index = NoIndex THEN 0 ELSE Len(m[i])]
  BY <1>1 DEF Added
<1>4. a \in Seq(Nat) /\ Len(a) = Len(f)
  BY <1>1, <1>2, <1>3
<1> HIDE DEF a
<1>5. /\ s[0] = 0
      /\ \A i \in 1 .. Len(a) : s[i] = s[i - 1] + a[i]
      /\ \A i \in 0 .. Len(a) : s[i] \in Nat
      /\ \A i, j \in 0 .. Len(a) : i <= j => s[i] <= s[j]
  BY <1>4, SumsFacts
<1> HIDE DEF s
<1>6. ASSUME NEW i \in 1 .. Len(f)
      PROVE  /\ s[i] = s[i - 1] + (IF f[i].index = NoIndex THEN 0 ELSE Len(m[i]))
             /\ Start(f, m, i) = f[i].pos + s[i - 1]
             /\ Start(f, m, i) \in Nat
  <2>1. Start(f, m, i) = f[i].pos + s[i - 1]
    BY DEF Start, s, a
  <2>2. i \in DOMAIN f /\ i \in 1 .. Len(a) /\ i - 1 \in 0 .. Len(a)
    BY <1>1, <1>4
  <2>3. f[i].pos \in Nat /\ s[i - 1] \in Nat
    <3>1. f[i].pos \in Byte
      BY <1>1, <2>2
    <3>2. s[i - 1] \in Nat
      BY <1>5, <2>2
    <3> QED
      BY <3>1, <3>2, BytesAreNumbers
  <2>4. s[i] = s[i - 1] + (IF f[i].index = NoIndex THEN 0 ELSE Len(m[i]))
    BY <1>3, <1>5, <2>2
  <2> QED
    BY <2>1, <2>3, <2>4
<1> QED
  BY <1>4, <1>5, <1>6 DEF s, a

\* In a format that is well laid the fields of a message lie one behind the other,
\* and none behind its end.
LEMMA StartsApart ==
    ASSUME NEW p \in DOMAIN Formats, WellLaid(Formats[p]),
           NEW m, IsMessage(Formats[p], m)
    PROVE  LET f == Formats[p] IN
           /\ \A i, j \in 1 .. Len(f) : i < j => Start(f, m, i) + Len(m[i]) <= Start(f, m, j)
           /\ \A i \in 1 .. Len(f) : Start(f, m, i) + Len(m[i]) <= TotalLen(f, m)
           /\ TotalLen(f, m) \in Nat
<1> DEFINE f == Formats[p]
           s == Sums(Added(f, m))
           n == Len(f)
           From(i) == Start(f, m, i)
           To(i) == From(i) + Len(m[i])
<1>1. /\ DOMAIN f = 1 .. n /\ n \in Nat /\ 1 <= n
      /\ \A i \in 1 .. n : f[i].pos \in Nat /\ f[i].len \in Nat
  <2>1. /\ DOMAIN f = 1 .. n /\ n \in Nat \ {0}
        /\ \A i \in 1 .. n : f[i].pos \in Byte /\ f[i].len \in Byte
    BY FormatFacts
  <2> QED
    BY <2>1, BytesAreNumbers
<1>2. /\ \A i \in 1 .. n : Len(m[i]) \in Nat
      /\ \A i \in 1 .. n : f[i].index = NoIndex => Len(m[i]) = f[i].len
      /\ IsValues(f, m)
  BY <1>1 DEF IsMessage, IsValues
<1>3. \A i \in 1 .. n - 1 :
        f[i].pos + (IF f[i].index = NoIndex THEN f[i].len ELSE 0) <= f[i + 1].pos
  BY DEF WellLaid
<1>4. /\ \A i \in 0 .. n : s[i] \in Nat
      /\ \A i \in 1 .. n : /\ s[i] = s[i - 1] + (IF f[i].index = NoIndex THEN 0 ELSE Len(m[i]))
                           /\ From(i) = f[i].pos + s[i - 1]
                           /\ From(i) \in Nat
  BY <1>2, StartFacts
<1> HIDE DEF s, f, n, From
<1>5. ASSUME NEW i \in 1 .. n - 1 PROVE To(i) <= From(i + 1)
  <2>1. /\ i \in 1 .. n /\ i + 1 \in 1 .. n /\ i - 1 \in 0 .. n /\ (i + 1) - 1 = i
    BY <1>1
  <2>2. /\ From(i) = f[i].pos + s[i - 1] /\ From(i + 1) = f[i + 1].pos + s[i]
        /\ s[i] = s[i - 1] + (IF f[i].index = NoIndex THEN 0 ELSE Len(m[i]))
        /\ f[i].pos + (IF f[i].index = NoIndex THEN f[i].len ELSE 0) <= f[i + 1].pos
        /\ f[i].index = NoIndex => Len(m[i]) = f[i].len
    BY <1>2, <1>3, <1>4, <2>1
  <2>3. /\ f[i].pos \in Nat /\ f[i].len \in Nat /\ f[i + 1].pos \in Nat
        /\ s[i - 1] \in Nat /\ s[i] \in Nat /\ Len(m[i]) \in Nat
    BY <1>1, <1>2, <1>4, <2>1
  <2>4. CASE f[i].index = NoIndex
    <3>1. \A x, y, z, u \in Nat : x + y <= z => (x + u) + y <= z + (u + 0)
      OBVIOUS
    <3> QED
      BY <2>2, <2>3, <2>4, <3>1
  <2>5. CASE f[i].index # NoIndex
    <3>1. \A x, y, z, u \in Nat : x + 0 <= z => (x + u) + y <= z + (u + y)
      OBVIOUS
    <3> QED
      BY <2>2, <2>3, <2>5, <3>1
  <2> QED
    BY <2>4, <2>5
<1>6. \A i \in 1 .. n : To(i) \in Nat /\ From(i) \in Nat /\ From(i) <= To(i)
  BY <1>2, <1>4
<1> HIDE DEF To
<1>7. ASSUME NEW i \in 1 .. n, NEW j \in 1 .. n, i < j PROVE To(i) <= From(j)
  <2> DEFINE S == {k \in Nat : k \in 1 .. n => To(i) <= From(k)}
  <2>1. i + 1 \in S /\ i + 1 \in Nat
    <3>1. i \in 1 .. n - 1
      BY <1>1, <1>7
    <3> QED
      BY <1>5, <3>1
  <2>2. ASSUME NEW k \in Nat, i + 1 <= k, k < n, k \in S PROVE k + 1 \in S
    <3>1. k \in 1 .. n - 1 /\ k \in 1 .. n /\ k + 1 \in 1 .. n
      BY <1>1, <2>2
    <3>2. To(i) <= From(k) /\ From(k) <= To(k) /\ To(k) <= From(k + 1)
      BY <1>5, <1>6, <2>2, <3>1
    <3>3. To(i) \in Nat /\ From(k) \in Nat /\ To(k) \in Nat /\ From(k + 1) \in Nat
      BY <1>6, <3>1
    <3>4. To(i) <= From(k + 1)
      BY <3>2, <3>3
    <3> QED
      BY <2>2, <3>4
  <2> HIDE DEF S
  <2>3. \A k \in Nat : i + 1 <= k /\ k <= n => k \in S
    BY <1>1, <2>1, <2>2, Upwards
  <2>4. j \in S
    BY <1>1, <1>7, <2>3
  <2> QED
    BY <2>4 DEF S
<1>8. TotalLen(f, m) = To(n) /\ n \in 1 .. n
  BY <1>1 DEF TotalLen, To, From, n
<1>9. ASSUME NEW i \in 1 .. n PROVE To(i) <= To(n)
  <2>1. CASE i = n
    BY <1>6, <2>1
  <2>2. CASE i # n
    <3>1. i < n
      BY <1>1, <2>2
    <3>2. To(i) <= From(n) /\ From(n) <= To(n)
      BY <1>6, <1>7, <1>8, <3>1
    <3> QED
      BY <1>6, <1>8, <3>2
  <2> QED
    BY <2>1, <2>2
<1> QED
  BY <1>6, <1>7, <1>8, <1>9 DEF f, n, To, From

(***************************************************************************)
(* Types, flags and positions, for all formats                             *)
(***************************************************************************)

\* Only a field with a length field is ever flagged, and each of them can be
\* flagged again.
Flags == \A i \in DOMAIN fields :
           /\ fields[i].vlenth_flag => fields[i].index # NoIndex
           /\ fields[i].vlenth_flag_bak <=> fields[i].index # NoIndex

Base == TypeOK /\ Flags /\ PositionsKept

\* Fields that are gs instead of fs, with other contents at most.
Refilled(fs, gs) ==
    /\ DOMAIN gs = DOMAIN fs
    /\ \A k \in DOMAIN fs :
         /\ gs[k] \in Field
         /\ gs[k].name = fs[k].name /\ gs[k].index = fs[k].index
         /\ gs[k].pos = fs[k].pos /\ gs[k].len = fs[k].len
         /\ gs[k].vlenth_flag = fs[k].vlenth_flag
         /\ gs[k].vlenth_flag_bak = fs[k].vlenth_flag_bak

Low16(v) == v % 65536

\* Fields that are gs instead of fs once field i has got v as its length.
Moved(fs, gs, i, v) ==
    /\ DOMAIN gs = DOMAIN fs
    /\ \A k \in DOMAIN fs :
         /\ gs[k] \in Field
         /\ gs[k].name = fs[k].name /\ gs[k].index = fs[k].index
         /\ gs[k].data = fs[k].data /\ gs[k].buf = fs[k].buf
         /\ gs[k].vlenth_flag_bak = fs[k].vlenth_flag_bak
         /\ gs[k].pos = IF k > i THEN (fs[k].pos + v) % 256 ELSE fs[k].pos
         /\ gs[k].len = IF k = i THEN Low16(v) ELSE fs[k].len
         /\ gs[k].vlenth_flag <=> fs[k].vlenth_flag /\ k # i

LEMMA Low16Facts ==
    ASSUME NEW v \in Nat
    PROVE  Low16(v) \in UInt16 /\ (v <= 255 => Low16(v) = v)
<1> DEFINE w == v % 65536
<1>1. w \in UInt16
  BY SMTT(30) DEF UInt16
<1>2. v <= 255 => w = v
  BY SMT
<1>3. Low16(v) = w
  BY DEF Low16
<1> HIDE DEF w
<1> QED
  BY <1>1, <1>2, <1>3

\* The format of an analyzer, and its fields.
LEMMA ListFacts ==
    ASSUME TypeOK, proto # "none"
    PROVE  /\ proto \in DOMAIN Formats /\ Format = Formats[proto]
           /\ Len(Format) \in Nat \ {0}
           /\ DOMAIN fields = 1 .. Len(Format) /\ DOMAIN Format = 1 .. Len(Format)
           /\ \A i \in 1 .. Len(Format) :
                /\ fields[i] \in Field
                /\ fields[i].name = Format[i].name /\ fields[i].index = Format[i].index
                /\ Format[i].pos \in Nat /\ Format[i].len \in Nat
<1>1. /\ proto \in DOMAIN Formats /\ Format = Formats[proto]
      /\ DOMAIN fields = DOMAIN Format
      /\ \A i \in DOMAIN fields : /\ fields[i] \in Field
                                 /\ fields[i].name = Format[i].name
                                 /\ fields[i].index = Format[i].index
  BY DEF TypeOK, Format
<1>2. /\ Len(Format) \in Nat \ {0} /\ DOMAIN Format = 1 .. Len(Format)
      /\ \A i \in DOMAIN Format : Format[i].pos \in Byte /\ Format[i].len \in Byte
  BY <1>1, FormatFacts
<1> QED
  BY <1>1, <1>2, BytesAreNumbers

LEMMA FieldFacts ==
    ASSUME NEW f \in Field
    PROVE  /\ f.pos \in 0 .. 255 /\ f.pos \in Nat /\ f.len \in Nat
           /\ f.data \in Nat /\ f.buf \in Seq(Byte)
           /\ f.vlenth_flag \in BOOLEAN /\ f.vlenth_flag_bak \in BOOLEAN
           /\ f.name \in STRING /\ f.index \in STRING
<1>1. (\A x \in UInt16 : x \in Nat) /\ (\A x \in 0 .. 255 : x \in Nat)
  BY SMT DEF UInt16
<1>2. /\ f.pos \in 0 .. 255 /\ f.len \in UInt16
      /\ f.data \in Nat /\ f.buf \in Seq(Byte)
      /\ f.vlenth_flag \in BOOLEAN /\ f.vlenth_flag_bak \in BOOLEAN
      /\ f.name \in STRING /\ f.index \in STRING
  BY DEF Field, Byte
<1>3. f.pos \in Nat
  BY <1>1, <1>2, Zenon
<1>4. f.len \in Nat
  BY <1>1, <1>2, Zenon
<1> QED
  BY <1>2, <1>3, <1>4

\* New contents for a field leave the rest of it alone.
LEMMA ContentsKept ==
    ASSUME NEW f \in Field
    PROVE  /\ \A v \in Nat : LET g == [f EXCEPT !.data = v]
                             IN  /\ g \in Field /\ g.data = v /\ g.buf = f.buf
                                 /\ g.name = f.name /\ g.index = f.index
                                 /\ g.pos = f.pos /\ g.len = f.len
                                 /\ g.vlenth_flag = f.vlenth_flag
                                 /\ g.vlenth_flag_bak = f.vlenth_flag_bak
           /\ \A b \in Seq(Byte) : LET g == [f EXCEPT !.buf = b]
                                   IN  /\ g \in Field /\ g.buf = b /\ g.data = f.data
                                       /\ g.name = f.name /\ g.index = f.index
                                       /\ g.pos = f.pos /\ g.len = f.len
                                       /\ g.vlenth_flag = f.vlenth_flag
                                       /\ g.vlenth_flag_bak = f.vlenth_flag_bak
<1>1. ASSUME NEW v \in Nat
      PROVE  LET g == [f EXCEPT !.data = v]
             IN  /\ g \in Field /\ g.data = v /\ g.buf = f.buf
                 /\ g.name = f.name /\ g.index = f.index
                 /\ g.pos = f.pos /\ g.len = f.len
                 /\ g.vlenth_flag = f.vlenth_flag
                 /\ g.vlenth_flag_bak = f.vlenth_flag_bak
  BY DEF Field
<1>2. ASSUME NEW b \in Seq(Byte)
      PROVE  LET g == [f EXCEPT !.buf = b]
             IN  /\ g \in Field /\ g.buf = b /\ g.data = f.data
                 /\ g.name = f.name /\ g.index = f.index
                 /\ g.pos = f.pos /\ g.len = f.len
                 /\ g.vlenth_flag = f.vlenth_flag
                 /\ g.vlenth_flag_bak = f.vlenth_flag_bak
  BY DEF Field, Byte
<1> QED
  BY <1>1, <1>2

\* What settling field i does to the list: nothing to an unflagged one; one that is
\* flagged has its length looked up, and what lies behind it moves.
LEMMA SettledFacts ==
    ASSUME Base, proto # "none", NEW i \in DOMAIN fields
    PROVE  /\ ~fields[i].vlenth_flag => Settled(i) = fields
           /\ fields[i].vlenth_flag =>
                \E j \in DOMAIN fields :
                  /\ fields[j].name = fields[i].index
                  /\ Moved(fields, Settled(i), i, fields[j].data)
<1>1. CASE ~fields[i].vlenth_flag
  BY <1>1 DEF Settled
<1>2. CASE fields[i].vlenth_flag
  <2> DEFINE j == CHOOSE j \in DOMAIN fields : fields[j].name = fields[i].index
             v == fields[j].data
  <2>1. /\ proto \in DOMAIN Formats /\ Format = Formats[proto]
        /\ Len(Format) \in Nat
        /\ DOMAIN fields = 1 .. Len(Format) /\ DOMAIN Format = 1 .. Len(Format)
        /\ \A k \in 1 .. Len(Format) : /\ fields[k] \in Field
                                       /\ fields[k].name = Format[k].name
                                       /\ fields[k].index = Format[k].index
    BY ListFacts DEF Base
  <2>2. fields[i].index # NoIndex
    BY <1>2 DEF Base, Flags
  <2>3. \E k \in DOMAIN Format : Format[k].name = Format[i].index
    BY <2>1, <2>2, IndexAssumption
  <2>4. j \in DOMAIN fields /\ fields[j].name = fields[i].index
    BY <2>1, <2>3
  <2>5. v \in Nat
    BY <2>1, <2>4, FieldFacts
  <2>6. Settled(i) = [k \in DOMAIN fields |->
           IF k = i THEN [fields[k] EXCEPT !.len = Low16(v), !.vlenth_flag = FALSE]
           ELSE IF k > i THEN [fields[k] EXCEPT !.pos = (@ + v) % 256]
           ELSE fields[k]]
    BY <1>2 DEF Settled, pa_recompute_byte_pos, Low16
  <2> HIDE DEF v
  <2> DEFINE gs == Settled(i)
  <2>7. ASSUME NEW k \in DOMAIN fields
        PROVE  /\ gs[k] \in Field
               /\ gs[k].name = fields[k].name /\ gs[k].index = fields[k].index
               /\ gs[k].data = fields[k].data /\ gs[k].buf = fields[k].buf
               /\ gs[k].vlenth_flag_bak = fields[k].vlenth_flag_bak
               /\ gs[k].pos = IF k > i THEN (fields[k].pos + v) % 256 ELSE fields[k].pos
               /\ gs[k].len = IF k = i THEN Low16(v) ELSE fields[k].len
               /\ gs[k].vlenth_flag <=> fields[k].vlenth_flag /\ k # i
    <3>1. fields[k] \in Field /\ k \in Nat /\ i \in Nat
      BY <2>1
    <3>2. CASE k = i
      <4> DEFINE w == Low16(v)
      <4>2. w \in UInt16
        BY <2>5, Low16Facts
      <4>3. gs[k] = [fields[k] EXCEPT !.len = w, !.vlenth_flag = FALSE]
        BY <2>6, <3>2, Zenon
      <4> HIDE DEF w, gs
      <4>4. /\ gs[k] \in Field
            /\ gs[k].name = fields[k].name /\ gs[k].index = fields[k].index
            /\ gs[k].data = fields[k].data /\ gs[k].buf = fields[k].buf
            /\ gs[k].vlenth_flag_bak = fields[k].vlenth_flag_bak
            /\ gs[k].pos = fields[k].pos
            /\ gs[k].len = w /\ gs[k].vlenth_flag = FALSE
        BY <3>1, <4>2, <4>3 DEF Field
      <4>5. ~(k > i)
        BY <3>1, <3>2
      <4> QED
        BY <3>2, <4>4, <4>5 DEF w
    <3>3. CASE k > i
      <4> DEFINE w == (fields[k].pos + v) % 256
      <4>1. k # i
        BY <3>1, <3>3
      <4>2. gs[k] = [fields[k] EXCEPT !.pos = w]
        BY <2>6, <3>3, <4>1, Zenon
      <4>3. w \in 0 .. 255
        <5>1. fields[k].pos \in 0 .. 255
          BY <3>1, FieldFacts
        <5>2. \A a \in 0 .. 255 : (a + v) % 256 \in 0 .. 255
          BY <2>5
        <5> QED
          BY <5>1, <5>2
      <4> HIDE DEF w, gs
      <4>4. /\ gs[k] \in Field
            /\ gs[k].name = fields[k].name /\ gs[k].index = fields[k].index
            /\ gs[k].data = fields[k].data /\ gs[k].buf = fields[k].buf
            /\ gs[k].vlenth_flag_bak = fields[k].vlenth_flag_bak
            /\ gs[k].pos = w /\ gs[k].len = fields[k].len
            /\ gs[k].vlenth_flag = fields[k].vlenth_flag
        BY <3>1, <4>2, <4>3 DEF Field
      <4> QED
        BY <3>3, <4>1, <4>4 DEF w
    <3>4. CASE k # i /\ ~(k > i)
      <4>1. gs[k] = fields[k]
        BY <2>6, <3>4, Zenon
      <4> QED
        BY <3>1, <3>4, <4>1
    <3> QED
      BY <3>2, <3>3, <3>4
  <2>8. DOMAIN gs = DOMAIN fields
    BY <2>6
  <2>9. Moved(fields, gs, i, v)
    BY <2>7, <2>8 DEF Moved
  <2> QED
    BY <1>2, <2>4, <2>9 DEF v
<1> QED
  BY <1>1, <1>2

\* A list that can be the analyzer's: what Base says of the fields.
ListOK(fs) ==
    /\ DOMAIN fs = DOMAIN Format
    /\ \A i \in DOMAIN Format :
         /\ fs[i] \in Field
         /\ fs[i].name = Format[i].name /\ fs[i].index = Format[i].index
         /\ fs[i].vlenth_flag => fs[i].index # NoIndex
         /\ fs[i].vlenth_flag_bak <=> fs[i].index # NoIndex
         /\ TailOnly(Format) => fs[i].pos = Format[i].pos

LEMMA BaseList == Base /\ proto # "none" => ListOK(fields)
<1> SUFFICES ASSUME Base, proto # "none" PROVE ListOK(fields)
  OBVIOUS
<1>1. DOMAIN fields = DOMAIN Format
  BY DEF Base, TypeOK
<1> QED
  BY <1>1 DEF Base, TypeOK, Flags, PositionsKept, ListOK

LEMMA RefilledKeeps ==
    ASSUME NEW fs, NEW gs, ListOK(fs), Refilled(fs, gs)
    PROVE  ListOK(gs)
BY DEF ListOK, Refilled

LEMMA SettledKeeps ==
    ASSUME Base, proto # "none", NEW i \in DOMAIN fields
    PROVE  ListOK(Settled(i))
<1>1. ListOK(fields)
  BY BaseList
<1>2. CASE ~fields[i].vlenth_flag
  BY <1>1, <1>2, SettledFacts
<1>3. CASE fields[i].vlenth_flag
  <2>1. PICK j \in DOMAIN fields : Moved(fields, Settled(i), i, fields[j].data)
    BY <1>3, SettledFacts
  <2> DEFINE v == fields[j].data
             gs == Settled(i)
  <2>2. Moved(fields, gs, i, v)
    BY <2>1
  <2> HIDE DEF v, gs
  <2>3. /\ DOMAIN fields = 1 .. Len(Format) /\ DOMAIN Format = 1 .. Len(Format)
        /\ Len(Format) \in Nat
    BY ListFacts DEF Base
  <2>4. TailOnly(Format) => i = Len(Format)
    BY <1>1, <1>3, <2>3 DEF ListOK, TailOnly
  <2>5. ASSUME NEW k \in DOMAIN Format, TailOnly(Format) PROVE gs[k].pos = fields[k].pos
    <3>1. ~(k > i)
      BY <2>3, <2>4, <2>5
    <3> QED
      BY <2>2, <2>3, <3>1 DEF Moved
  <2>6. ASSUME NEW k \in DOMAIN Format
        PROVE  /\ gs[k] \in Field
               /\ gs[k].name = Format[k].name /\ gs[k].index = Format[k].index
               /\ gs[k].vlenth_flag => gs[k].index # NoIndex
               /\ gs[k].vlenth_flag_bak <=> gs[k].index # NoIndex
    <3>1. /\ gs[k] \in Field
          /\ gs[k].name = fields[k].name /\ gs[k].index = fields[k].index
          /\ gs[k].vlenth_flag_bak = fields[k].vlenth_flag_bak
          /\ gs[k].vlenth_flag <=> fields[k].vlenth_flag /\ k # i
      BY <2>2, <2>3 DEF Moved
    <3> QED
      BY <1>1, <3>1 DEF ListOK
  <2>7. DOMAIN gs = DOMAIN Format
    BY <2>2, <2>3 DEF Moved
  <2> QED
    BY <1>1, <2>5, <2>6, <2>7 DEF ListOK, gs
<1> QED
  BY <1>2, <1>3

\* A new copy of a format.
LEMMA CopyFacts ==
    ASSUME NEW p \in DOMAIN Formats
    PROVE  LET fs == pa_copy_protocol_format(Formats[p])
           IN  /\ DOMAIN fs = DOMAIN Formats[p]
               /\ \A i \in DOMAIN Formats[p] :
                    /\ fs[i] \in Field
                    /\ fs[i].name = Formats[p][i].name /\ fs[i].index = Formats[p][i].index
                    /\ fs[i].pos = Formats[p][i].pos /\ fs[i].len = Formats[p][i].len
                    /\ fs[i].vlenth_flag <=> fs[i].index # NoIndex
                    /\ fs[i].vlenth_flag_bak <=> fs[i].index # NoIndex
<1> DEFINE fs == pa_copy_protocol_format(Formats[p])
<1>1. DOMAIN fs = DOMAIN Formats[p]
  BY DEF pa_copy_protocol_format
<1>2. ASSUME NEW i \in DOMAIN Formats[p]
      PROVE  /\ fs[i] \in Field
             /\ fs[i].name = Formats[p][i].name /\ fs[i].index = Formats[p][i].index
             /\ fs[i].pos = Formats[p][i].pos /\ fs[i].len = Formats[p][i].len
             /\ fs[i].vlenth_flag <=> fs[i].index # NoIndex
             /\ fs[i].vlenth_flag_bak <=> fs[i].index # NoIndex
  <2> DEFINE g == Formats[p][i]
             flag == g.index # NoIndex
  <2>1. fs[i] = [name |-> g.name, pos |-> g.pos, len |-> g.len,
                 index |-> g.index, vlenth_flag |-> flag,
                 vlenth_flag_bak |-> flag, data |-> 0, buf |-> <<>>]
    BY DEF pa_copy_protocol_format
  <2>2. /\ g.name \in STRING /\ g.index \in STRING /\ g.pos \in Byte /\ g.len \in Byte
    BY FormatFacts
  <2>3. flag \in BOOLEAN /\ g.len \in UInt16 /\ 0 \in Nat /\ <<>> \in Seq(0 .. 255)
    <3>1. \A x \in Byte : x \in UInt16
      BY SMTT(30) DEF Byte, UInt16
    <3> QED
      BY <2>2, <3>1
  <2>4. flag <=> g.index # NoIndex
    OBVIOUS
  <2> HIDE DEF flag, g, fs
  <2>5. fs[i] \in Field
    BY <2>1, <2>2, <2>3 DEF Field, Byte
  <2>6. /\ fs[i].name = g.name /\ fs[i].index = g.index
        /\ fs[i].pos = g.pos /\ fs[i].len = g.len
        /\ fs[i].vlenth_flag = flag /\ fs[i].vlenth_flag_bak = flag
    BY <2>1
  <2> QED
    BY <2>4, <2>5, <2>6 DEF g
<1> QED
  BY <1>1, <1>2

\* What SetField does to a field.
LEMMA SetFieldFacts ==
    ASSUME NEW f \in Field, NEW bytes \in Seq(Byte)
    PROVE  LET g == SetField(f, bytes)
           IN  /\ g \in Field
               /\ g.name = f.name /\ g.index = f.index /\ g.pos = f.pos /\ g.len = f.len
               /\ g.vlenth_flag = f.vlenth_flag /\ g.vlenth_flag_bak = f.vlenth_flag_bak
               /\ InBuffer(Len(bytes)) =>
                    /\ Len(g.buf) >= Len(bytes)
                    /\ \A k \in 1 .. Len(bytes) : g.buf[k] = bytes[k]
               /\ ~InBuffer(Len(bytes)) => g.data = pa_get_protocol_byte_data(bytes)
<1> DEFINE g == SetField(f, bytes)
           b == pa_set_buf(f.buf, bytes)
           v == pa_get_protocol_byte_data(bytes)
<1>1. f.buf \in Seq(Byte) /\ Len(f.buf) \in Nat /\ Len(bytes) \in Nat
  BY FieldFacts
<1>2. /\ b \in Seq(Byte) /\ Len(b) >= Len(bytes)
      /\ \A k \in 1 .. Len(bytes) : b[k] = bytes[k]
  <2>1. CASE Len(bytes) <= Len(f.buf)
    <3> DEFINE rest == SubSeq(f.buf, Len(bytes) + 1, Len(f.buf))
    <3>1. rest \in Seq(Byte) /\ b = bytes \o rest
      BY <1>1, <2>1 DEF pa_set_buf
    <3> HIDE DEF rest, b
    <3>2. /\ bytes \o rest \in Seq(Byte) /\ Len(bytes \o rest) = Len(bytes) + Len(rest)
          /\ \A k \in 1 .. Len(bytes) : (bytes \o rest)[k] = bytes[k]
      BY <3>1
    <3> QED
      BY <3>1, <3>2
  <2>2. CASE ~(Len(bytes) <= Len(f.buf))
    BY <1>1, <2>2 DEF pa_set_buf
  <2> QED
    BY <2>1, <2>2
<1> HIDE DEF b, v, g
<1>3. CASE InBuffer(Len(bytes))
  <2>1. g = [f EXCEPT !.buf = b]
    BY <1>3, Zenon DEF g, SetField, b
  <2> QED
    BY <1>2, <1>3, <2>1, ContentsKept DEF g
<1>4. CASE ~InBuffer(Len(bytes))
  <2>1. g = [f EXCEPT !.data = v]
    BY <1>4, Zenon DEF g, SetField, v
  <2>2. v \in Nat
    BY <1>1, <1>4, BytesRoundTrip DEF InBuffer, v
  <2> QED
    BY <1>4, <2>1, <2>2, ContentsKept DEF g, v
<1> QED
  BY <1>3, <1>4

(***************************************************************************)
(* What the steps do                                                       *)
(***************************************************************************)

Array == [0 .. MaxProtoDataLen - 1 -> Byte]

\* The bytes of a message laid into the array.
LEMMA EncodedTyped ==
    ASSUME NEW format, NEW m, IsValues(format, m), NEW old \in Array,
           \A i \in DOMAIN format : Start(format, m, i) \in Nat
    PROVE  Encoded(format, m, old) \in Array
<1> DEFINE From(i) == Start(format, m, i)
           start == [i \in DOMAIN format |-> From(i)]
           Here(p) == {i \in DOMAIN format : p >= start[i] /\ p < start[i] + Len(m[i])}
           e == Encoded(format, m, old)
<1>1. e = [p \in DOMAIN old |->
             IF Here(p) = {} THEN old[p]
             ELSE LET i == CHOOSE i \in Here(p) : TRUE IN m[i][p - start[i] + 1]]
  BY DEF Encoded
<1> HIDE DEF e
<1>2. ASSUME NEW p \in 0 .. MaxProtoDataLen - 1 PROVE e[p] \in Byte
  <2>1. CASE Here(p) = {}
    <3>1. e[p] = old[p]
      BY <1>1, <2>1 DEF Array
    <3> QED
      BY <3>1 DEF Array
  <2>2. CASE Here(p) # {}
    <3> DEFINE i == CHOOSE i \in Here(p) : TRUE
    <3>1. i \in Here(p)
      BY <2>2
    <3>2. e[p] = m[i][p - start[i] + 1]
      BY <1>1, <2>2 DEF Array
    <3> HIDE DEF i
    <3>3. /\ i \in DOMAIN format /\ p >= From(i) /\ p < From(i) + Len(m[i])
          /\ start[i] = From(i)
      BY <3>1
    <3>4. m[i] \in Seq(Byte) /\ From(i) \in Nat /\ Len(m[i]) \in Nat /\ p \in Nat
      BY <3>3, SizesAssumption DEF IsValues
    <3> HIDE DEF start, From
    <3>5. p - start[i] + 1 \in 1 .. Len(m[i])
      BY <3>3, <3>4
    <3> QED
      BY <3>2, <3>4, <3>5
  <2> QED
    BY <2>1, <2>2
<1>3. e = [p \in 0 .. MaxProtoDataLen - 1 |-> e[p]]
  <2>1. DOMAIN old = 0 .. MaxProtoDataLen - 1
    BY DEF Array
  <2> DEFINE W(p) == IF Here(p) = {} THEN old[p]
                     ELSE LET i == CHOOSE i \in Here(p) : TRUE IN m[i][p - start[i] + 1]
  <2>2. e = [p \in DOMAIN old |-> W(p)]
    BY <1>1
  <2> HIDE DEF W
  <2>3. e = [p \in DOMAIN old |-> e[p]]
    BY <2>2
  <2> QED
    BY <2>1, <2>3
<1> HIDE DEF Here
<1> QED
  BY <1>2, <1>3 DEF Array, e

\* The messages that a step may take.
LEMMA MessagesFacts ==
    ASSUME TypeOK, proto # "none", NEW values \in Messages
    PROVE  /\ IsValues(Format, values)
           /\ WellLaid(Format) => IsMessage(Format, values)
           /\ TotalLen(Format, values) \in Nat /\ TotalLen(Format, values) <= MaxProtoDataLen
           /\ \A i \in DOMAIN Format : Start(Format, values, i) \in Nat
<1>1. proto \in DOMAIN Formats /\ Format = Formats[proto] /\ tick \in {0, 1}
  BY DEF TypeOK, Format
<1>2. PICK lens \in [LengthFields(Format) -> Lens] : values = Message(Format, lens, tick)
  BY DEF Messages
<1>3. /\ IsValues(Format, values)
      /\ WellLaid(Format) => IsMessage(Format, values)
  BY <1>1, <1>2, MessageFacts
<1>4. TotalLen(Format, values) <= MaxProtoDataLen
  BY DEF Messages
<1>5. /\ DOMAIN Format = 1 .. Len(Format) /\ Len(Format) \in 1 .. Len(Format)
  BY <1>1, FormatFacts
<1>6. \A i \in DOMAIN Format : Start(Format, values, i) \in Nat
  BY <1>1, <1>3, <1>5, StartFacts
<1>7. Len(values[Len(Format)]) \in Nat
  BY <1>3, <1>5 DEF IsValues
<1>8. TotalLen(Format, values) \in Nat
  BY <1>5, <1>6, <1>7 DEF TotalLen
<1> QED
  BY <1>3, <1>4, <1>6, <1>8

\* The caller sets its values.
LEMMA SetEffect ==
    ASSUME TypeOK, NEW values, SetValues(values), IsValues(Format, values)
    PROVE  /\ Refilled(fields, fields')
           /\ crash' \in {"no", "null"}
           /\ ~SetLongNames =>
                /\ crash' = "no"
                /\ \A k \in DOMAIN fields :
                     fields'[k] = IF k \in Long THEN fields[k] ELSE SetField(fields[k], values[k])
                /\ want' = [i \in DOMAIN fields |->
                              IF i \in Long
                              THEN pa_set_protocol_byte_data(fields[i].data, fields[i].len)
                              ELSE values[i]]
<1> DEFINE named == IF SetLongNames THEN Long ELSE {}
<1>1. PICK hit \in [named -> UNION {pa_find_key(i) : i \in named}] :
        LET Misled(k) == {i \in named : hit[i] = k /\ k <= i}
        IN  /\ fields' = [k \in DOMAIN fields |->
                            IF Misled(k) # {}
                            THEN SetField(fields[k], values[CHOOSE i \in Misled(k) : TRUE])
                            ELSE IF k \in Long THEN fields[k]
                            ELSE SetField(fields[k], values[k])]
            /\ crash' = IF \E i \in named : hit[i] = 0 THEN "null" ELSE "no"
  BY Zenon DEF SetValues
<1> DEFINE Misled(k) == {i \in named : hit[i] = k /\ k <= i}
<1>2. /\ DOMAIN fields' = DOMAIN fields
      /\ \A k \in DOMAIN fields :
           fields'[k] = IF Misled(k) # {}
                        THEN SetField(fields[k], values[CHOOSE i \in Misled(k) : TRUE])
                        ELSE IF k \in Long THEN fields[k]
                        ELSE SetField(fields[k], values[k])
  BY <1>1, Zenon
<1>3. proto # "none" /\ DOMAIN fields = DOMAIN Format
  BY DEF SetValues, Ready, TypeOK
<1>4. \A k \in DOMAIN fields : fields[k] \in Field
  BY DEF TypeOK
<1>5. \A k \in DOMAIN fields : values[k] \in Seq(Byte)
  BY <1>3 DEF IsValues
<1>6. ASSUME NEW k \in DOMAIN fields
      PROVE  \/ fields'[k] = fields[k]
             \/ \E b \in Seq(Byte) : fields'[k] = SetField(fields[k], b)
  <2>1. CASE Misled(k) # {}
    <3> DEFINE i == CHOOSE i \in Misled(k) : TRUE
    <3>1. i \in Misled(k)
      BY <2>1
    <3>2. i \in DOMAIN fields
      BY <3>1 DEF Long
    <3>3. fields'[k] = SetField(fields[k], values[i])
      BY <1>2, <2>1
    <3> HIDE DEF i
    <3> QED
      BY <1>5, <3>2, <3>3
  <2>2. CASE Misled(k) = {}
    <3>1. \/ fields'[k] = fields[k]
          \/ fields'[k] = SetField(fields[k], values[k])
      BY <1>2, <2>2
    <3> QED
      BY <1>5, <3>1
  <2> QED
    BY <2>1, <2>2
<1>7. ASSUME NEW k \in DOMAIN fields
      PROVE  /\ fields'[k] \in Field
             /\ fields'[k].name = fields[k].name /\ fields'[k].index = fields[k].index
             /\ fields'[k].pos = fields[k].pos /\ fields'[k].len = fields[k].len
             /\ fields'[k].vlenth_flag = fields[k].vlenth_flag
             /\ fields'[k].vlenth_flag_bak = fields[k].vlenth_flag_bak
  <2>1. CASE fields'[k] = fields[k]
    BY <1>4, <2>1
  <2>2. ASSUME NEW b \in Seq(Byte), fields'[k] = SetField(fields[k], b)
        PROVE  /\ fields'[k] \in Field
               /\ fields'[k].name = fields[k].name /\ fields'[k].index = fields[k].index
               /\ fields'[k].pos = fields[k].pos /\ fields'[k].len = fields[k].len
               /\ fields'[k].vlenth_flag = fields[k].vlenth_flag
               /\ fields'[k].vlenth_flag_bak = fields[k].vlenth_flag_bak
    <3>1. fields[k] \in Field
      BY <1>4
    <3> QED
      BY <2>2, <3>1, SetFieldFacts
  <2> QED
    BY <1>6, <2>1, <2>2
<1>8. Refilled(fields, fields')
  BY <1>2, <1>7 DEF Refilled
<1>9. crash' \in {"no", "null"}
  BY <1>1
<1>10. ASSUME ~SetLongNames
       PROVE  /\ crash' = "no"
              /\ \A k \in DOMAIN fields :
                   fields'[k] = IF k \in Long THEN fields[k] ELSE SetField(fields[k], values[k])
              /\ want' = [i \in DOMAIN fields |->
                            IF i \in Long
                            THEN pa_set_protocol_byte_data(fields[i].data, fields[i].len)
                            ELSE values[i]]
  <2>1. named = {} /\ \A k : Misled(k) = {}
    BY <1>10
  <2>2. crash' = "no"
    BY <1>1, <2>1
  <2>3. \A k \in DOMAIN fields :
          fields'[k] = IF k \in Long THEN fields[k] ELSE SetField(fields[k], values[k])
    BY <1>2, <2>1
  <2>4. want' = [i \in DOMAIN fields |->
                   IF i \in Long \ named
                   THEN pa_set_protocol_byte_data(fields[i].data, fields[i].len)
                   ELSE values[i]]
    BY DEF SetValues
  <2> QED
    BY <2>1, <2>2, <2>3, <2>4
<1> QED
  BY <1>8, <1>9, <1>10

\* The flags are restored.
LEMMA ResetEffect ==
    ASSUME TypeOK, pa_reset_vlen_flag
    PROVE  /\ DOMAIN fields' = DOMAIN fields
           /\ \A k \in DOMAIN fields :
                /\ fields'[k] \in Field
                /\ fields'[k].name = fields[k].name /\ fields'[k].index = fields[k].index
                /\ fields'[k].pos = fields[k].pos /\ fields'[k].len = fields[k].len
                /\ fields'[k].vlenth_flag <=> fields[k].vlenth_flag \/ fields[k].vlenth_flag_bak
                /\ fields'[k].vlenth_flag_bak = fields[k].vlenth_flag_bak
<1>1. fields' = [i \in DOMAIN fields |->
                    [fields[i] EXCEPT !.vlenth_flag = @ \/ fields[i].vlenth_flag_bak]]
  BY DEF pa_reset_vlen_flag
<1>2. ASSUME NEW k \in DOMAIN fields
      PROVE  /\ fields'[k] \in Field
             /\ fields'[k].name = fields[k].name /\ fields'[k].index = fields[k].index
             /\ fields'[k].pos = fields[k].pos /\ fields'[k].len = fields[k].len
             /\ fields'[k].vlenth_flag <=> fields[k].vlenth_flag \/ fields[k].vlenth_flag_bak
             /\ fields'[k].vlenth_flag_bak = fields[k].vlenth_flag_bak
  <2> DEFINE flag == fields[k].vlenth_flag \/ fields[k].vlenth_flag_bak
  <2>1. fields'[k] = [fields[k] EXCEPT !.vlenth_flag = flag]
    BY <1>1, Zenon
  <2>2. fields[k] \in Field /\ flag \in BOOLEAN
    BY DEF TypeOK
  <2>3. flag <=> fields[k].vlenth_flag \/ fields[k].vlenth_flag_bak
    OBVIOUS
  <2> HIDE DEF flag
  <2>4. /\ fields'[k] \in Field
        /\ fields'[k].name = fields[k].name /\ fields'[k].index = fields[k].index
        /\ fields'[k].pos = fields[k].pos /\ fields'[k].len = fields[k].len
        /\ fields'[k].vlenth_flag = flag
        /\ fields'[k].vlenth_flag_bak = fields[k].vlenth_flag_bak
    BY <2>1, <2>2 DEF Field
  <2> QED
    BY <2>3, <2>4
<1> QED
  BY <1>1, <1>2

\* Moving on in the list.
LEMMA AdvanceFacts ==
    ASSUME TypeOK, proto # "none", loop.op # "idle", NEW done, Advance(done)
    PROVE  /\ loop.at \in 1 .. Len(Format)
           /\ loop.at = Len(Format) => loop' = NoLoop /\ stage' = done
           /\ loop.at # Len(Format) =>
                /\ loop' = [op |-> loop.op, at |-> loop.at + 1] /\ stage' = stage
                /\ loop.at + 1 \in 1 .. Len(Format)
<1>1. loop.at \in 1 .. Len(Format) /\ Len(Format) \in Nat
  BY ListFacts DEF TypeOK
<1>2. loop = [op |-> loop.op, at |-> loop.at]
  BY DEF TypeOK
<1>3. loop.at = Len(Format) => loop' = NoLoop /\ stage' = done
  BY DEF Advance
<1>4. loop.at # Len(Format) => stage' = stage /\ loop' = [loop EXCEPT !.at = @ + 1]
  BY DEF Advance
<1>5. [loop EXCEPT !.at = @ + 1] = [op |-> loop.op, at |-> loop.at + 1]
  BY <1>2
<1>6. loop.at # Len(Format) => loop.at + 1 \in 1 .. Len(Format)
  BY <1>1
<1> QED
  BY <1>1, <1>3, <1>4, <1>5, <1>6

\* An iteration of the loop of pa_parse_protocol_data that stays in the array.
LEMMA ParseEffect ==
    ASSUME Base, proto # "none", pa_parse_protocol_data,
           ~Overrun(Settled(loop.at)[loop.at])
    PROVE  LET i == loop.at
               fs == Settled(i)
               bytes == [k \in 1 .. fs[i].len |-> data[fs[i].pos + k - 1]]
           IN  /\ i \in DOMAIN Format
               /\ bytes \in Seq(Byte) /\ Len(bytes) = fs[i].len
               /\ Refilled(fs, fields')
               /\ \A k \in DOMAIN Format : k # i => fields'[k] = fs[k]
               /\ InBuffer(fs[i].len) => fields'[i].buf = bytes
               /\ ~InBuffer(fs[i].len) => fields'[i].data = pa_get_protocol_byte_data(bytes)
<1> DEFINE i == loop.at
           fs == Settled(i)
           f == fs[i]
           bytes == [k \in 1 .. f.len |-> data[f.pos + k - 1]]
           v == pa_get_protocol_byte_data(bytes)
           g == IF InBuffer(f.len) THEN [f EXCEPT !.buf = bytes] ELSE [f EXCEPT !.data = v]
<1>1. i \in DOMAIN fields /\ DOMAIN fields = DOMAIN Format
  BY DEF pa_parse_protocol_data, Base, TypeOK
<1>2. ListOK(fs)
  BY <1>1, SettledKeeps
<1>3. fields' = [fs EXCEPT ![i] = g]
  BY Zenon DEF pa_parse_protocol_data
<1>4. f \in Field /\ DOMAIN fs = DOMAIN Format
  BY <1>1, <1>2 DEF ListOK
<1>5. /\ f.pos \in Nat /\ f.len \in Nat /\ f.pos + f.len <= MaxProtoDataLen
  <2>1. f.pos \in Nat /\ f.len \in Nat
    BY <1>4, FieldFacts
  <2>2. MaxProtoDataLen \in Nat /\ ~(f.pos + f.len > MaxProtoDataLen)
    BY SizesAssumption DEF Overrun
  <2> HIDE DEF f
  <2> QED
    BY <2>1, <2>2
<1> HIDE DEF fs, f
<1>6. bytes \in Seq(Byte) /\ Len(bytes) = f.len
  <2>1. ASSUME NEW k \in 1 .. f.len PROVE data[f.pos + k - 1] \in Byte
    <3>1. f.pos + k - 1 \in 0 .. MaxProtoDataLen - 1
      BY <1>5, SizesAssumption
    <3> QED
      BY <3>1 DEF Base, TypeOK, Byte
  <2> QED
    BY <1>5, <2>1
<1> HIDE DEF bytes
<1>7. /\ g \in Field
      /\ g.name = f.name /\ g.index = f.index /\ g.pos = f.pos /\ g.len = f.len
      /\ g.vlenth_flag = f.vlenth_flag /\ g.vlenth_flag_bak = f.vlenth_flag_bak
      /\ InBuffer(f.len) => g.buf = bytes
      /\ ~InBuffer(f.len) => g.data = v
  <2>1. CASE InBuffer(f.len)
    <3>1. g = [f EXCEPT !.buf = bytes]
      BY <2>1
    <3> HIDE DEF g
    <3> QED
      BY <1>4, <1>6, <2>1, <3>1, ContentsKept
  <2>2. CASE ~InBuffer(f.len)
    <3>1. g = [f EXCEPT !.data = v]
      BY <2>2
    <3>2. Len(bytes) <= 4
      BY <1>5, <1>6, <2>2 DEF InBuffer
    <3>3. v \in Nat
      BY <1>6, <3>2, BytesRoundTrip
    <3> HIDE DEF g, v
    <3> QED
      BY <1>4, <2>2, <3>1, <3>3, ContentsKept
  <2> QED
    BY <2>1, <2>2
<1> HIDE DEF g, v, i
<1>8. DOMAIN fields' = DOMAIN fs /\ fields'[i] = g /\ \A k \in DOMAIN Format : k # i => fields'[k] = fs[k]
  BY <1>1, <1>3, <1>4
<1>9. Refilled(fs, fields')
  <2>1. ASSUME NEW k \in DOMAIN fs
        PROVE  /\ fields'[k] \in Field
               /\ fields'[k].name = fs[k].name /\ fields'[k].index = fs[k].index
               /\ fields'[k].pos = fs[k].pos /\ fields'[k].len = fs[k].len
               /\ fields'[k].vlenth_flag = fs[k].vlenth_flag
               /\ fields'[k].vlenth_flag_bak = fs[k].vlenth_flag_bak
    <3>1. CASE k = i
      BY <1>7, <1>8, <3>1 DEF f
    <3>2. CASE k # i
      BY <1>2, <1>4, <1>8, <3>2 DEF ListOK
    <3> QED
      BY <3>1, <3>2
  <2> QED
    BY <1>8, <2>1 DEF Refilled
<1>10. /\ i \in DOMAIN Format
       /\ bytes \in Seq(Byte) /\ Len(bytes) = fs[i].len
       /\ Refilled(fs, fields')
       /\ \A k \in DOMAIN Format : k # i => fields'[k] = fs[k]
       /\ InBuffer(fs[i].len) => fields'[i].buf = bytes
       /\ ~InBuffer(fs[i].len) => fields'[i].data = v
  BY <1>1, <1>6, <1>7, <1>8, <1>9 DEF f
<1> QED
  BY <1>10 DEF v, bytes, f, fs, i

\* An iteration of the loop of pa_generate_protocol_data that stays in the array.
LEMMA GenerateEffect ==
    ASSUME Base, proto # "none", pa_generate_protocol_data,
           LET f == Settled(loop.at)[loop.at]
               bytes == IF InBuffer(f.len) THEN f.buf
                        ELSE pa_set_protocol_byte_data(f.data, f.len)
           IN  ~(Overrun(f) \/ Len(bytes) < f.len)
    PROVE  LET i == loop.at
               f == Settled(i)[i]
               bytes == IF InBuffer(f.len) THEN f.buf
                        ELSE pa_set_protocol_byte_data(f.data, f.len)
           IN  /\ i \in DOMAIN Format
               /\ fields' = Settled(i)
               /\ data' \in Array
               /\ \A p \in 0 .. MaxProtoDataLen - 1 :
                    data'[p] = IF p >= f.pos /\ p < f.pos + f.len
                               THEN bytes[p - f.pos + 1] ELSE data[p]
               /\ datalen' = f.pos + f.len
               /\ datalen' \in 0 .. MaxProtoDataLen
<1> DEFINE i == loop.at
           fs == Settled(i)
           f == fs[i]
           bytes == IF InBuffer(f.len) THEN f.buf ELSE pa_set_protocol_byte_data(f.data, f.len)
<1>1. i \in DOMAIN fields /\ DOMAIN fields = DOMAIN Format
  BY DEF pa_generate_protocol_data, Base, TypeOK
<1>2. ListOK(fs)
  BY <1>1, SettledKeeps
<1>3. ~Overrun(f) /\ ~(Len(bytes) < f.len)
  OBVIOUS
<1>4. /\ fields' = fs
      /\ data' = [p \in DOMAIN data |->
                    IF p >= f.pos /\ p < f.pos + f.len
                    THEN bytes[p - f.pos + 1] ELSE data[p]]
      /\ datalen' = f.pos + f.len
  BY <1>3, Zenon DEF pa_generate_protocol_data
<1>5. f \in Field
  BY <1>1, <1>2 DEF ListOK
<1>6. f.pos \in Nat /\ f.len \in Nat /\ f.pos + f.len <= MaxProtoDataLen
  <2>1. f.pos \in Nat /\ f.len \in Nat
    BY <1>5, FieldFacts
  <2>2. MaxProtoDataLen \in Nat /\ ~(f.pos + f.len > MaxProtoDataLen)
    BY <1>3, SizesAssumption DEF Overrun
  <2> HIDE DEF f
  <2> QED
    BY <2>1, <2>2
<1> HIDE DEF fs, f
<1>7. bytes \in Seq(Byte) /\ Len(bytes) \in Nat
  <2>1. CASE InBuffer(f.len)
    BY <1>5, <2>1, FieldFacts
  <2>2. CASE ~InBuffer(f.len)
    <3>1. f.data \in Nat /\ f.len \in 0 .. 4
      BY <1>5, <1>6, <2>2, FieldFacts DEF InBuffer
    <3> QED
      BY <2>2, <3>1, BytesOfNumber
  <2> QED
    BY <2>1, <2>2
<1> HIDE DEF bytes
<1>8. Len(bytes) >= f.len
  BY <1>3, <1>6, <1>7
<1>9. data \in Array
  BY DEF Base, TypeOK, Array, Byte
<1>10. \A p \in 0 .. MaxProtoDataLen - 1 :
         data'[p] = IF p >= f.pos /\ p < f.pos + f.len
                    THEN bytes[p - f.pos + 1] ELSE data[p]
  BY <1>4, <1>9 DEF Array
<1>11. ASSUME NEW p \in 0 .. MaxProtoDataLen - 1 PROVE data'[p] \in Byte
  <2>1. CASE p >= f.pos /\ p < f.pos + f.len
    <3>1. p - f.pos + 1 \in 1 .. Len(bytes)
      BY <1>6, <1>7, <1>8, <2>1, SizesAssumption
    <3> QED
      BY <1>7, <1>10, <2>1, <3>1
  <2>2. CASE ~(p >= f.pos /\ p < f.pos + f.len)
    <3>1. data'[p] = data[p]
      BY <1>10, <2>2
    <3> QED
      BY <1>9, <3>1 DEF Array
  <2> QED
    BY <2>1, <2>2
<1>12. data' \in Array
  <2>1. DOMAIN data = 0 .. MaxProtoDataLen - 1
    BY <1>9 DEF Array
  <2> DEFINE W(p) == IF p >= f.pos /\ p < f.pos + f.len
                     THEN bytes[p - f.pos + 1] ELSE data[p]
  <2>2. data' = [p \in DOMAIN data |-> W(p)]
    BY <1>4
  <2> HIDE DEF W
  <2>3. data' = [p \in 0 .. MaxProtoDataLen - 1 |-> data'[p]]
    BY <2>1, <2>2
  <2> QED
    BY <1>11, <2>3 DEF Array
<1>13. datalen' \in 0 .. MaxProtoDataLen
  BY <1>4, <1>6, SizesAssumption
<1> QED
  BY <1>1, <1>4, <1>10, <1>12, <1>13 DEF bytes, f, fs

(***************************************************************************)
(* Every step keeps the types                                              *)
(***************************************************************************)

LoopOK(l) == /\ l \in [op : {"idle", "parse", "generate"}, at : Nat]
             /\ l.op = "idle" <=> l.at = 0
             /\ l.op # "idle" => l.at \in DOMAIN Format

\* The types of the new state, part by part.
LEMMA BaseParts ==
    ASSUME proto \in DOMAIN Formats, proto' = proto, ListOK(fields'), data' \in Array,
           datalen' \in 0 .. MaxProtoDataLen, LoopOK(loop'), stage' \in Stages,
           tick' \in {0, 1}, crash' \in {"no", "null", "overrun"}
    PROVE  Base'
<1>1. Format' = Format /\ proto \in DOMAIN Formats
  BY DEF Format
<1>2. proto' # "none" /\ proto' \in DOMAIN Formats
  BY <1>1, NoneAssumption
<1>3. DOMAIN fields' = DOMAIN Format
  BY DEF ListOK
<1>4. /\ loop' \in [op : {"idle", "parse", "generate"}, at : Nat]
      /\ loop'.op = "idle" <=> loop'.at = 0
      /\ loop'.op # "idle" => loop'.at \in DOMAIN fields'
  BY <1>3 DEF LoopOK
<1>5. \A i \in DOMAIN fields' : /\ fields'[i] \in Field
                               /\ fields'[i].name = Format'[i].name
                               /\ fields'[i].index = Format'[i].index
  BY <1>1, <1>3 DEF ListOK
<1>6. TypeOK'
  BY <1>1, <1>2, <1>3, <1>4, <1>5 DEF TypeOK, Array, Byte
<1>7. Flags'
  BY <1>3 DEF ListOK, Flags
<1>8. PositionsKept'
  BY <1>1, <1>3 DEF ListOK, PositionsKept
<1> QED
  BY <1>6, <1>7, <1>8 DEF Base

LEMMA EmptyArray == [p \in 0 .. MaxProtoDataLen - 1 |-> 0] \in Array
BY DEF Array, Byte

\* A state without an analyzer.
LEMMA NoAnalyzer ==
    ASSUME proto = "none", fields = <<>>, data = [p \in 0 .. MaxProtoDataLen - 1 |-> 0],
           datalen = 0, loop = NoLoop, stage = "new", tick \in {0, 1}, crash = "no"
    PROVE  Base
<1>1. data \in [0 .. MaxProtoDataLen - 1 -> 0 .. 255]
  BY EmptyArray DEF Array, Byte
<1>2. datalen \in 0 .. MaxProtoDataLen
  BY SizesAssumption
<1>3. DOMAIN fields = {}
  OBVIOUS
<1>4. /\ loop \in [op : {"idle", "parse", "generate"}, at : Nat]
      /\ loop.op = "idle" /\ loop.at = 0
  BY DEF NoLoop
<1>5. stage \in Stages
  BY DEF Stages
<1>6. TypeOK
  BY <1>1, <1>2, <1>3, <1>4, <1>5 DEF TypeOK
<1> QED
  BY <1>3, <1>6 DEF Base, Flags, PositionsKept

LEMMA BaseInit == Init => Base
BY NoAnalyzer DEF Init

LEMMA BaseStep == Base /\ [Next]_vars => Base'
<1> SUFFICES ASSUME Base, [Next]_vars PROVE Base'
  OBVIOUS
<1>1. /\ data \in Array /\ datalen \in 0 .. MaxProtoDataLen /\ stage \in Stages
      /\ tick \in {0, 1} /\ crash \in {"no", "null", "overrun"}
  BY DEF Base, TypeOK, Array, Byte
<1>2. proto # "none" => /\ proto \in DOMAIN Formats /\ ListOK(fields)
                        /\ LoopOK(loop) /\ TypeOK /\ DOMAIN fields = DOMAIN Format
  <2> SUFFICES ASSUME proto # "none"
               PROVE  /\ proto \in DOMAIN Formats /\ ListOK(fields)
                      /\ LoopOK(loop) /\ TypeOK /\ DOMAIN fields = DOMAIN Format
    OBVIOUS
  <2>1. ListOK(fields)
    BY BaseList
  <2> QED
    BY <2>1 DEF Base, TypeOK, LoopOK
<1>3. LoopOK(NoLoop)
  BY DEF LoopOK, NoLoop
<1>4. ASSUME NEW p \in DOMAIN Formats, pa_init_protocol_analyzer(p) PROVE Base'
  <2>1. /\ proto = "none" /\ proto' = p /\ fields' = pa_copy_protocol_format(Formats[p])
        /\ data' = [b \in 0 .. MaxProtoDataLen - 1 |-> 0] /\ datalen' = 0 /\ stage' = "new"
        /\ loop' = loop /\ tick' = tick /\ crash' = crash
    BY <1>4 DEF pa_init_protocol_analyzer
  <2>2. loop' = NoLoop
    BY <2>1 DEF Base, TypeOK
  <2>3. p # "none" /\ Format' = Formats[p]
    BY <2>1, NoneAssumption DEF Format
  <2>4. /\ DOMAIN fields' = DOMAIN Formats[p]
        /\ \A i \in DOMAIN Formats[p] :
             /\ fields'[i] \in Field
             /\ fields'[i].name = Formats[p][i].name /\ fields'[i].index = Formats[p][i].index
             /\ fields'[i].pos = Formats[p][i].pos
             /\ fields'[i].vlenth_flag <=> fields'[i].index # NoIndex
             /\ fields'[i].vlenth_flag_bak <=> fields'[i].index # NoIndex
    BY <2>1, CopyFacts
  <2>5. TypeOK'
    <3>1. data' \in [0 .. MaxProtoDataLen - 1 -> 0 .. 255]
      BY <2>1, EmptyArray DEF Array, Byte
    <3>2. datalen' \in 0 .. MaxProtoDataLen
      BY <2>1, SizesAssumption
    <3>3. /\ loop' \in [op : {"idle", "parse", "generate"}, at : Nat]
          /\ loop'.op = "idle" /\ loop'.at = 0
      BY <2>2 DEF NoLoop
    <3> QED
      BY <1>1, <2>1, <2>3, <2>4, <3>1, <3>2, <3>3 DEF TypeOK, Stages
  <2>6. Flags'
    BY <2>4 DEF Flags
  <2>7. PositionsKept'
    BY <2>3, <2>4 DEF PositionsKept
  <2> QED
    BY <2>5, <2>6, <2>7 DEF Base
<1>5. CASE pa_destroy_protocol_analyzer
  <2>1. /\ proto' = "none" /\ fields' = <<>> /\ data' = [p \in 0 .. MaxProtoDataLen - 1 |-> 0]
        /\ datalen' = 0 /\ loop' = NoLoop /\ stage' = "new" /\ tick' = tick /\ crash' = "no"
    BY <1>5 DEF pa_destroy_protocol_analyzer
  <2>2. TypeOK'
    <3>1. data' \in [0 .. MaxProtoDataLen - 1 -> 0 .. 255]
      BY <2>1, EmptyArray DEF Array, Byte
    <3>2. datalen' \in 0 .. MaxProtoDataLen
      BY <2>1, SizesAssumption
    <3>3. DOMAIN fields' = {}
      BY <2>1
    <3>4. /\ loop' \in [op : {"idle", "parse", "generate"}, at : Nat]
          /\ loop'.op = "idle" /\ loop'.at = 0
      BY <2>1 DEF NoLoop
    <3> QED
      BY <1>1, <2>1, <3>1, <3>2, <3>3, <3>4 DEF TypeOK, Stages
  <2> QED
    BY <2>1, <2>2 DEF Base, Flags, PositionsKept
<1>6. ASSUME Ready, NEW values \in Messages, Receive(values) \/ SetValues(values)
      PROVE  Base'
  <2>1. proto # "none"
    BY <1>6 DEF Ready
  <2>2. /\ IsValues(Format, values)
        /\ TotalLen(Format, values) \in Nat /\ TotalLen(Format, values) <= MaxProtoDataLen
        /\ \A i \in DOMAIN Format : Start(Format, values, i) \in Nat
    BY <1>2, <2>1, MessagesFacts
  <2>3. CASE Receive(values)
    <3>1. /\ proto' = proto /\ fields' = fields /\ loop' = loop /\ crash' = crash
          /\ data' = Encoded(Format, values, data)
          /\ datalen' = TotalLen(Format, values)
          /\ tick' = 1 - tick /\ stage' = "received"
      BY <2>3 DEF Receive
    <3>2. data' \in Array
      BY <1>1, <2>2, <3>1, EncodedTyped
    <3>3. tick' \in {0, 1}
      BY <1>1, <3>1
    <3>4. datalen' \in 0 .. MaxProtoDataLen
      BY <2>2, <3>1, SizesAssumption
    <3> QED
      BY <1>1, <1>2, <2>1, <3>1, <3>2, <3>3, <3>4, BaseParts DEF Stages
  <2>4. CASE SetValues(values)
    <3>1. /\ proto' = proto /\ loop' = loop /\ data' = data /\ datalen' = datalen
          /\ tick' = 1 - tick /\ stage' = "set"
      BY <2>4 DEF SetValues
    <3>2. Refilled(fields, fields') /\ crash' \in {"no", "null"}
      BY <1>2, <2>1, <2>2, <2>4, SetEffect
    <3>3. tick' \in {0, 1}
      BY <1>1, <3>1
    <3>4. ListOK(fields')
      BY <1>2, <2>1, <3>2, RefilledKeeps
    <3> QED
      BY <1>1, <1>2, <2>1, <3>1, <3>2, <3>3, <3>4, BaseParts DEF Stages
  <2> QED
    BY <1>6, <2>3, <2>4
<1>7. CASE pa_reset_vlen_flag
  <2>1. /\ proto # "none" /\ proto' = proto /\ loop' = loop /\ data' = data
        /\ datalen' = datalen /\ tick' = tick /\ crash' = crash /\ stage' = "reset"
    BY <1>7 DEF pa_reset_vlen_flag
  <2>2. /\ DOMAIN fields' = DOMAIN fields
        /\ \A k \in DOMAIN fields :
             /\ fields'[k] \in Field
             /\ fields'[k].name = fields[k].name /\ fields'[k].index = fields[k].index
             /\ fields'[k].pos = fields[k].pos
             /\ fields'[k].vlenth_flag <=> fields[k].vlenth_flag \/ fields[k].vlenth_flag_bak
             /\ fields'[k].vlenth_flag_bak = fields[k].vlenth_flag_bak
    BY <1>2, <1>7, <2>1, ResetEffect
  <2>3. ListOK(fields')
    BY <1>2, <2>1, <2>2 DEF ListOK
  <2> QED
    BY <1>1, <1>2, <2>1, <2>3, BaseParts DEF Stages
<1>8. CASE ParseStart \/ GenerateStart
  <2>1. /\ proto # "none" /\ proto' = proto /\ fields' = fields /\ data' = data
        /\ datalen' = datalen /\ tick' = tick /\ crash' = crash /\ stage' = stage
        /\ loop' \in {[op |-> "parse", at |-> 1], [op |-> "generate", at |-> 1]}
    BY <1>8 DEF ParseStart, GenerateStart
  <2>2. 1 \in DOMAIN Format
    BY <1>2, <2>1, ListFacts
  <2>3. LoopOK(loop')
    BY <2>1, <2>2 DEF LoopOK
  <2> QED
    BY <1>1, <1>2, <2>1, <2>3, BaseParts
<1>9. ASSUME proto # "none", loop.op # "idle", NEW done \in Stages, Advance(done)
      PROVE  LoopOK(loop') /\ stage' \in Stages
  <2>1. /\ loop.at \in 1 .. Len(Format)
        /\ loop.at = Len(Format) => loop' = NoLoop /\ stage' = done
        /\ loop.at # Len(Format) =>
             /\ loop' = [op |-> loop.op, at |-> loop.at + 1] /\ stage' = stage
             /\ loop.at + 1 \in 1 .. Len(Format)
    BY <1>2, <1>9, AdvanceFacts
  <2>2. CASE loop.at = Len(Format)
    BY <1>3, <1>9, <2>1, <2>2
  <2>3. CASE loop.at # Len(Format)
    <3> DEFINE a == loop.at + 1
    <3>1. /\ loop' = [op |-> loop.op, at |-> a] /\ stage' = stage /\ a \in DOMAIN Format
          /\ a \in Nat /\ a # 0
      BY <1>2, <1>9, <2>1, <2>3, ListFacts
    <3>2. loop.op \in {"idle", "parse", "generate"}
      BY DEF Base, TypeOK
    <3> HIDE DEF a
    <3> QED
      BY <1>1, <1>9, <3>1, <3>2 DEF LoopOK
  <2> QED
    BY <2>2, <2>3
<1>10. CASE pa_parse_protocol_data
  <2>1. /\ loop.op # "idle" /\ proto' = proto /\ tick' = tick
    BY <1>10 DEF pa_parse_protocol_data
  <2>2. proto # "none"
    BY <2>1 DEF Base, TypeOK, NoLoop
  <2>3. CASE Overrun(Settled(loop.at)[loop.at])
    <3>1. /\ crash' = "overrun" /\ fields' = fields /\ data' = data /\ datalen' = datalen
          /\ loop' = loop /\ stage' = stage
      BY <1>10, <2>3 DEF pa_parse_protocol_data, Abort
    <3> QED
      BY <1>1, <1>2, <2>1, <2>2, <3>1, BaseParts
  <2>4. CASE ~Overrun(Settled(loop.at)[loop.at])
    <3>1. /\ Advance("parsed") /\ data' = data /\ datalen' = datalen /\ crash' = crash
      BY <1>10, <2>4 DEF pa_parse_protocol_data
    <3>2. Refilled(Settled(loop.at), fields') /\ loop.at \in DOMAIN Format
      BY <1>10, <2>2, <2>4, ParseEffect
    <3>3. ListOK(fields')
      BY <1>2, <2>2, <3>2, SettledKeeps, RefilledKeeps
    <3>4. LoopOK(loop') /\ stage' \in Stages
      BY <1>9, <2>1, <2>2, <3>1 DEF Stages
    <3> QED
      BY <1>1, <1>2, <2>1, <2>2, <3>1, <3>3, <3>4, BaseParts
  <2> QED
    BY <2>3, <2>4
<1>11. CASE pa_generate_protocol_data
  <2> DEFINE f == Settled(loop.at)[loop.at]
             bytes == IF InBuffer(f.len) THEN f.buf
                      ELSE pa_set_protocol_byte_data(f.data, f.len)
             bad == Overrun(f) \/ Len(bytes) < f.len
  <2>1. /\ loop.op # "idle" /\ proto' = proto /\ tick' = tick
    BY <1>11 DEF pa_generate_protocol_data
  <2>2. proto # "none"
    BY <2>1 DEF Base, TypeOK, NoLoop
  <2>3. CASE bad
    <3>1. /\ crash' = "overrun" /\ fields' = fields /\ data' = data /\ datalen' = datalen
          /\ loop' = loop /\ stage' = stage
      BY <1>11, <2>3 DEF pa_generate_protocol_data, Abort
    <3> QED
      BY <1>1, <1>2, <2>1, <2>2, <3>1, BaseParts
  <2>4. CASE ~bad
    <3>1. Advance("generated") /\ crash' = crash
      BY <1>11, <2>4 DEF pa_generate_protocol_data
    <3>2. /\ loop.at \in DOMAIN Format /\ fields' = Settled(loop.at) /\ data' \in Array
          /\ datalen' \in 0 .. MaxProtoDataLen
      BY <1>11, <2>2, <2>4, GenerateEffect
    <3>3. ListOK(fields')
      BY <1>2, <2>2, <3>2, SettledKeeps
    <3>4. LoopOK(loop') /\ stage' \in Stages
      BY <1>9, <2>1, <2>2, <3>1 DEF Stages
    <3> QED
      BY <1>1, <1>2, <2>1, <2>2, <3>1, <3>2, <3>3, <3>4, BaseParts
  <2> QED
    BY <2>3, <2>4
<1>12. CASE UNCHANGED vars
  <2>1. /\ proto' = proto /\ fields' = fields /\ data' = data /\ datalen' = datalen
        /\ loop' = loop /\ stage' = stage /\ tick' = tick /\ crash' = crash
    BY <1>12 DEF vars
  <2>2. Format' = Format
    BY <2>1 DEF Format
  <2> QED
    BY <2>1, <2>2 DEF Base, TypeOK, Flags, PositionsKept
<1> QED
  BY <1>4, <1>5, <1>6, <1>7, <1>8, <1>10, <1>11, <1>12 DEF Next

\* The analyzer's copy keeps the fields of its format with values of their C
\* types, and the loops of pa_parse_protocol_data and pa_generate_protocol_data
\* stay within its list, whatever the formats are.
THEOREM TypeCorrect == Spec => []TypeOK
<1>1. Base => TypeOK
  BY DEF Base
<1> QED
  BY <1>1, BaseInit, BaseStep, PTL DEF Spec

\* In a format whose only variable field is its last one, no field ever moves,
\* however many messages one analyzer parses and generates between two calls of
\* pa_reset_vlen_flag.
THEOREM PositionsStable == Spec => []PositionsKept
<1>1. Base => PositionsKept
  BY DEF Base
<1> QED
  BY <1>1, BaseInit, BaseStep, PTL DEF Spec

(***************************************************************************)
(* How far the analyzer is with a message                                  *)
(***************************************************************************)

\* What the code relies on and nowhere checks: the formats are well laid, an analyzer
\* is used again only for a format in which nothing moves, no caller sets a field
\* that cannot be found, and byte_pos (uint8_t) reaches the whole array.
WellUsed == /\ \A p \in DOMAIN Formats : WellLaid(Formats[p])
            /\ \A p \in Reused : TailOnly(Formats[p])
            /\ ~SetLongNames
            /\ MaxProtoDataLen <= 255

Fits(m) == IsMessage(Format, m) /\ TotalLen(Format, m) <= MaxProtoDataLen

\* The fields are as pa_init_protocol_analyzer leaves them.
Fresh(fs) ==
    \A i \in DOMAIN Format :
      /\ fs[i].pos = Format[i].pos
      /\ fs[i].vlenth_flag <=> Format[i].index # NoIndex
      /\ Format[i].index = NoIndex => fs[i].len = Format[i].len

\* The first k fields are settled for the message m: the ones of variable length
\* among them have got their length, and everything behind them has moved by it.
Cut(fs, m, k) ==
    \A i \in DOMAIN Format :
      /\ fs[i].pos = Format[i].pos + Sums(Added(Format, m))[IF i - 1 <= k THEN i - 1 ELSE k]
      /\ fs[i].vlenth_flag <=> Format[i].index # NoIndex /\ i > k
      /\ Format[i].index = NoIndex => fs[i].len = Format[i].len
      /\ Format[i].index # NoIndex /\ i <= k => fs[i].len = Len(m[i])

\* The length fields among the first k hold the lengths that m gives.
Known(fs, m, k) ==
    \A i \in DOMAIN Format : \A j \in 1 .. k :
      Format[i].index # NoIndex /\ Format[j].name = Format[i].index => fs[j].data = Len(m[i])

\* Field f holds the value v, at least its first bytes, for generating ...
Holds(f, v) == IF InBuffer(Len(v))
               THEN Len(f.buf) >= Len(v) /\ \A b \in 1 .. Len(v) : f.buf[b] = v[b]
               ELSE pa_set_protocol_byte_data(f.data, Len(v)) = v

\* ... and has got exactly v by parsing.
Got(f, v) == IF InBuffer(Len(v)) THEN f.buf = v ELSE f.data = pa_get_protocol_byte_data(v)

\* The values of the first k fields of m are in their places in the array d.
Laid(d, m, k) == \A i \in 1 .. k : \A b \in 1 .. Len(m[i]) :
                   d[Start(Format, m, i) + b - 1] = m[i][b]

LEMMA FitsFacts ==
    ASSUME WellUsed, TypeOK, proto # "none", NEW m, Fits(m)
    PROVE  /\ IsValues(Format, m) /\ IsMessage(Format, m) /\ WellLaid(Format)
           /\ \A i \in 1 .. Len(Format) :
                /\ m[i] \in Seq(Byte) /\ Len(m[i]) \in Nat /\ Len(m[i]) <= 255
                /\ Start(Format, m, i) \in Nat
                /\ Start(Format, m, i) + Len(m[i]) <= TotalLen(Format, m)
           /\ TotalLen(Format, m) \in Nat /\ TotalLen(Format, m) <= MaxProtoDataLen
           /\ MaxProtoDataLen \in Nat /\ MaxProtoDataLen <= 255
<1>1. proto \in DOMAIN Formats /\ Format = Formats[proto] /\ DOMAIN Format = 1 .. Len(Format)
  BY ListFacts
<1>2. IsMessage(Format, m) /\ IsValues(Format, m) /\ WellLaid(Format)
  BY <1>1 DEF Fits, IsMessage, WellUsed
<1>3. \A i \in 1 .. Len(Format) : m[i] \in Seq(Byte) /\ Len(m[i]) \in Nat /\ Len(m[i]) <= 255
  BY <1>1, <1>2 DEF IsValues
<1>4. \A i \in 1 .. Len(Format) : Start(Format, m, i) \in Nat
  BY <1>1, <1>2, StartFacts
<1>5. /\ \A i \in 1 .. Len(Format) : Start(Format, m, i) + Len(m[i]) <= TotalLen(Format, m)
      /\ TotalLen(Format, m) \in Nat
  BY <1>1, <1>2, StartsApart
<1>6. TotalLen(Format, m) <= MaxProtoDataLen
  BY DEF Fits
<1>7. MaxProtoDataLen \in Nat /\ MaxProtoDataLen <= 255
  BY SizesAssumption DEF WellUsed
<1> QED
  BY <1>2, <1>3, <1>4, <1>5, <1>6, <1>7

\* Fields that were never settled are ready for any message.
LEMMA FreshCut ==
    ASSUME TypeOK, proto # "none", NEW m, IsValues(Format, m), NEW fs, Fresh(fs)
    PROVE  Cut(fs, m, 0)
<1>1. /\ proto \in DOMAIN Formats /\ Format = Formats[proto]
      /\ Len(Format) \in Nat /\ DOMAIN Format = 1 .. Len(Format)
      /\ \A i \in 1 .. Len(Format) : Format[i].pos \in Nat
  BY ListFacts
<1> DEFINE s == Sums(Added(Format, m))
<1>2. s[0] = 0
  BY <1>1, StartFacts
<1> HIDE DEF s
<1>3. ASSUME NEW i \in DOMAIN Format
      PROVE  /\ fs[i].pos = Format[i].pos + s[IF i - 1 <= 0 THEN i - 1 ELSE 0]
             /\ fs[i].vlenth_flag <=> Format[i].index # NoIndex /\ i > 0
             /\ Format[i].index = NoIndex => fs[i].len = Format[i].len
             /\ Format[i].index # NoIndex /\ i <= 0 => fs[i].len = Len(m[i])
  <2>1. i \in Nat /\ i > 0 /\ ~(i <= 0) /\ Format[i].pos \in Nat
    BY <1>1
  <2>2. s[IF i - 1 <= 0 THEN i - 1 ELSE 0] = 0
    <3>1. (IF i - 1 <= 0 THEN i - 1 ELSE 0) = 0
      BY <2>1
    <3> QED
      BY <1>2, <3>1
  <2>3. fs[i].pos = Format[i].pos + 0
    BY <2>1 DEF Fresh
  <2> QED
    BY <2>1, <2>2, <2>3 DEF Fresh
<1> QED
  BY <1>3 DEF Cut, s

\* What was parsed of the first k fields tells the lengths they give.
LEMMA GotKnown ==
    ASSUME WellUsed, TypeOK, proto # "none", NEW m, Fits(m), NEW fs,
           NEW k \in 0 .. Len(Format), \A i \in 1 .. k : Got(fs[i], m[i])
    PROVE  Known(fs, m, k)
<1>1. /\ IsMessage(Format, m)
      /\ \A i \in 1 .. Len(Format) : m[i] \in Seq(Byte)
  BY FitsFacts
<1>2. ASSUME NEW i \in DOMAIN Format, NEW j \in 1 .. k,
             Format[i].index # NoIndex, Format[j].name = Format[i].index
      PROVE  fs[j].data = Len(m[i])
  <2>1. j \in DOMAIN Format /\ j \in 1 .. Len(Format)
    BY ListFacts
  <2>2. Len(m[j]) = 1 /\ m[j][1] = Len(m[i])
    BY <1>1, <1>2, <2>1 DEF IsMessage
  <2>3. fs[j].data = pa_get_protocol_byte_data(m[j])
    <3>1. Got(fs[j], m[j])
      BY <1>2
    <3> QED
      BY <2>2, <3>1 DEF Got, InBuffer
  <2>4. m[j] \in Seq(Byte)
    BY <1>1, <2>1
  <2>5. pa_get_protocol_byte_data(m[j]) = m[j][1]
    <3>1. Len(m[j]) <= 4
      BY <2>2
    <3> QED
      BY <2>2, <2>4, <3>1, BytesRoundTrip, Zenon
  <2> QED
    BY <2>2, <2>3, <2>5
<1> QED
  BY <1>2 DEF Known

\* The heart of both loops.  When they come to field i with everything before it
\* settled, settling it puts it where the message has it and gives it the length that
\* the message says; when all fields are settled already, it is there and nothing moves.
LEMMA SettleStep ==
    ASSUME WellUsed, Base, proto # "none", NEW m, Fits(m),
           NEW i \in 1 .. Len(Format), NEW k \in {i - 1, Len(Format)},
           Cut(fields, m, k), Known(fields, m, i - 1)
    PROVE  LET gs == Settled(i)
           IN  /\ Cut(gs, m, IF k = Len(Format) THEN Len(Format) ELSE i)
               /\ gs[i].pos = Start(Format, m, i) /\ gs[i].len = Len(m[i])
               /\ \A j \in DOMAIN Format : gs[j].data = fields[j].data /\ gs[j].buf = fields[j].buf
               /\ ~Overrun(gs[i])
<1> DEFINE n == Len(Format)
           s == Sums(Added(Format, m))
           gs == Settled(i)
           Min2(a, b) == IF a <= b THEN a ELSE b
<1>1. /\ proto \in DOMAIN Formats /\ Format = Formats[proto] /\ TypeOK
      /\ n \in Nat \ {0} /\ DOMAIN fields = 1 .. n /\ DOMAIN Format = 1 .. n
      /\ \A j \in 1 .. n : /\ fields[j] \in Field
                           /\ fields[j].name = Format[j].name /\ fields[j].index = Format[j].index
                           /\ Format[j].pos \in Nat /\ Format[j].len \in Nat
  BY ListFacts DEF Base
<1>2. /\ IsValues(Format, m) /\ IsMessage(Format, m) /\ WellLaid(Format)
      /\ \A j \in 1 .. n : /\ Len(m[j]) \in Nat /\ Len(m[j]) <= 255
                           /\ Start(Format, m, j) \in Nat
                           /\ Start(Format, m, j) + Len(m[j]) <= TotalLen(Format, m)
      /\ TotalLen(Format, m) \in Nat /\ TotalLen(Format, m) <= MaxProtoDataLen
      /\ MaxProtoDataLen \in Nat /\ MaxProtoDataLen <= 255
  BY <1>1, FitsFacts, ZenonT(30)
<1>3. /\ \A j \in 0 .. n : s[j] \in Nat
      /\ \A a, b \in 0 .. n : a <= b => s[a] <= s[b]
      /\ \A j \in 1 .. n :
           /\ s[j] = s[j - 1] + (IF Format[j].index = NoIndex THEN 0 ELSE Len(m[j]))
           /\ Start(Format, m, j) = Format[j].pos + s[j - 1]
  <2>1. /\ \A j \in 0 .. n : s[j] \in Nat
        /\ \A a, b \in 0 .. n : a <= b => s[a] <= s[b]
    BY <1>1, <1>2, StartFacts
  <2>2. \A j \in 1 .. n :
           /\ s[j] = s[j - 1] + (IF Format[j].index = NoIndex THEN 0 ELSE Len(m[j]))
           /\ Start(Format, m, j) = Format[j].pos + s[j - 1]
    <3> DEFINE f == Formats[proto]
               t == Sums(Added(f, m))
    <3>1. IsValues(f, m) /\ proto \in DOMAIN Formats
      BY <1>1, <1>2
    <3>2. \A j \in 1 .. Len(f) : /\ t[j] = t[j - 1] + (IF f[j].index = NoIndex THEN 0 ELSE Len(m[j]))
                                /\ Start(f, m, j) = f[j].pos + t[j - 1]
      BY <3>1, StartFacts
    <3>3. f = Format /\ t = s
      BY <1>1
    <3> HIDE DEF f, t, s
    <3> QED
      BY <3>2, <3>3
  <2> QED
    BY <2>1, <2>2
<1> HIDE DEF s
<1>4. \A j \in 1 .. n :
        /\ fields[j].pos = Format[j].pos + s[IF j - 1 <= k THEN j - 1 ELSE k]
        /\ fields[j].vlenth_flag <=> Format[j].index # NoIndex /\ j > k
        /\ Format[j].index = NoIndex => fields[j].len = Format[j].len
        /\ Format[j].index # NoIndex /\ j <= k => fields[j].len = Len(m[j])
  BY <1>1 DEF Cut, s
<1>5. \A j \in 1 .. n : Format[j].index = NoIndex => Len(m[j]) = Format[j].len
  BY <1>1, <1>2 DEF IsMessage
<1>6. i \in 1 .. n /\ k \in {i - 1, n} /\ i \in DOMAIN fields
  BY <1>1
<1> HIDE DEF n
<1>7. k \in Nat /\ i - 1 <= k /\ i - 1 \in Nat
  BY <1>1, <1>6
<1>8. /\ Cut(gs, m, IF k = n THEN n ELSE i)
      /\ gs[i].pos = Start(Format, m, i) /\ gs[i].len = Len(m[i])
      /\ \A j \in DOMAIN Format : gs[j].data = fields[j].data /\ gs[j].buf = fields[j].buf
  <2>1. CASE k = n
    <3>1. ~fields[i].vlenth_flag
      BY <1>1, <1>4, <1>6, <2>1
    <3>2. gs = fields
      BY <1>6, <3>1, SettledFacts
    <3>3. fields[i].pos = Format[i].pos + s[i - 1]
      BY <1>4, <1>6, <1>7
    <3>4. fields[i].len = Len(m[i])
      BY SMTT(30), <1>1, <1>4, <1>5, <1>6, <2>1
    <3>5. Cut(gs, m, IF k = n THEN n ELSE i)
      BY <2>1, <3>2
    <3> QED
      BY <1>3, <1>6, <3>2, <3>3, <3>4, <3>5
  <2>2. CASE k # n /\ ~fields[i].vlenth_flag
    <3>1. k = i - 1
      BY <1>6, <2>2
    <3>2. gs = fields
      BY <1>6, <2>2, SettledFacts
    <3>3. Format[i].index = NoIndex
      BY <1>1, <1>4, <1>6, <2>2, <3>1
    <3>4. s[i] = s[i - 1]
      BY <1>3, <1>6, <1>7, <1>1, <3>3
    <3>5. ASSUME NEW j \in 1 .. n
          PROVE  /\ fields[j].pos = Format[j].pos + s[IF j - 1 <= i THEN j - 1 ELSE i]
                 /\ fields[j].vlenth_flag <=> Format[j].index # NoIndex /\ j > i
                 /\ Format[j].index = NoIndex => fields[j].len = Format[j].len
                 /\ Format[j].index # NoIndex /\ j <= i => fields[j].len = Len(m[j])
      <4>1. j \in Nat /\ i \in Nat /\ n \in Nat
        BY <1>1, <1>6
      <4>2. s[IF j - 1 <= i THEN j - 1 ELSE i] = s[IF j - 1 <= k THEN j - 1 ELSE k]
        <5>1. CASE j - 1 <= k
          BY <3>1, <4>1, <5>1
        <5>2. CASE j - 1 = i
          BY <3>1, <3>4, <4>1, <5>2
        <5>3. CASE ~(j - 1 <= k) /\ j - 1 # i
          <6>1. ~(j - 1 <= i)
            BY <3>1, <4>1, <5>3
          <6> QED
            BY <3>1, <3>4, <5>3, <6>1
        <5> QED
          BY <5>1, <5>2, <5>3
      <4>3. Format[j].index # NoIndex => j # i
        BY <3>3
      <4>4. j # i => (j > i <=> j > k) /\ (j <= i <=> j <= k)
        BY <3>1, <4>1
      <4> QED
        BY <1>4, <4>2, <4>3, <4>4
    <3>6. Cut(gs, m, i)
      BY <1>1, <3>2, <3>5 DEF Cut, s
    <3>7. fields[i].pos = Format[i].pos + s[i - 1]
      BY <1>4, <1>6, <1>7
    <3>8. fields[i].len = Len(m[i])
      BY <1>4, <1>5, <1>6, <3>3
    <3> QED
      BY <1>3, <1>6, <2>2, <3>2, <3>6, <3>7, <3>8
  <2>3. CASE k # n /\ fields[i].vlenth_flag
    <3>1. k = i - 1
      BY <1>6, <2>3
    <3>2. PICK h \in DOMAIN fields : /\ fields[h].name = fields[i].index
                                     /\ Moved(fields, gs, i, fields[h].data)
      BY <1>6, <2>3, SettledFacts
    <3>3. Format[i].index # NoIndex
      BY <1>4, <1>6, <2>3
    <3>4. fields[h].data = Len(m[i])
      <4>1. PICK j \in 1 .. i - 1 : Format[j].name = Format[i].index
        <5>1. \A x \in DOMAIN Format : Format[x].index # NoIndex =>
                \E y \in 1 .. x - 1 : Format[y].name = Format[x].index
          BY <1>2, Zenon DEF WellLaid
        <5>2. i \in DOMAIN Format
          BY <1>1, <1>6
        <5> QED
          BY <3>3, <5>1, <5>2, Zenon
      <4>2. j \in DOMAIN Format /\ h \in DOMAIN Format /\ Format[h].name = Format[j].name
        BY <1>1, <1>6, <3>2, <4>1
      <4>3. h = j
        BY <1>2, <4>2 DEF WellLaid
      <4> QED
        BY <1>1, <1>6, <3>3, <4>1, <4>3 DEF Known
    <3> DEFINE v == Len(m[i])
    <3>5. /\ Moved(fields, gs, i, v) /\ v \in Nat /\ v <= 255
          /\ s[i] = s[i - 1] + v
      BY <1>2, <1>3, <1>6, <3>2, <3>3, <3>4
    <3> HIDE DEF gs, v
    <3>6. \A j \in 1 .. n :
            /\ gs[j].data = fields[j].data /\ gs[j].buf = fields[j].buf
            /\ gs[j].pos = IF j > i THEN (fields[j].pos + v) % 256 ELSE fields[j].pos
            /\ gs[j].len = IF j = i THEN v ELSE fields[j].len
            /\ gs[j].vlenth_flag <=> fields[j].vlenth_flag /\ j # i
      BY <1>1, <3>5, Low16Facts DEF Moved
    <3>7. ASSUME NEW j \in 1 .. n
          PROVE  gs[j].pos = Format[j].pos + s[IF j - 1 <= i THEN j - 1 ELSE i]
      <4>1. j \in Nat /\ i \in Nat /\ n \in Nat /\ j <= n
        BY <1>1, <1>6
      <4>2. CASE j > i
        <5>1. (IF j - 1 <= k THEN j - 1 ELSE k) = i - 1
          BY <3>1, <4>1, <4>2
        <5>2. fields[j].pos = Format[j].pos + s[i - 1]
          BY <1>4, <5>1
        <5>3. s[IF j - 1 <= i THEN j - 1 ELSE i] = s[i]
          <6>1. (IF j - 1 <= i THEN j - 1 ELSE i) = i
            BY <4>1, <4>2
          <6> QED
            BY <6>1
        <5>4. Format[j].pos + s[i] <= 255
          <6>1. s[i] <= s[j - 1] /\ s[i] \in Nat /\ s[j - 1] \in Nat
            <7>1. i \in 0 .. n /\ j - 1 \in 0 .. n /\ i <= j - 1
              BY <4>1, <4>2
            <7> QED
              BY <1>3, <7>1
          <6>2. /\ Start(Format, m, j) + Len(m[j]) <= TotalLen(Format, m)
                /\ Start(Format, m, j) = Format[j].pos + s[j - 1]
                /\ Format[j].pos \in Nat /\ Len(m[j]) \in Nat
            BY <1>1, <1>2, <1>3
          <6>3. TotalLen(Format, m) \in Nat /\ TotalLen(Format, m) <= 255
            BY <1>2
          <6> QED
            BY SMTT(30), <6>1, <6>2, <6>3
        <5>5. gs[j].pos = (Format[j].pos + s[i - 1] + v) % 256
          BY <3>6, <4>2, <5>2
        <5>6. Format[j].pos \in Nat /\ s[i - 1] \in Nat
          BY <1>1, <1>3, <1>7, <4>1, <1>6
        <5>7. Format[j].pos + s[i - 1] + v = Format[j].pos + s[i]
          BY <3>5, <5>6
        <5>8. Format[j].pos + s[i] \in Nat
          BY SMTT(30), <3>5, <5>6
        <5>9. \A x \in Nat : x <= 255 => x % 256 = x
          OBVIOUS
        <5> QED
          BY <5>3, <5>4, <5>5, <5>7, <5>8, <5>9
      <4>3. CASE ~(j > i)
        <5>1. /\ (IF j - 1 <= k THEN j - 1 ELSE k) = j - 1
              /\ (IF j - 1 <= i THEN j - 1 ELSE i) = j - 1
          BY <3>1, <4>1, <4>3
        <5> QED
          BY <1>4, <3>6, <4>3, <5>1
      <4> QED
        BY <4>2, <4>3
    <3>8. ASSUME NEW j \in 1 .. n
          PROVE  /\ gs[j].vlenth_flag <=> Format[j].index # NoIndex /\ j > i
                 /\ Format[j].index = NoIndex => gs[j].len = Format[j].len
                 /\ Format[j].index # NoIndex /\ j <= i => gs[j].len = Len(m[j])
      <4>1. j \in Nat /\ i \in Nat
        BY <1>1, <1>6
      <4>2. CASE j = i
        BY <3>3, <3>6, <4>1, <4>2 DEF v
      <4>3. CASE j # i
        <5>1. (j > i <=> j > k) /\ (j <= i <=> j <= k)
          BY <3>1, <4>1, <4>3
        <5> QED
          BY <1>4, <3>6, <4>3, <5>1
      <4> QED
        BY <4>2, <4>3
    <3>9. Cut(gs, m, i)
      BY <1>1, <3>7, <3>8 DEF Cut, s
    <3>10. gs[i].pos = Start(Format, m, i) /\ gs[i].len = Len(m[i])
      <4>1. (IF i - 1 <= i THEN i - 1 ELSE i) = i - 1
        BY <1>7
      <4>2. gs[i].pos = Format[i].pos + s[i - 1]
        BY <1>6, <3>7, <4>1
      <4> QED
        BY <1>3, <1>6, <3>6, <4>2 DEF v
    <3> QED
      BY <1>1, <2>3, <3>6, <3>9, <3>10
  <2> QED
    BY <2>1, <2>2, <2>3
<1>9. ~Overrun(gs[i])
  <2> HIDE DEF gs
  <2>1. gs[i].pos + gs[i].len <= MaxProtoDataLen
    <3> DEFINE a == Start(Format, m, i)
               b == Len(m[i])
    <3>1. a \in Nat /\ b \in Nat /\ a + b <= TotalLen(Format, m)
      BY <1>2, <1>6
    <3>2. gs[i].pos = a /\ gs[i].len = b
      BY <1>8
    <3> HIDE DEF a, b
    <3> QED
      BY <1>2, <3>1, <3>2
  <2>2. gs[i].pos + gs[i].len \in Nat /\ MaxProtoDataLen \in Nat
    BY <1>2, <1>6, <1>8
  <2> HIDE DEF Overrun
  <2>3. ~(gs[i].pos + gs[i].len > MaxProtoDataLen)
    BY <2>1, <2>2
  <2> QED
    BY <2>3 DEF Overrun
<1> QED
  BY <1>8, <1>9 DEF n

\* A message that was received lies in the array.
LEMMA EncodedLays ==
    ASSUME WellUsed, TypeOK, proto # "none", NEW m, Fits(m), NEW old \in Array
    PROVE  Laid(Encoded(Format, m, old), m, Len(Format))
<1> DEFINE n == Len(Format)
           From(i) == Start(Format, m, i)
           start == [i \in DOMAIN Format |-> From(i)]
           Here(p) == {i \in DOMAIN Format : p >= start[i] /\ p < start[i] + Len(m[i])}
           W(p) == IF Here(p) = {} THEN old[p]
                   ELSE LET i == CHOOSE i \in Here(p) : TRUE IN m[i][p - start[i] + 1]
           e == Encoded(Format, m, old)
<1>1. proto \in DOMAIN Formats /\ Format = Formats[proto] /\ DOMAIN Format = 1 .. n /\ n \in Nat
  BY ListFacts
<1>2. /\ IsMessage(Format, m) /\ WellLaid(Format)
      /\ \A i \in 1 .. n : /\ Len(m[i]) \in Nat /\ From(i) \in Nat
                           /\ From(i) + Len(m[i]) <= TotalLen(Format, m)
      /\ TotalLen(Format, m) \in Nat /\ TotalLen(Format, m) <= MaxProtoDataLen
      /\ MaxProtoDataLen \in Nat
  BY FitsFacts
<1>3. \A i, j \in 1 .. n : i < j => From(i) + Len(m[i]) <= From(j)
  BY <1>1, <1>2, StartsApart
<1>4. e = [p \in DOMAIN old |-> W(p)]
  BY DEF Encoded
<1> HIDE DEF e, W, n, From
<1>5. \A p \in 0 .. MaxProtoDataLen - 1 : e[p] = W(p)
  BY <1>4 DEF Array
<1>6. \A i \in 1 .. n : start[i] = From(i)
  BY <1>1
<1> HIDE DEF start
<1>7. ASSUME NEW i \in 1 .. n, NEW b \in 1 .. Len(m[i])
      PROVE  e[From(i) + b - 1] = m[i][b]
  <2> DEFINE p == From(i) + b - 1
             x == From(i)
             y == Len(m[i])
  <2>1. x \in Nat /\ y \in Nat /\ b \in 1 .. y /\ x + y <= MaxProtoDataLen
    <3>1. x \in Nat /\ y \in Nat /\ x + y <= TotalLen(Format, m)
      BY <1>2
    <3> HIDE DEF x
    <3> QED
      BY <1>2, <3>1
  <2>2. p \in 0 .. MaxProtoDataLen - 1 /\ p >= x /\ p < x + y /\ p - x + 1 = b
    <3>1. p = x + b - 1
      OBVIOUS
    <3> HIDE DEF p, x, y
    <3> QED
      BY <1>2, <2>1, <3>1
  <2> HIDE DEF p
  <2>3. i \in Here(p)
    BY <1>1, <1>6, <2>2
  <2>4. ASSUME NEW j \in Here(p) PROVE j = i
    <3>1. j \in 1 .. n /\ p >= From(j) /\ p < From(j) + Len(m[j])
      BY <1>1, <1>6
    <3>2. From(j) \in Nat /\ Len(m[j]) \in Nat /\ From(i) \in Nat /\ Len(m[i]) \in Nat /\ p \in Nat
      BY <1>2, <2>2, <3>1
    <3>3. CASE i < j
      <4>1. From(i) + Len(m[i]) <= From(j)
        BY <1>3, <3>1, <3>3
      <4> QED
        BY <2>2, <3>1, <3>2, <4>1
    <3>4. CASE j < i
      <4>1. From(j) + Len(m[j]) <= From(i)
        BY <1>3, <3>1, <3>4
      <4> QED
        BY <2>2, <3>1, <3>2, <4>1
    <3> QED
      BY <1>1, <3>1, <3>3, <3>4
  <2>5. (CHOOSE j \in Here(p) : TRUE) = i
    BY <2>3, <2>4
  <2>6. W(p) = m[i][p - start[i] + 1]
    BY <2>3, <2>5 DEF W
  <2> QED
    BY <1>5, <1>6, <2>2, <2>6 DEF p
<1> QED
  BY <1>7 DEF Laid, e, n, From

\* An array in which all values are in their places is what a peer would send.
LEMMA LaidEncoded ==
    ASSUME WellUsed, TypeOK, proto # "none", NEW m, Fits(m), NEW d \in Array,
           Laid(d, m, Len(Format))
    PROVE  d = Encoded(Format, m, d)
<1> DEFINE n == Len(Format)
           From(i) == Start(Format, m, i)
           start == [i \in DOMAIN Format |-> From(i)]
           Here(p) == {i \in DOMAIN Format : p >= start[i] /\ p < start[i] + Len(m[i])}
           W(p) == IF Here(p) = {} THEN d[p]
                   ELSE LET i == CHOOSE i \in Here(p) : TRUE IN m[i][p - start[i] + 1]
           e == Encoded(Format, m, d)
<1>1. DOMAIN Format = 1 .. n /\ n \in Nat
  BY ListFacts
<1>2. \A i \in 1 .. n : Len(m[i]) \in Nat /\ From(i) \in Nat
  BY FitsFacts
<1>3. e = [p \in DOMAIN d |-> W(p)]
  BY DEF Encoded
<1> HIDE DEF e, n, From
<1>4. \A i \in 1 .. n : start[i] = From(i)
  BY <1>1
<1> HIDE DEF start
<1>5. ASSUME NEW p \in 0 .. MaxProtoDataLen - 1 PROVE W(p) = d[p]
  <2>1. CASE Here(p) = {}
    BY <2>1
  <2>2. CASE Here(p) # {}
    <3> DEFINE i == CHOOSE i \in Here(p) : TRUE
    <3>1. i \in Here(p) /\ W(p) = m[i][p - start[i] + 1]
      BY <2>2
    <3> HIDE DEF i
    <3>2. i \in 1 .. n /\ start[i] = From(i) /\ p >= From(i) /\ p < From(i) + Len(m[i])
      BY <1>1, <1>4, <3>1
    <3>3. From(i) \in Nat /\ Len(m[i]) \in Nat /\ p \in Nat
      BY <1>2, <3>2, SizesAssumption
    <3> DEFINE b == p - From(i) + 1
    <3>4. b \in 1 .. Len(m[i]) /\ From(i) + b - 1 = p
      BY <3>2, <3>3
    <3>5. d[From(i) + b - 1] = m[i][b]
      <4> HIDE DEF b
      <4> QED
        BY <3>2, <3>4 DEF Laid, From, n
    <3> QED
      BY <3>1, <3>2, <3>4, <3>5
  <2> QED
    BY <2>1, <2>2
<1> HIDE DEF W
<1>6. d = [p \in 0 .. MaxProtoDataLen - 1 |-> d[p]] /\ DOMAIN d = 0 .. MaxProtoDataLen - 1
  BY DEF Array
<1> QED
  BY <1>3, <1>5, <1>6 DEF e

\* What a field of the list is generated from, when it holds its value.
LEMMA HoldsBytes ==
    ASSUME NEW v \in Seq(Byte), NEW f \in Field, Holds(f, v), f.len = Len(v)
    PROVE  LET bytes == IF InBuffer(f.len) THEN f.buf ELSE pa_set_protocol_byte_data(f.data, f.len)
           IN  /\ ~(Len(bytes) < f.len)
               /\ \A b \in 1 .. Len(v) : bytes[b] = v[b]
<1>1. Len(v) \in Nat /\ f.buf \in Seq(Byte) /\ Len(f.buf) \in Nat
  BY FieldFacts
<1>2. CASE InBuffer(f.len)
  BY <1>1, <1>2 DEF Holds
<1>3. CASE ~InBuffer(f.len)
  <2>1. pa_set_protocol_byte_data(f.data, f.len) = v
    BY <1>3 DEF Holds
  <2> QED
    BY <1>1, <1>3, <2>1
<1> QED
  BY <1>2, <1>3

\* What is read in the place of a value is the value.
LEMMA LaidBytes ==
    ASSUME WellUsed, TypeOK, proto # "none", NEW m, Fits(m), NEW d,
           Laid(d, m, Len(Format)), NEW i \in 1 .. Len(Format), NEW f,
           f.pos = Start(Format, m, i), f.len = Len(m[i])
    PROVE  [k \in 1 .. f.len |-> d[f.pos + k - 1]] = m[i]
<1>1. m[i] \in Seq(Byte) /\ Len(m[i]) \in Nat
  BY FitsFacts
<1> DEFINE W(k) == d[f.pos + k - 1]
           y == f.len
<1>2. \A k \in 1 .. y : W(k) = m[i][k]
  BY DEF Laid
<1>3. m[i] = [k \in 1 .. y |-> m[i][k]]
  BY <1>1
<1>4. [k \in 1 .. y |-> W(k)] = m[i]
  <2> HIDE DEF W, y
  <2> QED
    BY <1>2, <1>3
<1> QED
  BY <1>4

\* Writing the value of field i into its place leaves the ones before it in theirs.
LEMMA WriteLays ==
    ASSUME WellUsed, TypeOK, proto # "none", NEW m, Fits(m), NEW d, NEW e,
           NEW i \in 1 .. Len(Format), Laid(d, m, i - 1), NEW bytes,
           \A b \in 1 .. Len(m[i]) : bytes[b] = m[i][b],
           \A p \in 0 .. MaxProtoDataLen - 1 :
             e[p] = IF p >= Start(Format, m, i) /\ p < Start(Format, m, i) + Len(m[i])
                    THEN bytes[p - Start(Format, m, i) + 1] ELSE d[p]
    PROVE  Laid(e, m, i)
<1> DEFINE n == Len(Format)
           From(j) == Start(Format, m, j)
<1>1. proto \in DOMAIN Formats /\ Format = Formats[proto] /\ n \in Nat
  BY ListFacts
<1>2. /\ IsMessage(Format, m) /\ WellLaid(Format)
      /\ \A j \in 1 .. n : /\ Len(m[j]) \in Nat /\ From(j) \in Nat
                           /\ From(j) + Len(m[j]) <= TotalLen(Format, m)
      /\ TotalLen(Format, m) \in Nat /\ TotalLen(Format, m) <= MaxProtoDataLen
      /\ MaxProtoDataLen \in Nat
  BY FitsFacts
<1>3. \A j \in 1 .. n : j < i => From(j) + Len(m[j]) <= From(i)
  BY <1>1, <1>2, StartsApart
<1>4. i \in 1 .. n /\ i \in Nat /\ i <= n
  BY <1>1
<1>5. \A p \in 0 .. MaxProtoDataLen - 1 :
        e[p] = IF p >= From(i) /\ p < From(i) + Len(m[i]) THEN bytes[p - From(i) + 1] ELSE d[p]
  OBVIOUS
<1>6. \A j \in 1 .. i - 1 : \A b \in 1 .. Len(m[j]) : d[From(j) + b - 1] = m[j][b]
  BY DEF Laid
<1> HIDE DEF n, From
<1>7. ASSUME NEW j \in 1 .. i, NEW b \in 1 .. Len(m[j])
      PROVE  e[From(j) + b - 1] = m[j][b]
  <2> DEFINE p == From(j) + b - 1
             x == From(j)
             y == Len(m[j])
  <2>1. j \in 1 .. n /\ x \in Nat /\ y \in Nat /\ b \in 1 .. y /\ x + y <= MaxProtoDataLen
    <3>1. j \in 1 .. n
      BY <1>1, <1>4
    <3>2. x \in Nat /\ y \in Nat /\ x + y <= TotalLen(Format, m)
      BY <1>2, <3>1
    <3> HIDE DEF x
    <3> QED
      BY <1>2, <3>1, <3>2
  <2>2. p \in 0 .. MaxProtoDataLen - 1 /\ p >= x /\ p < x + y /\ p - x + 1 = b
    <3>1. p = x + b - 1
      OBVIOUS
    <3> HIDE DEF p, x, y
    <3> QED
      BY <1>2, <2>1, <3>1
  <2>3. CASE j = i
    <3>1. e[p] = bytes[p - From(i) + 1]
      BY <1>5, <2>2, <2>3
    <3>2. p - From(i) + 1 = b
      BY <2>2, <2>3
    <3>3. bytes[b] = m[i][b]
      BY <2>3
    <3> HIDE DEF p
    <3>4. e[p] = m[j][b]
      BY <2>3, <3>1, <3>2, <3>3
    <3> QED
      BY <3>4 DEF p
  <2>4. CASE j # i
    <3>1. j < i /\ j \in 1 .. i - 1
      BY <1>4, <2>4
    <3>2. x + y <= From(i)
      BY <1>3, <2>1, <3>1
    <3>3. ~(p >= From(i))
      <4>1. From(i) \in Nat /\ p \in Nat
        BY <1>2, <1>4, <2>2
      <4> HIDE DEF p, x, y
      <4> QED
        BY <2>1, <2>2, <3>2, <4>1
    <3>4. e[p] = d[p]
      BY <1>5, <2>2, <3>3
    <3> QED
      BY <1>6, <3>1, <3>4
  <2> QED
    BY <2>3, <2>4
<1> QED
  BY <1>7 DEF Laid, From

\* The length of a message depends on the lengths of its values only.
LEMMA SameLengths ==
    ASSUME NEW format, NEW v, NEW w, Len(format) \in DOMAIN format,
           \A i \in DOMAIN format : Len(v[i]) = Len(w[i])
    PROVE  TotalLen(format, v) = TotalLen(format, w)
<1>1. Added(format, v) = Added(format, w)
  BY DEF Added
<1>2. Start(format, v, Len(format)) = Start(format, w, Len(format))
  BY <1>1 DEF Start
<1> QED
  BY <1>2 DEF TotalLen

\* Once the caller has set its values, every field holds the value that is wanted of it.
\* A field that cannot be found keeps the number it has, and is generated from it.
LEMMA SetHolds ==
    ASSUME WellUsed, Base, proto # "none", Fresh(fields), NEW values, Fits(values),
           SetValues(values)
    PROVE  /\ Fits(want') /\ Fresh(fields') /\ crash' = "no"
           /\ \A i \in 1 .. Len(Format) : Holds(fields'[i], want'[i])
           /\ Known(fields', want', Len(Format))
<1> DEFINE n == Len(Format)
           w == want'
<1>1. /\ TypeOK /\ n \in Nat \ {0} /\ DOMAIN fields = 1 .. n /\ DOMAIN Format = 1 .. n
      /\ \A i \in 1 .. n : /\ fields[i] \in Field
                           /\ fields[i].name = Format[i].name /\ fields[i].index = Format[i].index
                           /\ Format[i].len \in Nat
  BY ListFacts DEF Base
<1>2. /\ IsMessage(Format, values) /\ IsValues(Format, values) /\ WellLaid(Format)
      /\ \A i \in 1 .. n : values[i] \in Seq(Byte) /\ Len(values[i]) \in Nat
  BY <1>1, FitsFacts
<1>3. /\ Refilled(fields, fields') /\ crash' = "no"
      /\ \A k \in 1 .. n :
           fields'[k] = IF k \in Long THEN fields[k] ELSE SetField(fields[k], values[k])
      /\ w = [i \in 1 .. n |->
                IF i \in Long
                THEN pa_set_protocol_byte_data(fields[i].data, fields[i].len)
                ELSE values[i]]
  BY <1>1, <1>2, SetEffect DEF WellUsed
<1> HIDE DEF w, n
<1>4. \A i \in Long : /\ i \in 1 .. n /\ Format[i].index = NoIndex /\ Format[i].len <= 4
                      /\ Format[i].name \notin LengthFields(Format)
                      /\ fields[i].len = Format[i].len
  <2>1. ASSUME NEW i \in Long
        PROVE  /\ i \in 1 .. n /\ Format[i].index = NoIndex /\ Format[i].len <= 4
               /\ Format[i].name \notin LengthFields(Format)
               /\ fields[i].len = Format[i].len
    <3>1. i \in DOMAIN fields /\ fields[i].name \in LongNames
      BY DEF Long
    <3>2. i \in DOMAIN Format /\ Format[i].name \in LongNames
      BY <1>1, <3>1
    <3> QED
      BY <1>1, <1>2, <3>2 DEF WellLaid, Fresh
  <2> QED
    BY <2>1
<1>5. ASSUME NEW i \in 1 .. n, i \in Long
      PROVE  /\ w[i] = pa_set_protocol_byte_data(fields[i].data, Format[i].len)
             /\ w[i] \in Seq(Byte) /\ Len(w[i]) = Format[i].len
             /\ Format[i].len \in 0 .. 4 /\ fields'[i] = fields[i]
  <2>1. Format[i].len \in 0 .. 4 /\ fields[i].data \in Nat
    BY <1>1, <1>4, <1>5, FieldFacts
  <2>2. w[i] = pa_set_protocol_byte_data(fields[i].data, Format[i].len)
    BY <1>3, <1>4, <1>5
  <2>3. /\ pa_set_protocol_byte_data(fields[i].data, Format[i].len) \in Seq(Byte)
        /\ Len(pa_set_protocol_byte_data(fields[i].data, Format[i].len)) = Format[i].len
    BY <2>1, BytesOfNumber
  <2> QED
    BY <1>3, <1>5, <2>1, <2>2, <2>3
<1>6. ASSUME NEW i \in 1 .. n, i \notin Long
      PROVE  w[i] = values[i] /\ fields'[i] = SetField(fields[i], values[i])
  BY <1>3, <1>6
<1>7. \A i \in 1 .. n : Len(w[i]) = Len(values[i]) /\ w[i] \in Seq(Byte)
  <2>1. ASSUME NEW i \in 1 .. n PROVE Len(w[i]) = Len(values[i]) /\ w[i] \in Seq(Byte)
    <3>1. CASE i \in Long
      <4>1. Len(values[i]) = Format[i].len
        BY <1>1, <1>2, <1>4, <3>1 DEF IsMessage
      <4> QED
        BY <1>5, <3>1, <4>1
    <3>2. CASE i \notin Long
      BY <1>2, <1>6, <3>2
    <3> QED
      BY <3>1, <3>2
  <2> QED
    BY <2>1
<1>8. ASSUME NEW i \in 1 .. n, NEW j \in 1 .. n,
             Format[i].index # NoIndex, Format[j].name = Format[i].index
      PROVE  /\ w[j] = values[j] /\ j \notin Long
             /\ Len(values[j]) = 1 /\ values[j][1] = Len(w[i])
  <2>1. Format[j].name \in LengthFields(Format)
    BY <1>1, <1>8 DEF LengthFields
  <2>2. j \notin Long
    BY <1>4, <2>1
  <2>3. Len(values[j]) = 1 /\ values[j][1] = Len(values[i])
    BY <1>1, <1>2, <1>8 DEF IsMessage
  <2> QED
    BY <1>6, <1>7, <2>2, <2>3
<1>9. Fits(w)
  <2>1. DOMAIN w = DOMAIN Format
    BY <1>1, <1>3
  <2>2. \A i \in DOMAIN Format : w[i] \in Seq(Byte) /\ Len(w[i]) <= 255
    BY <1>1, <1>2, <1>7 DEF IsValues
  <2>3. \A i \in DOMAIN Format : Format[i].index = NoIndex => Len(w[i]) = Format[i].len
    BY <1>1, <1>2, <1>7 DEF IsMessage
  <2>4. \A i, j \in DOMAIN Format :
          Format[i].index # NoIndex /\ Format[j].name = Format[i].index
            => Len(w[j]) = 1 /\ w[j][1] = Len(w[i])
    BY <1>1, <1>8
  <2>5. IsMessage(Format, w)
    BY <2>1, <2>2, <2>3, <2>4 DEF IsMessage, IsValues
  <2>6. TotalLen(Format, w) = TotalLen(Format, values)
    BY <1>1, <1>7, SameLengths DEF n
  <2> QED
    BY <2>5, <2>6 DEF Fits
<1>10. Fresh(fields')
  BY <1>1, <1>3 DEF Fresh, Refilled
<1>11. ASSUME NEW i \in 1 .. n PROVE Holds(fields'[i], w[i])
  <2>1. CASE i \in Long
    <3>1. ~InBuffer(Len(w[i]))
      BY <1>5, <2>1 DEF InBuffer
    <3>2. pa_set_protocol_byte_data(fields'[i].data, Len(w[i])) = w[i]
      BY <1>5, <2>1
    <3> QED
      BY <3>1, <3>2 DEF Holds
  <2>2. CASE i \notin Long
    <3> DEFINE v == values[i]
               g == SetField(fields[i], v)
    <3>1. v \in Seq(Byte) /\ fields[i] \in Field /\ fields'[i] = g /\ w[i] = v
      BY <1>1, <1>2, <1>6, <2>2
    <3>2. /\ InBuffer(Len(v)) => /\ Len(g.buf) >= Len(v)
                                 /\ \A k \in 1 .. Len(v) : g.buf[k] = v[k]
          /\ ~InBuffer(Len(v)) => g.data = pa_get_protocol_byte_data(v)
      BY <3>1, SetFieldFacts
    <3>3. ~InBuffer(Len(v)) => pa_set_protocol_byte_data(pa_get_protocol_byte_data(v), Len(v)) = v
      <4>1. ~InBuffer(Len(v)) => Len(v) <= 4
        BY <3>1 DEF InBuffer
      <4> QED
        BY <3>1, <4>1, BytesRoundTrip
    <3> HIDE DEF g, v
    <3> QED
      BY <3>1, <3>2, <3>3 DEF Holds
  <2> QED
    BY <2>1, <2>2
<1>12. Known(fields', w, n)
  <2>1. ASSUME NEW i \in DOMAIN Format, NEW j \in 1 .. n,
               Format[i].index # NoIndex, Format[j].name = Format[i].index
        PROVE  fields'[j].data = Len(w[i])
    <3> DEFINE v == values[j]
               g == SetField(fields[j], v)
    <3>1. v \in Seq(Byte) /\ fields[j] \in Field /\ fields'[j] = g /\ Len(v) = 1 /\ v[1] = Len(w[i])
      BY <1>1, <1>2, <1>6, <1>8, <2>1
    <3>2. ~InBuffer(Len(v)) => g.data = pa_get_protocol_byte_data(v)
      BY <3>1, SetFieldFacts
    <3>3. ~InBuffer(Len(v)) /\ Len(v) <= 4
      BY <3>1 DEF InBuffer
    <3>4. pa_get_protocol_byte_data(v) = v[1]
      BY <3>1, <3>3, BytesRoundTrip, Zenon
    <3> QED
      BY <3>1, <3>2, <3>3, <3>4
  <2> QED
    BY <2>1 DEF Known
<1> QED
  BY <1>3, <1>9, <1>10, <1>11, <1>12 DEF w, n

\* How many fields the loop in progress is through with.
Done == IF loop.op = "idle" THEN 0 ELSE loop.at - 1

Handling == {"received", "set", "generated", "parsed"}

\* What is true of an analyzer at every stage of a message.
Progress ==
    /\ crash = "no"
    /\ stage \in {"new", "reset", "parsed"} => loop = NoLoop
    /\ proto # "none" /\ (stage = "new" \/ (stage = "reset" /\ TailOnly(Format))) => Fresh(fields)
    /\ stage \in Handling => proto # "none" /\ Fits(want)
    /\ stage = "received" =>
         /\ loop.op # "generate" /\ Cut(fields, want, Done)
         /\ Laid(data, want, Len(Format)) /\ datalen = TotalLen(Format, want)
         /\ \A i \in 1 .. Done : Got(fields[i], want[i])
    /\ stage = "set" =>
         /\ loop.op # "parse" /\ Cut(fields, want, Done)
         /\ Laid(data, want, Done)
         /\ \A i \in 1 .. Len(Format) : Holds(fields[i], want[i])
         /\ Known(fields, want, Len(Format))
    /\ stage = "generated" =>
         /\ loop.op # "generate" /\ Cut(fields, want, Len(Format))
         /\ Laid(data, want, Len(Format)) /\ datalen = TotalLen(Format, want)
         /\ \A i \in 1 .. Done : Got(fields[i], want[i])
    /\ stage = "parsed" =>
         /\ Cut(fields, want, Len(Format))
         /\ \A i \in 1 .. Len(Format) : Got(fields[i], want[i])

LEMMA ProgressInit == Init => Progress
BY DEF Init, Progress, NoLoop, Handling

\* Progress in the new state of the same analyzer, part by part.
LEMMA ProgressParts ==
    ASSUME proto # "none", proto' = proto, crash' = "no",
           stage' \in {"new", "reset", "parsed"} => loop' = NoLoop,
           stage' = "new" \/ (stage' = "reset" /\ TailOnly(Format)) => Fresh(fields'),
           stage' \in Handling => Fits(want'),
           stage' = "received" =>
             /\ loop'.op # "generate" /\ Cut(fields', want', Done')
             /\ Laid(data', want', Len(Format)) /\ datalen' = TotalLen(Format, want')
             /\ \A i \in 1 .. Done' : Got(fields'[i], want'[i]),
           stage' = "set" =>
             /\ loop'.op # "parse" /\ Cut(fields', want', Done')
             /\ Laid(data', want', Done')
             /\ \A i \in 1 .. Len(Format) : Holds(fields'[i], want'[i])
             /\ Known(fields', want', Len(Format)),
           stage' = "generated" =>
             /\ loop'.op # "generate" /\ Cut(fields', want', Len(Format))
             /\ Laid(data', want', Len(Format)) /\ datalen' = TotalLen(Format, want')
             /\ \A i \in 1 .. Done' : Got(fields'[i], want'[i]),
           stage' = "parsed" =>
             /\ Cut(fields', want', Len(Format))
             /\ \A i \in 1 .. Len(Format) : Got(fields'[i], want'[i])
    PROVE  Progress'
<1>1. Format' = Format
  BY DEF Format
<1>2. Fresh(fields') => Fresh(fields)'
  BY <1>1 DEF Fresh
<1>3. Fits(want') => Fits(want)'
  BY <1>1 DEF Fits
<1>4. /\ Cut(fields', want', Done') => Cut(fields, want, Done)'
      /\ Cut(fields', want', Len(Format)) => Cut(fields, want, Len(Format))'
  BY <1>1 DEF Cut
<1>5. /\ Laid(data', want', Done') => Laid(data, want, Done)'
      /\ Laid(data', want', Len(Format)) => Laid(data, want, Len(Format))'
  BY <1>1 DEF Laid
<1>6. Known(fields', want', Len(Format)) => Known(fields, want, Len(Format))'
  BY <1>1 DEF Known
<1>7. TotalLen(Format, want') = TotalLen(Format, want)' /\ (TailOnly(Format) <=> TailOnly(Format)')
  BY <1>1
<1>8. proto' # "none" /\ crash' = "no"
  OBVIOUS
<1>9. /\ (stage \in {"new", "reset", "parsed"} => loop = NoLoop)'
      /\ (proto # "none" /\ (stage = "new" \/ (stage = "reset" /\ TailOnly(Format))) => Fresh(fields))'
      /\ (stage \in Handling => proto # "none" /\ Fits(want))'
  BY <1>1, <1>2, <1>3, <1>7, <1>8 DEF NoLoop, Handling
<1>10. (stage = "received" =>
         /\ loop.op # "generate" /\ Cut(fields, want, Done)
         /\ Laid(data, want, Len(Format)) /\ datalen = TotalLen(Format, want)
         /\ \A i \in 1 .. Done : Got(fields[i], want[i]))'
  BY <1>1, <1>4, <1>5, <1>7
<1>11. (stage = "set" =>
         /\ loop.op # "parse" /\ Cut(fields, want, Done)
         /\ Laid(data, want, Done)
         /\ \A i \in 1 .. Len(Format) : Holds(fields[i], want[i])
         /\ Known(fields, want, Len(Format)))'
  BY <1>1, <1>4, <1>5, <1>6, <1>7
<1>12. (stage = "generated" =>
         /\ loop.op # "generate" /\ Cut(fields, want, Len(Format))
         /\ Laid(data, want, Len(Format)) /\ datalen = TotalLen(Format, want)
         /\ \A i \in 1 .. Done : Got(fields[i], want[i]))'
  BY <1>1, <1>4, <1>5, <1>7
<1>13. (stage = "parsed" =>
         /\ Cut(fields, want, Len(Format))
         /\ \A i \in 1 .. Len(Format) : Got(fields[i], want[i]))'
  BY <1>1, <1>4
<1> QED
  BY <1>8, <1>9, <1>10, <1>11, <1>12, <1>13 DEF Progress

LEMMA CutRefilled ==
    ASSUME NEW fs, NEW gs, NEW m, NEW k, Cut(fs, m, k), Refilled(fs, gs),
           DOMAIN fs = DOMAIN Format
    PROVE  Cut(gs, m, k)
BY DEF Cut, Refilled

\* What a loop has done after an iteration.
LEMMA AdvanceDone ==
    ASSUME TypeOK, proto # "none", loop.op # "idle", NEW done, Advance(done)
    PROVE  /\ loop.at \in 1 .. Len(Format) /\ Done = loop.at - 1
           /\ loop.at = Len(Format) => loop' = NoLoop /\ stage' = done /\ Done' = 0
           /\ loop.at # Len(Format) =>
                loop'.op = loop.op /\ stage' = stage /\ Done' = loop.at
<1>1. /\ loop.at \in 1 .. Len(Format)
      /\ loop.at = Len(Format) => loop' = NoLoop /\ stage' = done
      /\ loop.at # Len(Format) =>
           /\ loop' = [op |-> loop.op, at |-> loop.at + 1] /\ stage' = stage
  BY AdvanceFacts
<1>2. Done = loop.at - 1
  BY DEF Done
<1>3. loop.at = Len(Format) => Done' = 0
  BY <1>1 DEF Done, NoLoop
<1>4. ASSUME loop.at # Len(Format) PROVE loop'.op = loop.op /\ Done' = loop.at
  <2>1. loop'.op = loop.op /\ loop'.at = loop.at + 1 /\ loop.at \in Nat
    BY <1>1, <1>4, ListFacts
  <2>2. Done' = loop'.at - 1
    BY <2>1 DEF Done
  <2> QED
    BY <2>1, <2>2
<1> QED
  BY <1>1, <1>2, <1>3, <1>4

\* An iteration of pa_parse_protocol_data reads the value of its field.
LEMMA ParseProgress ==
    ASSUME WellUsed, Base, Progress, pa_parse_protocol_data
    PROVE  Progress'
<1> DEFINE n == Len(Format)
           i == loop.at
           gs == Settled(i)
           f == gs[i]
           bytes == [k \in 1 .. f.len |-> data[f.pos + k - 1]]
           K == IF stage = "generated" THEN n ELSE i
<1>1. /\ loop.op = "parse" /\ proto' = proto /\ want' = want
  BY DEF pa_parse_protocol_data
<1>2. proto # "none" /\ TypeOK
  BY <1>1 DEF Base, TypeOK, NoLoop
<1>3. /\ n \in Nat \ {0} /\ DOMAIN Format = 1 .. n /\ DOMAIN fields = 1 .. n
      /\ i \in 1 .. n /\ Done = i - 1
  BY <1>1, <1>2, ListFacts DEF TypeOK, Done
<1>4. stage \in {"received", "generated"}
  BY <1>1 DEF Progress, Base, TypeOK, Stages, NoLoop
<1>5. /\ Fits(want) /\ Laid(data, want, n) /\ datalen = TotalLen(Format, want)
      /\ Cut(fields, want, IF stage = "generated" THEN n ELSE i - 1)
      /\ \A j \in 1 .. i - 1 : Got(fields[j], want[j])
  BY <1>3, <1>4 DEF Progress, Handling
<1>6. Known(fields, want, i - 1)
  <2>1. i - 1 \in 0 .. n
    BY <1>3
  <2> QED
    BY <1>2, <1>5, <2>1, GotKnown
<1>7. /\ Cut(gs, want, K)
      /\ f.pos = Start(Format, want, i) /\ f.len = Len(want[i])
      /\ \A j \in 1 .. n : gs[j].data = fields[j].data /\ gs[j].buf = fields[j].buf
      /\ ~Overrun(f)
  <2> DEFINE k == IF stage = "generated" THEN n ELSE i - 1
  <2>1. k \in {i - 1, n} /\ Cut(fields, want, k)
    BY <1>5
  <2>2. (IF k = n THEN n ELSE i) = K
    BY <1>3
  <2> HIDE DEF k, K
  <2> QED
    BY <1>2, <1>3, <1>5, <1>6, <2>1, <2>2, SettleStep
<1>8. /\ Refilled(gs, fields')
      /\ \A k \in DOMAIN Format : k # i => fields'[k] = gs[k]
      /\ InBuffer(f.len) => fields'[i].buf = bytes
      /\ ~InBuffer(f.len) => fields'[i].data = pa_get_protocol_byte_data(bytes)
  BY <1>2, <1>7, ParseEffect
<1>9. bytes = want[i]
  <2>1. /\ i \in 1 .. Len(Format) /\ Laid(data, want, Len(Format)) /\ Fits(want)
        /\ f.pos = Start(Format, want, i) /\ f.len = Len(want[i])
    BY <1>3, <1>5, <1>7
  <2> HIDE DEF f, i, n
  <2> QED
    BY <1>2, <2>1, LaidBytes
<1>10. Advance("parsed") /\ data' = data /\ datalen' = datalen /\ crash' = crash
  BY <1>7 DEF pa_parse_protocol_data
<1>11. DOMAIN gs = DOMAIN Format
  BY <1>2, <1>3, SettledKeeps DEF ListOK
<1> HIDE DEF gs, bytes
<1>12. Cut(fields', want, K)
  BY <1>7, <1>8, <1>11, CutRefilled
<1>13. \A j \in 1 .. i : Got(fields'[j], want[j])
  <2>1. Got(fields'[i], want[i])
    BY <1>7, <1>8, <1>9 DEF Got
  <2>2. ASSUME NEW j \in 1 .. i - 1 PROVE Got(fields'[j], want[j])
    <3>1. j \in 1 .. n /\ j # i
      BY <1>3
    <3>2. fields'[j].data = fields[j].data /\ fields'[j].buf = fields[j].buf
      BY <1>3, <1>7, <1>8, <3>1
    <3> QED
      BY <1>5, <3>2 DEF Got
  <2>3. \A j \in 1 .. i : j = i \/ j \in 1 .. i - 1
    BY <1>3
  <2> QED
    BY <2>1, <2>2, <2>3
<1>14. crash' = "no"
  BY <1>10 DEF Progress
<1> HIDE DEF i, n
<1>15. /\ i = n => loop' = NoLoop /\ stage' = "parsed"
       /\ i # n => loop'.op = "parse" /\ stage' = stage /\ Done' = i
  BY <1>1, <1>2, <1>10, AdvanceDone DEF i, n
<1>16. CASE i = n
  <2>1. stage' = "parsed" /\ loop' = NoLoop /\ K = n
    BY <1>15, <1>16
  <2>2. Cut(fields', want', Len(Format)) /\ \A j \in 1 .. Len(Format) : Got(fields'[j], want'[j])
    BY <1>1, <1>12, <1>13, <1>16, <2>1 DEF n
  <2> QED
    BY <1>1, <1>2, <1>5, <1>14, <2>1, <2>2, ProgressParts
<1>17. CASE i # n
  <2>1. loop'.op = "parse" /\ stage' = stage /\ Done' = i
    BY <1>15, <1>17
  <2>2. /\ Laid(data', want', Len(Format)) /\ datalen' = TotalLen(Format, want')
        /\ \A j \in 1 .. Done' : Got(fields'[j], want'[j])
        /\ stage' = "received" => Cut(fields', want', Done')
        /\ stage' = "generated" => Cut(fields', want', Len(Format))
        /\ Fits(want')
    BY <1>1, <1>5, <1>10, <1>12, <1>13, <2>1 DEF n
  <2> QED
    BY <1>1, <1>2, <1>4, <1>14, <2>1, <2>2, ProgressParts
<1> QED
  BY <1>16, <1>17

\* An iteration of pa_generate_protocol_data writes the value of its field.
LEMMA GenerateProgress ==
    ASSUME WellUsed, Base, Progress, pa_generate_protocol_data
    PROVE  Progress'
<1> DEFINE n == Len(Format)
           i == loop.at
           gs == Settled(i)
           f == gs[i]
           bytes == IF InBuffer(f.len) THEN f.buf ELSE pa_set_protocol_byte_data(f.data, f.len)
<1>1. /\ loop.op = "generate" /\ proto' = proto /\ want' = want
  BY DEF pa_generate_protocol_data
<1>2. proto # "none" /\ TypeOK
  BY <1>1 DEF Base, TypeOK, NoLoop
<1>3. /\ n \in Nat \ {0} /\ DOMAIN Format = 1 .. n /\ DOMAIN fields = 1 .. n
      /\ i \in 1 .. n /\ Done = i - 1
  BY <1>1, <1>2, ListFacts DEF TypeOK, Done
<1>4. stage = "set"
  BY <1>1 DEF Progress, Base, TypeOK, Stages, NoLoop
<1>5. /\ Fits(want) /\ Laid(data, want, i - 1)
      /\ Cut(fields, want, i - 1)
      /\ \A j \in 1 .. n : Holds(fields[j], want[j])
      /\ Known(fields, want, n)
  BY <1>3, <1>4 DEF Progress, Handling
<1>6. Known(fields, want, i - 1)
  <2>1. \A j \in 1 .. i - 1 : j \in 1 .. n
    BY <1>3
  <2> QED
    BY <1>5, <2>1 DEF Known
<1>7. /\ Cut(gs, want, i)
      /\ f.pos = Start(Format, want, i) /\ f.len = Len(want[i])
      /\ \A j \in 1 .. n : gs[j].data = fields[j].data /\ gs[j].buf = fields[j].buf
      /\ ~Overrun(f)
  <2>1. i - 1 \in {i - 1, n} /\ i - 1 # n
    BY <1>3
  <2> QED
    BY <1>2, <1>3, <1>5, <1>6, <2>1, SettleStep
<1>8. ~(Len(bytes) < f.len) /\ \A b \in 1 .. Len(want[i]) : bytes[b] = want[i][b]
  <2>1. f \in Field
    BY <1>2, <1>3, SettledKeeps DEF ListOK
  <2>2. want[i] \in Seq(Byte)
    BY <1>2, <1>3, <1>5, FitsFacts
  <2>3. Holds(f, want[i])
    BY <1>3, <1>5, <1>7 DEF Holds
  <2> QED
    BY <1>7, <2>1, <2>2, <2>3, HoldsBytes
<1>9. /\ fields' = gs /\ datalen' = f.pos + f.len
      /\ \A p \in 0 .. MaxProtoDataLen - 1 :
           data'[p] = IF p >= f.pos /\ p < f.pos + f.len
                      THEN bytes[p - f.pos + 1] ELSE data[p]
  <2>1. ~(Overrun(f) \/ Len(bytes) < f.len)
    BY <1>7, <1>8
  <2> QED
    BY <1>2, <2>1, GenerateEffect
<1>10. Advance("generated") /\ crash' = crash
  BY <1>7, <1>8 DEF pa_generate_protocol_data
<1> HIDE DEF gs, bytes
<1>11. Laid(data', want, i)
  <2>1. \A p \in 0 .. MaxProtoDataLen - 1 :
          data'[p] = IF p >= Start(Format, want, i) /\ p < Start(Format, want, i) + Len(want[i])
                     THEN bytes[p - Start(Format, want, i) + 1] ELSE data[p]
    BY <1>7, <1>9
  <2>2. i \in 1 .. Len(Format)
    BY <1>3
  <2> HIDE DEF i, n
  <2> QED
    BY <1>2, <1>5, <1>8, <2>1, <2>2, WriteLays, ZenonT(30)
<1>12. /\ \A j \in 1 .. n : Holds(fields'[j], want[j])
       /\ Known(fields', want, n)
  <2>1. \A j \in 1 .. n : fields'[j].data = fields[j].data /\ fields'[j].buf = fields[j].buf
    BY <1>7, <1>9
  <2>2. ASSUME NEW j \in 1 .. n PROVE Holds(fields'[j], want[j])
    BY <1>5, <2>1 DEF Holds
  <2>3. Known(fields', want, n)
    BY <1>3, <1>5, <2>1 DEF Known
  <2> QED
    BY <2>2, <2>3
<1>13. Cut(fields', want, i)
  BY <1>7, <1>9
<1>14. crash' = "no"
  BY <1>10 DEF Progress
<1> HIDE DEF i, n
<1>15. /\ i = n => loop' = NoLoop /\ stage' = "generated" /\ Done' = 0
       /\ i # n => loop'.op = "generate" /\ stage' = stage /\ Done' = i
  BY <1>1, <1>2, <1>10, AdvanceDone DEF i, n
<1>16. CASE i = n
  <2>1. stage' = "generated" /\ loop' = NoLoop /\ Done' = 0 /\ loop'.op # "generate"
    BY <1>15, <1>16 DEF NoLoop
  <2>2. datalen' = TotalLen(Format, want)
    BY <1>7, <1>9, <1>16 DEF TotalLen, n
  <2>3. /\ Cut(fields', want', Len(Format)) /\ Laid(data', want', Len(Format))
        /\ datalen' = TotalLen(Format, want') /\ Fits(want')
        /\ \A j \in 1 .. Done' : Got(fields'[j], want'[j])
    BY <1>1, <1>5, <1>11, <1>13, <1>16, <2>1, <2>2 DEF n
  <2> QED
    BY <1>1, <1>2, <1>14, <2>1, <2>3, ProgressParts
<1>17. CASE i # n
  <2>1. loop'.op = "generate" /\ stage' = "set" /\ Done' = i
    BY <1>4, <1>15, <1>17
  <2>2. /\ Cut(fields', want', Done') /\ Laid(data', want', Done')
        /\ \A j \in 1 .. Len(Format) : Holds(fields'[j], want'[j])
        /\ Known(fields', want', Len(Format)) /\ Fits(want')
    BY <1>1, <1>5, <1>11, <1>12, <1>13, <2>1 DEF n
  <2> QED
    BY <1>1, <1>2, <1>14, <2>1, <2>2, ProgressParts
<1> QED
  BY <1>16, <1>17

LEMMA ProgressStep == WellUsed /\ Base /\ Progress /\ [Next]_vars => Progress'
<1> SUFFICES ASSUME WellUsed, Base, Progress, [Next]_vars PROVE Progress'
  OBVIOUS
<1>1. TypeOK
  BY DEF Base
<1>2. loop = NoLoop => Done = 0 /\ loop.op = "idle"
  BY DEF Done, NoLoop
<1>3. ASSUME NEW p \in DOMAIN Formats, pa_init_protocol_analyzer(p) PROVE Progress'
  <2>1. /\ proto' = p /\ fields' = pa_copy_protocol_format(Formats[p])
        /\ stage' = "new" /\ loop' = NoLoop /\ crash' = "no"
    BY <1>1, <1>3 DEF pa_init_protocol_analyzer, TypeOK, Progress
  <2>2. Format' = Formats[p]
    BY <2>1 DEF Format
  <2>3. DOMAIN fields' = DOMAIN Formats[p]
        /\ \A i \in DOMAIN Formats[p] :
             /\ fields'[i].index = Formats[p][i].index
             /\ fields'[i].pos = Formats[p][i].pos /\ fields'[i].len = Formats[p][i].len
             /\ fields'[i].vlenth_flag <=> fields'[i].index # NoIndex
    BY <2>1, CopyFacts
  <2>4. Fresh(fields)'
    BY <2>2, <2>3 DEF Fresh
  <2> QED
    BY <2>1, <2>4 DEF Progress, Handling
<1>4. CASE pa_destroy_protocol_analyzer
  <2>1. proto' = "none" /\ stage' = "new" /\ loop' = NoLoop /\ crash' = "no"
    BY <1>4 DEF pa_destroy_protocol_analyzer
  <2> QED
    BY <2>1 DEF Progress, Handling
<1>5. ASSUME Ready, NEW values \in Messages, Receive(values) \/ SetValues(values)
      PROVE  Progress'
  <2>1. /\ proto # "none" /\ loop = NoLoop
        /\ stage = "new" \/ (stage = "reset" /\ proto \in Reused)
    BY <1>5 DEF Ready
  <2>2. stage = "new" \/ (stage = "reset" /\ TailOnly(Format))
    BY <2>1 DEF WellUsed, Format
  <2>3. Fresh(fields)
    BY <2>1, <2>2 DEF Progress
  <2>4. Fits(values) /\ IsValues(Format, values)
    <3>1. WellLaid(Format)
      BY <1>1, <2>1, ListFacts DEF WellUsed
    <3> QED
      BY <1>1, <2>1, <3>1, MessagesFacts DEF Fits
  <2>5. CASE Receive(values)
    <3>1. /\ proto' = proto /\ fields' = fields /\ loop' = loop /\ crash' = crash
          /\ data' = Encoded(Format, values, data)
          /\ datalen' = TotalLen(Format, values)
          /\ want' = values /\ stage' = "received"
      BY <2>5 DEF Receive
    <3>2. Laid(data', want', Len(Format))
      <4>1. data \in Array
        BY <1>1 DEF TypeOK, Array, Byte
      <4> QED
        BY <1>1, <2>1, <2>4, <3>1, <4>1, EncodedLays
    <3>3. Done' = 0 /\ loop'.op = "idle"
      BY <2>1, <3>1 DEF Done, NoLoop
    <3>4. Cut(fields', want', Done')
      BY <1>1, <2>1, <2>3, <2>4, <3>1, <3>3, FreshCut
    <3>5. \A i \in 1 .. Done' : Got(fields'[i], want'[i])
      BY <3>3
    <3>6. crash' = "no"
      BY <3>1 DEF Progress
    <3> QED
      BY <2>1, <2>4, <3>1, <3>2, <3>3, <3>4, <3>5, <3>6, ProgressParts
  <2>6. CASE SetValues(values)
    <3>1. proto' = proto /\ loop' = loop /\ stage' = "set"
      BY <2>6 DEF SetValues
    <3>2. /\ Fits(want') /\ Fresh(fields') /\ crash' = "no"
          /\ \A i \in 1 .. Len(Format) : Holds(fields'[i], want'[i])
          /\ Known(fields', want', Len(Format))
      BY <2>1, <2>3, <2>4, <2>6, SetHolds
    <3>3. Done' = 0 /\ loop'.op = "idle"
      BY <2>1, <3>1 DEF Done, NoLoop
    <3>4. Cut(fields', want', Done')
      <4>1. IsValues(Format, want')
        BY <3>2 DEF Fits, IsMessage
      <4> QED
        BY <1>1, <2>1, <3>2, <3>3, <4>1, FreshCut
    <3>5. Laid(data', want', Done')
      BY <3>3 DEF Laid
    <3> QED
      BY <2>1, <3>1, <3>2, <3>3, <3>4, <3>5, ProgressParts
  <2> QED
    BY <1>5, <2>5, <2>6
<1>6. CASE pa_reset_vlen_flag
  <2>1. /\ proto # "none" /\ loop = NoLoop /\ stage \in {"parsed", "generated"}
        /\ proto' = proto /\ loop' = loop /\ stage' = "reset" /\ crash' = "no"
    BY <1>6 DEF pa_reset_vlen_flag
  <2>2. ASSUME TailOnly(Format) PROVE Fresh(fields')
    <3>1. /\ DOMAIN fields' = DOMAIN fields
          /\ \A k \in DOMAIN fields :
               /\ fields'[k].pos = fields[k].pos /\ fields'[k].len = fields[k].len
               /\ fields'[k].vlenth_flag <=> fields[k].vlenth_flag \/ fields[k].vlenth_flag_bak
      BY <1>1, <1>6, ResetEffect
    <3>2. /\ DOMAIN fields = DOMAIN Format
          /\ \A k \in DOMAIN Format :
               /\ fields[k].index = Format[k].index
               /\ fields[k].vlenth_flag => fields[k].index # NoIndex
               /\ fields[k].vlenth_flag_bak <=> fields[k].index # NoIndex
               /\ fields[k].pos = Format[k].pos
      BY <2>1, <2>2, BaseList DEF ListOK
    <3>3. \A k \in DOMAIN Format : Format[k].index = NoIndex => fields[k].len = Format[k].len
      BY <2>1 DEF Progress, Cut
    <3> QED
      BY <3>1, <3>2, <3>3 DEF Fresh
  <2> QED
    BY <2>1, <2>2, ProgressParts DEF Handling
<1>7. CASE ParseStart \/ GenerateStart
  <2>1. /\ proto # "none" /\ loop = NoLoop /\ proto' = proto /\ fields' = fields
        /\ data' = data /\ datalen' = datalen /\ want' = want /\ stage' = stage
        /\ crash' = "no"
        /\ \/ stage \in {"received", "generated"} /\ loop' = [op |-> "parse", at |-> 1]
           \/ stage = "set" /\ loop' = [op |-> "generate", at |-> 1]
    BY <1>7 DEF ParseStart, GenerateStart
  <2>2. Done' = 0 /\ Done = 0
    BY <1>2, <2>1 DEF Done
  <2>3. /\ stage \in {"received", "generated"} => loop'.op # "generate"
        /\ stage = "set" => loop'.op # "parse"
        /\ stage \in {"received", "generated", "set"}
    BY <2>1
  <2>4. Fits(want)
    BY <2>3 DEF Progress, Handling
  <2>5. \A i \in 1 .. Done' : Got(fields'[i], want'[i])
    BY <2>2
  <2>6. stage' = "received" => /\ Cut(fields', want', Done')
                               /\ Laid(data', want', Len(Format))
                               /\ datalen' = TotalLen(Format, want')
    BY <2>1, <2>2 DEF Progress
  <2>7. stage' = "set" => /\ Cut(fields', want', Done')
                          /\ Laid(data', want', Done')
                          /\ \A i \in 1 .. Len(Format) : Holds(fields'[i], want'[i])
                          /\ Known(fields', want', Len(Format))
    BY <2>1, <2>2 DEF Progress
  <2>8. stage' = "generated" => /\ Cut(fields', want', Len(Format))
                                /\ Laid(data', want', Len(Format))
                                /\ datalen' = TotalLen(Format, want')
    BY <2>1 DEF Progress
  <2> QED
    BY <2>1, <2>3, <2>4, <2>5, <2>6, <2>7, <2>8, ProgressParts
<1>8. CASE pa_parse_protocol_data
  BY <1>8, ParseProgress
<1>9. CASE pa_generate_protocol_data
  BY <1>9, GenerateProgress
<1>10. CASE UNCHANGED vars
  <2>1. /\ proto' = proto /\ fields' = fields /\ data' = data /\ datalen' = datalen
        /\ loop' = loop /\ stage' = stage /\ want' = want /\ crash' = crash
    BY <1>10 DEF vars
  <2>2. Format' = Format /\ Done' = Done
    BY <2>1 DEF Format, Done
  <2> QED
    BY <2>1, <2>2 DEF Progress, Fresh, Fits, Cut, Laid, Known
<1> QED
  BY <1>3, <1>4, <1>5, <1>6, <1>7, <1>8, <1>9, <1>10 DEF Next

\* What the properties ask at the end of each loop.
LEMMA ProgressSuffices ==
    ASSUME WellUsed, Base, Progress
    PROVE  ParseCorrect /\ GenerateCorrect /\ NoOverrun
<1>1. ParseCorrect
  <2> SUFFICES ASSUME stage = "parsed", NEW i \in DOMAIN fields
               PROVE  Value(fields[i]) = want[i]
    BY DEF ParseCorrect
  <2>1. TypeOK /\ proto # "none" /\ Fits(want)
    BY DEF Progress, Handling, Base
  <2>2. i \in 1 .. Len(Format) /\ i \in DOMAIN Format
    BY <2>1, ListFacts
  <2>3. Got(fields[i], want[i]) /\ Cut(fields, want, Len(Format))
    BY <2>2 DEF Progress
  <2>4. /\ IsMessage(Format, want) /\ want[i] \in Seq(Byte)
    BY <2>1, <2>2, FitsFacts
  <2>5. fields[i].len = Len(want[i])
    <3>1. i <= Len(Format)
      BY <2>1, <2>2, ListFacts
    <3> QED
      BY <2>2, <2>3, <2>4, <3>1 DEF Cut, IsMessage
  <2>6. CASE InBuffer(Len(want[i]))
    BY <2>3, <2>5, <2>6 DEF Value, Got
  <2>7. CASE ~InBuffer(Len(want[i]))
    <3>1. Len(want[i]) <= 4
      BY <2>4, <2>7 DEF InBuffer
    <3>2. pa_set_protocol_byte_data(pa_get_protocol_byte_data(want[i]), Len(want[i])) = want[i]
      BY <2>4, <3>1, BytesRoundTrip
    <3> QED
      BY <2>3, <2>5, <2>7, <3>2 DEF Value, Got
  <2> QED
    BY <2>6, <2>7
<1>2. GenerateCorrect
  <2> SUFFICES ASSUME stage = "generated"
               PROVE  datalen = TotalLen(Format, want) /\ data = Encoded(Format, want, data)
    BY DEF GenerateCorrect
  <2>1. /\ TypeOK /\ proto # "none" /\ Fits(want)
        /\ Laid(data, want, Len(Format)) /\ datalen = TotalLen(Format, want)
    BY DEF Progress, Handling, Base
  <2>2. data \in Array
    BY <2>1 DEF TypeOK, Array, Byte
  <2> QED
    BY <2>1, <2>2, LaidEncoded
<1>3. NoOverrun
  BY DEF Progress, NoOverrun
<1> QED
  BY <1>1, <1>2, <1>3

\* Under WellUsed, every message is parsed into the values it was sent with: when
\* pa_parse_protocol_data is through, no field holds a byte of its neighbour, of the
\* length it had in an earlier message, or of an earlier message.
THEOREM ParseIsCorrect == ASSUME WellUsed PROVE Spec => []ParseCorrect
<1>1. Init => Base /\ Progress
  BY BaseInit, ProgressInit
<1>2. Base /\ Progress /\ [Next]_vars => (Base /\ Progress)'
  BY BaseStep, ProgressStep
<1>3. Base /\ Progress => ParseCorrect
  BY ProgressSuffices
<1> QED
  BY <1>1, <1>2, <1>3, PTL DEF Spec

\* Under WellUsed, what pa_generate_protocol_data leaves in protocol_data is what a peer
\* that knows the format expects, byte for byte, and protocol_data_len is its length.
THEOREM GenerateIsCorrect == ASSUME WellUsed PROVE Spec => []GenerateCorrect
<1>1. Init => Base /\ Progress
  BY BaseInit, ProgressInit
<1>2. Base /\ Progress /\ [Next]_vars => (Base /\ Progress)'
  BY BaseStep, ProgressStep
<1>3. Base /\ Progress => GenerateCorrect
  BY ProgressSuffices
<1> QED
  BY <1>1, <1>2, <1>3, PTL DEF Spec

\* Under WellUsed, and for messages that fit into protocol_data, neither loop touches a
\* byte beyond it or beyond a field's buffer, although nothing in
\* pa_parse_protocol_data and pa_generate_protocol_data checks a position.
THEOREM NothingOverrun == ASSUME WellUsed PROVE Spec => []NoOverrun
<1>1. Init => Base /\ Progress
  BY BaseInit, ProgressInit
<1>2. Base /\ Progress /\ [Next]_vars => (Base /\ Progress)'
  BY BaseStep, ProgressStep
<1>3. Base /\ Progress => NoOverrun
  BY ProgressSuffices
<1> QED
  BY <1>1, <1>2, <1>3, PTL DEF Spec

(***************************************************************************)
(* BitFields: the chunks of a field                                        *)
(***************************************************************************)

\* What a field of a layout has.
FieldPos(fs, n) == fs[n].pos
FieldBit(fs, n) == fs[n].bit
FieldLen(fs, n) == fs[n].len

LEMMA BitFieldForm ==
    ASSUME NEW f \in [pos : Nat, bit : 0 .. 7, len : 1 .. 32]
    PROVE  f.pos \in Nat /\ f.bit \in 0 .. 7 /\ f.len \in 1 .. 32
OBVIOUS

LEMMA LayoutFields ==
    ASSUME NEW fs \in Layouts
    PROVE  /\ Len(fs) \in Nat /\ Len(fs) > 0 /\ DOMAIN fs = 1 .. Len(fs)
           /\ \A n \in 1 .. Len(fs) :
                /\ FieldPos(fs, n) \in Nat /\ FieldBit(fs, n) \in 0 .. 7 /\ FieldLen(fs, n) \in 1 .. 32
                /\ 8 * FieldPos(fs, n) + (7 - FieldBit(fs, n)) + FieldLen(fs, n) <= 8 * BitBytes
<1> DEFINE S == [pos : Nat, bit : 0 .. 7, len : 1 .. 32]
<1>1. fs \in Seq(S) /\ fs # <<>>
  BY Zenon, LayoutsAssumption DEF BitsOfByte
<1>2. \A n \in DOMAIN fs : 8 * fs[n].pos + (7 - fs[n].bit) + fs[n].len <= 8 * BitBytes
  BY Zenon, LayoutsAssumption
<1> HIDE DEF S
<1>3. Len(fs) \in Nat /\ Len(fs) > 0 /\ DOMAIN fs = 1 .. Len(fs)
      /\ \A n \in 1 .. Len(fs) : fs[n] \in S
  BY <1>1
<1>4. \A n \in 1 .. Len(fs) :
        fs[n].pos \in Nat /\ fs[n].bit \in 0 .. 7 /\ fs[n].len \in 1 .. 32
  BY Zenon, <1>3, BitFieldForm DEF S
<1> QED
  BY Zenon, <1>2, <1>3, <1>4 DEF FieldPos, FieldBit, FieldLen

\* A chunk of a field [pos, bit, len]: t bits are left, and the highest of them
\* lies at bit tp of the i-th byte from pos on.
ChunkAt(bit, len, i, t, tp) ==
    /\ bit \in 0 .. 7 /\ len \in 1 .. 32 /\ i \in Nat /\ t \in 1 .. len /\ tp \in 0 .. 7
    /\ 8 * i + (7 - tp) = (7 - bit) + (len - t)
    /\ \/ t = len /\ i = 0 /\ tp = bit
       \/ t < len /\ tp = 7

Get(t, tp) == IF t > tp + 1 THEN tp + 1 ELSE t

LEMMA GetFacts ==
    ASSUME NEW t \in Nat, t > 0, NEW tp \in 0 .. 7
    PROVE  Get(t, tp) \in 1 .. 8 /\ Get(t, tp) <= t /\ Get(t, tp) <= tp + 1
           /\ (Get(t, tp) < t => Get(t, tp) = tp + 1)
BY DEF Get

LEMMA DivMod8 ==
    ASSUME NEW q \in Nat, NEW r \in 0 .. 7
    PROVE  (8 * q + r) \div 8 = q /\ (8 * q + r) % 8 = r
OBVIOUS

\* Where the bits of a chunk are, and the bit above a chunk that does not begin at
\* the top of its byte.
LEMMA ChunkPlace ==
    ASSUME NEW pos \in Nat, NEW bit, NEW len, NEW i, NEW t, NEW tp, ChunkAt(bit, len, i, t, tp),
           NEW k \in Int, t - Get(t, tp) <= k, k < t \/ (k = t /\ tp < 7)
    PROVE  /\ (8 * pos + (7 - bit) + (len - 1 - k)) \div 8 = pos + i
           /\ 7 - ((8 * pos + (7 - bit) + (len - 1 - k)) % 8) = tp + 1 - t + k
           /\ tp + 1 - t + k \in 0 .. 7
<1> DEFINE r == 7 - tp + (t - 1 - k)
           q == pos + i
<1>1. bit \in 0 .. 7 /\ len \in Nat /\ i \in Nat /\ t \in Nat /\ t > 0 /\ tp \in 0 .. 7
      /\ 8 * i + (7 - tp) = (7 - bit) + (len - t)
  BY DEF ChunkAt
<1>2. (t - 1 - k >= 0 \/ (t - 1 - k = -1 /\ tp < 7)) /\ t - 1 - k <= tp
  BY <1>1, GetFacts
<1>3. r \in 0 .. 7 /\ q \in Nat
  BY <1>1, <1>2
<1>4. 8 * pos + (7 - bit) + (len - 1 - k) = 8 * q + r
  BY <1>1
<1>5. 7 - r = tp + 1 - t + k /\ tp + 1 - t + k \in 0 .. 7
  BY <1>1, <1>2
<1> HIDE DEF r, q
<1>6. (8 * q + r) \div 8 = q /\ (8 * q + r) % 8 = r
  BY <1>3, DivMod8
<1> QED
  BY <1>4, <1>5, <1>6 DEF q

\* The bytes of a field are in the array.
LEMMA ChunkByte ==
    ASSUME NEW pos \in Nat, NEW bit, NEW len, NEW i, NEW t, NEW tp, ChunkAt(bit, len, i, t, tp),
           8 * pos + (7 - bit) + len <= 8 * BitBytes
    PROVE  pos + i \in 0 .. BitBytes - 1
<1>1. BitBytes \in Nat
  BY BytesAssumption
<1> QED
  BY <1>1 DEF ChunkAt

\* The next chunk of the field.
LEMMA ChunkAfter ==
    ASSUME NEW bit, NEW len, NEW i, NEW t, NEW tp, ChunkAt(bit, len, i, t, tp),
           t - Get(t, tp) > 0
    PROVE  ChunkAt(bit, len, i + 1, t - Get(t, tp), 7)
BY DEF ChunkAt, Get

LEMMA FirstChunk ==
    ASSUME NEW bit \in 0 .. 7, NEW len \in 1 .. 32
    PROVE  ChunkAt(bit, len, 0, len, bit)
BY DEF ChunkAt

LEMMA GetBits ==
    ASSUME NEW bits \in SUBSET Int, NEW bit_pos \in Int, NEW len \in Int, NEW x
    PROVE  x \in get_bit_data(bits, bit_pos, len)
             <=> x \in 0 .. 7 /\ x + bit_pos \in bits /\ x < len + 1
BY DEF get_bit_data, Shift, pow, BitsOfByte

LEMMA SetBits ==
    ASSUME NEW byte, NEW bits \in SUBSET Int, NEW bit_pos \in Int, NEW len \in Int, NEW b
    PROVE  b \in set_bit_data(byte, bits, bit_pos, len)
             <=> b \in byte \/ (b \in 0 .. 7 /\ b - bit_pos \in bits /\ b - bit_pos < len + 1)
BY DEF set_bit_data, Shift, pow, BitsOfByte

\* The bits of a value that a chunk puts into the message: its own and, in the
\* first chunk, the bit above the field.
InChunk(len, t, get, k) == t - get <= k /\ (k < t \/ (k = len /\ t = len))

PassedBits(bit, len) == IF bit < 7 THEN 0 .. len ELSE 0 .. len - 1

\* What a chunk of the value v adds to the byte: those bits, at their places.
LEMMA ChunkSet ==
    ASSUME NEW bit, NEW len, NEW i, NEW t, NEW tp, ChunkAt(bit, len, i, t, tp),
           NEW v \in SUBSET (0 .. 31), NEW byte, NEW b
    PROVE  b \in set_bit_data(byte, get_bit_data(v, t - Get(t, tp), Get(t, tp)),
                              tp + 1 - Get(t, tp), Get(t, tp))
             <=> \/ b \in byte
                 \/ \E k \in v \cap PassedBits(bit, len) :
                      InChunk(len, t, Get(t, tp), k) /\ b = tp + 1 - t + k
<1> DEFINE get == Get(t, tp)
           part == get_bit_data(v, t - get, get)
<1>1. bit \in 0 .. 7 /\ len \in 1 .. 32 /\ t \in 1 .. len /\ tp \in 0 .. 7
      /\ \/ t = len /\ tp = bit
         \/ t < len /\ tp = 7
  <2>1. bit \in 0 .. 7 /\ len \in 1 .. 32 /\ t \in 1 .. len /\ tp \in 0 .. 7
    BY DEF ChunkAt
  <2>2. \/ t = len /\ i = 0 /\ tp = bit
        \/ t < len /\ tp = 7
    BY Zenon DEF ChunkAt
  <2> QED
    BY Zenon, <2>1, <2>2
<1>2. get \in 1 .. 8 /\ get <= t /\ get <= tp + 1
  BY <1>1, GetFacts
<1> HIDE DEF get
<1>3. v \in SUBSET Int /\ t - get \in Int /\ tp + 1 - get \in Int /\ get \in Int
  BY <1>1, <1>2
<1>4. \A x : x \in part <=> x \in 0 .. 7 /\ x + (t - get) \in v /\ x < get + 1
  BY <1>3, GetBits
<1> HIDE DEF part
<1>5. part \in SUBSET Int
  BY <1>4
<1>6. b \in set_bit_data(byte, part, tp + 1 - get, get)
        <=> b \in byte \/ (b \in 0 .. 7 /\ b - (tp + 1 - get) \in part /\ b - (tp + 1 - get) < get + 1)
  BY <1>3, <1>5, SetBits
<1>7. ASSUME b \in 0 .. 7, b - (tp + 1 - get) \in part
      PROVE  \E k \in v \cap PassedBits(bit, len) : InChunk(len, t, get, k) /\ b = tp + 1 - t + k
  <2> DEFINE x == b - (tp + 1 - get)
             k == x + (t - get)
  <2>1. x \in 0 .. 7 /\ k \in v /\ x < get + 1
    BY <1>4, <1>7
  <2>2. b = tp + 1 - t + k /\ t - get <= k /\ k \in Int /\ 0 <= k
    BY <1>1, <1>2, <1>7, <2>1
  <2>3. CASE x < get
    <3>1. k < t
      BY <1>1, <1>2, <1>7, <2>3
    <3>2. k \in PassedBits(bit, len)
      <4> HIDE DEF k
      <4> QED
        BY <1>1, <2>2, <3>1 DEF PassedBits
    <3> QED
      BY <2>1, <2>2, <3>1, <3>2 DEF InChunk
  <2>4. CASE x = get
    <3>1. k = t /\ b = tp + 1
      BY <1>1, <1>2, <1>7, <2>2, <2>4
    <3>2. tp < 7
      BY <1>1, <1>7, <3>1
    <3> HIDE DEF k
    <3>3. t = len /\ bit < 7
      BY <1>1, <3>2
    <3>4. k \in PassedBits(bit, len)
      BY <1>1, <3>1, <3>3 DEF PassedBits
    <3> QED
      BY <2>1, <2>2, <3>1, <3>3, <3>4 DEF InChunk
  <2>5. x < get \/ x = get
    BY <1>2, <2>1
  <2> QED
    BY <2>3, <2>4, <2>5
<1>8. ASSUME NEW k \in v \cap PassedBits(bit, len), InChunk(len, t, get, k), b = tp + 1 - t + k
      PROVE  b \in 0 .. 7 /\ b - (tp + 1 - get) \in part /\ b - (tp + 1 - get) < get + 1
  <2> DEFINE x == b - (tp + 1 - get)
  <2>1. x = k - (t - get) /\ k \in Int
    BY <1>1, <1>2, <1>8
  <2>2. t - get <= k /\ (k < t \/ (k = t /\ tp < 7))
    <3>1. k = len /\ t = len => bit < 7 /\ tp = bit
      BY <1>1, <1>8 DEF PassedBits
    <3> QED
      BY <1>8, <3>1 DEF InChunk
  <2>3. x \in 0 .. 7 /\ x < get + 1 /\ b \in 0 .. 7 /\ x + (t - get) = k
    BY <1>1, <1>2, <1>8, <2>1, <2>2
  <2> HIDE DEF x
  <2>4. x \in part
    BY <1>4, <1>8, <2>3
  <2> QED
    BY <2>3, <2>4 DEF x
<1> QED
  BY <1>6, <1>7, <1>8 DEF get, part

\* What a chunk of the byte adds to the value: the chunk's bits and, in the
\* first one, the bit above the field.
LEMMA ChunkRead ==
    ASSUME NEW bit, NEW len, NEW i, NEW t, NEW tp, ChunkAt(bit, len, i, t, tp),
           NEW byte \in SUBSET (0 .. 7), NEW k
    PROVE  k \in Shift(get_bit_data(byte, tp + 1 - Get(t, tp), Get(t, tp)), t - Get(t, tp)) \cap 0 .. 31
             <=> \/ k \in Int /\ t - Get(t, tp) <= k /\ k < t /\ tp + 1 - t + k \in byte
                 \/ k = len /\ t = len /\ bit < 7 /\ len < 32 /\ bit + 1 \in byte
<1> DEFINE get == Get(t, tp)
           part == get_bit_data(byte, tp + 1 - get, get)
<1>1. bit \in 0 .. 7 /\ len \in 1 .. 32 /\ t \in 1 .. len /\ tp \in 0 .. 7
      /\ \/ t = len /\ tp = bit
         \/ t < len /\ tp = 7
  <2>1. bit \in 0 .. 7 /\ len \in 1 .. 32 /\ t \in 1 .. len /\ tp \in 0 .. 7
    BY DEF ChunkAt
  <2>2. \/ t = len /\ i = 0 /\ tp = bit
        \/ t < len /\ tp = 7
    BY Zenon DEF ChunkAt
  <2> QED
    BY Zenon, <2>1, <2>2
<1>2. get \in 1 .. 8 /\ get <= t /\ get <= tp + 1
  BY <1>1, GetFacts
<1> HIDE DEF get
<1>3. byte \in SUBSET Int /\ tp + 1 - get \in Int /\ get \in Int
  BY <1>1, <1>2
<1>4. \A x : x \in part <=> x \in 0 .. 7 /\ x + (tp + 1 - get) \in byte /\ x < get + 1
  BY <1>3, GetBits
<1> HIDE DEF part
<1>5. k \in Shift(part, t - get) \cap 0 .. 31
        <=> k \in 0 .. 31 /\ k - (t - get) \in part
  <2>1. part \in SUBSET Int
    BY <1>4
  <2> QED
    BY <1>1, <1>2, <2>1 DEF Shift
<1>6. ASSUME k \in 0 .. 31, k - (t - get) \in part
      PROVE  \/ k \in Int /\ t - get <= k /\ k < t /\ tp + 1 - t + k \in byte
             \/ k = len /\ t = len /\ bit < 7 /\ len < 32 /\ bit + 1 \in byte
  <2> DEFINE x == k - (t - get)
             b == x + (tp + 1 - get)
  <2>1. x \in 0 .. 7 /\ b \in byte /\ x < get + 1 /\ b <= 7
    <3> HIDE DEF x
    <3>1. x \in part
      BY Zenon, <1>6 DEF x
    <3>2. x \in 0 .. 7 /\ x + (tp + 1 - get) \in byte /\ x < get + 1
      BY Zenon, <1>4, <3>1
    <3>3. \A y \in byte : y <= 7
      OBVIOUS
    <3> QED
      BY Zenon, <3>2, <3>3
  <2>2. b = tp + 1 - t + k
    BY <1>1, <1>2, <1>6
  <2>3. CASE x < get
    BY <1>1, <1>2, <1>6, <2>1, <2>2, <2>3
  <2>4. CASE x = get
    <3>1. k = t /\ b = tp + 1
      BY <1>1, <1>2, <1>6, <2>2, <2>4
    <3>2. tp < 7
      BY <1>1, <2>1, <3>1
    <3> HIDE DEF b
    <3> QED
      BY <1>1, <1>6, <2>1, <3>1, <3>2
  <2>5. x < get \/ x = get
    BY <1>2, <2>1
  <2> QED
    BY <2>3, <2>4, <2>5
<1>7. ASSUME k \in Int, t - get <= k, k < t, tp + 1 - t + k \in byte
      PROVE  k \in 0 .. 31 /\ k - (t - get) \in part
  <2> DEFINE x == k - (t - get)
  <2>1. x \in 0 .. 7 /\ x < get + 1 /\ k \in 0 .. 31 /\ x + (tp + 1 - get) = tp + 1 - t + k
    BY <1>1, <1>2, <1>7
  <2> HIDE DEF x
  <2>2. x \in part
    BY <1>4, <1>7, <2>1
  <2> QED
    BY <2>1, <2>2 DEF x
<1>8. ASSUME k = len, t = len, bit < 7, len < 32, bit + 1 \in byte
      PROVE  k \in 0 .. 31 /\ k - (t - get) \in part
  <2>1. k - (t - get) = get /\ tp = bit /\ k \in 0 .. 31
    BY <1>1, <1>2, <1>8
  <2>2. get \in 0 .. 7 /\ get + (tp + 1 - get) = bit + 1 /\ get < get + 1
    BY <1>1, <1>2, <1>8, <2>1
  <2>3. get \in part
    BY <1>4, <1>8, <2>2
  <2> QED
    BY <2>1, <2>3
<1> QED
  BY <1>5, <1>6, <1>7, <1>8 DEF get, part

(***************************************************************************)
(* BitFields: the places of the bits                                       *)
(***************************************************************************)

Offset(fs, n, k) == 8 * FieldPos(fs, n) + (7 - FieldBit(fs, n)) + (FieldLen(fs, n) - 1 - k)
PlaceByte(fs, n, k) == Offset(fs, n, k) \div 8
PlaceBit(fs, n, k) == 7 - (Offset(fs, n, k) % 8)

LEMMA PlaceForm ==
    \A fs, n, k : Place(fs[n], k) = <<PlaceByte(fs, n, k), PlaceBit(fs, n, k)>>
BY Zenon DEF Place, PlaceByte, PlaceBit, Offset, FieldPos, FieldBit, FieldLen

BitArray == [0 .. BitBytes - 1 -> SUBSET (0 .. 7)]

\* The place of a bit of the chunk that the loop is at.
LEMMA PlaceInChunk ==
    ASSUME NEW fs \in Layouts, NEW n \in 1 .. Len(fs), NEW i, NEW t, NEW tp,
           ChunkAt(FieldBit(fs, n), FieldLen(fs, n), i, t, tp),
           NEW k \in Int, t - Get(t, tp) <= k, k < t \/ (k = t /\ tp < 7)
    PROVE  PlaceByte(fs, n, k) = FieldPos(fs, n) + i /\ PlaceBit(fs, n, k) = tp + 1 - t + k
<1>1. FieldPos(fs, n) \in Nat
  BY Zenon, LayoutFields
<1> QED
  BY SMTT(30), <1>1, ChunkPlace DEF PlaceByte, PlaceBit, Offset

\* Where the loop is in the array.
LEMMA InArray ==
    ASSUME NEW fs \in Layouts, NEW n \in 1 .. Len(fs), NEW i, NEW t, NEW tp,
           ChunkAt(FieldBit(fs, n), FieldLen(fs, n), i, t, tp)
    PROVE  FieldPos(fs, n) + i \in 0 .. BitBytes - 1
<1>1. FieldPos(fs, n) \in Nat
      /\ 8 * FieldPos(fs, n) + (7 - FieldBit(fs, n)) + FieldLen(fs, n) <= 8 * BitBytes
  BY Zenon, LayoutFields
<1> QED
  BY Zenon, <1>1, ChunkByte

(***************************************************************************)
(* BitFields: what the loops have done                                     *)
(***************************************************************************)

\* The bits of a field's value that get into the message, and those that the loop
\* has put there when t are left.
Bits(fs, values, m) == values[m] \cap Passed(fs[m])
Reached(fs, m, t, k) == t <= k /\ (k = FieldLen(fs, m) => t < k)

\* The fields before n, and of field n the bits from t on, are in the bytes, and
\* otherwise there is what was there before.
Placed(old, bytes, fs, values, n, t) ==
    \A p \in 0 .. BitBytes - 1 : \A b :
      b \in bytes[p]
        <=> \/ b \in old[p]
            \/ \E m \in 1 .. Len(fs) : \E k \in Bits(fs, values, m) :
                 (m < n \/ (m = n /\ Reached(fs, m, t, k)))
                 /\ PlaceByte(fs, m, k) = p /\ PlaceBit(fs, m, k) = b

LEMMA ValueBits ==
    ASSUME NEW fs \in Layouts, NEW values \in Given(fs), NEW n \in 1 .. Len(fs)
    PROVE  /\ values[n] \in SUBSET (0 .. 31)
           /\ Bits(fs, values, n) = values[n] \cap PassedBits(FieldBit(fs, n), FieldLen(fs, n))
           /\ \A k \in Bits(fs, values, n) : k \in Nat /\ k <= FieldLen(fs, n)
<1>1. DOMAIN fs = 1 .. Len(fs)
  BY Zenon, LayoutFields
<1>2. values[n] \in SUBSET (0 .. 31)
  BY Zenon, <1>1, GivenAssumption
<1>3. Bits(fs, values, n) = values[n] \cap PassedBits(FieldBit(fs, n), FieldLen(fs, n))
  BY Zenon DEF Bits, Passed, PassedBits, FieldBit, FieldLen
<1>4. FieldLen(fs, n) \in 1 .. 32
  BY Zenon, LayoutFields
<1>5. \A k \in PassedBits(FieldBit(fs, n), FieldLen(fs, n)) : k \in Nat /\ k <= FieldLen(fs, n)
  <2>1. \A x, y : y \in 1 .. 32 => \A k \in PassedBits(x, y) : k \in Nat /\ k <= y
    BY DEF PassedBits
  <2> QED
    BY Zenon, <1>4, <2>1
<1> QED
  BY Zenon, <1>2, <1>3, <1>5

\* Nothing of a field is placed when its loop begins, all of it when it ends.
LEMMA ReachedEnds ==
    ASSUME NEW fs \in Layouts, NEW values \in Given(fs), NEW n \in 1 .. Len(fs),
           NEW k \in Bits(fs, values, n)
    PROVE  Reached(fs, n, 0, k) /\ ~ Reached(fs, n, FieldLen(fs, n), k)
<1>1. FieldLen(fs, n) \in 1 .. 32
  BY Zenon, LayoutFields
<1>2. k \in Nat /\ k <= FieldLen(fs, n)
  BY Zenon, ValueBits
<1>3. \A x \in 1 .. 32 : \A y \in Nat :
        y <= x => 0 <= y /\ (y = x => 0 < y) /\ ~ (x <= y /\ (y = x => x < y))
  OBVIOUS
<1> QED
  BY Zenon, <1>1, <1>2, <1>3 DEF Reached

LEMMA PlacedNone ==
    ASSUME NEW fs \in Layouts, NEW values \in Given(fs), NEW old
    PROVE  Placed(old, old, fs, values, 1, FieldLen(fs, 1))
<1>1. ASSUME NEW m \in 1 .. Len(fs), NEW k \in Bits(fs, values, m),
             m < 1 \/ (m = 1 /\ Reached(fs, m, FieldLen(fs, 1), k))
      PROVE  FALSE
  <2>1. m = 1 /\ Reached(fs, m, FieldLen(fs, 1), k)
    BY <1>1
  <2> QED
    BY Zenon, <2>1, ReachedEnds
<1> QED
  BY Zenon, <1>1 DEF Placed

\* The chunk is placed.
LEMMA PlacedStep ==
    ASSUME NEW fs \in Layouts, NEW values \in Given(fs), NEW old, NEW bytes \in BitArray,
           NEW n \in 1 .. Len(fs), NEW i, NEW t, NEW tp,
           ChunkAt(FieldBit(fs, n), FieldLen(fs, n), i, t, tp),
           Placed(old, bytes, fs, values, n, t),
           NEW new, new = [bytes EXCEPT ![FieldPos(fs, n) + i] =
             set_bit_data(@, get_bit_data(values[n], t - Get(t, tp), Get(t, tp)),
                          tp + 1 - Get(t, tp), Get(t, tp))]
    PROVE  new \in BitArray /\ Placed(old, new, fs, values, n, t - Get(t, tp))
<1> DEFINE get == Get(t, tp)
           at == FieldPos(fs, n) + i
           S(byte) == set_bit_data(byte, get_bit_data(values[n], t - get, get), tp + 1 - get, get)
           InPlace(m, k, p, b) == PlaceByte(fs, m, k) = p /\ PlaceBit(fs, m, k) = b
           Before(m, k) == m < n \/ (m = n /\ Reached(fs, m, t, k))
           After(m, k) == m < n \/ (m = n /\ Reached(fs, m, t - get, k))
           Now(m, k) == m = n /\ InChunk(FieldLen(fs, n), t, get, k)
           B == Bits(fs, values, n)
<1>1. at \in 0 .. BitBytes - 1
  BY Zenon, InArray
<1>2. /\ values[n] \in SUBSET (0 .. 31)
      /\ B = values[n] \cap PassedBits(FieldBit(fs, n), FieldLen(fs, n))
      /\ \A k \in B : k \in Nat /\ k <= FieldLen(fs, n)
  BY Zenon, ValueBits
<1>3. /\ t \in Nat /\ t > 0 /\ tp \in 0 .. 7 /\ get \in 1 .. 8 /\ get <= t /\ get <= tp + 1
      /\ t <= FieldLen(fs, n) /\ FieldLen(fs, n) \in Nat
  <2>1. t \in Nat /\ t > 0 /\ tp \in 0 .. 7 /\ t <= FieldLen(fs, n) /\ FieldLen(fs, n) \in Nat
    <3>1. FieldLen(fs, n) \in 1 .. 32 /\ t \in 1 .. FieldLen(fs, n) /\ tp \in 0 .. 7
      BY Zenon, LayoutFields DEF ChunkAt
    <3>2. \A x \in 1 .. 32 : x \in Nat /\ \A y \in 1 .. x : y \in Nat /\ y > 0 /\ y <= x
      OBVIOUS
    <3> QED
      BY Zenon, <3>1, <3>2
  <2> QED
    BY Zenon, <2>1, GetFacts
<1>4. ASSUME NEW byte, NEW b
      PROVE  b \in S(byte)
               <=> b \in byte \/ \E k \in B : InChunk(FieldLen(fs, n), t, get, k) /\ b = tp + 1 - t + k
  <2> DEFINE v == values[n]
             bit == FieldBit(fs, n)
             len == FieldLen(fs, n)
  <2>0. v \in SUBSET (0 .. 31) /\ ChunkAt(bit, len, i, t, tp)
    BY Zenon, <1>2
  <2>1. b \in set_bit_data(byte, get_bit_data(v, t - get, get), tp + 1 - get, get)
          <=> \/ b \in byte
              \/ \E k \in v \cap PassedBits(bit, len) : InChunk(len, t, get, k) /\ b = tp + 1 - t + k
    <3> HIDE DEF v, bit, len
    <3> QED
      BY SMTT(30), <2>0, ChunkSet
  <2> QED
    BY Zenon, <1>2, <2>1
<1>0. ASSUME NEW k \in B, InChunk(FieldLen(fs, n), t, get, k)
      PROVE  k \in Int /\ t - get <= k /\ (k < t \/ (k = t /\ tp < 7))
  <2>1. k = FieldLen(fs, n) /\ t = FieldLen(fs, n) => tp < 7
    <3>1. ASSUME k = FieldLen(fs, n), t = FieldLen(fs, n) PROVE tp < 7
      <4>1. FieldBit(fs, n) \in 0 .. 7 /\ k \in PassedBits(FieldBit(fs, n), FieldLen(fs, n))
        BY Zenon, <1>2, LayoutFields
      <4>2. FieldBit(fs, n) < 7
        BY <1>3, <3>1, <4>1 DEF PassedBits
      <4>3. tp = FieldBit(fs, n)
        BY <1>3, <3>1 DEF ChunkAt
      <4> QED
        BY Zenon, <4>2, <4>3
    <3> QED
      BY <3>1
  <2>2. k \in Int
    <3>1. \A x : x \in Nat => x \in Int
      OBVIOUS
    <3> QED
      BY Zenon, <1>2, <3>1
  <2> QED
    BY Zenon, <1>0, <2>1, <2>2 DEF InChunk
<1> HIDE DEF B
<1>5. new = [bytes EXCEPT ![at] = S(bytes[at])]
  BY Zenon
<1> HIDE DEF get, S
<1>6. S(bytes[at]) \in SUBSET (0 .. 7)
  <2>1. ASSUME NEW b \in S(bytes[at]) PROVE b \in 0 .. 7
    <3>1. CASE b \in bytes[at]
      BY <1>1, <3>1 DEF BitArray
    <3>2. ASSUME NEW k \in B, InChunk(FieldLen(fs, n), t, get, k), b = tp + 1 - t + k
          PROVE  b \in 0 .. 7
      <4>1. k \in Int /\ t - get <= k /\ (k < t \/ (k = t /\ tp < 7))
        BY Zenon, <1>0, <3>2
      <4> QED
        BY <1>3, <3>2, <4>1
    <3> QED
      BY Zenon, <1>4, <2>1, <3>1, <3>2
  <2> QED
    BY Zenon, <2>1
<1>7. new \in BitArray
  <2> HIDE DEF at
  <2> QED
    BY <1>1, <1>5, <1>6 DEF BitArray
<1>8. ASSUME NEW p \in 0 .. BitBytes - 1, NEW b
      PROVE  b \in new[p] <=> \/ b \in bytes[p]
                             \/ \E k \in B : Now(n, k) /\ InPlace(n, k, p, b)
  <2>1. ASSUME NEW k \in B, InChunk(FieldLen(fs, n), t, get, k)
        PROVE  PlaceByte(fs, n, k) = at /\ PlaceBit(fs, n, k) = tp + 1 - t + k
    <3>1. k \in Int /\ t - get <= k /\ (k < t \/ (k = t /\ tp < 7))
      BY Zenon, <1>0, <2>1
    <3> QED
      BY SMTT(30), <3>1, PlaceInChunk DEF get
  <2>2. new[p] = IF p = at THEN S(bytes[at]) ELSE bytes[p]
    <3> HIDE DEF at
    <3> QED
      BY <1>5 DEF BitArray
  <2> HIDE DEF at
  <2>5. b \in S(bytes[at])
          <=> b \in bytes[at] \/ \E k \in B : InChunk(FieldLen(fs, n), t, get, k) /\ b = tp + 1 - t + k
    BY Zenon, <1>4
  <2>6. \A k \in B :
          InChunk(FieldLen(fs, n), t, get, k) => (InPlace(n, k, p, b) <=> p = at /\ b = tp + 1 - t + k)
    BY Zenon, <2>1
  <2> HIDE DEF InPlace
  <2>3. CASE p = at
    BY Zenon, <2>2, <2>3, <2>5, <2>6
  <2>4. CASE p # at
    BY Zenon, <2>2, <2>4, <2>6
  <2> QED
    BY Zenon, <2>3, <2>4
<1>9. ASSUME NEW m \in 1 .. Len(fs), NEW k \in Bits(fs, values, m)
      PROVE  After(m, k) <=> Before(m, k) \/ Now(m, k)
  <2>1. CASE m = n
    <3>1. k \in Nat /\ k <= FieldLen(fs, n)
      BY Zenon, <1>2, <2>1 DEF B
    <3>2. Reached(fs, n, t - get, k) <=> Reached(fs, n, t, k) \/ InChunk(FieldLen(fs, n), t, get, k)
      BY <1>3, <3>1 DEF Reached, InChunk
    <3> QED
      BY Zenon, <2>1, <3>2
  <2>2. CASE m # n
    BY Zenon, <2>2
  <2> QED
    BY Zenon, <2>1, <2>2
<1>10. ASSUME NEW p \in 0 .. BitBytes - 1, NEW b
       PROVE  b \in bytes[p]
                <=> b \in old[p] \/ \E m \in 1 .. Len(fs) : \E k \in Bits(fs, values, m) :
                                      Before(m, k) /\ InPlace(m, k, p, b)
  BY Zenon DEF Placed
<1> HIDE DEF Before, After, InPlace
<1>11. ASSUME NEW p \in 0 .. BitBytes - 1, NEW b
       PROVE  b \in new[p]
                <=> b \in old[p] \/ \E m \in 1 .. Len(fs) : \E k \in Bits(fs, values, m) :
                                      After(m, k) /\ InPlace(m, k, p, b)
  <2>1. (\E k \in B : Now(n, k) /\ InPlace(n, k, p, b))
          <=> \E m \in 1 .. Len(fs) : \E k \in Bits(fs, values, m) : Now(m, k) /\ InPlace(m, k, p, b)
    BY Zenon DEF B
  <2> HIDE DEF Now
  <2> QED
    BY Zenon, <1>8, <1>9, <1>10, <2>1
<1> USE DEF After, InPlace
<1>12. Placed(old, new, fs, values, n, t - get)
  BY SMTT(30), <1>11 DEF Placed
<1> QED
  BY Zenon, <1>7, <1>12 DEF get

\* All of a field is placed.
LEMMA PlacedField ==
    ASSUME NEW fs \in Layouts, NEW values \in Given(fs), NEW old, NEW bytes,
           NEW n \in 1 .. Len(fs), n < Len(fs), Placed(old, bytes, fs, values, n, 0)
    PROVE  Placed(old, bytes, fs, values, n + 1, FieldLen(fs, n + 1))
<1> DEFINE B(m, k) == m < n \/ (m = n /\ Reached(fs, m, 0, k))
           A(m, k) == m < n + 1 \/ (m = n + 1 /\ Reached(fs, m, FieldLen(fs, n + 1), k))
<1>1. ASSUME NEW m \in 1 .. Len(fs), NEW k \in Bits(fs, values, m)
      PROVE  B(m, k) <=> A(m, k)
  <2>1. Reached(fs, m, 0, k) /\ ~ Reached(fs, m, FieldLen(fs, m), k)
    BY Zenon, ReachedEnds
  <2>2. m < n + 1 <=> m < n \/ m = n
    OBVIOUS
  <2> QED
    BY Zenon, <2>1, <2>2
<1>2. ASSUME NEW p \in 0 .. BitBytes - 1, NEW b
      PROVE  b \in bytes[p]
               <=> b \in old[p] \/ \E m \in 1 .. Len(fs) : \E k \in Bits(fs, values, m) :
                     B(m, k) /\ PlaceByte(fs, m, k) = p /\ PlaceBit(fs, m, k) = b
  BY Zenon DEF Placed
<1>3. \A m \in 1 .. Len(fs) : \A k \in Bits(fs, values, m) : B(m, k) <=> A(m, k)
  BY Zenon, <1>1
<1> HIDE DEF B, A
<1>4. ASSUME NEW p \in 0 .. BitBytes - 1, NEW b
      PROVE  b \in bytes[p]
               <=> b \in old[p] \/ \E m \in 1 .. Len(fs) : \E k \in Bits(fs, values, m) :
                     A(m, k) /\ PlaceByte(fs, m, k) = p /\ PlaceBit(fs, m, k) = b
  BY Zenon, <1>2, <1>3
<1> QED
  BY Zenon, <1>4 DEF Placed, A

\* All fields are placed.
LEMMA PlacedAll ==
    ASSUME NEW fs \in Layouts, NEW values \in Given(fs), NEW old \in BitArray, NEW bytes \in BitArray,
           NEW n, n = Len(fs), Placed(old, bytes, fs, values, n, 0)
    PROVE  bytes = WithBits(old, fs, values)
<1>1. DOMAIN fs = 1 .. Len(fs) /\ Len(fs) \in Nat
  BY Zenon, LayoutFields
<1>2. ASSUME NEW m \in 1 .. Len(fs), NEW k \in Bits(fs, values, m)
      PROVE  m < n \/ (m = n /\ Reached(fs, m, 0, k))
  <2>1. Reached(fs, m, 0, k)
    BY Zenon, ReachedEnds
  <2>2. m < n \/ m = n
    BY <1>1
  <2> QED
    BY Zenon, <2>1, <2>2
<1> DEFINE T(p) == {b \in BitsOfByte : \E m \in DOMAIN fs : \E k \in Bits(fs, values, m) : Place(fs[m], k) = <<p, b>>}
<1>3. ASSUME NEW p \in 0 .. BitBytes - 1 PROVE bytes[p] = old[p] \cup T(p)
  <2>1. bytes[p] \subseteq BitsOfByte
    BY DEF BitArray, BitsOfByte
  <2>2. ASSUME NEW b
        PROVE  b \in bytes[p]
                 <=> b \in old[p] \/ \E m \in 1 .. Len(fs) : \E k \in Bits(fs, values, m) :
                       PlaceByte(fs, m, k) = p /\ PlaceBit(fs, m, k) = b
    BY Zenon, <1>2 DEF Placed
  <2>3. ASSUME NEW b
        PROVE  (\E m \in 1 .. Len(fs) : \E k \in Bits(fs, values, m) :
                  PlaceByte(fs, m, k) = p /\ PlaceBit(fs, m, k) = b)
               <=> \E m \in DOMAIN fs : \E k \in Bits(fs, values, m) : Place(fs[m], k) = <<p, b>>
    <3>1. \A m, k : Place(fs[m], k) = <<p, b>>
                      <=> PlaceByte(fs, m, k) = p /\ PlaceBit(fs, m, k) = b
      <4>1. \A x, y : <<x, y>> = <<p, b>> <=> x = p /\ y = b
        OBVIOUS
      <4> QED
        BY Zenon, <4>1, PlaceForm
    <3> QED
      BY Zenon, <1>1, <3>1
  <2> QED
    BY Zenon, <2>1, <2>2, <2>3
<1>4. DOMAIN old = 0 .. BitBytes - 1 /\ bytes = [p \in 0 .. BitBytes - 1 |-> bytes[p]]
  BY DEF BitArray
<1> HIDE DEF T
<1>5. bytes = [p \in DOMAIN old |-> old[p] \cup T(p)]
  BY Zenon, <1>3, <1>4
<1> QED
  BY Zenon, <1>5 DEF WithBits, T, Bits

\* The bits from t on of field n have been read, and the one above it.
Above(bytes, fs, n) ==
    IF FieldBit(fs, n) < 7 /\ FieldLen(fs, n) < 32 /\ FieldBit(fs, n) + 1 \in bytes[FieldPos(fs, n)]
    THEN {FieldLen(fs, n)} ELSE {}
BitsRead(bytes, fs, n, t) ==
    {k \in 0 .. FieldLen(fs, n) - 1 : t <= k /\ PlaceBit(fs, n, k) \in bytes[PlaceByte(fs, n, k)]}
      \cup IF t < FieldLen(fs, n) THEN Above(bytes, fs, n) ELSE {}

LEMMA NothingRead ==
    ASSUME NEW fs \in Layouts, NEW n \in 1 .. Len(fs), NEW bytes
    PROVE  BitsRead(bytes, fs, n, FieldLen(fs, n)) = {}
<1>1. FieldLen(fs, n) \in 1 .. 32
  BY Zenon, LayoutFields
<1>2. \A x \in 1 .. 32 : ~(x < x) /\ \A k \in 0 .. x - 1 : ~(x <= k)
  OBVIOUS
<1> QED
  BY Zenon, <1>1, <1>2 DEF BitsRead

LEMMA AllRead ==
    ASSUME NEW fs \in Layouts, NEW n \in 1 .. Len(fs), NEW bytes
    PROVE  BitsRead(bytes, fs, n, 0) = Held(bytes, fs[n]) \cup Neighbour(bytes, fs[n])
<1>1. FieldLen(fs, n) \in 1 .. 32
  BY Zenon, LayoutFields
<1> DEFINE H == {k \in 0 .. FieldLen(fs, n) - 1 : PlaceBit(fs, n, k) \in bytes[PlaceByte(fs, n, k)]}
<1>2. BitsRead(bytes, fs, n, 0) = H \cup Above(bytes, fs, n)
  <2>1. \A x \in 1 .. 32 : 0 < x /\ \A k \in 0 .. x - 1 : 0 <= k
    OBVIOUS
  <2> QED
    BY Zenon, <1>1, <2>1 DEF BitsRead
<1>4. \A k : Place(fs[n], k)[1] = PlaceByte(fs, n, k) /\ Place(fs[n], k)[2] = PlaceBit(fs, n, k)
  BY PlaceForm
<1>5. Held(bytes, fs[n]) = H
  BY Zenon, <1>4 DEF Held, FieldLen
<1>6. Neighbour(bytes, fs[n]) = Above(bytes, fs, n)
  BY Zenon DEF Neighbour, Above, FieldBit, FieldLen, FieldPos
<1> QED
  BY Zenon, <1>2, <1>5, <1>6

LEMMA ReadStep ==
    ASSUME NEW fs \in Layouts, NEW bytes \in BitArray,
           NEW n \in 1 .. Len(fs), NEW i, NEW t, NEW tp,
           ChunkAt(FieldBit(fs, n), FieldLen(fs, n), i, t, tp)
    PROVE  BitsRead(bytes, fs, n, t)
             \cup (Shift(get_bit_data(bytes[FieldPos(fs, n) + i], tp + 1 - Get(t, tp), Get(t, tp)),
                         t - Get(t, tp)) \cap 0 .. 31)
           = BitsRead(bytes, fs, n, t - Get(t, tp))
<1> DEFINE get == Get(t, tp)
           len == FieldLen(fs, n)
           bit == FieldBit(fs, n)
           byte == bytes[FieldPos(fs, n) + i]
           new == Shift(get_bit_data(byte, tp + 1 - get, get), t - get) \cap 0 .. 31
           AtPlace(k) == PlaceBit(fs, n, k) \in bytes[PlaceByte(fs, n, k)]
<1>1. byte \in SUBSET (0 .. 7)
  <2>1. FieldPos(fs, n) + i \in 0 .. BitBytes - 1
    BY Zenon, InArray
  <2> QED
    BY Zenon, <2>1 DEF BitArray
<1>2. bit \in 0 .. 7 /\ len \in 1 .. 32 /\ FieldPos(fs, n) \in Nat
  BY Zenon, LayoutFields
<1>3. /\ t \in 1 .. len /\ tp \in 0 .. 7
      /\ \/ t = len /\ i = 0
         \/ t < len
  <2>1. t \in 1 .. len /\ tp \in 0 .. 7
    BY DEF ChunkAt
  <2>2. (t = len /\ i = 0) \/ t < len
    BY Zenon DEF ChunkAt
  <2> QED
    BY Zenon, <2>1, <2>2
<1>4. get \in 1 .. 8 /\ get <= t
  <2>1. t \in Nat /\ t > 0 /\ tp \in 0 .. 7
    BY <1>2, <1>3
  <2> QED
    BY Zenon, <2>1, GetFacts
<1>0. ChunkAt(bit, len, i, t, tp)
  BY Zenon
<1>5. ASSUME NEW k
      PROVE  k \in new
               <=> \/ k \in Int /\ t - get <= k /\ k < t /\ tp + 1 - t + k \in byte
                   \/ k = len /\ t = len /\ bit < 7 /\ len < 32 /\ bit + 1 \in byte
  <2> HIDE DEF bit, len, byte
  <2> QED
    BY ZenonT(60), <1>0, <1>1, ChunkRead
<1>6. ASSUME NEW k \in Int, t - get <= k, k < t
      PROVE  AtPlace(k) <=> tp + 1 - t + k \in byte
  BY SMTT(30), <1>6, PlaceInChunk
<1>7. t = len => byte = bytes[FieldPos(fs, n)]
  <2>1. t = len => FieldPos(fs, n) + i = FieldPos(fs, n)
    BY <1>2, <1>3
  <2> QED
    BY Zenon, <2>1
<1> HIDE DEF new, get, byte, AtPlace
<1>8. ASSUME NEW k
      PROVE  k \in new
               <=> \/ k \in Int /\ t - get <= k /\ k < t /\ AtPlace(k)
                   \/ t = len /\ k \in Above(bytes, fs, n)
  <2>1. t = len => (k \in Above(bytes, fs, n) <=> k = len /\ bit < 7 /\ len < 32 /\ bit + 1 \in byte)
    BY <1>7 DEF Above
  <2> QED
    BY Zenon, <1>5, <1>6, <2>1
<1>9. ASSUME NEW k, NEW u \in 0 .. len
      PROVE  k \in BitsRead(bytes, fs, n, u)
               <=> \/ k \in Int /\ k < len /\ u <= k /\ AtPlace(k)
                   \/ u < len /\ k \in Above(bytes, fs, n)
  <2>1. (k \in 0 .. len - 1 /\ u <= k) <=> (k \in Int /\ k < len /\ u <= k)
    <3>1. \A x \in 1 .. 32 : \A v \in 0 .. x : \A y :
            (y \in 0 .. x - 1 /\ v <= y) <=> (y \in Int /\ y < x /\ v <= y)
      OBVIOUS
    <3> QED
      BY Zenon, <1>2, <3>1
  <2> QED
    BY Zenon, <2>1 DEF BitsRead, AtPlace
<1> HIDE DEF len, bit
<1>10. t - get \in 0 .. len /\ t - get < len /\ t \in 0 .. len
  BY <1>2, <1>3, <1>4
<1>11. ASSUME NEW k
       PROVE  k \in BitsRead(bytes, fs, n, t - get) <=> k \in BitsRead(bytes, fs, n, t) \/ k \in new
  <2>1. k \in BitsRead(bytes, fs, n, t)
               <=> \/ k \in Int /\ k < len /\ t <= k /\ AtPlace(k)
                   \/ t < len /\ k \in Above(bytes, fs, n)
    BY Zenon, <1>9, <1>10
  <2>2. k \in BitsRead(bytes, fs, n, t - get)
               <=> \/ k \in Int /\ k < len /\ t - get <= k /\ AtPlace(k)
                   \/ t - get < len /\ k \in Above(bytes, fs, n)
    BY Zenon, <1>9, <1>10
  <2>3. k \in Int => (k < len /\ t - get <= k <=> \/ k < len /\ t <= k
                                                  \/ t - get <= k /\ k < t)
    BY <1>2, <1>3, <1>4, <1>10
  <2>4. t = len \/ t < len
    BY Zenon, <1>3
  <2> QED
    BY Zenon, <1>8, <1>10, <2>1, <2>2, <2>3, <2>4
<1>12. BitsRead(bytes, fs, n, t - get) = BitsRead(bytes, fs, n, t) \cup new
  BY Zenon, <1>11
<1> QED
  BY Zenon, <1>12 DEF new, get, byte

(***************************************************************************)
(* BitFields: the inductive invariant                                      *)
(***************************************************************************)

Chunk(n, i, t, s) == [field |-> n, i |-> i, t_len |-> t, t_pos |-> s]

\* The loop is at the chunk (i, t, s) of field n.
Looping(n, i, t, s) ==
    /\ chunk = Chunk(n, i, t, s)
    /\ ChunkAt(FieldBit(layout, n), FieldLen(layout, n), i, t, s % 8)

Generating ==
    \E n \in 1 .. Len(layout), i \in Nat, t \in Nat, s \in 0 .. 7 :
      Looping(n, i, t, s) /\ Placed(dpold, dp, layout, given, n, t)

\* The fields before n have been read.
ReadUpTo(n, t) ==
    read = [m \in 1 .. Len(layout) |->
              IF m < n THEN BitsRead(dp, layout, m, 0)
              ELSE IF m = n THEN BitsRead(dp, layout, n, t) ELSE {}]

Parsing ==
    \E n \in 1 .. Len(layout), i \in Nat, t \in Nat, s \in Byte :
      Looping(n, i, t, s) /\ ReadUpTo(n, t)

BitInv ==
    /\ phase # "idle" => /\ layout \in Layouts /\ given \in Given(layout)
                         /\ dpold \in BitArray /\ dp \in BitArray
    /\ phase = "generate" => Generating
    /\ phase = "generated" => dp = WithBits(dpold, layout, given)
    /\ phase = "parse" => Parsing
    /\ phase = "parsed" => \A n \in 1 .. Len(layout) : read[n] = BitsRead(dp, layout, n, 0)

NextTo(c, t, s) == [c EXCEPT !.i = @ + 1, !.t_len = t, !.t_pos = s]

LEMMA ChunkMoved ==
    ASSUME NEW n, NEW i \in Nat, NEW t, NEW s, NEW v, NEW w
    PROVE  NextTo(Chunk(n, i, t, s), v, w) = Chunk(n, i + 1, v, w)
<1> DEFINE D == {"field", "i", "t_len", "t_pos"}
           a == Chunk(n, i, t, s)
           b == [a EXCEPT !.i = a.i + 1]
           c == [b EXCEPT !.t_len = v]
           d == [c EXCEPT !.t_pos = w]
           e == Chunk(n, i + 1, v, w)
<1>1. a = [x \in D |-> a[x]] /\ a["field"] = n /\ a["i"] = i
  BY DEF Chunk
<1>2. b = [x \in D |-> b[x]] /\ b["field"] = n /\ b["i"] = i + 1
  <2> HIDE DEF a
  <2> QED
    BY <1>1
<1>3. c = [x \in D |-> c[x]] /\ c["field"] = n /\ c["i"] = i + 1 /\ c["t_len"] = v
  <2> HIDE DEF b
  <2> QED
    BY <1>2
<1>4. d = [x \in D |-> d[x]] /\ d["field"] = n /\ d["i"] = i + 1 /\ d["t_len"] = v /\ d["t_pos"] = w
  <2> HIDE DEF c
  <2> QED
    BY <1>3
<1>5. e = [x \in D |-> e[x]] /\ e["field"] = n /\ e["i"] = i + 1 /\ e["t_len"] = v /\ e["t_pos"] = w
  BY DEF Chunk
<1>6. d = e
  <2> HIDE DEF d, e
  <2> QED
    BY <1>4, <1>5
<1> QED
  BY Zenon, <1>6 DEF NextTo

LEMMA NextChunkForm ==
    ASSUME NEW n, NEW i \in Nat, NEW t, NEW s, chunk = Chunk(n, i, t, s),
           NEW u, NEW done, NextChunk(u, done)
    PROVE  LET left == t - Get(t, s % 8) IN
           \/ left > 0 /\ chunk' = Chunk(n, i + 1, left, u) /\ phase' = phase
           \/ /\ left = 0 /\ n < Len(layout) /\ phase' = phase
              /\ chunk' = Chunk(n + 1, 0, FieldLen(layout, n + 1), FieldBit(layout, n + 1))
           \/ left = 0 /\ n = Len(layout) /\ phase' = done
<1> DEFINE left == chunk.t_len - ChunkLen(chunk)
<1>1. chunk.field = n /\ chunk.i = i /\ chunk.t_len = t /\ chunk.t_pos = s
  BY DEF Chunk
<1>2. ChunkLen(chunk) = Get(t, s % 8)
  BY <1>1 DEF ChunkLen, Get
<1>3. \/ /\ left > 0 /\ phase' = phase
         /\ chunk' = NextTo(chunk, left, u)
      \/ left = 0 /\ chunk.field < Len(layout) /\ chunk' = At(layout, chunk.field + 1) /\ phase' = phase
      \/ left = 0 /\ chunk.field = Len(layout) /\ phase' = done
  BY Zenon DEF NextChunk, NextTo
<1>4. \A m : At(layout, m) = Chunk(m, 0, FieldLen(layout, m), FieldBit(layout, m))
  BY Zenon DEF At, Chunk, FieldLen, FieldBit
<1>5. \A v, w : NextTo(chunk, v, w) = Chunk(n, i + 1, v, w)
  <2> SUFFICES ASSUME NEW v, NEW w PROVE NextTo(chunk, v, w) = Chunk(n, i + 1, v, w)
    OBVIOUS
  <2>1. NextTo(Chunk(n, i, t, s), v, w) = Chunk(n, i + 1, v, w)
    BY ChunkMoved
  <2> QED
    BY Zenon, <2>1
<1>6. left = t - Get(t, s % 8)
  BY Zenon, <1>1, <1>2
<1> HIDE DEF left
<1> QED
  BY Zenon, <1>1, <1>3, <1>4, <1>5, <1>6

\* Where t_pos_get is for the next chunk.
Down(s, get) == (s - get) % 256

LEMMA NextPos ==
    ASSUME NEW s \in Byte, NEW get, get = (s % 8) + 1
    PROVE  Down(s, get) \in Byte /\ Down(s, get) % 8 = 7
<1> USE DEF Byte, Down
<1>1. PICK q \in 0 .. 31, r \in 0 .. 7 : s = 8 * q + r
  <2>1. s = 8 * (s \div 8) + (s % 8) /\ s \div 8 \in 0 .. 31 /\ s % 8 \in 0 .. 7
    OBVIOUS
  <2> QED
    BY <2>1
<1>2. s % 8 = r
  BY <1>1, DivMod8
<1>3. s - get = 8 * q - 1
  BY <1>1, <1>2
<1>4. CASE q = 0
  <2>1. s - get = -1
    BY <1>3, <1>4
  <2>2. (s - get) % 256 = 255
    BY <2>1
  <2>3. 255 % 8 = 7
    OBVIOUS
  <2> QED
    BY <2>1, <2>2, <2>3
<1>5. CASE q # 0
  <2>1. q - 1 \in Nat /\ s - get = 8 * (q - 1) + 7 /\ s - get \in 0 .. 255
    BY <1>1, <1>3, <1>5
  <2>2. (8 * (q - 1) + 7) % 8 = 7
    BY <2>1, DivMod8
  <2>3. (s - get) % 256 = s - get
    BY <2>1
  <2> QED
    BY <2>1, <2>2, <2>3
<1> QED
  BY <1>4, <1>5

LEMMA Mod8 == \A s \in 0 .. 7 : s % 8 = s
OBVIOUS

LEMMA SetStep == BitInv /\ pa_set_protocol_bit_data => BitInv'
<1> SUFFICES ASSUME BitInv, pa_set_protocol_bit_data PROVE BitInv'
  OBVIOUS
<1>1. phase = "generate" /\ layout' = layout /\ given' = given /\ dpold' = dpold
  BY DEF pa_set_protocol_bit_data
<1>2. layout \in Layouts /\ given \in Given(layout) /\ dpold \in BitArray /\ dp \in BitArray
  BY Zenon, <1>1 DEF BitInv
<1>3. PICK n \in 1 .. Len(layout), i \in Nat, t \in Nat, s \in 0 .. 7 :
        Looping(n, i, t, s) /\ Placed(dpold, dp, layout, given, n, t)
  <2>1. Generating
    BY Zenon, <1>1 DEF BitInv
  <2> QED
    BY Zenon, <2>1 DEF Generating
<1> DEFINE get == Get(t, s)
<1>4. chunk = Chunk(n, i, t, s) /\ ChunkAt(FieldBit(layout, n), FieldLen(layout, n), i, t, s)
      /\ s % 8 = s
  BY Zenon, <1>3, Mod8 DEF Looping
<1>5. chunk.field = n /\ chunk.i = i /\ chunk.t_len = t /\ chunk.t_pos = s
  BY <1>4 DEF Chunk
<1>6. ChunkLen(chunk) = get
  BY <1>4, <1>5 DEF ChunkLen, Get
<1>7. dp' = [dp EXCEPT ![FieldPos(layout, n) + i] =
               set_bit_data(@, get_bit_data(given[n], t - get, get), s + 1 - get, get)]
  BY Zenon, <1>4, <1>5, <1>6 DEF pa_set_protocol_bit_data, FieldPos
<1>8. dp' \in BitArray /\ Placed(dpold, dp', layout, given, n, t - get)
  BY ZenonT(60), <1>2, <1>3, <1>4, <1>7, PlacedStep
<1>9. NextChunk(IF s - get < 0 THEN 7 ELSE s - get, "generated")
  BY Zenon, <1>5, <1>6 DEF pa_set_protocol_bit_data
<1> DEFINE u == IF s - get < 0 THEN 7 ELSE s - get
<1> HIDE DEF u
<1>10. \/ t - get > 0 /\ chunk' = Chunk(n, i + 1, t - get, u) /\ phase' = phase
       \/ /\ t - get = 0 /\ n < Len(layout) /\ phase' = phase
          /\ chunk' = Chunk(n + 1, 0, FieldLen(layout, n + 1), FieldBit(layout, n + 1))
       \/ t - get = 0 /\ n = Len(layout) /\ phase' = "generated"
  <2> DEFINE left == t - Get(t, s % 8)
  <2>1. \/ left > 0 /\ chunk' = Chunk(n, i + 1, left, u) /\ phase' = phase
        \/ /\ left = 0 /\ n < Len(layout) /\ phase' = phase
           /\ chunk' = Chunk(n + 1, 0, FieldLen(layout, n + 1), FieldBit(layout, n + 1))
        \/ left = 0 /\ n = Len(layout) /\ phase' = "generated"
    <3>1. NextChunk(u, "generated")
      BY Zenon, <1>9 DEF u
    <3> QED
      BY ZenonT(30), <1>4, <3>1, NextChunkForm
  <2>2. left = t - get
    BY Zenon, <1>4
  <2> HIDE DEF left, get
  <2> QED
    BY Zenon, <2>1, <2>2
<1>14. t - get > 0 => t - get \in Nat
  <2>1. get \in Int
    BY DEF Get
  <2> HIDE DEF get
  <2> QED
    BY <2>1
<1>11. CASE t - get > 0 /\ chunk' = Chunk(n, i + 1, t - get, u) /\ phase' = phase
  <2>1. ChunkAt(FieldBit(layout, n), FieldLen(layout, n), i + 1, t - get, 7)
    BY Zenon, <1>4, <1>11, ChunkAfter
  <2>2. u = 7
    <3>1. t \in Nat /\ t > 0
      <4>1. FieldLen(layout, n) \in 1 .. 32
        BY Zenon, <1>2, LayoutFields
      <4> QED
        BY <1>4, <4>1 DEF ChunkAt
    <3>2. s - get < 0
      BY <1>11, <3>1 DEF Get
    <3> QED
      BY Zenon, <3>2 DEF u
  <2>3. 7 \in 0 .. 7 /\ 7 % 8 = 7 /\ i + 1 \in Nat
    OBVIOUS
  <2>5. t - get \in Nat
    BY Zenon, <1>14, <1>11
  <2>4. Generating'
    BY Zenon, <1>1, <1>8, <1>11, <2>1, <2>2, <2>3, <2>5 DEF Generating, Looping
  <2> QED
    BY Zenon, <1>1, <1>2, <1>8, <1>11, <2>4 DEF BitInv
<1>12. CASE t - get = 0 /\ n < Len(layout) /\ phase' = phase
            /\ chunk' = Chunk(n + 1, 0, FieldLen(layout, n + 1), FieldBit(layout, n + 1))
  <2>1. n + 1 \in 1 .. Len(layout)
    <3>1. Len(layout) \in Nat
      BY Zenon, <1>2, LayoutFields
    <3> QED
      BY <1>12, <3>1
  <2>2. FieldBit(layout, n + 1) \in 0 .. 7 /\ FieldLen(layout, n + 1) \in 1 .. 32
    BY Zenon, <1>2, <2>1, LayoutFields
  <2>9. FieldLen(layout, n + 1) \in Nat /\ 0 \in Nat
    <3>1. 0 \in Nat /\ \A x \in 1 .. 32 : x \in Nat
      OBVIOUS
    <3> QED
      BY Zenon, <2>2, <3>1
  <2>3. ChunkAt(FieldBit(layout, n + 1), FieldLen(layout, n + 1), 0, FieldLen(layout, n + 1),
                FieldBit(layout, n + 1) % 8)
    BY Zenon, <2>2, FirstChunk, Mod8
  <2>4. Placed(dpold, dp', layout, given, n + 1, FieldLen(layout, n + 1))
    BY Zenon, <1>2, <1>8, <1>12, PlacedField
  <2>5. Generating'
    BY Zenon, <1>1, <1>12, <2>1, <2>2, <2>3, <2>4, <2>9 DEF Generating, Looping
  <2> QED
    BY Zenon, <1>1, <1>2, <1>8, <1>12, <2>5 DEF BitInv
<1>13. CASE t - get = 0 /\ n = Len(layout) /\ phase' = "generated"
  <2>1. dp' = WithBits(dpold, layout, given)
    BY Zenon, <1>2, <1>8, <1>13, PlacedAll
  <2> QED
    BY Zenon, <1>1, <1>2, <1>8, <1>13, <2>1 DEF BitInv
<1> QED
  BY Zenon, <1>10, <1>11, <1>12, <1>13

LEMMA GetStep == BitInv /\ pa_get_protocol_bit_data => BitInv'
<1> SUFFICES ASSUME BitInv, pa_get_protocol_bit_data PROVE BitInv'
  OBVIOUS
<1>1. phase = "parse" /\ layout' = layout /\ given' = given /\ dpold' = dpold /\ dp' = dp
  BY DEF pa_get_protocol_bit_data
<1>2. layout \in Layouts /\ given \in Given(layout) /\ dpold \in BitArray /\ dp \in BitArray
  BY Zenon, <1>1 DEF BitInv
<1>3. PICK n \in 1 .. Len(layout), i \in Nat, t \in Nat, s \in Byte :
        Looping(n, i, t, s) /\ ReadUpTo(n, t)
  <2>1. Parsing
    BY Zenon, <1>1 DEF BitInv
  <2> QED
    BY Zenon, <2>1 DEF Parsing
<1> DEFINE tp == s % 8
           get == Get(t, tp)
           R(m, v) == BitsRead(dp, layout, m, v)
           Before(m) == IF m < n THEN R(m, 0) ELSE IF m = n THEN R(n, t) ELSE {}
           After(m) == IF m < n THEN R(m, 0) ELSE IF m = n THEN R(n, t - get) ELSE {}
<1>4. chunk = Chunk(n, i, t, s) /\ ChunkAt(FieldBit(layout, n), FieldLen(layout, n), i, t, tp)
      /\ read = [m \in 1 .. Len(layout) |->
                   IF m < n THEN R(m, 0) ELSE IF m = n THEN R(n, t) ELSE {}]
  BY Zenon, <1>3 DEF Looping, ReadUpTo
<1>5. chunk.field = n /\ chunk.i = i /\ chunk.t_len = t /\ chunk.t_pos = s
  BY <1>4 DEF Chunk
<1>6. ChunkLen(chunk) = get
  BY <1>5 DEF ChunkLen, Get
<1> DEFINE new == Shift(get_bit_data(dp[FieldPos(layout, n) + i], tp + 1 - get, get), t - get) \cap 0 .. 31
<1>7. read' = [read EXCEPT ![n] = @ \cup new]
  BY Zenon, <1>5, <1>6 DEF pa_get_protocol_bit_data, FieldPos
<1>8. R(n, t) \cup new = R(n, t - get)
  <2> HIDE DEF tp
  <2> QED
    BY SMTT(30), <1>2, <1>3, <1>4, ReadStep
<1>9. NextChunk(Down(s, get), "parsed")
  BY Zenon, <1>5, <1>6 DEF pa_get_protocol_bit_data, Down
<1> HIDE DEF new
<1>10. read' = [m \in 1 .. Len(layout) |-> After(m)]
  <2> HIDE DEF R
  <2>1. ~(n < n)
    BY <1>3
  <2>2. read = [m \in 1 .. Len(layout) |-> Before(m)]
    BY Zenon, <1>4
  <2>3. Before(n) = R(n, t) /\ After(n) = R(n, t - get)
    BY Zenon, <2>1
  <2>4. \A m : m # n => After(m) = Before(m)
    BY Zenon
  <2> HIDE DEF Before, After, get
  <2>5. read' = [read EXCEPT ![n] = After(n)]
    <3>1. read[n] = Before(n)
      BY <1>3, <2>2
    <3> QED
      BY Zenon, <1>7, <1>8, <2>3, <3>1
  <2> QED
    BY <1>3, <2>2, <2>4, <2>5
<1> DEFINE u == Down(s, get)
<1> HIDE DEF u, After
<1>11. \/ t - get > 0 /\ chunk' = Chunk(n, i + 1, t - get, u) /\ phase' = phase
       \/ /\ t - get = 0 /\ n < Len(layout) /\ phase' = phase
          /\ chunk' = Chunk(n + 1, 0, FieldLen(layout, n + 1), FieldBit(layout, n + 1))
       \/ t - get = 0 /\ n = Len(layout) /\ phase' = "parsed"
  BY <1>4, <1>9, NextChunkForm DEF u
<1>12. Len(layout) \in Nat /\ n \in 1 .. Len(layout)
  BY Zenon, <1>2, <1>3, LayoutFields
<1>16. t - get > 0 => t - get \in Nat /\ i + 1 \in Nat
  <2>1. get \in Int
    <3>1. tp \in Int
      BY DEF Byte
    <3> HIDE DEF tp
    <3> QED
      BY <3>1 DEF Get
  <2> HIDE DEF get
  <2> QED
    BY <2>1
<1>13. CASE t - get > 0 /\ chunk' = Chunk(n, i + 1, t - get, u) /\ phase' = phase
  <2>1. ChunkAt(FieldBit(layout, n), FieldLen(layout, n), i + 1, t - get, 7)
    BY Zenon, <1>4, <1>13, ChunkAfter
  <2>2. u \in Byte /\ u % 8 = 7
    <3>1. t \in Nat /\ t > 0 /\ tp \in 0 .. 7
      <4>1. FieldLen(layout, n) \in 1 .. 32
        BY Zenon, <1>2, LayoutFields
      <4> HIDE DEF tp
      <4> QED
        BY <1>4, <4>1 DEF ChunkAt
    <3>2. get = tp + 1
      <4> HIDE DEF tp
      <4> QED
        BY <1>13, <3>1 DEF Get
    <3> QED
      BY Zenon, <3>2, NextPos DEF u
  <2>3. ReadUpTo(n, t - get)'
    BY Zenon, <1>1, <1>10 DEF ReadUpTo, After
  <2>4. Parsing'
    BY Zenon, <1>1, <1>12, <1>13, <1>16, <2>1, <2>2, <2>3 DEF Parsing, Looping
  <2> QED
    BY Zenon, <1>1, <1>2, <1>13, <2>4 DEF BitInv
<1>14. CASE t - get = 0 /\ n < Len(layout) /\ phase' = phase
            /\ chunk' = Chunk(n + 1, 0, FieldLen(layout, n + 1), FieldBit(layout, n + 1))
  <2>1. n + 1 \in 1 .. Len(layout)
    BY <1>12, <1>14
  <2>2. FieldBit(layout, n + 1) \in 0 .. 7 /\ FieldLen(layout, n + 1) \in 1 .. 32
    BY Zenon, <1>2, <2>1, LayoutFields
  <2>9. FieldLen(layout, n + 1) \in Nat /\ 0 \in Nat
    <3>1. 0 \in Nat /\ \A x \in 1 .. 32 : x \in Nat
      OBVIOUS
    <3> QED
      BY Zenon, <2>2, <3>1
  <2>3. ChunkAt(FieldBit(layout, n + 1), FieldLen(layout, n + 1), 0, FieldLen(layout, n + 1),
                FieldBit(layout, n + 1) % 8)
    BY Zenon, <2>2, FirstChunk, Mod8
  <2>4. R(n + 1, FieldLen(layout, n + 1)) = {}
    BY Zenon, <1>2, <2>1, NothingRead
  <2>5. ASSUME NEW m \in 1 .. Len(layout)
        PROVE  After(m) = IF m < n + 1 THEN R(m, 0)
                          ELSE IF m = n + 1 THEN R(n + 1, FieldLen(layout, n + 1)) ELSE {}
    <3>1. m < n + 1 <=> (m < n \/ m = n)
      BY <1>12
    <3>2. m = n + 1 => ~(m < n) /\ m # n
      BY <1>12
    <3> QED
      BY Zenon, <1>14, <2>4, <3>1, <3>2 DEF After
  <2>6. ReadUpTo(n + 1, FieldLen(layout, n + 1))'
    BY Zenon, <1>1, <1>10, <2>5 DEF ReadUpTo
  <2>7. FieldBit(layout, n + 1) \in Byte
    BY <2>2 DEF Byte
  <2>8. Parsing'
    BY Zenon, <1>1, <1>14, <2>1, <2>3, <2>6, <2>7, <2>9 DEF Parsing, Looping
  <2> QED
    BY Zenon, <1>1, <1>2, <1>14, <2>8 DEF BitInv
<1>15. CASE t - get = 0 /\ n = Len(layout) /\ phase' = "parsed"
  <2>1. ASSUME NEW m \in 1 .. Len(layout) PROVE read'[m] = R(m, 0)
    <3>1. m < n \/ m = n
      BY <1>12, <1>15
    <3>2. After(m) = R(m, 0)
      BY Zenon, <1>15, <3>1 DEF After
    <3> QED
      BY Zenon, <1>10, <3>2
  <2> QED
    BY Zenon, <1>1, <1>2, <1>15, <2>1 DEF BitInv
<1> QED
  BY Zenon, <1>11, <1>13, <1>14, <1>15

LEMMA BitStep == BitInv /\ [BitNext]_bitVars => BitInv'
<1> SUFFICES ASSUME BitInv, [BitNext]_bitVars PROVE BitInv'
  OBVIOUS
<1>1. ASSUME NEW fs \in Layouts, NEW values \in Given(fs), NEW bytes \in OldBytes(fs),
             GenerateBits(fs, values, bytes)
      PROVE  BitInv'
  <2>1. layout' = fs /\ given' = values /\ dpold' = bytes /\ dp' = bytes
        /\ phase' = "generate" /\ chunk' = At(fs, 1)
    BY Zenon, <1>1 DEF GenerateBits
  <2>2. bytes \in BitArray
    BY Zenon, BytesAssumption DEF BitArray, BitsOfByte
  <2>3. 1 \in 1 .. Len(fs)
    <3>1. Len(fs) \in Nat /\ Len(fs) > 0
      BY Zenon, LayoutFields
    <3> QED
      BY <3>1
  <2>4. FieldBit(fs, 1) \in 0 .. 7 /\ FieldLen(fs, 1) \in 1 .. 32
    BY Zenon, <2>3, LayoutFields
  <2>9. FieldLen(fs, 1) \in Nat /\ 0 \in Nat
    BY <2>4
  <2>5. ChunkAt(FieldBit(fs, 1), FieldLen(fs, 1), 0, FieldLen(fs, 1), FieldBit(fs, 1) % 8)
    BY Zenon, <2>4, FirstChunk, Mod8
  <2>6. chunk' = Chunk(1, 0, FieldLen(fs, 1), FieldBit(fs, 1))
    BY Zenon, <2>1 DEF At, Chunk, FieldLen, FieldBit
  <2>7. Placed(bytes, bytes, fs, values, 1, FieldLen(fs, 1))
    BY Zenon, PlacedNone
  <2>8. Generating'
    BY Zenon, <2>1, <2>3, <2>4, <2>5, <2>6, <2>7, <2>9 DEF Generating, Looping
  <2> QED
    BY Zenon, <2>1, <2>2, <2>8 DEF BitInv
<1>2. ASSUME ParseBits PROVE BitInv'
  <2>1. phase = "generated" /\ phase' = "parse" /\ chunk' = At(layout, 1)
        /\ read' = [n \in DOMAIN layout |-> {}]
        /\ layout' = layout /\ given' = given /\ dpold' = dpold /\ dp' = dp
    BY <1>2 DEF ParseBits
  <2>2. layout \in Layouts /\ given \in Given(layout) /\ dpold \in BitArray /\ dp \in BitArray
    BY Zenon, <2>1 DEF BitInv
  <2>3. Len(layout) \in Nat /\ Len(layout) > 0 /\ DOMAIN layout = 1 .. Len(layout)
    BY Zenon, <2>2, LayoutFields
  <2>4. 1 \in 1 .. Len(layout)
    BY <2>3
  <2>5. FieldBit(layout, 1) \in 0 .. 7 /\ FieldLen(layout, 1) \in 1 .. 32
    BY Zenon, <2>2, <2>4, LayoutFields
  <2>6. ChunkAt(FieldBit(layout, 1), FieldLen(layout, 1), 0, FieldLen(layout, 1),
                FieldBit(layout, 1) % 8)
    BY Zenon, <2>5, FirstChunk, Mod8
  <2>7. chunk' = Chunk(1, 0, FieldLen(layout, 1), FieldBit(layout, 1))
    BY Zenon, <2>1 DEF At, Chunk, FieldLen, FieldBit
  <2>8. BitsRead(dp, layout, 1, FieldLen(layout, 1)) = {}
    BY Zenon, <2>2, <2>4, NothingRead
  <2>9. \A m \in 1 .. Len(layout) : ~(m < 1)
    BY <2>3
  <2>10. ReadUpTo(1, FieldLen(layout, 1))'
    BY Zenon, <2>1, <2>3, <2>8, <2>9 DEF ReadUpTo
  <2>11. FieldBit(layout, 1) \in Byte /\ FieldLen(layout, 1) \in Nat /\ 0 \in Nat
    BY <2>5 DEF Byte
  <2>12. Parsing'
    BY Zenon, <2>1, <2>4, <2>6, <2>7, <2>10, <2>11 DEF Parsing, Looping
  <2> QED
    BY Zenon, <2>1, <2>2, <2>12 DEF BitInv
<1>3. ASSUME EndBits PROVE BitInv'
  BY <1>3 DEF EndBits, BitInv
<1>4. ASSUME UNCHANGED bitVars PROVE BitInv'
  <2>1. layout' = layout /\ given' = given /\ dpold' = dpold /\ dp' = dp /\ read' = read
        /\ phase' = phase /\ chunk' = chunk
    BY <1>4 DEF bitVars
  <2>2. Generating => Generating'
    BY Zenon, <2>1 DEF Generating, Looping
  <2>3. Parsing => Parsing'
    <3>1. \A n, t : ReadUpTo(n, t) => ReadUpTo(n, t)'
      BY Zenon, <2>1 DEF ReadUpTo
    <3>2. \A n, i, t, s : Looping(n, i, t, s) => Looping(n, i, t, s)'
      BY Zenon, <2>1 DEF Looping
    <3> QED
      BY Zenon, <2>1, <3>1, <3>2 DEF Parsing
  <2> QED
    BY Zenon, <2>1, <2>2, <2>3 DEF BitInv
<1> QED
  BY <1>1, <1>2, <1>3, <1>4, SetStep, GetStep DEF BitNext

\* For every layout of fields within the array, all values, also those that are
\* wider than their fields, and whatever the array held,
\* pa_set_protocol_bit_data puts the low bits of each value into its field,
\* wherever the field begins and however many bytes it crosses, and no other bit
\* but the one above that set_bit_data's mask lets into the neighbour.
THEOREM BitsArePlaced == BitSpec => []BitsPlaced
<1>1. BitInit => BitInv
  BY DEF BitInit, BitInv
<1>2. BitInv => BitsPlaced
  BY Zenon DEF BitInv, BitsPlaced
<1> QED
  BY <1>1, <1>2, BitStep, PTL DEF BitSpec

\* For every layout and every content of the array, pa_get_protocol_bit_data
\* reads the bits of each field and, at most, the one above it that the mask
\* lets through.
THEOREM LowBitsAreRead == BitSpec => []LowBitsRead
<1>1. BitInit => BitInv
  BY DEF BitInit, BitInv
<1>2. BitInv => LowBitsRead
  <2> SUFFICES ASSUME BitInv, phase = "parsed", NEW n \in DOMAIN layout
               PROVE  read[n] = Held(dp, layout[n]) \cup Neighbour(dp, layout[n])
    BY Zenon DEF LowBitsRead
  <2>1. layout \in Layouts /\ \A m \in 1 .. Len(layout) : read[m] = BitsRead(dp, layout, m, 0)
    BY DEF BitInv
  <2>2. n \in 1 .. Len(layout)
    BY Zenon, <2>1, LayoutFields
  <2> QED
    BY Zenon, <2>1, <2>2, AllRead
<1> QED
  BY <1>1, <1>2, BitStep, PTL DEF BitSpec
================================================================================
