------------------------ MODULE UeventListenerProofs ------------------------
(***************************************************************************)
(* Proofs about UeventListener, for all datagrams, every size of the       *)
(* buffer and every capacity of the socket: what is printed is the         *)
(* kernel's, whole, from one datagram, and in the order it was sent.       *)
(***************************************************************************)
EXTENDS UeventListener, SequenceTheorems, TLAPS

(***************************************************************************)
(* The inductive invariant                                                 *)
(***************************************************************************)

Types == /\ TypeOK
         /\ queue \in Seq(Nat) /\ sent \in Seq(Datagrams)
         /\ printed \in Seq([id : Nat, uevent : [Keys -> Nat]])

\* What of the datagram d, with number id, the first j strings say.
Taken(d, id, j) == [k \in Keys |-> IF \E i \in 1 .. j : d.keys[i] = k THEN id ELSE 0]

Size(d) == 2 * Len(d.keys)

\* The buffer begins with the text of d.
Holds(buffer, len, d, id) == \A c \in Cells : c < len => buffer[c] = Text(d, id)[c + 1]

\* The datagram at the head of the queue is the one that is in the buffer, cut
\* to its size; and parse_event, which has taken j strings of it, stands behind
\* the j-th.
Buffered(loc, buffer, len, p, ev, d, id) ==
    /\ loc = "check" => /\ len = IF Size(d) > UEVENT_MSG_LEN + 2 THEN UEVENT_MSG_LEN + 2 ELSE Size(d)
                        /\ Holds(buffer, len, d, id)
    /\ loc = "parse" => /\ Genuine(d) /\ Fits(d)
                        /\ len = Size(d)
                        /\ Holds(buffer, len, d, id)
                        /\ buffer[len] = NUL
                        /\ \E j \in 0 .. Len(d.keys) : p = 2 * j /\ ev = Taken(d, id, j)
Buffer == at \in {"check", "parse"} =>
            queue # <<>> /\ Buffered(at, msg, n, pos, uevent, sent[Head(queue)], Head(queue))

\* The socket keeps the order, and what it holds is younger than what was printed.
Younger == /\ \A p, q \in DOMAIN queue : p < q => queue[p] < queue[q]
           /\ \A p \in DOMAIN printed : \A q \in DOMAIN queue : printed[p].id < queue[q]
           /\ \A p \in DOMAIN printed : printed[p].id \in DOMAIN sent

\* PrintedGenuine of one event e, taken from d.
GenuineEvent(e, d) ==
    /\ Genuine(d) /\ Fits(d)
    /\ e.uevent = [k \in Keys |-> IF \E j \in DOMAIN d.keys : d.keys[j] = k THEN e.id ELSE 0]

IInv == Types /\ Buffer /\ Younger /\ PrintedGenuine /\ PrintedInOrder

(***************************************************************************)
(* The text of a datagram                                                  *)
(***************************************************************************)

LEMMA Strings ==
    ASSUME NEW d \in Datagrams
    PROVE  /\ Len(d.keys) \in Nat \ {0} /\ DOMAIN d.keys = 1 .. Len(d.keys)
           /\ \A j \in 1 .. Len(d.keys) : d.keys[j] \in STRING
           /\ Size(d) \in Nat
<1>1. d.keys \in Seq(STRING) \ {<<>>}
  BY DatagramsAssumption
<1> DEFINE k == d.keys
<1>2. k \in Seq(STRING) \ {<<>>}
  BY <1>1
<1> HIDE DEF k
<1>3. Len(k) \in Nat \ {0} /\ DOMAIN k = 1 .. Len(k) /\ \A j \in 1 .. Len(k) : k[j] \in STRING
  BY <1>2
<1> QED
  BY <1>3 DEF Size, k

LEMMA TextLen ==
    ASSUME NEW d \in Datagrams, NEW id
    PROVE  Len(Text(d, id)) = Size(d)
<1> DEFINE m == Size(d)
           t == Text(d, id)
<1>1. m \in Nat /\ DOMAIN t = 1 .. m
  BY Strings DEF Text, Size
<1> HIDE DEF m, t
<1> QED
  BY <1>1 DEF m, t

LEMMA TextCells ==
    ASSUME NEW d \in Datagrams, NEW id, NEW j \in 0 .. Len(d.keys) - 1
    PROVE  /\ 2 * j + 1 \in 1 .. Size(d) /\ 2 * j + 2 \in 1 .. Size(d)
           /\ Text(d, id)[2 * j + 1] = [key |-> d.keys[j + 1], id |-> id]
           /\ Text(d, id)[2 * j + 2] = NUL
<1>1. Len(d.keys) \in Nat /\ j \in Nat /\ j + 1 <= Len(d.keys)
  BY Strings
<1>2. 2 * j + 1 \in 1 .. Size(d) /\ 2 * j + 2 \in 1 .. Size(d)
  BY <1>1 DEF Size
<1>3. (2 * j + 1) % 2 # 0 /\ (2 * j + 2) % 2 = 0 /\ ((2 * j + 1) + 1) \div 2 = j + 1
  BY <1>1
<1>4. \A c \in 1 .. Size(d) : Text(d, id)[c] = IF c % 2 = 0 THEN NUL
                                               ELSE [key |-> d.keys[(c + 1) \div 2], id |-> id]
  BY DEF Text, Size
<1>5. Text(d, id)[2 * j + 1] = [key |-> d.keys[((2 * j + 1) + 1) \div 2], id |-> id]
  BY <1>2, <1>3, <1>4
<1> QED
  BY <1>2, <1>3, <1>4, <1>5

(***************************************************************************)
(* What each step keeps                                                    *)
(***************************************************************************)

\* The socket's queue and what was sent.
LEMMA Sequences ==
    ASSUME Types
    PROVE  /\ Len(queue) \in Nat /\ DOMAIN queue = 1 .. Len(queue)
           /\ Len(sent) \in Nat /\ DOMAIN sent = 1 .. Len(sent)
           /\ Len(printed) \in Nat /\ DOMAIN printed = 1 .. Len(printed)
           /\ \A q \in 1 .. Len(queue) : queue[q] \in 1 .. Len(sent)
           /\ \A id \in 1 .. Len(sent) : sent[id] \in Datagrams
           /\ \A p \in 1 .. Len(printed) : printed[p].id \in Nat
<1>1. /\ queue \in Seq(Nat) /\ sent \in Seq(Datagrams)
      /\ printed \in Seq([id : Nat, uevent : [Keys -> Nat]])
      /\ \A q \in DOMAIN queue : queue[q] \in 1 .. Len(sent)
  BY DEF Types, TypeOK
<1>2. \A p \in 1 .. Len(printed) : printed[p] \in [id : Nat, uevent : [Keys -> Nat]]
  <2> DEFINE S == [id : Nat, uevent : [Keys -> Nat]]
  <2>1. printed \in Seq(S)
    BY <1>1
  <2> HIDE DEF S
  <2>2. \A p \in 1 .. Len(printed) : printed[p] \in S
    BY <2>1
  <2> QED
    BY <2>2 DEF S
<1> QED
  BY <1>1, <1>2

LEMMA AtHead ==
    ASSUME Types, queue # <<>>
    PROVE  /\ Len(queue) \in Nat \ {0} /\ Head(queue) = queue[1]
           /\ Head(queue) \in 1 .. Len(sent) /\ Head(queue) \in Nat \ {0}
           /\ sent[Head(queue)] \in Datagrams
<1>1. queue \in Seq(Nat)
  BY DEF Types
<1>2. Len(queue) \in Nat \ {0} /\ Head(queue) = queue[1]
  BY <1>1
<1>3. 1 \in 1 .. Len(queue)
  BY <1>2
<1>4. queue[1] \in 1 .. Len(sent)
  BY <1>3, Sequences
<1> QED
  BY <1>2, <1>4, Sequences

LEMMA SendKeeps ==
    ASSUME IInv, NEW d \in Datagrams, Send(d)
    PROVE  IInv'
<1>1. /\ sent' = Append(sent, d) /\ UNCHANGED <<at, msg, n, pos, uevent, printed>>
      /\ \/ Len(queue) < RcvBuf /\ queue' = Append(queue, Len(sent) + 1) /\ overrun' = overrun
         \/ queue' = queue /\ overrun' = TRUE
  BY DEF Send
<1>2. Types /\ Younger
  BY DEF IInv
<1>3. /\ queue \in Seq(Nat) /\ sent \in Seq(Datagrams)
      /\ Len(queue) \in Nat /\ DOMAIN queue = 1 .. Len(queue)
      /\ Len(sent) \in Nat /\ DOMAIN sent = 1 .. Len(sent)
      /\ \A q \in 1 .. Len(queue) : queue[q] \in 1 .. Len(sent)
  BY <1>2, Sequences DEF Types
<1>4. /\ sent' \in Seq(Datagrams) /\ Len(sent') = Len(sent) + 1 /\ DOMAIN sent' = 1 .. Len(sent) + 1
      /\ \A id \in 1 .. Len(sent) : sent'[id] = sent[id]
  BY <1>1, <1>3
<1>5. /\ queue' \in Seq(Nat) /\ DOMAIN queue' = 1 .. Len(queue') /\ Len(queue') <= RcvBuf
      /\ \A q \in 1 .. Len(queue) : q \in DOMAIN queue' /\ queue'[q] = queue[q]
      /\ \A q \in DOMAIN queue' : \/ q \in 1 .. Len(queue) /\ queue'[q] = queue[q]
                                  \/ q = Len(queue) + 1 /\ queue'[q] = Len(sent) + 1
      /\ \/ overrun'
         \/ ~overrun' /\ ~overrun /\ \E q \in DOMAIN queue' : queue'[q] = Len(sent) + 1
      /\ overrun' \in BOOLEAN
  <2>1. CASE Len(queue) < RcvBuf /\ queue' = Append(queue, Len(sent) + 1) /\ overrun' = overrun
    <3>1. Len(sent) + 1 \in Nat /\ RcvBuf \in Nat
      BY <1>3, SizesAssumption
    <3>2. /\ queue' \in Seq(Nat) /\ Len(queue') = Len(queue) + 1
          /\ \A q \in 1 .. Len(queue) : queue'[q] = queue[q]
          /\ queue'[Len(queue) + 1] = Len(sent) + 1
      BY <1>3, <2>1, <3>1
    <3>3. DOMAIN queue' = 1 .. Len(queue) + 1 /\ Len(queue') <= RcvBuf
      BY <1>3, <2>1, <3>1, <3>2
    <3>4. Len(queue) + 1 \in DOMAIN queue'
      BY <1>3, <3>3
    <3>5. overrun \in BOOLEAN
      BY <1>2 DEF Types, TypeOK
    <3> QED
      BY SMTT(30), <1>3, <2>1, <3>2, <3>3, <3>4, <3>5
  <2>2. CASE queue' = queue /\ overrun' = TRUE
    <3>1. Len(queue) <= RcvBuf
      BY <1>2 DEF Types, TypeOK
    <3> QED
      BY <1>3, <2>2, <3>1
  <2> QED
    BY <1>1, <2>1, <2>2
<1>6. Types'
  <2>1. \A q \in DOMAIN queue' : queue'[q] \in 1 .. Len(sent')
    BY <1>3, <1>4, <1>5
  <2>2. uevent' \in [Keys -> 0 .. Len(sent')]
    <3>1. 0 .. Len(sent) \subseteq 0 .. Len(sent')
      BY <1>3, <1>4
    <3>2. uevent \in [Keys -> 0 .. Len(sent)]
      BY <1>2 DEF Types, TypeOK
    <3> QED
      BY <1>1, <3>1, <3>2
  <2> QED
    BY <1>1, <1>2, <1>4, <1>5, <2>1, <2>2 DEF Types, TypeOK
<1>7. Younger'
  <2>1. \A p \in DOMAIN printed : printed[p].id \in 1 .. Len(sent)
    BY <1>2, <1>3 DEF Younger
  <2>2. ASSUME NEW p \in DOMAIN queue', NEW q \in DOMAIN queue', p < q
        PROVE  queue'[p] < queue'[q]
    <3>1. p \in 1 .. Len(queue) /\ queue'[p] = queue[p] /\ queue[p] \in 1 .. Len(sent)
      <4>1. p \in Int /\ q \in Int /\ q <= Len(queue) + 1
        BY SMTT(30), <1>3, <1>5
      <4> QED
        BY <1>3, <1>5, <2>2, <4>1
    <3>2. CASE q \in 1 .. Len(queue) /\ queue'[q] = queue[q]
      BY <1>2, <1>3, <2>2, <3>1, <3>2 DEF Younger
    <3>3. CASE queue'[q] = Len(sent) + 1
      BY <1>3, <3>1, <3>3
    <3> QED
      BY <1>5, <3>2, <3>3
  <2>3. ASSUME NEW p \in DOMAIN printed, NEW q \in DOMAIN queue'
        PROVE  printed[p].id < queue'[q]
    <3>1. CASE q \in 1 .. Len(queue) /\ queue'[q] = queue[q]
      BY <1>2, <1>3, <3>1 DEF Younger
    <3>2. CASE queue'[q] = Len(sent) + 1
      BY <1>3, <2>1, <3>2
    <3> QED
      BY <1>5, <3>1, <3>2
  <2>4. \A p \in DOMAIN printed : printed[p].id \in DOMAIN sent'
    BY <1>3, <1>4, <2>1
  <2> QED
    BY <1>1, <2>2, <2>3, <2>4 DEF Younger
<1>8. PrintedInOrder'
  <2>1. \A p, q \in DOMAIN printed : p < q => printed[p].id < printed[q].id
    BY DEF IInv, PrintedInOrder
  <2>2. ASSUME ~overrun', NEW id \in DOMAIN sent', Owed(id)'
        PROVE  IsPrinted(id)' \/ \E q \in DOMAIN queue' : queue'[q] = id
    <3>1. CASE id \in 1 .. Len(sent)
      <4>1. Owed(id)
        BY <1>3, <1>4, <2>2, <3>1 DEF Owed
      <4>2. IsPrinted(id) \/ \E q \in DOMAIN queue : queue[q] = id
        BY <1>3, <1>5, <2>2, <3>1, <4>1 DEF IInv, PrintedInOrder
      <4>3. IsPrinted(id) => IsPrinted(id)'
        BY <1>1 DEF IsPrinted
      <4> QED
        BY <1>3, <1>5, <4>2, <4>3
    <3>2. CASE id = Len(sent) + 1
      BY <1>5, <2>2, <3>2
    <3> QED
      BY <1>3, <1>4, <2>2, <3>1, <3>2
  <2> QED
    BY <1>1, <2>1, <2>2 DEF PrintedInOrder
<1>9. PrintedGenuine'
  <2>1. \A p \in DOMAIN printed : sent'[printed[p].id] = sent[printed[p].id]
    BY <1>2, <1>3, <1>4 DEF Younger
  <2>2. \A p \in DOMAIN printed : GenuineEvent(printed[p], sent[printed[p].id])
    BY DEF IInv, PrintedGenuine, GenuineEvent
  <2>3. \A p \in DOMAIN printed' : GenuineEvent(printed'[p], sent'[printed'[p].id])
    BY <1>1, <2>1, <2>2
  <2> QED
    BY <2>3 DEF PrintedGenuine, GenuineEvent
<1>10. Buffer'
  <2>1. ASSUME at \in {"check", "parse"}
        PROVE  queue' # <<>> /\ Head(queue') = Head(queue) /\ sent'[Head(queue)] = sent[Head(queue)]
    <3>1. queue # <<>>
      BY <2>1 DEF IInv, Buffer
    <3>2. /\ Len(queue) \in Nat \ {0} /\ Head(queue) = queue[1] /\ Head(queue) \in 1 .. Len(sent)
      BY <1>2, <3>1, AtHead
    <3>3. 1 \in DOMAIN queue' /\ queue'[1] = queue[1]
      BY <1>5, <3>2
    <3> QED
      BY <1>4, <1>5, <3>2, <3>3
  <2>2. at \in {"check", "parse"} => Buffered(at, msg, n, pos, uevent, sent[Head(queue)], Head(queue))
    BY DEF IInv, Buffer
  <2> QED
    BY <1>1, <2>1, <2>2 DEF Buffer
<1> QED
  BY <1>6, <1>7, <1>8, <1>9, <1>10 DEF IInv

\* What leaves the socket and the printed events alone.
LEMMA PrintedFrame ==
    ASSUME IInv, UNCHANGED <<queue, overrun, sent, printed>>, Types', Buffer'
    PROVE  IInv'
<1>1. Younger' /\ PrintedGenuine'
  BY DEF IInv, Younger, PrintedGenuine
<1>2. PrintedInOrder'
  BY DEF IInv, PrintedInOrder, Owed, IsPrinted
<1> QED
  BY <1>1, <1>2 DEF IInv

LEMMA ReceiveKeeps ==
    ASSUME IInv, recvmsg \/ RecvFails
    PROVE  IInv'
<1>1. CASE recvmsg
  <2> DEFINE id == Head(queue)
             d == sent[Head(queue)]
             len == IF Size(d) > UEVENT_MSG_LEN + 2 THEN UEVENT_MSG_LEN + 2 ELSE Size(d)
  <2>1. queue # <<>> /\ at' = "check" /\ UNCHANGED <<queue, overrun, pos, uevent, sent, printed>>
    BY <1>1 DEF recvmsg
  <2>2. id \in Nat \ {0} /\ d \in Datagrams
    BY <2>1, AtHead DEF IInv
  <2>3. Len(Text(d, id)) = Size(d) /\ Size(d) \in Nat
    BY <2>2, TextLen, Strings
  <2>4. n' = len /\ msg' = [c \in Cells |-> IF c < len THEN Text(d, id)[c + 1] ELSE msg[c]]
    BY <1>1, <2>3 DEF recvmsg
  <2>5. len \in 0 .. UEVENT_MSG_LEN + 2
    BY <2>3, SizesAssumption
  <2> HIDE DEF len
  <2>6. Holds(msg', n', d, id) /\ DOMAIN msg' = Cells
    BY <2>4 DEF Holds
  <2>7. Types'
    BY <2>1, <2>4, <2>5, <2>6 DEF IInv, Types, TypeOK
  <2>8. Buffer'
    BY <2>1, <2>4, <2>6 DEF Buffer, Buffered, len
  <2> QED
    BY <2>1, <2>7, <2>8, PrintedFrame
<1>2. CASE RecvFails
  <2>1. at' = "ended" /\ UNCHANGED <<queue, overrun, msg, n, pos, uevent, sent, printed>>
    BY <1>2 DEF RecvFails
  <2>2. Types' /\ Buffer'
    BY <2>1 DEF IInv, Types, TypeOK, Buffer
  <2> QED
    BY <2>1, <2>2, PrintedFrame
<1> QED
  BY <1>1, <1>2

LEMMA TerminateKeeps ==
    ASSUME IInv, Terminate
    PROVE  IInv'
<1> DEFINE id == Head(queue)
           d == sent[Head(queue)]
<1>1. /\ at = "check" /\ Genuine(d) /\ n < UEVENT_MSG_LEN
      /\ msg' = [msg EXCEPT ![n] = NUL, ![n + 1] = NUL]
      /\ uevent' = NoEvent /\ pos' = 0 /\ at' = "parse"
      /\ UNCHANGED <<queue, overrun, n, sent, printed>>
  BY DEF Terminate, Genuine
<1>2. /\ queue # <<>>
      /\ n = IF Size(d) > UEVENT_MSG_LEN + 2 THEN UEVENT_MSG_LEN + 2 ELSE Size(d)
      /\ Holds(msg, n, d, id)
  BY <1>1 DEF IInv, Buffer, Buffered
<1>3. id \in Nat \ {0} /\ id \in 1 .. Len(sent) /\ d \in Datagrams
  BY <1>2, AtHead DEF IInv
<1>4. Len(d.keys) \in Nat \ {0} /\ Size(d) \in Nat /\ UEVENT_MSG_LEN \in Nat
  BY <1>3, Strings, SizesAssumption
<1> HIDE DEF id, d
<1>5. n = Size(d) /\ n \in Nat /\ n \in Cells /\ n + 1 \in Cells /\ 0 \in Cells
  BY <1>1, <1>2, <1>4 DEF Cells
<1>6. Fits(d)
  BY <1>1, <1>5 DEF Fits, Size
<1>7. DOMAIN msg = Cells
  BY DEF IInv, Types, TypeOK
<1>8. DOMAIN msg' = Cells /\ msg'[n] = NUL /\ \A c \in Cells : c < n => msg'[c] = msg[c]
  <2>1. \A c \in Cells : c < n => c # n /\ c # n + 1
    BY <1>5 DEF Cells
  <2> QED
    BY <1>1, <1>5, <1>7, <2>1
<1>9. Holds(msg', n, d, id)
  BY <1>2, <1>8 DEF Holds
<1>10. NoEvent = Taken(d, id, 0) /\ 0 \in 0 .. Len(d.keys) /\ 0 = 2 * 0
  <2>1. 1 .. 0 = {}
    OBVIOUS
  <2> QED
    BY <1>4, <2>1 DEF NoEvent, Taken
<1>11. Types'
  <2>1. NoEvent \in [Keys -> 0 .. Len(sent)]
    <3>1. 0 \in 0 .. Len(sent)
      BY <1>3
    <3> QED
      BY <3>1 DEF NoEvent
  <2> QED
    BY <1>1, <1>5, <1>8, <2>1 DEF IInv, Types, TypeOK
<1>12. Buffered("parse", msg', n, 0, NoEvent, d, id)
  BY <1>1, <1>5, <1>6, <1>8, <1>9, <1>10 DEF Buffered
<1>13. Buffer'
  BY <1>1, <1>2, <1>12 DEF Buffer, id, d
<1> QED
  BY <1>1, <1>11, <1>13, PrintedFrame

\* Where parse_event stands: at a string of the datagram, or behind the last one.
LEMMA AtString ==
    ASSUME IInv, at = "parse", NEW id, id = Head(queue), NEW d, d = sent[id]
    PROVE  /\ queue # <<>> /\ id \in Nat \ {0} /\ id \in 1 .. Len(sent) /\ d \in Datagrams
           /\ Genuine(d) /\ Fits(d) /\ Len(d.keys) \in Nat \ {0}
           /\ n = Size(d) /\ Holds(msg, n, d, id) /\ msg[n] = NUL
           /\ \E j \in 0 .. Len(d.keys) :
                /\ pos = 2 * j /\ uevent = Taken(d, id, j)
                /\ IF j = Len(d.keys) THEN msg[pos] = NUL
                   ELSE /\ pos \in Cells /\ pos + 1 \in Cells /\ pos + 2 \in Cells
                        /\ msg[pos] = [key |-> d.keys[j + 1], id |-> id]
                        /\ msg[pos] # NUL
                        /\ msg[pos + 1] = NUL
<1>1. queue # <<>> /\ Buffered("parse", msg, n, pos, uevent, d, id)
  BY DEF IInv, Buffer
<1>2. id \in Nat \ {0} /\ id \in 1 .. Len(sent) /\ d \in Datagrams
  BY <1>1, AtHead DEF IInv
<1>3. Genuine(d) /\ Fits(d) /\ n = Size(d) /\ Holds(msg, n, d, id) /\ msg[n] = NUL
  BY <1>1 DEF Buffered
<1>4. Len(d.keys) \in Nat \ {0} /\ n = 2 * Len(d.keys) /\ n < UEVENT_MSG_LEN /\ UEVENT_MSG_LEN \in Nat
  BY <1>2, <1>3, Strings, SizesAssumption DEF Size, Fits
<1>5. PICK j \in 0 .. Len(d.keys) : pos = 2 * j /\ uevent = Taken(d, id, j)
  BY <1>1 DEF Buffered
<1>6. CASE j = Len(d.keys)
  <2>1. pos = n
    BY <1>4, <1>5, <1>6
  <2>2. msg[pos] = NUL
    BY <1>3, <2>1
  <2>3. \E k \in 0 .. Len(d.keys) :
                /\ pos = 2 * k /\ uevent = Taken(d, id, k)
                /\ IF k = Len(d.keys) THEN msg[pos] = NUL
                   ELSE /\ pos \in Cells /\ pos + 1 \in Cells /\ pos + 2 \in Cells
                        /\ msg[pos] = [key |-> d.keys[k + 1], id |-> id]
                        /\ msg[pos] # NUL
                        /\ msg[pos + 1] = NUL
    BY <1>5, <1>6, <2>2
  <2> QED
    BY <1>1, <1>2, <1>3, <1>4, <2>3
<1>7. CASE j # Len(d.keys)
  <2>1. j \in 0 .. Len(d.keys) - 1 /\ j \in Nat
    BY <1>4, <1>7
  <2>2. pos \in Cells /\ pos + 1 \in Cells /\ pos + 2 \in Cells /\ pos < n /\ pos + 1 < n
    BY <1>4, <1>5, <2>1 DEF Cells
  <2>3. msg[pos] = Text(d, id)[pos + 1] /\ msg[pos + 1] = Text(d, id)[(pos + 1) + 1]
    BY <1>3, <2>2 DEF Holds
  <2>4. pos + 1 = 2 * j + 1 /\ (pos + 1) + 1 = 2 * j + 2
    BY <1>5, <2>1
  <2>5. msg[pos] = [key |-> d.keys[j + 1], id |-> id] /\ msg[pos + 1] = NUL
    BY <1>2, <2>1, <2>3, <2>4, TextCells
  <2>6. [key |-> d.keys[j + 1], id |-> id] # NUL
    <3>1. [key |-> d.keys[j + 1], id |-> id].id # NUL.id
      BY <1>2 DEF NUL
    <3> QED
      BY <3>1
  <2>7. \E k \in 0 .. Len(d.keys) :
                /\ pos = 2 * k /\ uevent = Taken(d, id, k)
                /\ IF k = Len(d.keys) THEN msg[pos] = NUL
                   ELSE /\ pos \in Cells /\ pos + 1 \in Cells /\ pos + 2 \in Cells
                        /\ msg[pos] = [key |-> d.keys[k + 1], id |-> id]
                        /\ msg[pos] # NUL
                        /\ msg[pos + 1] = NUL
    BY <1>5, <1>7, <2>2, <2>5, <2>6
  <2> QED
    BY <1>1, <1>2, <1>3, <1>4, <2>7
<1> QED
  BY <1>6, <1>7

\* The string is taken whole, and the next one begins behind its NUL.
LEMMA ParseKeeps ==
    ASSUME IInv, ParseString
    PROVE  IInv'
<1> DEFINE id == Head(queue)
           d == sent[id]
<1>1. /\ at = "parse" /\ msg[pos] # NUL /\ pos' = AfterNul(pos)
      /\ uevent' = IF msg[pos].key \in Keys
                   THEN [uevent EXCEPT ![msg[pos].key] = msg[pos].id] ELSE uevent
      /\ UNCHANGED <<queue, overrun, at, msg, n, sent, printed>>
  BY DEF ParseString
<1>2. /\ queue # <<>> /\ id \in Nat \ {0} /\ id \in 1 .. Len(sent) /\ d \in Datagrams
      /\ Genuine(d) /\ Fits(d) /\ Len(d.keys) \in Nat \ {0}
      /\ n = Size(d) /\ Holds(msg, n, d, id) /\ msg[n] = NUL
  BY <1>1, AtString
<1>3. PICK j \in 0 .. Len(d.keys) :
                /\ pos = 2 * j /\ uevent = Taken(d, id, j)
                /\ IF j = Len(d.keys) THEN msg[pos] = NUL
                   ELSE /\ pos \in Cells /\ pos + 1 \in Cells /\ pos + 2 \in Cells
                        /\ msg[pos] = [key |-> d.keys[j + 1], id |-> id]
                        /\ msg[pos] # NUL
                        /\ msg[pos + 1] = NUL
  BY <1>1, AtString
<1> HIDE DEF id, d
<1> DEFINE key == d.keys[j + 1]
<1>4. /\ j \in Nat /\ j + 1 \in 0 .. Len(d.keys)
      /\ pos \in Cells /\ pos + 1 \in Cells /\ pos + 2 \in Cells
      /\ msg[pos] = [key |-> key, id |-> id] /\ msg[pos + 1] = NUL
  <2>1. j # Len(d.keys)
    BY <1>1, <1>3
  <2> QED
    BY <1>2, <1>3, <2>1
<1>5. AfterNul(pos) = pos + 2
  <2>1. pos \in Nat
    BY <1>3, <1>4
  <2>2. \A b \in pos .. (pos + 1) - 1 : msg[b] # NUL
    <3>1. \A b \in pos .. (pos + 1) - 1 : b = pos
      BY <2>1
    <3> QED
      BY <1>1, <3>1
  <2>3. ASSUME NEW c \in Cells, c >= pos, msg[c] = NUL, \A b \in pos .. c - 1 : msg[b] # NUL
        PROVE  c = pos + 1
    <3>1. c \in Int /\ c # pos
      BY <1>1, <2>3 DEF Cells
    <3>2. ~(c > pos + 1)
      <4>1. c > pos + 1 => pos + 1 \in pos .. c - 1
        BY <2>1, <3>1
      <4> QED
        BY <1>4, <2>3, <4>1
    <3> QED
      BY <2>1, <2>3, <3>1, <3>2
  <2>4. pos + 1 >= pos
    BY <2>1
  <2> DEFINE next == CHOOSE c \in Cells : /\ c >= pos /\ msg[c] = NUL
                                          /\ \A b \in pos .. c - 1 : msg[b] # NUL
  <2>5. next = pos + 1
    BY <1>4, <2>2, <2>3, <2>4
  <2>6. AfterNul(pos) = 1 + next
    BY DEF AfterNul
  <2> HIDE DEF next
  <2> QED
    BY <2>1, <2>5, <2>6
<1>6. uevent' = Taken(d, id, j + 1)
  <2>1. 1 .. j + 1 = 1 .. j \cup {j + 1}
    BY <1>4
  <2>2. msg[pos].key = key /\ msg[pos].id = id
    BY <1>4
  <2>3. uevent' = IF key \in Keys THEN [uevent EXCEPT ![key] = id] ELSE uevent
    BY <1>1, <2>2
  <2>4. \A k \in Keys : (\E i \in 1 .. j + 1 : d.keys[i] = k) <=> ((\E i \in 1 .. j : d.keys[i] = k) \/ k = key)
    BY <2>1
  <2> HIDE DEF key
  <2>5. uevent = [k \in Keys |-> IF \E i \in 1 .. j : d.keys[i] = k THEN id ELSE 0]
    BY <1>3 DEF Taken
  <2>6. uevent' = [k \in Keys |-> IF (\E i \in 1 .. j : d.keys[i] = k) \/ k = key THEN id ELSE 0]
    BY <2>3, <2>5
  <2> QED
    BY <2>4, <2>6 DEF Taken
<1>7. pos' = 2 * (j + 1)
  BY <1>1, <1>3, <1>4, <1>5
<1>8. Types'
  <2>1. Taken(d, id, j + 1) \in [Keys -> 0 .. Len(sent)]
    <3>1. id \in 0 .. Len(sent) /\ 0 \in 0 .. Len(sent)
      BY <1>2
    <3> QED
      BY <3>1 DEF Taken
  <2> QED
    BY <1>1, <1>4, <1>5, <1>6, <2>1 DEF IInv, Types, TypeOK
<1>9. Buffered("parse", msg', n', pos', uevent', d, id)
  BY <1>1, <1>2, <1>4, <1>6, <1>7 DEF Buffered
<1>10. Buffer'
  BY <1>1, <1>2, <1>9 DEF Buffer, id, d
<1> QED
  BY <1>1, <1>8, <1>10, PrintedFrame

\* What the head of the queue gives way to.
LEMMA NextDatagram ==
    ASSUME IInv, queue # <<>>, queue' = Tail(queue)
    PROVE  /\ queue' \in Seq(Nat) /\ DOMAIN queue' = 1 .. Len(queue') /\ Len(queue') <= RcvBuf
           /\ \A q \in DOMAIN queue' : q + 1 \in DOMAIN queue /\ queue'[q] = queue[q + 1]
           /\ \A q \in DOMAIN queue : q = 1 \/ (q - 1 \in DOMAIN queue' /\ queue'[q - 1] = queue[q])
           /\ \A p, q \in DOMAIN queue' : p < q => queue'[p] < queue'[q]
           /\ \A q \in DOMAIN queue' : queue'[q] \in 1 .. Len(sent) /\ Head(queue) < queue'[q]
<1>1. /\ queue \in Seq(Nat) /\ Len(queue) \in Nat \ {0} /\ Head(queue) = queue[1]
      /\ DOMAIN queue = 1 .. Len(queue) /\ Len(queue) <= RcvBuf /\ RcvBuf \in Nat
  BY AtHead, Sequences, SizesAssumption DEF IInv, Types, TypeOK
<1>2. /\ queue' \in Seq(Nat) /\ Len(queue') = Len(queue) - 1
      /\ \A q \in 1 .. Len(queue) - 1 : queue'[q] = queue[q + 1]
  BY <1>1
<1>3. DOMAIN queue' = 1 .. Len(queue) - 1 /\ Len(queue') <= RcvBuf
  BY <1>1, <1>2
<1>4. \A q \in DOMAIN queue' : q + 1 \in DOMAIN queue /\ queue'[q] = queue[q + 1]
  BY <1>1, <1>2, <1>3
<1>5. ASSUME NEW q \in DOMAIN queue, q # 1
      PROVE  q - 1 \in DOMAIN queue' /\ queue'[q - 1] = queue[q]
  <2>1. q - 1 \in 1 .. Len(queue) - 1 /\ (q - 1) + 1 = q
    BY <1>1, <1>5
  <2> QED
    BY <1>2, <1>3, <2>1
<1>6. ASSUME NEW p \in DOMAIN queue', NEW q \in DOMAIN queue', p < q
      PROVE  queue'[p] < queue'[q]
  <2>1. p + 1 < q + 1
    BY <1>1, <1>3, <1>6
  <2> QED
    BY <1>4, <2>1 DEF IInv, Younger
<1>7. ASSUME NEW q \in DOMAIN queue'
      PROVE  queue'[q] \in 1 .. Len(sent) /\ Head(queue) < queue'[q]
  <2>1. 1 < q + 1 /\ 1 \in DOMAIN queue
    BY <1>1, <1>3
  <2>2. queue[q + 1] \in 1 .. Len(sent)
    BY <1>1, <1>4, Sequences DEF IInv
  <2> QED
    BY <1>1, <1>4, <2>1, <2>2 DEF IInv, Younger
<1> QED
  BY <1>2, <1>3, <1>4, <1>5, <1>6, <1>7

\* A datagram that is not printed is not owed.
LEMMA IgnoreKeeps ==
    ASSUME IInv, Ignore
    PROVE  IInv'
<1> DEFINE id == Head(queue)
           d == sent[Head(queue)]
<1>1. /\ at = "check" /\ at' = "recv" /\ queue' = Tail(queue)
      /\ ~Genuine(d) \/ n >= UEVENT_MSG_LEN
      /\ UNCHANGED <<overrun, msg, n, pos, uevent, sent, printed>>
  BY DEF Ignore, Continue, Genuine
<1>2. /\ queue # <<>>
      /\ n = IF Size(d) > UEVENT_MSG_LEN + 2 THEN UEVENT_MSG_LEN + 2 ELSE Size(d)
  BY <1>1 DEF IInv, Buffer, Buffered
<1>3. /\ Len(queue) \in Nat \ {0} /\ id = queue[1] /\ DOMAIN queue = 1 .. Len(queue)
      /\ id \in 1 .. Len(sent) /\ d \in Datagrams
  BY <1>2, AtHead, Sequences DEF IInv
<1>4. ~(Genuine(d) /\ Fits(d))
  <2>1. Size(d) \in Nat /\ UEVENT_MSG_LEN \in Nat
    BY <1>3, Strings, SizesAssumption
  <2>2. Fits(d) <=> Size(d) < UEVENT_MSG_LEN
    BY DEF Fits, Size
  <2> HIDE DEF d
  <2> QED
    BY <1>1, <1>2, <2>1, <2>2
<1>5. /\ queue' \in Seq(Nat) /\ DOMAIN queue' = 1 .. Len(queue') /\ Len(queue') <= RcvBuf
      /\ \A q \in DOMAIN queue' : q + 1 \in DOMAIN queue /\ queue'[q] = queue[q + 1]
      /\ \A q \in DOMAIN queue : q = 1 \/ (q - 1 \in DOMAIN queue' /\ queue'[q - 1] = queue[q])
      /\ \A p, q \in DOMAIN queue' : p < q => queue'[p] < queue'[q]
      /\ \A q \in DOMAIN queue' : queue'[q] \in 1 .. Len(sent) /\ id < queue'[q]
  BY <1>1, <1>2, NextDatagram
<1>6. Types'
  BY <1>1, <1>5 DEF IInv, Types, TypeOK
<1>7. Buffer'
  BY <1>1 DEF Buffer
<1>8. Younger'
  <2>1. ASSUME NEW p \in DOMAIN printed, NEW q \in DOMAIN queue'
        PROVE  printed[p].id < queue'[q]
    BY <1>5 DEF IInv, Younger
  <2> QED
    BY <1>1, <1>5, <2>1 DEF IInv, Younger
<1>9. PrintedGenuine'
  BY <1>1 DEF IInv, PrintedGenuine
<1>10. PrintedInOrder'
  <2>1. ASSUME ~overrun, NEW x \in DOMAIN sent, Owed(x)
        PROVE  IsPrinted(x) \/ \E q \in DOMAIN queue' : queue'[q] = x
    <3>1. CASE \E q \in DOMAIN queue : queue[q] = x
      <4>1. PICK q \in DOMAIN queue : queue[q] = x
        BY <3>1
      <4>2. q # 1
        BY <1>3, <1>4, <2>1, <4>1 DEF Owed
      <4> QED
        BY <1>5, <4>1, <4>2
    <3> QED
      BY <2>1, <3>1 DEF IInv, PrintedInOrder
  <2>2. \A x : Owed(x)' => Owed(x)
    BY <1>1 DEF Owed
  <2>3. \A x : IsPrinted(x) => IsPrinted(x)'
    BY <1>1 DEF IsPrinted
  <2> QED
    BY <1>1, <2>1, <2>2, <2>3 DEF IInv, PrintedInOrder
<1> QED
  BY <1>6, <1>7, <1>8, <1>9, <1>10 DEF IInv

\* What is printed is the whole of the datagram, and the youngest so far.
LEMMA PrintKeeps ==
    ASSUME IInv, PrintEvent
    PROVE  IInv'
<1> DEFINE id == Head(queue)
           d == sent[id]
           e == [id |-> id, uevent |-> uevent]
<1>1. /\ at = "parse" /\ msg[pos] = NUL /\ at' = "recv" /\ queue' = Tail(queue)
      /\ printed' = Append(printed, e)
      /\ UNCHANGED <<overrun, msg, n, pos, uevent, sent>>
  BY DEF PrintEvent, Continue
<1>2. /\ queue # <<>> /\ id \in Nat \ {0} /\ id \in 1 .. Len(sent) /\ d \in Datagrams
      /\ Genuine(d) /\ Fits(d)
  BY <1>1, AtString
<1>3. uevent = Taken(d, id, Len(d.keys))
  BY <1>1, AtString
<1>4. GenuineEvent(e, d)
  <2>1. DOMAIN d.keys = 1 .. Len(d.keys)
    BY <1>2, Strings
  <2> QED
    BY <1>2, <1>3, <2>1 DEF GenuineEvent, Taken
<1>5. /\ queue' \in Seq(Nat) /\ DOMAIN queue' = 1 .. Len(queue') /\ Len(queue') <= RcvBuf
      /\ \A q \in DOMAIN queue' : q + 1 \in DOMAIN queue /\ queue'[q] = queue[q + 1]
      /\ \A q \in DOMAIN queue : q = 1 \/ (q - 1 \in DOMAIN queue' /\ queue'[q - 1] = queue[q])
      /\ \A p, q \in DOMAIN queue' : p < q => queue'[p] < queue'[q]
      /\ \A q \in DOMAIN queue' : queue'[q] \in 1 .. Len(sent) /\ id < queue'[q]
  BY <1>1, <1>2, NextDatagram
<1>6. /\ Len(queue) \in Nat \ {0} /\ id = queue[1] /\ DOMAIN queue = 1 .. Len(queue)
      /\ DOMAIN printed = 1 .. Len(printed) /\ Len(printed) \in Nat /\ DOMAIN sent = 1 .. Len(sent)
  BY <1>2, AtHead, Sequences DEF IInv
<1>7. e.id = id /\ e \in [id : Nat, uevent : [Keys -> Nat]]
  <2>1. uevent \in [Keys -> Nat]
    <3>1. uevent \in [Keys -> 0 .. Len(sent)] /\ Len(sent) \in Nat
      BY Sequences DEF IInv, Types, TypeOK
    <3> QED
      BY <3>1
  <2> QED
    BY <1>2, <2>1
<1> HIDE DEF e
<1>8. /\ printed' \in Seq([id : Nat, uevent : [Keys -> Nat]])
      /\ DOMAIN printed' = 1 .. Len(printed) + 1
      /\ \A p \in 1 .. Len(printed) : printed'[p] = printed[p]
      /\ printed'[Len(printed) + 1] = e
  <2> DEFINE S == [id : Nat, uevent : [Keys -> Nat]]
  <2>1. printed \in Seq(S) /\ e \in S
    BY <1>7 DEF IInv, Types
  <2> HIDE DEF S
  <2>2. /\ printed' \in Seq(S) /\ Len(printed') = Len(printed) + 1
        /\ \A p \in 1 .. Len(printed) : printed'[p] = printed[p]
        /\ printed'[Len(printed) + 1] = e
    BY <1>1, <2>1
  <2> QED
    BY <2>2 DEF S
<1> HIDE DEF id, d
<1>9. \A p \in DOMAIN printed' : \/ p \in DOMAIN printed /\ printed'[p] = printed[p]
                                 \/ p = Len(printed) + 1 /\ printed'[p] = e
  BY <1>6, <1>8
<1>10. \A p \in DOMAIN printed : printed[p].id < id /\ printed[p].id \in DOMAIN sent
  <2>1. 1 \in DOMAIN queue
    BY <1>6
  <2> QED
    BY <1>6, <2>1 DEF IInv, Younger
<1>11. Types'
  BY <1>1, <1>5, <1>8 DEF IInv, Types, TypeOK
<1>12. Buffer'
  BY <1>1 DEF Buffer
<1>13. Younger'
  <2>1. ASSUME NEW p \in DOMAIN printed', NEW q \in DOMAIN queue'
        PROVE  printed'[p].id < queue'[q] /\ printed'[p].id \in DOMAIN sent
    <3>1. CASE p \in DOMAIN printed /\ printed'[p] = printed[p]
      BY <1>5, <1>10, <3>1 DEF IInv, Younger
    <3>2. CASE printed'[p] = e
      BY <1>2, <1>5, <1>6, <1>7, <3>2
    <3> QED
      BY <1>9, <3>1, <3>2
  <2>2. \A p \in DOMAIN printed' : printed'[p].id \in DOMAIN sent
    BY <1>2, <1>6, <1>7, <1>9, <1>10
  <2> QED
    BY <1>1, <1>5, <2>1, <2>2 DEF Younger
<1>14. PrintedGenuine'
  <2>1. \A p \in DOMAIN printed : GenuineEvent(printed[p], sent[printed[p].id])
    BY DEF IInv, PrintedGenuine, GenuineEvent
  <2>2. GenuineEvent(e, sent[e.id])
    BY <1>4, <1>7 DEF d
  <2>3. \A p \in DOMAIN printed' : GenuineEvent(printed'[p], sent'[printed'[p].id])
    BY <1>1, <1>9, <2>1, <2>2
  <2> QED
    BY <2>3 DEF PrintedGenuine, GenuineEvent
<1>15. PrintedInOrder'
  <2>1. ASSUME NEW p \in DOMAIN printed', NEW q \in DOMAIN printed', p < q
        PROVE  printed'[p].id < printed'[q].id
    <3>1. p \in DOMAIN printed /\ printed'[p] = printed[p]
      <4>1. p \in Int /\ q \in Int /\ q <= Len(printed) + 1
        BY <1>6, <1>8
      <4> QED
        BY <1>6, <1>9, <2>1, <4>1
    <3>2. CASE q \in DOMAIN printed /\ printed'[q] = printed[q]
      BY <2>1, <3>1, <3>2 DEF IInv, PrintedInOrder
    <3>3. CASE printed'[q] = e
      BY <1>7, <1>10, <3>1, <3>3
    <3> QED
      BY <1>9, <3>2, <3>3
  <2>2. \A x : IsPrinted(x) => \E p \in DOMAIN printed' : printed'[p].id = x
    BY <1>6, <1>8 DEF IsPrinted
  <2>3. \E p \in DOMAIN printed' : printed'[p].id = id
    <3>1. Len(printed) + 1 \in DOMAIN printed'
      BY <1>6, <1>8
    <3> QED
      BY <1>7, <1>8, <3>1
  <2>4. ASSUME ~overrun, NEW x \in DOMAIN sent, Owed(x)
        PROVE  (\E p \in DOMAIN printed' : printed'[p].id = x) \/ \E q \in DOMAIN queue' : queue'[q] = x
    <3>1. CASE \E q \in DOMAIN queue : queue[q] = x
      <4>1. PICK q \in DOMAIN queue : queue[q] = x
        BY <3>1
      <4> QED
        BY <1>5, <1>6, <2>3, <4>1
    <3> QED
      BY <2>2, <2>4, <3>1 DEF IInv, PrintedInOrder
  <2>5. \A x : Owed(x)' => Owed(x)
    BY <1>1 DEF Owed
  <2>6. \A x : (\E p \in DOMAIN printed' : printed'[p].id = x) => IsPrinted(x)'
    BY DEF IsPrinted
  <2> QED
    BY <1>1, <2>1, <2>4, <2>5, <2>6 DEF PrintedInOrder
<1> QED
  BY <1>11, <1>12, <1>13, <1>14, <1>15 DEF IInv

(***************************************************************************)
(* The theorems                                                            *)
(***************************************************************************)

LEMMA InitOK == Init => IInv
<1> SUFFICES ASSUME Init PROVE IInv
  OBVIOUS
<1>1. /\ queue = <<>> /\ sent = <<>> /\ printed = <<>> /\ overrun = FALSE /\ at = "recv"
      /\ n = 0 /\ pos = 0 /\ uevent = NoEvent /\ DOMAIN msg = Cells
  BY DEF Init
<1>2. Len(queue) = 0 /\ Len(sent) = 0 /\ DOMAIN queue = {} /\ DOMAIN printed = {} /\ DOMAIN sent = {}
  BY <1>1
<1>3. 0 \in Cells /\ 0 \in 0 .. UEVENT_MSG_LEN + 2 /\ 0 \in 0 .. 0 /\ 0 <= RcvBuf
  BY SizesAssumption DEF Cells
<1>4. Types
  <2>1. queue \in Seq(Nat) /\ sent \in Seq(Datagrams) /\ printed \in Seq([id : Nat, uevent : [Keys -> Nat]])
    BY <1>1
  <2>2. uevent \in [Keys -> 0 .. Len(sent)]
    BY <1>1, <1>2, <1>3 DEF NoEvent
  <2> QED
    BY <1>1, <1>2, <1>3, <2>1, <2>2 DEF Types, TypeOK
<1>5. Buffer /\ Younger /\ PrintedGenuine /\ PrintedInOrder
  BY <1>1, <1>2 DEF Buffer, Younger, PrintedGenuine, PrintedInOrder
<1> QED
  BY <1>4, <1>5 DEF IInv

LEMMA Inductive == IInv /\ [Next]_vars => IInv'
<1> SUFFICES ASSUME IInv, [Next]_vars PROVE IInv'
  OBVIOUS
<1>1. CASE \E d \in Datagrams : Send(d)
  BY <1>1, SendKeeps
<1>2. CASE handle_device_fd
  BY <1>2, ReceiveKeeps, IgnoreKeeps, TerminateKeeps, ParseKeeps, PrintKeeps DEF handle_device_fd
<1>3. CASE UNCHANGED vars
  <2>1. Types' /\ Buffer' /\ UNCHANGED <<queue, overrun, sent, printed>>
    BY <1>3 DEF vars, IInv, Types, TypeOK, Buffer
  <2> QED
    BY <2>1, PrintedFrame
<1> QED
  BY <1>1, <1>2, <1>3 DEF Next

THEOREM Invariant == Spec => []IInv
  BY InitOK, Inductive, PTL DEF Spec

\* The indexes of handle_device_fd and of parse_event stay in the buffer, also
\* for a datagram that was cut.
THEOREM TypeCorrect == Spec => []TypeOK
<1>1. IInv => TypeOK
  BY DEF IInv, Types
<1> QED
  BY <1>1, Invariant, PTL

\* What parse_event prints is the kernel's and comes from one datagram: all that
\* it knows of it, and nothing that an older datagram left in the buffer.
THEOREM EventsAreGenuine == Spec => []PrintedGenuine
<1>1. IInv => PrintedGenuine
  BY DEF IInv
<1> QED
  BY <1>1, Invariant, PTL

\* Events are printed in the order they were sent, each once; until the socket is
\* overrun, those that fit are printed or still in it.
THEOREM EventsInOrder == Spec => []PrintedInOrder
<1>1. IInv => PrintedInOrder
  BY DEF IInv
<1> QED
  BY <1>1, Invariant, PTL
=============================================================================
