--------------------------- MODULE UeventListener ---------------------------
(***************************************************************************)
(* src/udev1.c: the user-space program that prints the kernel's events     *)
(* about devices.  It receives datagrams from a netlink socket into one    *)
(* buffer, drops those that are not the kernel's or too long, and takes    *)
(* the others apart string by string.                                      *)
(*                                                                         *)
(* A string takes one cell of the buffer here, the NUL behind it another.  *)
(* A datagram's strings carry its number, so that what is left of an older *)
(* one in the buffer can be told from it.  The socket is the kernel's: a   *)
(* queue that drops what it has no room for and then reports ENOBUFS.      *)
(***************************************************************************)
EXTENDS Integers, Sequences, SequencesExt

CONSTANTS Datagrams,      \* what is sent: [from, cred, keys]
          UEVENT_MSG_LEN,
          RcvBuf,         \* datagrams that the socket's buffer takes
          MaxSent         \* bound: datagrams

ASSUME SizesAssumption == UEVENT_MSG_LEN \in Nat /\ RcvBuf \in Nat \ {0} /\ MaxSent \in Nat
ASSUME DatagramsAssumption ==
    Datagrams \subseteq [from : {"kernel", "process"}, cred : {"none", "root", "user"},
                         keys : Seq(STRING) \ {<<>>}]

VARIABLES queue,    \* the socket's buffer
          overrun,  \* has it dropped something since the last recvmsg?
          at,       \* where the listener is
          msg, n,   \* the buffer of handle_device_fd and what recvmsg returned
          pos,      \* parse_event's msg, as an index
          uevent,   \* key -> the number of the datagram it was taken from
          sent,     \* history: the datagrams sent
          printed   \* history: the events printed, with the datagram's number

vars == <<queue, overrun, at, msg, n, pos, uevent, sent, printed>>

NUL == [key |-> "NUL", id |-> 0]
Cells == 0 .. UEVENT_MSG_LEN + 1
Keys == {"ACTION", "DEVPATH", "SUBSYSTEM", "FIRMWARE", "MAJOR", "MINOR"}
NoEvent == [k \in Keys |-> 0]

\* The strings of datagram d with number id, each with its NUL.
Text(d, id) == [c \in 1 .. 2 * Len(d.keys) |->
                  IF c % 2 = 0 THEN NUL ELSE [key |-> d.keys[(c + 1) \div 2], id |-> id]]

Genuine(d) == d.from = "kernel" /\ d.cred = "root"
Fits(d) == 2 * Len(d.keys) < UEVENT_MSG_LEN

TypeOK == /\ \A q \in DOMAIN queue : queue[q] \in 1 .. Len(sent)
          /\ Len(queue) <= RcvBuf
          /\ overrun \in BOOLEAN
          /\ at \in {"recv", "check", "parse", "ended"}
          /\ DOMAIN msg = Cells
          /\ n \in 0 .. UEVENT_MSG_LEN + 2
          /\ pos \in Cells
          /\ uevent \in [Keys -> 0 .. Len(sent)]

\* The buffer is not initialised: the stack holds other text.
Init == /\ queue = <<>> /\ overrun = FALSE
        /\ at = "recv"
        /\ msg = [c \in Cells |-> [key |-> "ACTION", id |-> 0]]
        /\ n = 0 /\ pos = 0
        /\ uevent = NoEvent
        /\ sent = <<>> /\ printed = <<>>

\* Somebody multicasts to the socket.
Send(d) == /\ Len(sent) < MaxSent /\ at # "ended"
           /\ sent' = Append(sent, d)
           /\ IF Len(queue) < RcvBuf
              THEN queue' = Append(queue, Len(sent) + 1) /\ UNCHANGED overrun
              ELSE overrun' = TRUE /\ UNCHANGED queue
           /\ UNCHANGED <<at, msg, n, pos, uevent, printed>>

\* recvmsg: a datagram that is longer than the buffer is cut.  The number of
\* the datagram stays at the queue's head until the listener is through.
recvmsg ==
    /\ at = "recv" /\ ~overrun /\ queue # <<>>
    /\ LET text == Text(sent[Head(queue)], Head(queue))
           len == IF Len(text) > UEVENT_MSG_LEN + 2 THEN UEVENT_MSG_LEN + 2 ELSE Len(text)
       IN  /\ n' = len
           /\ msg' = [c \in Cells |-> IF c < len THEN text[c + 1] ELSE msg[c]]
    /\ at' = "check"
    /\ UNCHANGED <<queue, overrun, pos, uevent, sent, printed>>

\* Any error, also the one that tells of dropped datagrams, ends the loop and
\* with it the program.
RecvFails == /\ at = "recv" /\ overrun
             /\ at' = "ended"
             /\ UNCHANGED <<queue, overrun, msg, n, pos, uevent, sent, printed>>

Continue == /\ at' = "recv"
            /\ queue' = Tail(queue)

\* Mutant of Ignore: break where the code says continue.
IgnoreBreaks == /\ at = "check"
                /\ \/ sent[Head(queue)].from # "kernel"
                   \/ sent[Head(queue)].cred # "root"
                   \/ n >= UEVENT_MSG_LEN
                /\ at' = "ended"
                /\ UNCHANGED <<queue, overrun, msg, n, pos, uevent, sent, printed>>

\* The tests of handle_device_fd that go on with the next datagram.
Ignore == /\ at = "check"
          /\ \/ sent[Head(queue)].from # "kernel"
             \/ sent[Head(queue)].cred # "root"
             \/ n >= UEVENT_MSG_LEN
          /\ Continue
          /\ UNCHANGED <<overrun, msg, n, pos, uevent, sent, printed>>

\* Mutant of Terminate: the sender is not looked at.
TerminateAny == /\ at = "check"
                /\ n < UEVENT_MSG_LEN
                /\ msg' = [msg EXCEPT ![n] = NUL, ![n + 1] = NUL]
                /\ uevent' = NoEvent
                /\ pos' = 0
                /\ at' = "parse"
                /\ UNCHANGED <<queue, overrun, n, sent, printed>>

\* Two NULs behind the text, and parse_event begins.
Terminate == /\ at = "check"
             /\ sent[Head(queue)].from = "kernel" /\ sent[Head(queue)].cred = "root"
             /\ n < UEVENT_MSG_LEN
             /\ msg' = [msg EXCEPT ![n] = NUL, ![n + 1] = NUL]
             /\ uevent' = NoEvent
             /\ pos' = 0
             /\ at' = "parse"
             /\ UNCHANGED <<queue, overrun, n, sent, printed>>

\* The place after the next NUL.
AfterNul(p) == 1 + CHOOSE c \in Cells : /\ c >= p /\ msg[c] = NUL
                                        /\ \A b \in p .. c - 1 : msg[b] # NUL

\* One iteration of the loop of parse_event; SEQNUM and the string that the
\* kernel begins with are passed over.
ParseString == /\ at = "parse" /\ msg[pos] # NUL
               /\ uevent' = IF msg[pos].key \in Keys
                            THEN [uevent EXCEPT ![msg[pos].key] = msg[pos].id] ELSE uevent
               /\ pos' = AfterNul(pos)
               /\ UNCHANGED <<queue, overrun, at, msg, n, sent, printed>>

\* Mutant of PrintEvent: an event without an action is not printed.
PrintActions == /\ at = "parse" /\ msg[pos] = NUL
                /\ printed' = IF uevent["ACTION"] = 0 THEN printed
                              ELSE Append(printed, [id |-> Head(queue), uevent |-> uevent])
                /\ Continue
                /\ UNCHANGED <<overrun, msg, n, pos, uevent, sent>>

PrintEvent == /\ at = "parse" /\ msg[pos] = NUL
              /\ printed' = Append(printed, [id |-> Head(queue), uevent |-> uevent])
              /\ Continue
              /\ UNCHANGED <<overrun, msg, n, pos, uevent, sent>>

handle_device_fd == recvmsg \/ RecvFails \/ Ignore \/ Terminate \/ ParseString \/ PrintEvent

Next == (\E d \in Datagrams : Send(d)) \/ handle_device_fd

\* The listener runs on while there is something to receive.
Spec == Init /\ [][Next]_vars /\ WF_vars(handle_device_fd)

-----------------------------------------------------------------------------

Owed(id) == id \in DOMAIN sent /\ Genuine(sent[id]) /\ Fits(sent[id])
IsPrinted(id) == \E p \in DOMAIN printed : printed[p].id = id

\* What is printed of an event comes from its own datagram, all that parse_event
\* knows of it and nothing that was left in the buffer; and only the kernel's
\* datagrams are printed.
PrintedGenuine ==
    \A p \in DOMAIN printed :
      LET d == sent[printed[p].id]
      IN  /\ Genuine(d) /\ Fits(d)
          /\ printed[p].uevent = [k \in Keys |-> IF \E j \in DOMAIN d.keys : d.keys[j] = k
                                                 THEN printed[p].id ELSE 0]

\* Events are printed in the order they were sent, each once; of those that
\* fit, only the ones that the socket dropped or still holds are missing.
PrintedInOrder ==
    /\ \A p, q \in DOMAIN printed : p < q => printed[p].id < printed[q].id
    /\ ~overrun =>
         \A id \in DOMAIN sent :
           Owed(id) => IsPrinted(id) \/ \E q \in DOMAIN queue : queue[q] = id

\* A genuine event that fits is printed in the end, unless the program has
\* ended because the socket was overrun.
EventuallyPrinted ==
    \A id \in 1 .. MaxSent : Owed(id) ~> ((at = "ended" /\ overrun) \/ IsPrinted(id))
=============================================================================
