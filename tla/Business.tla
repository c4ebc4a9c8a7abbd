------------------------------- MODULE Business -------------------------------
(***************************************************************************)
(* driver/business/business.c: what process_protocol does with a message   *)
(* that device_write passes on.  Message 3008 is handled whole and becomes *)
(* a task; 3010 and 301b are containers, whose parts have to be found by   *)
(* the lengths they carry and are handed to one or two analyzers one after *)
(* the other.  A step is one iteration of the loop over the parts.         *)
(*                                                                         *)
(* A call works on its own stack and its own analyzers.  What an analyzer  *)
(* makes of a part is the subject of ProtocolAnalyzer, what becomes of the *)
(* task that of TaskAdmin, which has the choice of slot type and admin too.*)
(*                                                                         *)
(* A message is [cmd, data, size, parts]: its bytes, and where user space  *)
(* has put the parts into them, each [at, len, emb].                       *)
(***************************************************************************)
EXTENDS Integers, Sequences

CONSTANT Messages \* what user space may write

Commands == {"3008", "3010", "301b", "other"}

\* The container's head: the count of the parts is its last byte.
HeadLen(cmd) == IF cmd = "301b" THEN 5 ELSE 6

\* As user space composes it: the parts lie one behind the other.  In 3010 the
\* third byte of a part counts what follows it; in 301b the first one counts the
\* whole part and the second is emb_flag.  A part fits into protocol_data (100
\* bytes) behind the two bytes that number its protocol, and all of the message
\* into the 1024 bytes of device_write: nothing in the code checks it.
WellFormed(m) ==
    /\ m.cmd \in Commands /\ m.size \in 2 .. 1024
    /\ m.data \in [0 .. m.size - 1 -> 0 .. 255]
    /\ m.parts \in Seq([at : Nat, len : 1 .. 100, emb : 0 .. 255])
    /\ m.cmd = "other" => m.parts = <<>>
    /\ m.cmd = "3008" => Len(m.parts) = 1 /\ m.parts[1].at = 0 /\ m.parts[1].len = m.size
    /\ m.cmd \in {"3010", "301b"} =>
         /\ m.size >= HeadLen(m.cmd)
         /\ m.data[HeadLen(m.cmd) - 1] = Len(m.parts)
         /\ \A p \in DOMAIN m.parts :
              LET part == m.parts[p] IN
              /\ part.at = IF p = 1 THEN HeadLen(m.cmd)
                           ELSE m.parts[p - 1].at + m.parts[p - 1].len
              /\ part.at + part.len <= m.size /\ part.len <= 98
              /\ m.cmd = "3010" => part.len >= 3 /\ m.data[part.at + 2] = part.len - 3
              /\ m.cmd = "301b" => part.len >= 2 /\ m.data[part.at] = part.len
                                   /\ m.data[part.at + 1] = part.emb

ASSUME MessagesAssumption == \A m \in Messages : WellFormed(m)

VARIABLES message,  \* the argument of the call, or NoMessage
          os, nth, count, \* the locals os, i and count of the loop
          pdata,    \* protocol_data of the call's analyzers
          handled,  \* history: what they have parsed
          far       \* history: the last byte of data that was read

busVars == <<message, os, nth, count, pdata, handled, far>>

NoMessage == [cmd |-> "none", data |-> <<>>, size |-> 0, parts |-> <<>>]
NewAnalyzer == [k \in 0 .. 99 |-> 0]

\* The two bytes that number the protocol of a part.
Number(a) == CASE a = "3054" -> <<48, 84>> [] a = "3050" -> <<48, 80>>
               [] a = "3052" -> <<48, 82>> [] OTHER -> <<>>

\* data[k]; what lies behind the message is not the message's.
Read(k) == IF k \in DOMAIN message.data THEN message.data[k] ELSE 0
Reads(k) == far' = IF k > far THEN k ELSE far

\* memcpy of the n bytes from data[from] on behind the protocol's number; what
\* protocol_data holds behind the copy stays.  Then protocol_data_len bytes are
\* parsed.
Parse(a, from, n) ==
    LET len == Len(Number(a)) + n
        Copied(k) == IF k <= Len(Number(a)) THEN Number(a)[k]
                     ELSE Read(from + k - Len(Number(a)) - 1)
    IN  /\ pdata' = [pdata EXCEPT ![a] =
                       [k \in DOMAIN @ |-> IF k < len THEN Copied(k + 1) ELSE @[k]]]
        /\ handled' = Append(handled, [pa |-> a, bytes |-> [k \in 1 .. len |-> pdata'[a][k - 1]]])

BusInit == /\ message = NoMessage
           /\ os = 0 /\ nth = 0 /\ count = 0
           /\ pdata = <<>>
           /\ handled = <<>>
           /\ far = -1

\* The switch.  New analyzers are made, and os is behind the container's head.
\* 3008 has no loop; its only part is the whole message.
process_protocol(m) ==
    /\ message = NoMessage
    /\ message' = m
    /\ pdata' = [a \in CASE m.cmd = "3008" -> {"3008"} [] m.cmd = "3010" -> {"3054"}
                         [] m.cmd = "301b" -> {"3050", "3052"} [] OTHER -> {}
                   |-> NewAnalyzer]
    /\ os' = IF m.cmd \in {"3010", "301b"} THEN HeadLen(m.cmd) ELSE 0
    /\ count' = CASE m.cmd = "3008" -> 1 [] m.cmd = "other" -> 0
                  [] OTHER -> m.data[HeadLen(m.cmd) - 1]
    /\ far' = os' - 1
    /\ UNCHANGED <<nth, handled>>

\* The next iteration; i is a uint8_t, os a uint16_t.
NextPart(n) == /\ nth' = (nth + 1) % 256
             /\ os' = (os + n) % 65536
             /\ UNCHANGED <<message, count>>

\* Message 3008 is copied as it is and parsed.
do_command_0x3008 ==
    /\ message.cmd = "3008" /\ nth < count
    /\ Parse("3008", 0, message.size)
    /\ Reads(message.size - 1)
    /\ NextPart(0)

\* Mutant of do_command_0x3010: a part is as long as the data it counts.
AdvanceByData ==
    LET peri_data_len == Read(os + 2)
    IN  /\ message.cmd = "3010" /\ nth < count
        /\ Parse("3054", os, peri_data_len + 3)
        /\ Reads(os + peri_data_len + 2)
        /\ NextPart(peri_data_len)

do_command_0x3010 ==
    LET peri_data_len == Read(os + 2)
    IN  /\ message.cmd = "3010" /\ nth < count
        /\ Parse("3054", os, peri_data_len + 3)
        /\ Reads(os + peri_data_len + 2)
        /\ NextPart(peri_data_len + 3)

\* Mutant of do_command_0x301b: the next part's length is read before the count
\* is looked at.
ReadNextLength ==
    LET pdu_len == Read(os)
    IN  /\ message.cmd = "301b" /\ nth < count
        /\ Parse(IF Read(os + 1) = 0 THEN "3050" ELSE "3052", os, pdu_len)
        /\ Reads(os + pdu_len)
        /\ NextPart(pdu_len)

\* The flag chooses between the two analyzers.
do_command_0x301b ==
    LET pdu_len == Read(os)
    IN  /\ message.cmd = "301b" /\ nth < count
        /\ Parse(IF Read(os + 1) = 0 THEN "3050" ELSE "3052", os, pdu_len)
        /\ Reads(os + pdu_len - 1)
        /\ NextPart(pdu_len)

\* The call is over.
BusReturn == /\ message # NoMessage /\ nth >= count
           /\ message' = NoMessage
           /\ os' = 0 /\ nth' = 0 /\ count' = 0
           /\ pdata' = <<>> /\ handled' = <<>> /\ far' = -1

BusNext == \/ message = NoMessage /\ \E m \in Messages : process_protocol(m)
           \/ do_command_0x3008 \/ do_command_0x3010 \/ do_command_0x301b
           \/ BusReturn

BusSpec == BusInit /\ [][BusNext]_busVars

(***************************************************************************)
(* Properties                                                              *)
(***************************************************************************)

\* The bytes that part p gives its analyzer, and the analyzer it is for.
ForAnalyzer(m, p) ==
    LET part == m.parts[p]
        a == CASE m.cmd = "3008" -> "3008" [] m.cmd = "3010" -> "3054"
               [] OTHER -> IF part.emb = 0 THEN "3050" ELSE "3052"
    IN  [pa |-> a,
         bytes |-> Number(a) \o [k \in 1 .. part.len |-> m.data[part.at + k - 1]]]

\* A call parses the parts of its message one by one in their order, each whole
\* and without a byte of another or of what was in the buffer before, with the
\* analyzer of its kind, and leaves none out.
PartsInOrder ==
    nth >= count => handled = [p \in DOMAIN message.parts |-> ForAnalyzer(message, p)]

\* Whatever lengths the parts of a well-formed message have, and however many
\* there are, no byte behind the message's end is read from the stack of
\* device_write.
WithinMessage == far < message.size
=============================================================================
