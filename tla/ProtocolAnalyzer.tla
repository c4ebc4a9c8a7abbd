--------------------------- MODULE ProtocolAnalyzer ---------------------------
(***************************************************************************)
(* One protocol analyzer of driver/libproto_analyzer/protocol_analyzer.c:  *)
(* a private copy of a message format whose byte positions, lengths and    *)
(* flags change while messages are parsed and generated.                   *)
(*                                                                         *)
(* Every iteration of the loops of pa_parse_protocol_data and              *)
(* pa_generate_protocol_data is a step.  An analyzer belongs to the one    *)
(* thread that created it.                                                 *)
(*                                                                         *)
(* A message is written by a peer that knows the format: the value of each *)
(* field, one after the other, the fields of variable length as long as    *)
(* the message says.  Its bytes are a parameter.                           *)
(***************************************************************************)
EXTENDS Integers, Sequences, FiniteSets

CONSTANTS Formats,         \* protocol number -> sequence of fields
          NoIndex,         \* vlenth_index of a field of fixed length
          LongNames,       \* names not shorter than the hash table's key_size
          Lens,            \* the lengths a message gives its variable fields
          Octet(_, _, _),  \* the k-th byte of field i of a message; two
                           \* consecutive messages differ in the last argument
          MaxProtoDataLen, \* size of pa->protocol_data
          Reused,          \* protocols whose analyzers serve several messages
          SetLongNames     \* do callers also set the fields with long names?

ASSUME FormatsAssumption ==
    \A p \in DOMAIN Formats :
      Formats[p] \in Seq([name : STRING, pos : 0 .. 255, len : 0 .. 255,
                          index : STRING]) \ {<<>>}
ASSUME IndexAssumption ==
    \A p \in DOMAIN Formats : \A i \in DOMAIN Formats[p] :
      Formats[p][i].index \in {NoIndex} \cup {Formats[p][j].name : j \in DOMAIN Formats[p]}
ASSUME NoneAssumption == "none" \notin DOMAIN Formats
ASSUME OctetAssumption ==
    \A p \in DOMAIN Formats :
      \A i \in DOMAIN Formats[p], k \in 1 .. 255, t \in {0, 1} : Octet(i, k, t) \in 0 .. 255
ASSUME SizesAssumption == /\ MaxProtoDataLen \in Nat
                          /\ Lens \subseteq 0 .. 255
                          /\ Reused \subseteq DOMAIN Formats
                          /\ SetLongNames \in BOOLEAN

VARIABLES proto,    \* pa->protocol_num, or "none" when there is no analyzer
          fields,   \* pa->pa_list_head_p: the analyzer's copy of the format
          data,     \* pa->protocol_data
          datalen,  \* pa->protocol_data_len
          loop,     \* the loop in progress and its position in the list
          stage,    \* how far the caller is with the current message
          want,     \* history: the value of each field of the current message
          tick,     \* history: tells two consecutive messages apart
          crash     \* "no", or what went wrong

vars == <<proto, fields, data, datalen, loop, stage, want, tick, crash>>

Stages == {"new", "received", "set", "parsed", "generated", "reset"}

Format == Formats[proto]

NoLoop == [op |-> "idle", at |-> 0]

(***************************************************************************)
(* Bytes and numbers: pa_get_protocol_byte_data and its inverse.  Numbers  *)
(* have at most 4 bytes, most significant byte first.                      *)
(***************************************************************************)

\* 256^k for the byte that has k others to its right.
Weight == [k \in 0 .. 3 |-> CASE k = 0 -> 1 [] k = 1 -> 256
                              [] k = 2 -> 65536 [] k = 3 -> 16777216]

pa_get_protocol_byte_data(bytes) ==
    LET Shifted(i) == IF i <= Len(bytes) THEN bytes[i] * Weight[Len(bytes) - i] ELSE 0
    IN  Shifted(1) + Shifted(2) + Shifted(3) + Shifted(4)

pa_set_protocol_byte_data(n, len) ==
    [i \in 1 .. len |-> (n \div Weight[len - i]) % 256]

\* A value of more than 4 bytes lives in a buffer, a shorter one in `data'.
InBuffer(len) == len > 4

(***************************************************************************)
(* Messages: the value of every field, as a sequence of bytes              *)
(***************************************************************************)

\* The fields whose value is the length of another one.
LengthFields(format) == {format[i].index : i \in DOMAIN format} \ {NoIndex}

\* The length of field i in a message with the given lengths.
LenOf(format, lens, i) == IF format[i].index = NoIndex THEN format[i].len
                          ELSE lens[format[i].index]

\* The message with the given lengths; t tells it from its predecessor.
Message(format, lens, t) ==
    [i \in DOMAIN format |->
       IF format[i].name \in LengthFields(format) THEN <<lens[format[i].name]>>
       ELSE [k \in 1 .. LenOf(format, lens, i) |-> Octet(i, k, t)]]

\* What the fields of variable length add to the length of a message.
Added(format, values) ==
    [i \in DOMAIN format |-> IF format[i].index = NoIndex THEN 0 ELSE Len(values[i])]

\* The sums of the first 0, 1, 2, ... numbers of s.
Sums(s) == LET sum[i \in 0 .. Len(s)] == IF i = 0 THEN 0 ELSE sum[i - 1] + s[i]
           IN  sum

\* Where the value of field i lies: behind everything that varies before it.
Start(format, values, i) == format[i].pos + Sums(Added(format, values))[i - 1]

\* The bytes of a message laid over what the buffer held before.
Encoded(format, values, old) ==
    LET start == [i \in DOMAIN format |-> Start(format, values, i)]
        Here(p) == {i \in DOMAIN format : /\ p >= start[i]
                                          /\ p < start[i] + Len(values[i])}
    IN  [p \in DOMAIN old |->
           IF Here(p) = {} THEN old[p]
           ELSE LET i == CHOOSE i \in Here(p) : TRUE
                IN  values[i][p - start[i] + 1]]

TotalLen(format, values) ==
    Start(format, values, Len(format)) + Len(values[Len(format)])

(***************************************************************************)
(* pa_create_protocol_analyzer and pa_init_protocol_analyzer: the format is *)
(* copied and indexed by name.  The callers only use registered numbers.   *)
(***************************************************************************)

pa_copy_protocol_format(format) ==
    [i \in DOMAIN format |->
       [name |-> format[i].name, pos |-> format[i].pos, len |-> format[i].len,
        index |-> format[i].index, vlenth_flag |-> format[i].index # NoIndex,
        vlenth_flag_bak |-> format[i].index # NoIndex, data |-> 0, buf |-> <<>>]]

Init == /\ proto = "none"
        /\ fields = <<>>
        /\ data = [p \in 0 .. MaxProtoDataLen - 1 |-> 0]
        /\ datalen = 0
        /\ loop = NoLoop
        /\ stage = "new"
        /\ want = <<>>
        /\ tick = 0
        /\ crash = "no"

pa_init_protocol_analyzer(p) ==
    /\ proto = "none"
    /\ proto' = p
    /\ fields' = pa_copy_protocol_format(Formats[p])
    /\ data' = [b \in 0 .. MaxProtoDataLen - 1 |-> 0]
    /\ datalen' = 0
    /\ stage' = "new"
    /\ UNCHANGED <<loop, want, tick, crash>>

pa_destroy_protocol_analyzer ==
    /\ proto # "none" /\ crash = "no" /\ loop = NoLoop
    /\ proto' = "none"
    /\ fields' = <<>>
    /\ data' = [b \in 0 .. MaxProtoDataLen - 1 |-> 0]
    /\ datalen' = 0
    /\ stage' = "new"
    /\ want' = <<>>
    /\ UNCHANGED <<loop, tick, crash>>

(***************************************************************************)
(* The caller's side                                                       *)
(***************************************************************************)

\* The analyzer takes another message: it is new, or it was reset and is of
\* a protocol for which the caller goes on with the same analyzer.
Ready == /\ proto # "none" /\ crash = "no" /\ loop = NoLoop
         /\ stage = "new" \/ (stage = "reset" /\ proto \in Reused)

\* The loops of business.c: copy a received message into protocol_data.
Receive(values) ==
    /\ Ready
    /\ data' = Encoded(Format, values, data)
    /\ datalen' = TotalLen(Format, values)
    /\ want' = values
    /\ tick' = 1 - tick
    /\ stage' = "received"
    /\ UNCHANGED <<proto, fields, loop, crash>>

\* Mutant of pa_set_buf: the buffer never grows.
SetBufNoGrow(buf, bytes) ==
    [i \in DOMAIN buf |-> IF i <= Len(bytes) THEN bytes[i] ELSE buf[i]]

\* pa_set_buf: a buffer that is large enough keeps its length.
pa_set_buf(buf, bytes) ==
    IF Len(bytes) <= Len(buf) THEN bytes \o SubSeq(buf, Len(bytes) + 1, Len(buf))
    ELSE bytes

\* pa_set_value, pa_set_variable_length_value or pa_set_buf on a field, by the
\* length of its value.
SetField(field, bytes) ==
    IF InBuffer(Len(bytes)) THEN [field EXCEPT !.buf = pa_set_buf(@, bytes)]
    ELSE [field EXCEPT !.data = pa_get_protocol_byte_data(bytes)]

\* The fields that pa_find_key may return for the name of field i; 0 is NULL.
\* A name that is too long for the key is never copied into the key string,
\* and the search runs with whatever that string holds.
pa_find_key(i) == IF fields[i].name \in LongNames THEN DOMAIN fields \cup {0}
                  ELSE {i}

Long == {i \in DOMAIN fields : fields[i].name \in LongNames}

\* A caller builds a message field by field in list order, as the test
\* programs do, with or without the fields that have long names.  The value of
\* field i goes to the field hit[i] that pa_find_key finds; pa_set_value
\* follows a NULL pointer when there is none.
SetValues(values) ==
    LET named == IF SetLongNames THEN Long ELSE {}
    IN
    /\ Ready
    /\ \E hit \in [named -> UNION {pa_find_key(i) : i \in named}] :
         LET Misled(k) == {i \in named : hit[i] = k /\ k <= i}
         IN
         /\ fields' = [k \in DOMAIN fields |->
                         IF Misled(k) # {}
                         THEN SetField(fields[k], values[CHOOSE i \in Misled(k) : TRUE])
                         ELSE IF k \in Long THEN fields[k]
                         ELSE SetField(fields[k], values[k])]
         /\ crash' = IF \E i \in named : hit[i] = 0 THEN "null" ELSE "no"
    /\ want' = [i \in DOMAIN fields |->
                  IF i \in Long \ named
                  THEN pa_set_protocol_byte_data(fields[i].data, fields[i].len)
                  ELSE values[i]]
    /\ tick' = 1 - tick
    /\ stage' = "set"
    /\ UNCHANGED <<proto, data, datalen, loop>>

\* pa_reset_vlen_flag
pa_reset_vlen_flag ==
    /\ proto # "none" /\ crash = "no" /\ loop = NoLoop
    /\ stage \in {"parsed", "generated"}
    /\ fields' = [i \in DOMAIN fields |->
                    [fields[i] EXCEPT !.vlenth_flag = @ \/ fields[i].vlenth_flag_bak]]
    /\ stage' = "reset"
    /\ UNCHANGED <<proto, data, datalen, loop, want, tick, crash>>

(***************************************************************************)
(* The two loops                                                           *)
(***************************************************************************)

\* Mutant of pa_recompute_byte_pos: the variable field itself moves too.
RecomputeMovesSelf(fs, i) ==
    LET len == fs[CHOOSE j \in DOMAIN fs : fs[j].name = fs[i].index].data
    IN  [j \in DOMAIN fs |->
           IF j = i THEN [fs[j] EXCEPT !.len = len % 65536, !.vlenth_flag = FALSE,
                                       !.pos = (@ + len) % 256]
           ELSE IF j > i THEN [fs[j] EXCEPT !.pos = (@ + len) % 256]
           ELSE fs[j]]

\* pa_recompute_byte_pos at field i: its length is the value of its length
\* field (uint16_t), and every field behind it moves by as many bytes (uint8_t).
pa_recompute_byte_pos(fs, i) ==
    LET len == fs[CHOOSE j \in DOMAIN fs : fs[j].name = fs[i].index].data
    IN  [j \in DOMAIN fs |->
           IF j = i THEN [fs[j] EXCEPT !.len = len % 65536, !.vlenth_flag = FALSE]
           ELSE IF j > i THEN [fs[j] EXCEPT !.pos = (@ + len) % 256]
           ELSE fs[j]]

\* What both loops do first with the field they are at.
Settled(i) == IF fields[i].vlenth_flag THEN pa_recompute_byte_pos(fields, i)
              ELSE fields

\* Mutant of Advance: the loop leaves the list one step too late.
AdvanceLate(done) == /\ loop' = IF loop.at > Len(Format) THEN NoLoop
                                ELSE [loop EXCEPT !.at = @ + 1]
                     /\ stage' = IF loop.at > Len(Format) THEN done ELSE stage

Advance(done) == /\ loop' = IF loop.at = Len(Format) THEN NoLoop
                             ELSE [loop EXCEPT !.at = @ + 1]
                 /\ stage' = IF loop.at = Len(Format) THEN done ELSE stage

\* The loop would touch bytes beyond the array.
Overrun(f) == f.pos + f.len > MaxProtoDataLen

Abort(how) == crash' = how /\ UNCHANGED <<fields, data, datalen, loop, stage>>

\* Messages are parsed as they come in, and after they were generated.
ParseStart == /\ proto # "none" /\ crash = "no" /\ loop = NoLoop
              /\ stage \in {"received", "generated"}
              /\ datalen # 0
              /\ loop' = [op |-> "parse", at |-> 1]
              /\ UNCHANGED <<proto, fields, data, datalen, stage, want, tick, crash>>

\* Mutant of pa_parse_protocol_data: the variable length is not looked up.
ParseUnsettled ==
    LET f == fields[loop.at]
        bytes == [k \in 1 .. f.len |-> data[f.pos + k - 1]]
    IN
    /\ loop.op = "parse" /\ crash = "no"
    /\ fields' = [fields EXCEPT ![loop.at] =
                    IF InBuffer(f.len) THEN [f EXCEPT !.buf = bytes]
                    ELSE [f EXCEPT !.data = pa_get_protocol_byte_data(bytes)]]
    /\ Advance("parsed")
    /\ UNCHANGED <<proto, data, datalen, want, tick, crash>>

pa_parse_protocol_data ==
    LET fs == Settled(loop.at)
        f == fs[loop.at]
        bytes == [k \in 1 .. f.len |-> data[f.pos + k - 1]]
    IN
    /\ loop.op = "parse" /\ crash = "no"
    /\ IF Overrun(f) THEN Abort("overrun")
       ELSE /\ fields' = [fs EXCEPT ![loop.at] =
                            IF InBuffer(f.len) THEN [f EXCEPT !.buf = bytes]
                            ELSE [f EXCEPT !.data = pa_get_protocol_byte_data(bytes)]]
            /\ Advance("parsed")
            /\ UNCHANGED <<data, datalen, crash>>
    /\ UNCHANGED <<proto, want, tick>>

GenerateStart == /\ proto # "none" /\ crash = "no" /\ loop = NoLoop
                 /\ stage = "set"
                 /\ loop' = [op |-> "generate", at |-> 1]
                 /\ UNCHANGED <<proto, fields, data, datalen, stage, want, tick, crash>>

\* Mutant of pa_generate_protocol_data: the length is the one that was read
\* before pa_recompute_byte_pos.
GenerateOldLen ==
    LET f == fields[loop.at]
        bytes == IF InBuffer(f.len) THEN f.buf
                 ELSE pa_set_protocol_byte_data(f.data, f.len)
    IN
    /\ loop.op = "generate" /\ crash = "no"
    /\ fields' = Settled(loop.at)
    /\ data' = [p \in DOMAIN data |->
                  IF p >= f.pos /\ p < f.pos + f.len
                  THEN bytes[p - f.pos + 1] ELSE data[p]]
    /\ datalen' = f.pos + f.len
    /\ Advance("generated")
    /\ UNCHANGED <<proto, want, tick, crash>>

pa_generate_protocol_data ==
    LET fs == Settled(loop.at)
        f == fs[loop.at]
        bytes == IF InBuffer(f.len) THEN f.buf
                 ELSE pa_set_protocol_byte_data(f.data, f.len)
    IN
    /\ loop.op = "generate" /\ crash = "no"
    /\ IF Overrun(f) \/ Len(bytes) < f.len THEN Abort("overrun")
       ELSE /\ fields' = fs
            /\ data' = [p \in DOMAIN data |->
                          IF p >= f.pos /\ p < f.pos + f.len
                          THEN bytes[p - f.pos + 1] ELSE data[p]]
            /\ datalen' = f.pos + f.len
            /\ Advance("generated")
            /\ UNCHANGED crash
    /\ UNCHANGED <<proto, want, tick>>

\* What a peer may send and a caller may set.  Messages fit into
\* protocol_data: nothing in the code checks it.
Messages == {m \in {Message(Format, lens, tick) :
                      lens \in [LengthFields(Format) -> Lens]} :
               TotalLen(Format, m) <= MaxProtoDataLen}

Next == \/ \E p \in DOMAIN Formats : pa_init_protocol_analyzer(p)
        \/ pa_destroy_protocol_analyzer
        \/ Ready /\ \E values \in Messages : Receive(values) \/ SetValues(values)
        \/ pa_reset_vlen_flag
        \/ ParseStart \/ pa_parse_protocol_data
        \/ GenerateStart \/ pa_generate_protocol_data

Spec == Init /\ [][Next]_vars

-----------------------------------------------------------------------------
(***************************************************************************)
(* Properties                                                              *)
(***************************************************************************)

UInt16 == {n \in Nat : n < 65536}

Field == [name : STRING, pos : 0 .. 255, len : UInt16, index : STRING,
          vlenth_flag : BOOLEAN, vlenth_flag_bak : BOOLEAN,
          data : Nat, buf : Seq(0 .. 255)]

\* The values of all fields of proto_info_list_t and protocol_analyzer_s stay
\* in their types: the analyzer's copy has the fields of its format, in its
\* order, and the loops stay within the list.
TypeOK == /\ proto \in DOMAIN Formats \cup {"none"}
          /\ proto = "none" => fields = <<>> /\ loop = NoLoop
          /\ proto # "none" => DOMAIN fields = DOMAIN Format
          /\ \A i \in DOMAIN fields : /\ fields[i] \in Field
                                     /\ fields[i].name = Format[i].name
                                     /\ fields[i].index = Format[i].index
          /\ data \in [0 .. MaxProtoDataLen - 1 -> 0 .. 255]
          /\ datalen \in 0 .. MaxProtoDataLen
          /\ loop \in [op : {"idle", "parse", "generate"}, at : Nat]
          /\ loop.op = "idle" <=> loop.at = 0
          /\ loop.op # "idle" => loop.at \in DOMAIN fields
          /\ stage \in Stages
          /\ tick \in {0, 1}
          /\ crash \in {"no", "null", "overrun"}

\* The value of a field as its readers take it (process_slot_info and the
\* others of business.c): from `buf' when it is long, from `data' otherwise.
Value(f) == IF InBuffer(f.len) THEN f.buf
            ELSE pa_set_protocol_byte_data(f.data, f.len)

\* Once pa_parse_protocol_data is through with a message, every field holds
\* the value that the message has for it, however long the fields before it
\* are, and whatever messages the same analyzer handled before.
ParseCorrect ==
    stage = "parsed" /\ loop = NoLoop =>
      \A i \in DOMAIN fields : Value(fields[i]) = want[i]

\* Once pa_generate_protocol_data is through, protocol_data holds the values
\* that the caller set one after the other, in the places where a peer that
\* knows the format reads them, and protocol_data_len is the message's length.
GenerateCorrect ==
    stage = "generated" /\ loop = NoLoop =>
      /\ datalen = TotalLen(Format, want)
      /\ data = Encoded(Format, want, data)

\* A message that fits into protocol_data is handled within it: no access of
\* the two loops leaves the array, or a field's buffer, and no look-up fails.
NoOverrun == crash = "no"

\* A format in which nothing follows a field of variable length.
TailOnly(format) == \A i \in DOMAIN format :
                      format[i].index # NoIndex => i = Len(format)

\* A format that is laid out soundly: no two names are the same, a length field
\* is one byte and comes before the field whose length it is, and no field lies
\* over another.  A field whose name is too long to be found is of fixed length
\* and at most 4 bytes, and no length field.
WellLaid(format) ==
    /\ \A i, j \in DOMAIN format : format[i].name = format[j].name => i = j
    /\ \A i \in DOMAIN format : format[i].index # NoIndex =>
         \E j \in 1 .. i - 1 : /\ format[j].name = format[i].index
                              /\ format[j].index = NoIndex /\ format[j].len = 1
    /\ \A i \in 1 .. Len(format) - 1 :
         format[i].pos + (IF format[i].index = NoIndex THEN format[i].len ELSE 0)
           <= format[i + 1].pos
    /\ \A i \in DOMAIN format : format[i].name \in LongNames =>
         /\ format[i].index = NoIndex /\ format[i].len <= 4
         /\ format[i].name \notin LengthFields(format)

\* In a format that is TailOnly no field ever moves, so an analyzer can be used again
\* after pa_reset_vlen_flag, which restores the flags and no position: do_command_0x3010
\* relies on it for every part of a message but the first.
PositionsKept ==
    proto # "none" /\ TailOnly(Format) =>
      \A i \in DOMAIN fields : fields[i].pos = Format[i].pos
=============================================================================
