------------------------------ MODULE BitFields ------------------------------
(***************************************************************************)
(* Fields of len_unit 1 in driver/libproto_analyzer/protocol_analyzer.c:   *)
(* how pa_generate_protocol_data puts a value of len bits into the message *)
(* and how pa_parse_protocol_data takes it out, byte by byte.  A field     *)
(* [pos, bit, len] begins with its highest bit at bit `bit' of byte `pos'  *)
(* (7 is the highest) and goes on at bit 7 of the next byte.               *)
(*                                                                         *)
(* A byte and a value are the sets of the positions of their 1 bits.  A    *)
(* step is one iteration of the loop over the bytes of a field.            *)
(***************************************************************************)
EXTENDS Integers, Sequences

CONSTANTS Layouts,     \* the formats: sequences of fields
          Given(_),    \* the values that may be set for the fields of a format, of any width
          OldBytes(_), \* what protocol_data may hold before
          BitBytes     \* size of protocol_data

BitsOfByte == 0 .. 7

\* A peer's view: a field ends within protocol_data.  data is a uint32_t:
\* pa_set_value does not look whether a value fits into its field.
ASSUME LayoutsAssumption ==
    \A fs \in Layouts :
      /\ fs \in Seq([pos : Nat, bit : BitsOfByte, len : 1 .. 32]) \ {<<>>}
      /\ \A n \in DOMAIN fs : 8 * fs[n].pos + (7 - fs[n].bit) + fs[n].len <= 8 * BitBytes
ASSUME GivenAssumption ==
    \A fs \in Layouts : \A values \in Given(fs) : \A n \in DOMAIN fs :
      values[n] \in SUBSET (0 .. 31)
ASSUME BytesAssumption ==
    /\ BitBytes \in Nat
    /\ \A fs \in Layouts : OldBytes(fs) \subseteq [0 .. BitBytes - 1 -> SUBSET BitsOfByte]

VARIABLES layout, \* the format of the analyzer, or <<>>
          given,  \* the values that were set
          dpold,  \* history: protocol_data before it was generated
          dp,     \* protocol_data
          read,   \* the data of each field that was parsed
          phase,  \* which function runs or has run
          chunk   \* the field it is at, and the loop's i, t_len and t_pos

bitVars == <<layout, given, dpold, dp, read, phase, chunk>>

(***************************************************************************)
(* One byte                                                                *)
(***************************************************************************)

Shift(bits, n) == {b + n : b \in bits}

\* pow(2, len) is 2^(len+1): the masks keep bit len too.
pow(len) == len + 1

\* The result is a uint8_t.
get_bit_data(bits, bit_pos, len) ==
    Shift({b \in bits : b >= bit_pos /\ b - bit_pos < pow(len)}, -bit_pos) \cap BitsOfByte

\* Mutant of set_bit_data: the byte is written, not added to.
SetOverwrites(byte, bits, bit_pos, len) ==
    Shift({b \in bits : b < pow(len)}, bit_pos) \cap BitsOfByte

set_bit_data(byte, bits, bit_pos, len) ==
    byte \cup (Shift({b \in bits : b < pow(len)}, bit_pos) \cap BitsOfByte)

(***************************************************************************)
(* The loops                                                               *)
(***************************************************************************)

At(fs, n) == [field |-> n, i |-> 0, t_len |-> fs[n].len, t_pos |-> fs[n].bit]
NoChunk == [field |-> 0, i |-> 0, t_len |-> 0, t_pos |-> 0]

\* t_len_get: how much of the t_len bits that are left lies in one byte, from
\* t_pos down.
ChunkLen(c) == LET room == (c.t_pos % 8) + 1
               IN  IF c.t_len > room THEN room ELSE c.t_len

\* The loop goes on in the next byte at t_pos, or the list with the next field.
NextChunk(t_pos, done) ==
    LET left == chunk.t_len - ChunkLen(chunk) IN
    \/ /\ left > 0
       /\ chunk' = [chunk EXCEPT !.i = @ + 1, !.t_len = left, !.t_pos = t_pos]
       /\ UNCHANGED phase
    \/ /\ left = 0 /\ chunk.field < Len(layout)
       /\ chunk' = At(layout, chunk.field + 1)
       /\ UNCHANGED phase
    \/ /\ left = 0 /\ chunk.field = Len(layout)
       /\ chunk' = NoChunk
       /\ phase' = done

\* t_pos_set is a signed char that is set to 7 when it falls below 0.
pa_set_protocol_bit_data ==
    LET get == ChunkLen(chunk)
        part == get_bit_data(given[chunk.field], chunk.t_len - get, get)
        t_pos == chunk.t_pos - get
    IN  /\ phase = "generate"
        /\ dp' = [dp EXCEPT ![layout[chunk.field].pos + chunk.i] =
                    set_bit_data(@, part, (chunk.t_pos % 8) + 1 - get, get)]
        /\ NextChunk(IF t_pos < 0 THEN 7 ELSE t_pos, "generated")
        /\ UNCHANGED <<layout, given, dpold, read>>

\* Mutant of pa_get_protocol_bit_data: the low bits of the value come first.
GetLowFirst ==
    LET f == layout[chunk.field]
        get == ChunkLen(chunk)
        part == get_bit_data(dp[f.pos + chunk.i], (chunk.t_pos % 8) + 1 - get, get)
    IN  /\ phase = "parse"
        /\ read' = [read EXCEPT ![chunk.field] = @ \cup Shift(part, f.len - chunk.t_len)]
        /\ NextChunk((chunk.t_pos - get) % 256, "parsed")
        /\ UNCHANGED <<layout, given, dpold, dp>>

\* t_pos_get is a uint8_t: it wraps around below 0.  data is a uint32_t.
pa_get_protocol_bit_data ==
    LET get == ChunkLen(chunk)
        part == get_bit_data(dp[layout[chunk.field].pos + chunk.i],
                             (chunk.t_pos % 8) + 1 - get, get)
    IN  /\ phase = "parse"
        /\ read' = [read EXCEPT ![chunk.field] =
                      @ \cup (Shift(part, chunk.t_len - get) \cap 0 .. 31)]
        /\ NextChunk((chunk.t_pos - get) % 256, "parsed")
        /\ UNCHANGED <<layout, given, dpold, dp>>

(***************************************************************************)
(* The analyzer's user                                                     *)
(***************************************************************************)

BitInit == /\ layout = <<>> /\ given = <<>> /\ read = <<>>
           /\ dpold = [p \in 0 .. BitBytes - 1 |-> {}]
           /\ dp = dpold
           /\ phase = "idle"
           /\ chunk = NoChunk

\* All values are set and pa_generate_protocol_data is called.  The array holds
\* what was there before.
GenerateBits(fs, values, bytes) ==
    /\ phase = "idle"
    /\ layout' = fs /\ given' = values
    /\ dpold' = bytes /\ dp' = bytes
    /\ phase' = "generate" /\ chunk' = At(fs, 1)
    /\ UNCHANGED read

\* pa_parse_protocol_data is called for the message that is in the array.
ParseBits ==
    /\ phase = "generated"
    /\ read' = [n \in DOMAIN layout |-> {}]
    /\ phase' = "parse" /\ chunk' = At(layout, 1)
    /\ UNCHANGED <<layout, given, dpold, dp>>

\* The analyzer goes.
EndBits ==
    /\ phase = "parsed"
    /\ layout' = <<>> /\ given' = <<>> /\ read' = <<>>
    /\ dpold' = [p \in 0 .. BitBytes - 1 |-> {}]
    /\ dp' = dpold'
    /\ phase' = "idle"
    /\ UNCHANGED chunk

BitNext == \/ phase = "idle" /\ \E fs \in Layouts :
                \E values \in Given(fs), bytes \in OldBytes(fs) : GenerateBits(fs, values, bytes)
           \/ pa_set_protocol_bit_data
           \/ ParseBits
           \/ pa_get_protocol_bit_data
           \/ EndBits

BitSpec == BitInit /\ [][BitNext]_bitVars

(***************************************************************************)
(* Properties                                                              *)
(***************************************************************************)

\* The place of bit k of the value of field f: <<byte, bit>>.
Place(f, k) == LET a == 8 * f.pos + (7 - f.bit) + (f.len - 1 - k)
               IN  <<a \div 8, 7 - (a % 8)>>

\* The bits of a value that get into the message: as many as the field has, and
\* the one above, which pow lets through the masks, if the byte has a place for it.
Passed(f) == IF f.bit < 7 THEN 0 .. f.len ELSE 0 .. f.len - 1

\* What the old bytes are when the values have been added to them.
WithBits(bytes, fs, values) ==
    [p \in DOMAIN bytes |->
       bytes[p] \cup {b \in BitsOfByte :
                        \E n \in DOMAIN fs : \E k \in values[n] \cap Passed(fs[n]) :
                          Place(fs[n], k) = <<p, b>>}]

\* The value that a message holds for field f.
Held(bytes, f) == {k \in 0 .. f.len - 1 : Place(f, k)[2] \in bytes[Place(f, k)[1]]}

\* pow lets one bit more through the mask: the one above a field, if that is in
\* the same byte and the value not of 32 bits.
Neighbour(bytes, f) ==
    IF f.bit < 7 /\ f.len < 32 /\ f.bit + 1 \in bytes[f.pos] THEN {f.len} ELSE {}

\* Generating a message puts the low len bits of every value into the bits of
\* its field, however the fields share and cross bytes, and touches no other
\* bit but one: a value that is wider than its field and has bit len set puts
\* that bit into the neighbour above, if it is in the same byte.  All higher
\* bits are cut.  In an analyzer that has generated a message before, the bits
\* are added to the old ones, which nobody clears.
BitsPlaced == phase = "generated" => dp = WithBits(dpold, layout, given)

\* A value stays within its field.  The masks of get_bit_data and set_bit_data,
\* (int) pow(2, len) - 1, are meant for that and are one bit too wide.
NoOtherBit ==
    phase = "generated" =>
      \A p \in DOMAIN dp : \A b \in dp[p] \ dpold[p] :
        \E n \in DOMAIN layout : \E k \in given[n] \cap 0 .. layout[n].len - 1 :
          Place(layout[n], k) = <<p, b>>

\* Parsing reads the low len bits of every field's data from the bits of the
\* field.  The only other bit that may be set is the one above, which the mask
\* lets through from a neighbour in the same byte.
LowBitsRead ==
    phase = "parsed" =>
      \A n \in DOMAIN layout :
        read[n] = Held(dp, layout[n]) \cup Neighbour(dp, layout[n])
=============================================================================
