------------------------- MODULE MCProtocolFormatSet -------------------------
(* The numbers and sizes of the driver, with shorter formats. *)
EXTENDS ProtocolFormatSet

DriverFormats == (12296 :> <<"proto_num", "lab", "dc_data">>)   \* 0x3008
              @@ (12313 :> <<"proto_num", "len">>)              \* 0x3019
              @@ (12372 :> <<"proto_num", "no_name1">>)         \* 0x3054
DriverOrder == <<12296, 12313, 12372>>
DriverWanted == {12296, 12368, 12372}                           \* 0x3050 is missing

\* 0x3096: an index between the size of the array and MAX_PROTOCOL_NUM.
HighFormats == DriverFormats @@ (12438 :> <<"proto_num">>)
HighOrder == <<12296, 12438>>

\* 0x3064: the first number behind the array.
BehindWanted == {12296, 12388}
=============================================================================
