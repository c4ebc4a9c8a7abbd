----------------------------- MODULE ProtoFormats -----------------------------
(***************************************************************************)
(* The message formats that the driver registers when it is probed         *)
(* (pfs_set_pdt_drv_proto_format): for every protocol number, its fields   *)
(* in list order with their byte position, their length in bytes and, for  *)
(* a field of variable length, the field that holds the length.  All bit   *)
(* positions are 0 and all length units 8 bits in these formats.           *)
(***************************************************************************)
EXTENDS Naturals, Sequences

\* vlenth_index of a field of fixed length: the attribute is NULL.
Unindexed == ""

\* A field of fixed length, and one whose length is the value of `index'.
Fixed(name, pos, len) == [name |-> name, pos |-> pos, len |-> len,
                          index |-> Unindexed]
Variable(name, pos, index) == [name |-> name, pos |-> pos, len |-> 0,
                               index |-> index]

pfs_set_proto_format_3008 ==
    << Fixed("proto_num", 0, 2), Fixed("lab", 2, 2), Fixed("slot_info", 4, 2),
       Fixed("sync_info", 6, 2), Fixed("tact_info", 8, 1),
       Fixed("slc_info", 9, 1), Variable("slc_data", 10, "slc_info"),
       Fixed("sync_index", 10, 1), Fixed("st_info", 11, 1),
       Fixed("dc_info", 12, 1), Variable("dc_data", 13, "dc_info") >>

pfs_set_proto_format_3019 ==
    << Fixed("proto_num", 0, 2), Fixed("lab", 2, 2), Fixed("len", 5, 1),
       Fixed("slot_info", 6, 2), Fixed("sync_index", 8, 1),
       Fixed("st_info", 9, 1), Fixed("dc_info", 10, 1),
       Variable("dc_data", 11, "dc_info") >>

\* Formats 3050 and 3052 begin alike.
EmbeddedHead ==
    << Fixed("proto_num", 0, 2), Fixed("len", 2, 1), Fixed("emb_flag", 3, 1),
       Fixed("slot_info", 4, 2), Fixed("sync_info", 6, 2),
       Fixed("tact_info", 8, 1), Fixed("slc_info", 9, 1),
       Variable("slc_data", 10, "slc_info") >>

pfs_set_proto_format_3050 ==
    EmbeddedHead \o
    << Fixed("sync_index", 10, 1), Fixed("st_info", 11, 1),
       Fixed("dc_info", 12, 1), Variable("dc_data", 13, "dc_info") >>

pfs_set_proto_format_3052 ==
    EmbeddedHead \o
    << Fixed("emb_info", 10, 1), Fixed("lc_info", 11, 1),
       Variable("lc_data", 12, "lc_info"), Fixed("dc_info", 12, 1),
       Variable("dc_data", 13, "dc_info") >>

pfs_set_proto_format_3054 ==
    << Fixed("proto_num", 0, 2), Fixed("no_name1", 2, 1), Fixed("st_info", 3, 1),
       Fixed("dc_info", 4, 1), Variable("dc_data", 5, "dc_info") >>

\* The format set, by protocol number in hexadecimal.
pfs_set_pdt_drv_proto_format ==
    [p \in {"3008", "3019", "3050", "3052", "3054"} |->
       CASE p = "3008" -> pfs_set_proto_format_3008
         [] p = "3019" -> pfs_set_proto_format_3019
         [] p = "3050" -> pfs_set_proto_format_3050
         [] p = "3052" -> pfs_set_proto_format_3052
         [] p = "3054" -> pfs_set_proto_format_3054]

\* strlen of the one field name that is as long as the key of pa's hash table.
TenCharNames == {"sync_index"}
=============================================================================
