---------------------------- MODULE MCListWriters ----------------------------
(***************************************************************************)
(* ListWriters on small instances: threads and nodes are model values.     *)
(***************************************************************************)
EXTENDS ListWriters
=============================================================================
