---------------------------- MODULE MCPlatDriver ----------------------------
(***************************************************************************)
(* PlatDriver on a small instance.  With two addresses a second probe      *)
(* works next to what the first one, or a file opened on it, has left.     *)
(***************************************************************************)
EXTENDS PlatDriver
=============================================================================
