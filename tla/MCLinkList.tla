------------------------------ MODULE MCLinkList ------------------------------
(***************************************************************************)
(* LinkList on a small instance.                                           *)
(***************************************************************************)
EXTENDS LinkList, TLC

\* Lists and nodes are interchangeable; sound for safety properties only.
MCSymmetry == Permutations(List) \cup Permutations(Node)
=============================================================================
