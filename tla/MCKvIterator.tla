---------------------------- MODULE MCKvIterator ----------------------------
(***************************************************************************)
(* Three keys and two iterator objects: a key before, at and after any     *)
(* position, and an iterator that is compared with, moved to or erased     *)
(* under another one.                                                      *)
(***************************************************************************)
EXTENDS KvIterator, TLC

Symmetry == Permutations(Iterator)
=============================================================================
