------------------------------ MODULE MCKvTable ------------------------------
(***************************************************************************)
(* A table of two rows with two unique secondary indices of three keys     *)
(* each: enough for a put to move an entry of one index and only then find *)
(* the other index's key taken by the other row, and for an update that    *)
(* reuses a key the previous call gave up.                                 *)
(*                                                                         *)
(* No definition tells two members of a constant set apart, so every       *)
(* permutation of them maps behaviours to behaviours.                      *)
(***************************************************************************)
EXTENDS KvTable, TLC

Symmetry ==
  Permutations(PrimaryKey) \cup Permutations(Index)
    \cup Permutations(SecondaryKey)
=============================================================================
