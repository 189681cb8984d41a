---------------------------- MODULE MCMultiIndex ----------------------------
(***************************************************************************)
(* Keys 0 and 1 and the two that are also tags, stored at most twice, with *)
(* two secondary keys; one modify within the updater of another.           *)
(***************************************************************************)
EXTENDS MultiIndex
=============================================================================
