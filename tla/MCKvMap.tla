------------------------------- MODULE MCKvMap -------------------------------
(***************************************************************************)
(* Bytes of four values, 2 and 3 with the sign bit set: keys that end in   *)
(* each of them, that differ in the first byte, and one that another one   *)
(* extends.                                                                *)
(***************************************************************************)
EXTENDS KvMap

MCKey == {<<0, 1>>, <<0, 2>>, <<0, 3>>, <<1, 0>>, <<1>>}
=============================================================================
