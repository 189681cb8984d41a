--------------------------- MODULE MCSimpleMalloc ---------------------------
(***************************************************************************)
(* Two slots for chunks in a heap of eleven units.  A block is small, of   *)
(* two units, or big, of three, and two small ones leave a unit of a big   *)
(* chunk each, so that three freed pieces can lie apart and the table of   *)
(* chunks is full.  The largest request wraps around.                      *)
(***************************************************************************)
EXTENDS SimpleMalloc

MCClasses == <<2>>
MCShort == <<1, 2>>
=============================================================================
