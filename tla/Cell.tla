-------------------------------- MODULE Cell --------------------------------
(***************************************************************************)
(* What eosio::singleton promises (contracts/eosio/singleton.hpp): a cell  *)
(* that holds a value or none.                                             *)
(***************************************************************************)

CONSTANTS
  Value, \* what the cell may hold
  None   \* no value

VARIABLES
  value,  \* what it holds, or None
  answer, \* what the last call returned, or None
  failed  \* "singleton does not exist"

vars == <<value, answer, failed>>

Init == value \in Value \cup {None} /\ answer = None /\ failed = FALSE

Returns(x) == ~failed /\ answer' = x /\ UNCHANGED failed

exists == Returns(value # None) /\ UNCHANGED value

get ==
  \/ value # None /\ Returns(value) /\ UNCHANGED value
  \/ value = None /\ ~failed /\ failed' = TRUE /\ answer' = None /\ UNCHANGED value

get_or_default(def) ==
  Returns(IF value # None THEN value ELSE def) /\ UNCHANGED value

get_or_create(def) ==
  Returns(IF value # None THEN value ELSE def) /\ value' = answer'

set(x) == Returns(None) /\ value' = x

remove == Returns(None) /\ value' = None

(* Calls that answer nothing and change nothing.                           *)
Quiet == Returns(None) /\ UNCHANGED value

Next ==
  \/ exists \/ get \/ remove \/ Quiet
  \/ \E x \in Value : get_or_default(x) \/ get_or_create(x) \/ set(x)

Spec == Init /\ [][Next]_vars
=============================================================================
