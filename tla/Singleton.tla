----------------------------- MODULE Singleton -----------------------------
(***************************************************************************)
(* eosio::singleton (contracts/eosio/singleton.hpp), a table of the node   *)
(* with at most one row, used through a multi_index object that caches the *)
(* row with the node's iterator to it.  An iterator stands for the row as  *)
(* it was stored, here the count of stores; the node fails a transaction   *)
(* that uses it when the row is gone.                                      *)
(***************************************************************************)
EXTENDS Integers

CONSTANTS
  Value,    \* what the singleton may hold
  None,     \* no value
  MaxStores \* bound: how often the row is stored

VARIABLES
  row,    \* the value of the row, or None without one
  stores, \* how often the row was stored
  item,   \* the cached row, item.val = None without one
  answer, \* what the last call returned, or None
  aborted \* a check, of the library or the node, has failed

vars == <<row, stores, item, answer, aborted>>

Item(val, itr) == [val |-> val, itr |-> itr]
NoItem == Item(None, 0)

Init ==
  /\ row \in Value \cup {None}
  /\ stores = IF row = None THEN 0 ELSE 1
  /\ item = NoItem
  /\ answer = None
  /\ aborted = FALSE

(* Every call first finds the row: the cached one, or the node's.          *)
Find == IF item.val # None \/ row = None THEN item ELSE Item(row, stores)
Found == Find.val # None

Fail ==
  /\ aborted' = TRUE
  /\ answer' = None
  /\ UNCHANGED <<row, stores, item>>

Reads(x) ==
  /\ item' = Find
  /\ answer' = x
  /\ UNCHANGED <<row, stores, aborted>>

(* The node refuses a key that is taken.                                   *)
emplace(x) ==
  IF row # None THEN Fail
  ELSE /\ stores < MaxStores
       /\ row' = x
       /\ stores' = stores + 1
       /\ item' = Item(x, stores + 1)
       /\ UNCHANGED aborted

Valid == row # None /\ Find.itr = stores

modify(x) ==
  IF ~Valid THEN Fail
  ELSE /\ row' = x
       /\ item' = Item(x, Find.itr)
       /\ UNCHANGED <<stores, aborted>>

(* Mutant: the cached row stays.                                           *)
EraseKeepingItem ==
  IF ~Valid THEN Fail
  ELSE row' = None /\ item' = Find /\ UNCHANGED <<stores, aborted>>

erase ==
  IF ~Valid THEN Fail
  ELSE row' = None /\ item' = NoItem /\ UNCHANGED <<stores, aborted>>

-----------------------------------------------------------------------------
(* A new object, with nothing in its cache.                                *)
singleton ==
  /\ ~aborted
  /\ item' = NoItem
  /\ answer' = None
  /\ UNCHANGED <<row, stores, aborted>>

exists == ~aborted /\ Reads(Found)

(* "singleton does not exist"                                              *)
get == ~aborted /\ IF Found THEN Reads(Find.val) ELSE Fail

get_or_default(def) == ~aborted /\ Reads(IF Found THEN Find.val ELSE def)

get_or_create(def) ==
  /\ ~aborted
  /\ IF Found THEN Reads(Find.val) ELSE emplace(def) /\ answer' = def

set(x) ==
  /\ ~aborted
  /\ IF Found THEN modify(x) ELSE emplace(x)
  /\ answer' = None

remove ==
  /\ ~aborted
  /\ IF Found THEN erase ELSE UNCHANGED <<row, stores, item, aborted>>
  /\ answer' = None

Next ==
  \/ singleton \/ exists \/ get \/ remove
  \/ \E x \in Value : get_or_default(x) \/ get_or_create(x) \/ set(x)

Spec == Init /\ [][Next]_vars

-----------------------------------------------------------------------------
(* A singleton is a cell: what it answers is what was set last, wherever   *)
(* its row comes from, the cache or the node, and only get of one that     *)
(* holds nothing fails (singleton.hpp:60-127, multi_index.hpp:1907).       *)
C == INSTANCE Cell WITH value <- row, failed <- aborted
ImplementsCell == C!Spec
=============================================================================
