------------------------------- MODULE KvTable -------------------------------
(***************************************************************************)
(* eosio::kv::table (contracts/eosio/kv.hpp): put, erase and the lookups   *)
(* of a table with a primary index and a set of unique secondary indices,  *)
(* over the key-value intrinsics of kv_base.hpp.                           *)
(*                                                                         *)
(* A row lives in the database under (primary index, primary key); for     *)
(* every secondary index there is a separate pair whose key is (index,     *)
(* secondary key) and whose value is the row's primary table key.  put     *)
(* and erase update those pairs one intrinsic at a time, walking the       *)
(* vector secondary_indices; a failed check anywhere rolls the whole       *)
(* transaction back.  The walk may take the indices in any order here, so  *)
(* every order of registration is covered.                                 *)
(***************************************************************************)
CONSTANTS
  PrimaryKey,    \* keys of the primary index
  Index,         \* names of the secondary indices
  SecondaryKey,  \* keys of a secondary index
  Payload,       \* the part of a row that no index looks at
  NoRow,         \* no pair under a primary key
  NoKey          \* no pair under a secondary key

VARIABLES
  rows,     \* the pairs of the primary index
  entries,  \* entries[i][k]: the primary key stored under k in index i
  saved,    \* rows and entries as of the last committed transaction
  op,       \* the member function running: "none", "put" or "erase"
  arg,      \* its argument
  old,      \* put: the row it replaces, NoRow when the key is new
  todo,     \* the secondary indices its loop has still to visit
  reply     \* what the last operation answered its caller

vars == <<rows, entries, saved, op, arg, old, todo, reply>>

Row == [pk : PrimaryKey, sec : [Index -> SecondaryKey], data : Payload]

ASSUME NoRowAssumption == NoRow \notin Row
ASSUME NoKeyAssumption == NoKey \notin PrimaryKey

-----------------------------------------------------------------------------
(* The intrinsics, provided by the node outside this repository: get of an *)
(* absent key is not an error, neither is its erasure, and set overwrites. *)

kv_get(map, key) == map[key]
kv_set(map, key, value) == [map EXCEPT ![key] = value]
kv_erase(map, key, absent) == [map EXCEPT ![key] = absent]

Answer(kind, row) == [kind |-> kind, row |-> row]
Silent == Answer("none", NoRow)

Init ==
  /\ rows = [p \in PrimaryKey |-> NoRow]
  /\ entries = [i \in Index |-> [k \in SecondaryKey |-> NoKey]]
  /\ saved = [rows |-> rows, entries |-> entries]
  /\ op = "none"
  /\ arg = NoRow
  /\ old = NoRow
  /\ todo = {}
  /\ reply = Silent

(* Mutant: the row put replaces is kept from one call to the next.         *)
ReturnKeepsOld(answer) ==
  /\ op' = "none"
  /\ arg' = NoRow
  /\ old' = old
  /\ todo' = {}
  /\ reply' = answer

Return(answer) ==
  /\ op' = "none"
  /\ arg' = NoRow
  /\ old' = NoRow
  /\ todo' = {}
  /\ reply' = answer

(* eosio::check fails: the node discards every write of the transaction.   *)
Rollback(answer) ==
  /\ rows' = saved.rows
  /\ entries' = saved.entries
  /\ Return(answer)
  /\ UNCHANGED saved

-----------------------------------------------------------------------------
(* put: fetch the row stored under the primary key, visit the secondary    *)
(* indices, then store the row itself.                                     *)

PutBegin(v) ==
  /\ op = "none"
  /\ op' = "put"
  /\ arg' = v
  /\ old' = kv_get(rows, v.pk)
  /\ todo' = Index
  /\ UNCHANGED <<rows, entries, saved, reply>>

(* The primary key the database holds under the argument's key in index i. *)
Holder(i) == kv_get(entries[i], arg.sec[i])

(* Mutant: a new row takes over a secondary key without a check.           *)
PutStoresUnchecked(i) ==
  /\ old = NoRow
  /\ entries' = [entries EXCEPT ![i] = kv_set(@, arg.sec[i], arg.pk)]

PutStoresEntry(i) ==
  /\ old = NoRow
  /\ Holder(i) = NoKey
  /\ entries' = [entries EXCEPT ![i] = kv_set(@, arg.sec[i], arg.pk)]

(* Mutant: an update does not compare the key found with its own.          *)
PutKeepsUnchecked(i) ==
  /\ old # NoRow
  /\ Holder(i) # NoKey
  /\ UNCHANGED entries

PutKeepsEntry(i) ==
  /\ old # NoRow
  /\ Holder(i) = arg.pk
  /\ UNCHANGED entries

(* Mutant: an update leaves the entry under the old key behind.            *)
PutLeavesOldEntry(i) ==
  /\ old # NoRow
  /\ Holder(i) = NoKey
  /\ entries' = [entries EXCEPT ![i] = kv_set(@, arg.sec[i], arg.pk)]

PutMovesEntry(i) ==
  /\ old # NoRow
  /\ Holder(i) = NoKey
  /\ entries' = [entries EXCEPT ![i] =
       kv_set(kv_erase(@, old.sec[i], NoKey), arg.sec[i], arg.pk)]

PutIndex(i) ==
  /\ op = "put"
  /\ i \in todo
  /\ PutStoresEntry(i) \/ PutKeepsEntry(i) \/ PutMovesEntry(i)
  /\ todo' = todo \ {i}
  /\ UNCHANGED <<rows, saved, op, arg, old, reply>>

(* "Attempted to store / to update an existing secondary index."           *)
PutDuplicate(i) ==
  /\ op = "put"
  /\ i \in todo
  /\ Holder(i) # NoKey
  /\ old = NoRow \/ Holder(i) # arg.pk
  /\ Rollback(Answer("duplicate", NoRow))

PutFinish ==
  /\ op = "put"
  /\ todo = {}
  /\ rows' = kv_set(rows, arg.pk, arg)
  /\ Return(Answer("stored", NoRow))
  /\ UNCHANGED <<entries, saved>>

-----------------------------------------------------------------------------
(* erase: the primary key is the argument's, and so are the secondary keys *)
(* - the stored row is never read.                                         *)

EraseBegin(v) ==
  /\ op = "none"
  /\ kv_get(rows, v.pk) # NoRow
  /\ op' = "erase"
  /\ arg' = v
  /\ todo' = Index
  /\ UNCHANGED <<rows, entries, saved, old, reply>>

EraseAbsent(v) ==
  /\ op = "none"
  /\ kv_get(rows, v.pk) = NoRow
  /\ Return(Answer("erased", NoRow))
  /\ UNCHANGED <<rows, entries, saved>>

EraseIndex(i) ==
  /\ op = "erase"
  /\ i \in todo
  /\ entries' = [entries EXCEPT ![i] = kv_erase(@, arg.sec[i], NoKey)]
  /\ todo' = todo \ {i}
  /\ UNCHANGED <<rows, saved, op, arg, old, reply>>

EraseFinish ==
  /\ op = "erase"
  /\ todo = {}
  /\ rows' = kv_erase(rows, arg.pk, NoRow)
  /\ Return(Answer("erased", NoRow))
  /\ UNCHANGED <<entries, saved>>

-----------------------------------------------------------------------------
(* Lookups (kv_index::get).  One by a secondary key reads the pair of that *)
(* index and then the row its value names; a name that leads nowhere fails *)
(* the check "failure getting primary key".                                *)

Get(p) ==
  /\ op = "none"
  /\ reply' = Answer("found", kv_get(rows, p))
  /\ UNCHANGED <<rows, entries, saved, op, arg, old, todo>>

GetBy(i, k) ==
  LET p == kv_get(entries[i], k) IN
  /\ op = "none"
  /\ \/ /\ p = NoKey
        /\ reply' = Answer("found", NoRow)
        /\ UNCHANGED <<rows, entries, saved, op, arg, old, todo>>
     \/ /\ p # NoKey
        /\ kv_get(rows, p) # NoRow
        /\ reply' = Answer("found", kv_get(rows, p))
        /\ UNCHANGED <<rows, entries, saved, op, arg, old, todo>>
     \/ /\ p # NoKey
        /\ kv_get(rows, p) = NoRow
        /\ Rollback(Answer("failure getting primary key", NoRow))

-----------------------------------------------------------------------------
(* The transaction around the calls.                                       *)

Commit ==
  /\ op = "none"
  /\ saved' = [rows |-> rows, entries |-> entries]
  /\ reply' = Silent
  /\ UNCHANGED <<rows, entries, op, arg, old, todo>>

(* Any other check of the contract fails, or the node stops the            *)
(* transaction, possibly in the middle of a put or an erase.               *)
Abort == Rollback(Silent)

Step ==
  \/ \E v \in Row : PutBegin(v) \/ EraseAbsent(v)
  \/ \E i \in Index : PutIndex(i) \/ PutDuplicate(i) \/ EraseIndex(i)
  \/ PutFinish
  \/ EraseFinish
  \/ \E p \in PrimaryKey : Get(p)
  \/ \E i \in Index, k \in SecondaryKey : GetBy(i, k)
  \/ Commit
  \/ Abort

(* A contract that erases what it has just read, as the examples and the   *)
(* tests of the repository do.                                             *)
Next ==
  \/ Step
  \/ \E v \in Row : v = rows[v.pk] /\ EraseBegin(v)

Spec == Init /\ [][Next]_vars

(* A contract that passes erase any value with the key of the row.         *)
NextByKey ==
  \/ Step
  \/ \E v \in Row : EraseBegin(v)

SpecByKey == Init /\ [][NextByKey]_vars

-----------------------------------------------------------------------------
(* Properties.                                                             *)

RowMap == {f \in [PrimaryKey -> Row \cup {NoRow}] :
             \A p \in PrimaryKey : f[p] # NoRow => f[p].pk = p}

EntryMap == [Index -> [SecondaryKey -> PrimaryKey \cup {NoKey}]]

(* Type invariant: every row sits under its own primary key, and the       *)
(* locals of put and erase are cleared between calls (kv.hpp:75-147).      *)
TypeOK ==
  /\ rows \in RowMap
  /\ entries \in EntryMap
  /\ saved \in [rows : RowMap, entries : EntryMap]
  /\ op \in {"none", "put", "erase"}
  /\ arg \in IF op = "none" THEN {NoRow} ELSE Row
  /\ old \in Row \cup {NoRow}
  /\ todo \in SUBSET Index
  /\ op = "none" => old = NoRow /\ todo = {}

(* Index i of the entries e mirrors the rows r: an entry for every stored  *)
(* row under its secondary key, and no other entry.                        *)
Mirrors(i, e, r) ==
  \A k \in SecondaryKey, p \in PrimaryKey :
    e[i][k] = p <=> r[p] # NoRow /\ r[p].sec[i] = k

(* Between two calls every secondary index mirrors the table: put and      *)
(* erase, which update the pairs one by one and in some branches not at    *)
(* all, leave no dangling, missing or shared entry (kv.hpp:75-147).        *)
IndicesMirrorRows ==
  op = "none" => \A i \in Index : Mirrors(i, entries, rows)

(* The table an index has to mirror in the middle of a call: the rows as   *)
(* they are while the loop has not reached it, the rows as the call will   *)
(* leave them afterwards.                                                  *)
Expected(i) ==
  IF op = "none" \/ i \in todo THEN rows
  ELSE [rows EXCEPT ![arg.pk] = IF op = "put" THEN arg ELSE NoRow]

(* At every single write of put and erase each index is wholly before or   *)
(* wholly after the call, the old row put works with is still the stored   *)
(* one, and what a rollback at that moment would restore is consistent     *)
(* (kv.hpp:95-119 and 141-146).                                            *)
WalkInvariant ==
  /\ \A i \in Index : Mirrors(i, entries, Expected(i))
  /\ \A i \in Index : Mirrors(i, saved.entries, saved.rows)
  /\ op = "put" => old = rows[arg.pk]
  /\ op = "erase" => arg = rows[arg.pk]

(* Between two calls no index holds an entry of a row that is gone: erase, *)
(* given the key of a row, removes the row from every index                *)
(* (kv.hpp:750-758).                                                       *)
ErasedRowsLeaveNoEntry ==
  op = "none" =>
    \A i \in Index, k \in SecondaryKey :
      entries[i][k] # NoKey => rows[entries[i][k]] # NoRow

(* The table implements TableSpec: put takes effect at once with its last  *)
(* write and is refused exactly when another row owns one of its secondary *)
(* keys, a lookup by a secondary key answers the row that has it, and a    *)
(* rollback restores the committed rows.                                   *)
Promised == INSTANCE TableSpec WITH table <- rows, committed <- saved.rows

ImplementsTableSpec == Promised!Spec
=============================================================================
