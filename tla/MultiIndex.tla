----------------------------- MODULE MultiIndex -----------------------------
(***************************************************************************)
(* eosio::multi_index with one secondary index                             *)
(* (contracts/eosio/multi_index.hpp), during one transaction in which the  *)
(* contract uses one or more instances of the same table.                  *)
(*                                                                         *)
(* The rows and the entries of the secondary index live in the node.  Each *)
(* instance caches the rows it has loaded, with the node's iterators to    *)
(* them, and the next primary key to hand out; no instance hears of what   *)
(* another one changes.  The value of a row is its secondary key.  A node  *)
(* iterator stands for one stored row, here a key and the count of stores  *)
(* under it; the node fails a transaction that uses one after the row has  *)
(* been removed.                                                           *)
(***************************************************************************)
EXTENDS Integers, Sequences

CONSTANTS
  Instance,  \* the multi_index objects of the contract
  Word,      \* the number of values of uint64_t
  MaxSec,    \* the secondary keys are 1..MaxSec
  MaxStores, \* bound: how often a key is stored
  MaxDepth   \* bound: calls of modify within each other's updater

ASSUME WordAssumption == Word \in Nat /\ Word > 2
ASSUME BoundsAssumption == /\ MaxSec \in Nat /\ MaxStores \in Nat \ {0}
                             /\ MaxDepth \in Nat

Pk == 0..(Word - 1)
Sec == 1..MaxSec
None == 0
Itr == Pk \X (1..MaxStores)

no_available_primary_key == Word - 2
unset_next_primary_key == Word - 1

VARIABLES
  row,        \* the value of each row, None without one
  index,      \* the secondary key of each row's entry in the index
  stores,     \* how often each key was stored
  items,      \* for each instance its cached rows, by iterator
  next_pk,    \* for each instance, _next_primary_key
  jobs,       \* the calls of modify whose updaters are running
  available,  \* the last result of available_primary_key, -1 for none
  aborted     \* a check, of the library or the node, has failed

vars == <<row, index, stores, items, next_pk, jobs, available, aborted>>

Rows == {pk \in Pk : row[pk] # None}
ItrOf(pk) == <<pk, stores[pk]>>
Valid(t) == row[t[1]] # None /\ stores[t[1]] = t[2]

Item(val, sec) == [val |-> val, sec |-> sec]

Init ==
  /\ row \in [Pk -> Sec \cup {None}]
  /\ index = row
  /\ stores = [pk \in Pk |-> IF row[pk] = None THEN 0 ELSE 1]
  /\ items = [i \in Instance |-> [t \in {} |-> Item(None, 0)]]
  /\ next_pk = [i \in Instance |-> unset_next_primary_key]
  /\ jobs = <<>>
  /\ available = -1
  /\ aborted = FALSE

Fail ==
  /\ aborted' = TRUE
  /\ available' = -1
  /\ UNCHANGED <<row, index, stores, items, next_pk, jobs>>

-----------------------------------------------------------------------------
(* The cache of an instance: f stands for its items.                       *)

Least(S) == CHOOSE x \in S : \A y \in S : x <= y
Greatest(S) == CHOOSE x \in S : \A y \in S : y <= x

Store(f, t, item) ==
  [u \in DOMAIN f \cup {t} |-> IF u = t THEN item ELSE f[u]]

(* load_object_by_primary_iterator: an item that has the iterator, or a    *)
(* new one read from the node.                                             *)
Load(f, t) == IF t \in DOMAIN f THEN f ELSE Store(f, t, Item(row[t[1]], 0))

(* The iterators of f's items with this key; the item loaded last has the  *)
(* latest.                                                                 *)
Cached(f, pk) == {t \in DOMAIN f : t[1] = pk}
Latest(f, pk) == <<pk, Greatest({t[2] : t \in Cached(f, pk)})>>

(* find: a cached item with the key, else the node's row.                  *)
Find(f, pk) ==
  IF Cached(f, pk) # {} \/ pk \notin Rows THEN f ELSE Load(f, ItrOf(pk))

(* The item found for an entry of the secondary index gets its iterator.   *)
FindEntry(f, pk) ==
  LET g == Find(f, pk) IN [g EXCEPT ![Latest(g, pk)].sec = stores[pk]]

Running(i, t) == \E n \in DOMAIN jobs : jobs[n].inst = i /\ jobs[n].itr = t

(* Calls that only load rows.                                              *)
Loads(i, f) ==
  /\ items' = [items EXCEPT ![i] = f]
  /\ available' = -1
  /\ UNCHANGED <<row, index, stores, next_pk, jobs, aborted>>

-----------------------------------------------------------------------------
(* The primary index.                                                      *)

find(i, pk) == ~aborted /\ Loads(i, Find(items[i], pk))

(* get and require_find.                                                   *)
require_find(i, pk) ==
  /\ ~aborted
  /\ IF Cached(items[i], pk) = {} /\ pk \notin Rows THEN Fail
     ELSE Loads(i, Find(items[i], pk))

(* The item of the first row at pk or after it, if there is one.           *)
LoadFrom(f, pk) ==
  LET after == {k \in Rows : pk <= k}
  IN IF after = {} THEN f ELSE Load(f, ItrOf(Least(after)))

(* begin is lower_bound(0), upper_bound(pk) is lower_bound(pk + 1).        *)
lower_bound(i, pk) == ~aborted /\ Loads(i, LoadFrom(items[i], pk))

(* ++ and -- of an iterator to the item t.                                 *)
Increment(i, t) ==
  /\ ~aborted
  /\ IF Valid(t) THEN Loads(i, LoadFrom(items[i], t[1] + 1)) ELSE Fail

Decrement(i, t) ==
  /\ ~aborted
  /\ IF Valid(t) /\ \E k \in Rows : k < t[1]
     THEN Loads(i, Load(items[i], ItrOf(Greatest({k \in Rows : k < t[1]}))))
     ELSE Fail

DecrementEnd(i) ==
  /\ ~aborted
  /\ IF Rows # {} THEN Loads(i, Load(items[i], ItrOf(Greatest(Rows)))) ELSE Fail

-----------------------------------------------------------------------------
(* The secondary index, ordered by secondary and then by primary key.      *)

Entries == {pk \in Pk : index[pk] # None}
Before(p, q) == index[p] < index[q] \/ (index[p] = index[q] /\ p < q)

First(S) == CHOOSE p \in S : \A q \in S \ {p} : Before(p, q)
Last(S) == CHOOSE p \in S : \A q \in S \ {p} : Before(q, p)

FindFirst(f, S) == IF S = {} THEN f ELSE FindEntry(f, First(S))

(* upper_bound(s) is lower_bound(s + 1); find, require_find and get load   *)
(* what lower_bound does.                                                  *)
SecLowerBound(i, s) ==
  ~aborted /\ Loads(i, FindFirst(items[i], {p \in Entries : s <= index[p]}))

(* The iterator to t's entry, cached in t's item or looked up.             *)
SecItr(i, t) ==
  IF items[i][t].sec # 0 THEN items[i][t].sec
  ELSE IF t[1] \in Entries THEN stores[t[1]] ELSE 0

SecValid(t, n) == t[1] \in Entries /\ stores[t[1]] = n

WithSec(i, t) == [items[i] EXCEPT ![t].sec = SecItr(i, t)]

SecFail(i, t) == SecItr(i, t) # 0 /\ ~SecValid(t, SecItr(i, t))

(* Without an entry the node's iterator is the end, and so is the next.    *)
SecSuccessors(i, t) ==
  IF SecItr(i, t) = 0 THEN {} ELSE {p \in Entries : Before(t[1], p)}

SecIncrement(i, t) ==
  /\ ~aborted
  /\ IF SecFail(i, t) THEN Fail
     ELSE Loads(i, FindFirst(WithSec(i, t), SecSuccessors(i, t)))

SecDecrement(i, t) ==
  LET before == {p \in Entries : Before(p, t[1])} IN
  /\ ~aborted
  /\ IF SecFail(i, t) \/ SecItr(i, t) = 0 \/ before = {} THEN Fail
     ELSE Loads(i, FindEntry(WithSec(i, t), Last(before)))

SecDecrementEnd(i) ==
  /\ ~aborted
  /\ IF Entries = {} THEN Fail ELSE Loads(i, FindEntry(items[i], Last(Entries)))

SecIteratorTo(i, t) == ~aborted /\ Loads(i, WithSec(i, t))

-----------------------------------------------------------------------------
(* Changing rows.                                                          *)

(* Mutant: the key handed out last may be used up unnoticed.               *)
SeenAbove(i, pk) ==
  IF pk <= next_pk[i] THEN next_pk[i]
  ELSE IF pk >= no_available_primary_key THEN no_available_primary_key
  ELSE pk + 1

(* Mutant: the reserved values are not kept free.                          *)
SeenUncapped(i, pk) == IF pk < next_pk[i] THEN next_pk[i] ELSE pk + 1

(* _next_primary_key after a row with this key was written.                *)
Seen(i, pk) ==
  IF pk < next_pk[i] THEN next_pk[i]
  ELSE IF pk >= no_available_primary_key THEN no_available_primary_key
  ELSE pk + 1

(* The node refuses a key that is taken.                                   *)
emplace(i, pk, s) ==
  /\ ~aborted /\ (pk \in Rows \/ stores[pk] < MaxStores)
  /\ IF pk \in Rows THEN Fail
     ELSE /\ row' = [row EXCEPT ![pk] = s]
          /\ index' = [index EXCEPT ![pk] = s]
          /\ stores' = [stores EXCEPT ![pk] = @ + 1]
          /\ items' = [items EXCEPT ![i] =
                         Store(@, <<pk, stores[pk] + 1>>, Item(s, stores[pk] + 1))]
          /\ next_pk' = [next_pk EXCEPT ![i] = Seen(i, pk)]
          /\ available' = -1
          /\ UNCHANGED <<jobs, aborted>>

(* modify up to the call of the updater: the secondary key of the item is  *)
(* remembered.  The updater may call the table again, but does not modify  *)
(* or erase through the same instance the row it is given.                 *)
ModifyBegin(i, t) ==
  /\ ~aborted /\ Len(jobs) < MaxDepth /\ ~Running(i, t)
  /\ jobs' = <<[inst |-> i, itr |-> t, old |-> items[i][t].val]>> \o jobs
  /\ available' = -1
  /\ UNCHANGED <<row, index, stores, items, next_pk, aborted>>

(* The innermost updater changes the object.                               *)
Update(s) ==
  /\ ~aborted /\ jobs # <<>>
  /\ items' = [items EXCEPT ![Head(jobs).inst][Head(jobs).itr].val = s]
  /\ available' = -1
  /\ UNCHANGED <<row, index, stores, next_pk, jobs, aborted>>

(* "updater cannot change primary key when modifying an object"            *)
UpdateKey == ~aborted /\ jobs # <<>> /\ Fail

(* Mutant: the entry is updated only if its iterator is already known.     *)
ModifyKnownEntry ==
  LET i == Head(jobs).inst
      t == Head(jobs).itr
      val == items[i][t].val
      rekey == val # Head(jobs).old /\ items[i][t].sec # 0
  IN
  /\ ~aborted /\ jobs # <<>>
  /\ IF ~Valid(t) \/ (rekey /\ ~SecValid(t, SecItr(i, t))) THEN Fail
     ELSE /\ row' = [row EXCEPT ![t[1]] = val]
          /\ next_pk' = [next_pk EXCEPT ![i] = Seen(i, t[1])]
          /\ index' = IF rekey THEN [index EXCEPT ![t[1]] = val] ELSE index
          /\ items' = IF rekey THEN [items EXCEPT ![i] = WithSec(i, t)] ELSE items
          /\ jobs' = Tail(jobs)
          /\ available' = -1
          /\ UNCHANGED <<stores, aborted>>

(* The rest of modify: the row is written, and the entry of the index if   *)
(* the object's secondary key is no longer the remembered one.             *)
ModifyFinish ==
  LET i == Head(jobs).inst
      t == Head(jobs).itr
      val == items[i][t].val
      rekey == val # Head(jobs).old
  IN
  /\ ~aborted /\ jobs # <<>>
  /\ IF ~Valid(t) \/ (rekey /\ ~SecValid(t, SecItr(i, t))) THEN Fail
     ELSE /\ row' = [row EXCEPT ![t[1]] = val]
          /\ next_pk' = [next_pk EXCEPT ![i] = Seen(i, t[1])]
          /\ index' = IF rekey THEN [index EXCEPT ![t[1]] = val] ELSE index
          /\ items' = IF rekey THEN [items EXCEPT ![i] = WithSec(i, t)] ELSE items
          /\ jobs' = Tail(jobs)
          /\ available' = -1
          /\ UNCHANGED <<stores, aborted>>

(* Mutant: the item stays in the cache.                                    *)
DropNothing(f, pk) == f

(* erase removes from the cache the item of the key loaded last.           *)
Drop(f, pk) == [u \in DOMAIN f \ {Latest(f, pk)} |-> f[u]]

(* erase(obj), given the cache f after the step of the iterator, if any.   *)
EraseFrom(i, t, f) ==
  IF ~Valid(t) \/ SecFail(i, t) THEN Fail
  ELSE /\ row' = [row EXCEPT ![t[1]] = None]
       /\ index' = IF SecItr(i, t) = 0 THEN index
                   ELSE [index EXCEPT ![t[1]] = None]
       /\ items' = [items EXCEPT ![i] = Drop(f, t[1])]
       /\ available' = -1
       /\ UNCHANGED <<stores, next_pk, jobs, aborted>>

erase(i, t) ==
  /\ ~aborted /\ ~Running(i, t)
  /\ EraseFrom(i, t, items[i])

(* erase(itr) first steps the iterator to the next row ...                 *)
EraseIterator(i, t) ==
  /\ ~aborted /\ ~Running(i, t)
  /\ EraseFrom(i, t, LoadFrom(items[i], t[1] + 1))

(* ... or, on the secondary index, to the next entry.                      *)
SecEraseIterator(i, t) ==
  /\ ~aborted /\ ~Running(i, t)
  /\ EraseFrom(i, t, FindFirst(WithSec(i, t), SecSuccessors(i, t)))

-----------------------------------------------------------------------------
(* The first call of an instance looks at the first and the last row.      *)
NextPk(i) ==
  IF next_pk[i] # unset_next_primary_key THEN next_pk[i]
  ELSE IF Rows = {} THEN 0
  ELSE IF Greatest(Rows) >= no_available_primary_key
       THEN no_available_primary_key
  ELSE Greatest(Rows) + 1

LoadEnds(f) ==
  IF Rows = {} THEN f
  ELSE Load(Load(f, ItrOf(Least(Rows))), ItrOf(Greatest(Rows)))

(* "next primary key in table is at autoincrement limit"                   *)
available_primary_key(i) ==
  /\ ~aborted
  /\ IF NextPk(i) >= no_available_primary_key THEN Fail
     ELSE /\ next_pk' = [next_pk EXCEPT ![i] = NextPk(i)]
          /\ items' = [items EXCEPT ![i] =
               IF next_pk[i] = unset_next_primary_key THEN LoadEnds(@) ELSE @]
          /\ available' = NextPk(i)
          /\ UNCHANGED <<row, index, stores, jobs, aborted>>

Next ==
  \/ \E i \in Instance, pk \in Pk :
       find(i, pk) \/ require_find(i, pk) \/ lower_bound(i, pk)
  \/ \E i \in Instance : \E t \in DOMAIN items[i] :
       \/ Increment(i, t) \/ Decrement(i, t)
       \/ SecIncrement(i, t) \/ SecDecrement(i, t) \/ SecIteratorTo(i, t)
       \/ ModifyBegin(i, t)
       \/ erase(i, t) \/ EraseIterator(i, t) \/ SecEraseIterator(i, t)
  \/ \E i \in Instance :
       DecrementEnd(i) \/ SecDecrementEnd(i) \/ available_primary_key(i)
  \/ \E i \in Instance, s \in Sec : SecLowerBound(i, s)
  \/ \E i \in Instance, pk \in Pk, s \in Sec : emplace(i, pk, s)
  \/ \E s \in Sec : Update(s)
  \/ UpdateKey \/ ModifyFinish

Spec == Init /\ [][Next]_vars

-----------------------------------------------------------------------------
(* Properties.                                                             *)

(* Type invariant; the next primary key of an instance is one it may hand  *)
(* out or one of the two tags (multi_index.hpp:409-412).                   *)
TypeOK ==
  /\ row \in [Pk -> Sec \cup {None}]
  /\ index \in [Pk -> Sec \cup {None}]
  /\ stores \in [Pk -> 0..MaxStores]
  /\ \A i \in Instance :
       /\ DOMAIN items[i] \subseteq Itr
       /\ \A t \in DOMAIN items[i] :
            items[i][t] \in [val : Sec, sec : 0..MaxStores]
  /\ next_pk \in [Instance -> Pk]
  /\ \A n \in DOMAIN jobs : jobs[n].itr \in DOMAIN items[jobs[n].inst]
  /\ available \in {-1} \cup 0..(no_available_primary_key - 1)
  /\ aborted \in BOOLEAN

(* The secondary index holds for every row the secondary key it was last   *)
(* written with, as modify's documentation promises                        *)
(* (multi_index.hpp:1619-1620, 1683-1698).                                 *)
IndexMirrorsRows == index = row

(* An instance never shows a row that is gone or has changed, nor holds    *)
(* two items for a row; only the object an updater is changing may be      *)
(* ahead of its row.  The iterators it keeps are those of the rows it      *)
(* shows, so that none of its own calls makes another fail                 *)
(* (multi_index.hpp:749-788, 1762-1774, 1907).                             *)
CacheIsCurrent ==
  \A i \in Instance : \A t \in DOMAIN items[i] :
    /\ Valid(t)
    /\ items[i][t].val # row[t[1]] => Running(i, t)
    /\ items[i][t].sec \in {0, stores[t[1]]}

(* available_primary_key returns a key that no row has                     *)
(* (multi_index.hpp:1286-1288).                                            *)
AvailableKeyIsFree == available \notin Rows
=============================================================================
