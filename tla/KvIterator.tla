------------------------------ MODULE KvIterator ------------------------------
(***************************************************************************)
(* The forward and reverse iterators of an index of eosio::kv::table       *)
(* (contracts/eosio/kv.hpp) during one transaction, while the table is     *)
(* being changed under them.                                               *)
(*                                                                         *)
(* An iterator object owns a handle to an iterator kept by the node (0 for *)
(* none) and caches the status the node last reported.  The node's         *)
(* iterators, external to the repository, stand on a key of the index or   *)
(* past its end; they remember an element that is erased under them, and   *)
(* fail the transaction when they are moved or compared after that.        *)
(***************************************************************************)
EXTENDS Integers, Sequences, FiniteSets

CONSTANTS
  MaxKey,    \* the keys of the index are 1..MaxKey, in their byte order
  Iterator   \* the iterator objects of the contract

ASSUME MaxKeyAssumption == MaxKey \in Nat \ {0}
ASSUME IteratorAssumption == IsFiniteSet(Iterator)

Key == 1..MaxKey
End == MaxKey + 1
Position == Key \cup {End}

(* One handle for each object and one for a result not yet assigned.       *)
Handle == 1..(Cardinality(Iterator) + 1)

VARIABLES
  kind,     \* forward (index::iterator) or reverse (reverse_iterator)
  store,    \* the keys present in the index
  host,     \* the node's iterators, by handle
  obj,      \* the contract's iterator objects
  walk,     \* for each object, the traversal by ++ it is engaged in
  read,     \* the key whose row the last value() returned, or 0
  aborted   \* a check has failed, the transaction is over

vars == <<kind, store, host, obj, walk, read, aborted>>

Forward(i) == kind[i] = "forward"

At(p) == [pos |-> p, erased |-> FALSE]
Object(life, itr, stat) == [life |-> life, itr |-> itr, stat |-> stat]
NoWalk == [on |-> FALSE, seen |-> {}, due |-> {}]

IsLive(i) == obj[i].life = "live"
Live(i) == ~aborted /\ IsLive(i)
Pos(i) == IF obj[i].itr = 0 THEN End ELSE host[obj[i].itr].pos
Erased(i) == obj[i].itr # 0 /\ host[obj[i].itr].erased

-----------------------------------------------------------------------------
(* The node's iterator intrinsics.                                         *)

Least(S) == CHOOSE k \in S : \A l \in S : k <= l
Greatest(S) == CHOOSE k \in S : \A l \in S : l <= k

kv_it_lower_bound(k) == Least({l \in store : k <= l} \cup {End})

(* Past the end, next wraps to the first key and prev to the last one.     *)
kv_it_next(p) ==
  IF p = End THEN kv_it_lower_bound(1) ELSE kv_it_lower_bound(p + 1)
kv_it_prev(p) ==
  IF \E l \in store : l < p THEN Greatest({l \in store : l < p}) ELSE End

StatusOf(p) == IF p = End THEN "end" ELSE "ok"

FreeHandle == Least(Handle \ DOMAIN host)

Without(h) == [x \in DOMAIN host \ {h} |-> host[x]]
With(h, p) ==
  [x \in DOMAIN host \cup {h} |-> IF x = h THEN At(p) ELSE host[x]]

-----------------------------------------------------------------------------
Init ==
  /\ kind \in [Iterator -> {"forward", "reverse"}]
  /\ store \in SUBSET Key
  /\ host = [h \in {} |-> At(End)]
  /\ obj = [i \in Iterator |-> Object("none", 0, "end")]
  /\ walk = [i \in Iterator |-> NoWalk]
  /\ read = 0
  /\ aborted = FALSE

(* A failed check, of the library or of the node, ends the transaction and *)
(* with it every iterator.                                                 *)
Fail ==
  /\ aborted' = TRUE
  /\ host' = [h \in {} |-> At(End)]
  /\ obj' = [i \in Iterator |-> Object("none", 0, "end")]
  /\ walk' = [i \in Iterator |-> NoWalk]
  /\ read' = 0
  /\ UNCHANGED <<kind, store>>

(* Mutant: assigning to an iterator forgets the handle it held.            *)
AssignLeaks(i, p) ==
  /\ host' = With(FreeHandle, p)
  /\ obj' = [obj EXCEPT ![i] = Object("live", FreeHandle, StatusOf(p))]

(* A member function returns an iterator in a handle of its own; assigned  *)
(* to i it replaces, and destroys, the handle i held.                      *)
Assign(i, p) ==
  /\ host' = [x \in (DOMAIN host \cup {FreeHandle}) \ {obj[i].itr} |->
                IF x = FreeHandle THEN At(p) ELSE host[x]]
  /\ obj' = [obj EXCEPT ![i] = Object("live", FreeHandle, StatusOf(p))]

(* The same for end() and rend(), which need no handle.                    *)
AssignEnd(i) ==
  /\ host' = Without(obj[i].itr)
  /\ obj' = [obj EXCEPT ![i] = Object("live", 0, "end")]

StartWalk(i, p) ==
  walk' = [walk EXCEPT ![i] =
    [on |-> TRUE, seen |-> {p} \ {End}, due |-> store]]

EndWalk(i) == walk' = [walk EXCEPT ![i] = NoWalk]

(* Mutant: begin() steps once from the lower bound of the empty key.       *)
BeginAtSecond(i) ==
  /\ ~aborted /\ Forward(i)
  /\ Assign(i, kv_it_next(kv_it_lower_bound(1)))
  /\ StartWalk(i, kv_it_next(kv_it_lower_bound(1)))
  /\ UNCHANGED <<kind, store, read, aborted>>

begin(i) ==
  /\ ~aborted /\ Forward(i)
  /\ Assign(i, kv_it_lower_bound(1))
  /\ StartWalk(i, kv_it_lower_bound(1))
  /\ UNCHANGED <<kind, store, read, aborted>>

rbegin(i) ==
  /\ ~aborted /\ ~Forward(i)
  /\ Assign(i, kv_it_prev(End))
  /\ StartWalk(i, kv_it_prev(End))
  /\ UNCHANGED <<kind, store, read, aborted>>

(* end() of a forward, rend() of a reverse iterator.                       *)
end(i) ==
  /\ ~aborted
  /\ AssignEnd(i)
  /\ EndWalk(i)
  /\ UNCHANGED <<kind, store, read, aborted>>

find(i, k) ==
  /\ ~aborted /\ Forward(i)
  /\ IF kv_it_lower_bound(k) = k THEN Assign(i, k) ELSE AssignEnd(i)
  /\ EndWalk(i)
  /\ UNCHANGED <<kind, store, read, aborted>>

lower_bound(i, k) ==
  /\ ~aborted /\ Forward(i)
  /\ Assign(i, kv_it_lower_bound(k))
  /\ EndWalk(i)
  /\ UNCHANGED <<kind, store, read, aborted>>

(* lower_bound, then one step further if it found the key itself.          *)
UpperBound(k) ==
  IF kv_it_lower_bound(k) = k THEN kv_it_next(k) ELSE kv_it_lower_bound(k)

upper_bound(i, k) ==
  /\ ~aborted /\ Forward(i)
  /\ Assign(i, UpperBound(k))
  /\ EndWalk(i)
  /\ UNCHANGED <<kind, store, read, aborted>>

-----------------------------------------------------------------------------
(* Moving an iterator.                                                     *)

(* Mutant: the cached status is left as it was.                            *)
MoveKeepsStatus(i, p) ==
  /\ host' = [host EXCEPT ![obj[i].itr] = At(p)]
  /\ UNCHANGED obj

(* The node moves i's handle to p and reports the status there.            *)
MoveTo(i, p) ==
  /\ host' = [host EXCEPT ![obj[i].itr] = At(p)]
  /\ obj' = [obj EXCEPT ![i].stat = StatusOf(p)]

Successor(i) ==
  IF Forward(i) THEN kv_it_next(Pos(i)) ELSE kv_it_prev(Pos(i))

(* Mutant: ++ does not look at the cached status.                          *)
IncrementUnchecked(i) ==
  /\ Live(i)
  /\ IF obj[i].itr = 0 \/ Erased(i)
     THEN Fail
     ELSE /\ MoveTo(i, Successor(i))
          /\ walk' = [walk EXCEPT ![i].seen =
                        IF walk[i].on THEN @ \cup ({Successor(i)} \ {End})
                        ELSE @]
          /\ UNCHANGED <<kind, store, read, aborted>>

(* operator++: "cannot increment end iterator", "incremented past the end".*)
Increment(i) ==
  /\ Live(i)
  /\ IF obj[i].stat = "end" \/ Erased(i)
     THEN Fail
     ELSE /\ MoveTo(i, Successor(i))
          /\ walk' = [walk EXCEPT ![i].seen =
                        IF walk[i].on THEN @ \cup ({Successor(i)} \ {End})
                        ELSE @]
          /\ UNCHANGED <<kind, store, read, aborted>>

(* Mutant: a forward iterator without a handle gets one on the first key.  *)
PredecessorFromFirst(i) ==
  IF Forward(i)
  THEN kv_it_prev(IF obj[i].itr = 0 THEN kv_it_lower_bound(1) ELSE Pos(i))
  ELSE kv_it_next(IF obj[i].itr = 0 THEN kv_it_lower_bound(1) ELSE Pos(i))

(* Where operator-- arrives.  Without a handle a forward iterator asks for *)
(* a new one, which stands past the end; a reverse one puts the new handle *)
(* on the first key before it asks for the next.                           *)
Predecessor(i) ==
  IF Forward(i) THEN kv_it_prev(Pos(i))
  ELSE kv_it_next(IF obj[i].itr = 0 THEN kv_it_lower_bound(1) ELSE Pos(i))

(* operator--: "decremented past the beginning".                           *)
Decrement(i) ==
  /\ Live(i)
  /\ IF Erased(i) \/ Predecessor(i) = End
     THEN Fail
     ELSE /\ IF obj[i].itr = 0 THEN Assign(i, Predecessor(i))
                               ELSE MoveTo(i, Predecessor(i))
          /\ EndWalk(i)
          /\ UNCHANGED <<kind, store, read, aborted>>

(* Mutant: value() trusts the cached status alone.                         *)
ValueOfCached(i) ==
  /\ Live(i)
  /\ IF obj[i].stat = "end" THEN Fail
     ELSE /\ read' = Pos(i)
          /\ UNCHANGED <<kind, store, host, obj, walk, aborted>>

(* value(): "Cannot read end iterator", and "Error reading value" when the *)
(* node no longer reports the status ok.                                   *)
value(i) ==
  /\ Live(i)
  /\ IF obj[i].stat = "end" \/ Erased(i) THEN Fail
     ELSE /\ read' = Pos(i)
          /\ UNCHANGED <<kind, store, host, obj, walk, aborted>>

-----------------------------------------------------------------------------
(* Ownership of the handles.                                               *)

(* i = std::move(j): operator= destroys the handle of i, takes the one of  *)
(* j and leaves j with none.  An object that is assigned to itself is left *)
(* out: one with a handle destroys it and keeps its number, which the node *)
(* may give out again; one without is not changed.                         *)
MoveAssign(i, j) ==
  /\ i # j /\ kind[i] = kind[j] /\ Live(j)
  /\ host' = Without(obj[i].itr)
  /\ obj' = [obj EXCEPT ![i] = obj[j],
                        ![j] = Object("moved", 0, obj[j].stat)]
  /\ walk' = [walk EXCEPT ![i] = walk[j], ![j] = NoWalk]
  /\ UNCHANGED <<kind, store, read, aborted>>

Destroy(i) ==
  /\ ~aborted /\ obj[i].life # "none"
  /\ host' = Without(obj[i].itr)
  /\ obj' = [obj EXCEPT ![i] = Object("none", 0, "end")]
  /\ EndWalk(i)
  /\ UNCHANGED <<kind, store, read, aborted>>

-----------------------------------------------------------------------------
(* table::put and table::erase while iterators are around.                 *)

TablePut(k) ==
  /\ ~aborted /\ k \notin store
  /\ store' = store \cup {k}
  /\ read' = 0
  /\ UNCHANGED <<kind, host, obj, walk, aborted>>

TableErase(k) ==
  /\ ~aborted /\ k \in store
  /\ store' = store \ {k}
  /\ host' = [h \in DOMAIN host |->
                IF host[h].pos = k THEN [host[h] EXCEPT !.erased = TRUE]
                ELSE host[h]]
  /\ walk' = [i \in Iterator |-> [walk[i] EXCEPT !.due = @ \ {k}]]
  /\ read' = 0
  /\ UNCHANGED <<kind, obj, aborted>>

Next ==
  \/ \E i \in Iterator :
       \/ begin(i) \/ rbegin(i) \/ end(i)
       \/ Increment(i) \/ Decrement(i) \/ value(i)
       \/ Destroy(i)
  \/ \E i \in Iterator, k \in Key :
       find(i, k) \/ lower_bound(i, k) \/ upper_bound(i, k)
  \/ \E i, j \in Iterator : MoveAssign(i, j)
  \/ \E k \in Key : TablePut(k) \/ TableErase(k)

Spec == Init /\ [][Next]_vars

-----------------------------------------------------------------------------
(* Comparisons and range, which change no state.                           *)

IsEnd(i) == obj[i].itr = 0 \/ obj[i].stat = "end"

(* iterator_base::compare, defined while no element was erased under them. *)
Compare(i, j) ==
  IF IsEnd(i) /\ IsEnd(j) THEN 0
  ELSE IF IsEnd(i) THEN 1
  ELSE IF IsEnd(j) THEN -1
  ELSE Pos(i) - Pos(j)

(* Mutant: the loop of range also takes the row its limit stands on.       *)
RangeInclusive(b, e) ==
  LET Rows[p \in Position] ==
        IF p <= kv_it_lower_bound(e) /\ p # End
        THEN <<p>> \o Rows[kv_it_next(p)] ELSE <<>>
  IN Rows[kv_it_lower_bound(b)]

(* The rows a loop from lower_bound(b) collects while it has not reached   *)
(* lower_bound(e).                                                         *)
range(b, e) ==
  LET Rows[p \in Position] ==
        IF p < kv_it_lower_bound(e)
        THEN <<p>> \o Rows[kv_it_next(p)] ELSE <<>>
  IN Rows[kv_it_lower_bound(b)]

-----------------------------------------------------------------------------
(* Properties.                                                             *)

(* Type invariant, and the agreement the checks of the iterators rely on:  *)
(* the cached status of a live object is "end" exactly when it has no      *)
(* handle or the node's iterator is past the end (kv.hpp:178-292).         *)
TypeOK ==
  /\ kind \in [Iterator -> {"forward", "reverse"}]
  /\ store \in SUBSET Key
  /\ DOMAIN host \in SUBSET Handle
  /\ \A h \in DOMAIN host : host[h] \in [pos : Position, erased : BOOLEAN]
  /\ obj \in [Iterator -> [life : {"none", "live", "moved"},
                           itr : Handle \cup {0}, stat : {"ok", "end"}]]
  /\ walk \in [Iterator ->
               [on : BOOLEAN, seen : SUBSET Key, due : SUBSET Key]]
  /\ read \in Key \cup {0}
  /\ aborted \in BOOLEAN
  /\ \A i \in Iterator : IsLive(i) => (obj[i].stat = "end" <=> Pos(i) = End)

(* Every iterator of the node is owned by exactly one object of the        *)
(* contract, and every handle an object holds exists: assignments, moves   *)
(* and failed finds neither leak nor share handles (kv.hpp:190-210, 518).  *)
HandlesAreOwned ==
  /\ {obj[i].itr : i \in Iterator} \ {0} = DOMAIN host
  /\ \A i, j \in Iterator :
       i # j /\ obj[i].itr # 0 => obj[i].itr # obj[j].itr

(* A loop from begin() to end(), or from rbegin() to rend(), meets every   *)
(* key that stays in the table meanwhile, whatever is put and erased       *)
(* between two steps (kv.hpp:353-357, 425-429).                            *)
WalksAreComplete ==
  \A i \in Iterator :
    walk[i].on /\ obj[i].stat = "end" => walk[i].due \subseteq walk[i].seen

(* Such a loop never meets a key twice: ++ does not wrap around the end,   *)
(* where the node's iterator would (kv.hpp:353-357, 425-429).              *)
NoKeyIsMetTwice ==
  [][\A i \in Iterator :
       /\ walk[i].on /\ walk'[i].on
       /\ obj[i].itr # 0 /\ obj'[i].itr = obj[i].itr
       /\ Pos(i)' # Pos(i)
       => Pos(i)' \notin walk[i].seen]_vars

(* value() returns a row that is in the table at that moment, never one    *)
(* that was erased after the iterator got there (kv.hpp:220-254).          *)
ReadsAreCurrent == read # 0 => read \in store

(* range returns the rows from b up to but excluding e, in key order, for  *)
(* any bounds, also when they are absent or reversed (kv.hpp:690-716).     *)
RangeIsExact ==
  \A b, e \in Key :
    LET got == range(b, e) IN
    /\ {got[n] : n \in 1..Len(got)} = {k \in store : b <= k /\ k < e}
    /\ \A n \in 2..Len(got) : got[n - 1] < got[n]

StepBackAlike(i, j) ==
  /\ IsLive(i) /\ IsLive(j) /\ kind[i] = kind[j]
  /\ ~Erased(i) /\ ~Erased(j)
  /\ Compare(i, j) = 0
  => Predecessor(i) = Predecessor(j)

(* Two forward iterators that compare equal step back to the same element, *)
(* whether end() made them or ++ walked them there (kv.hpp:359-366).       *)
EqualIteratorsStepBackAlike ==
  \A i, j \in Iterator : Forward(i) => StepBackAlike(i, j)

(* The same for reverse iterators, as the test riteration expects of one   *)
(* that has just been found equal to rend().                               *)
EqualReverseIteratorsStepBackAlike ==
  \A i, j \in Iterator : ~Forward(i) => StepBackAlike(i, j)
=============================================================================
