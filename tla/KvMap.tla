-------------------------------- MODULE KvMap --------------------------------
(***************************************************************************)
(* eosio::kv::map (contracts/eosio/map.hpp) during one transaction: its    *)
(* rows, and forward and reverse iterators over them.                      *)
(*                                                                         *)
(* A key is the sequence of bytes that convert_to_key makes of it; the     *)
(* prefix that all full keys share is left out.  The value of a row is     *)
(* left out too.  An iterator object owns an iterator of the node from its *)
(* construction on, until it is moved from or destroyed; that one stands   *)
(* on a row or past the end, remembers a row that is erased under it, and  *)
(* fails the transaction when it is moved or compared after that.          *)
(***************************************************************************)
EXTENDS Integers, Sequences, FiniteSets

CONSTANTS
  Byte,     \* the number of values of a byte
  MapKey,   \* the keys the contract uses
  Iterator  \* its iterator objects

ASSUME ByteAssumption == Byte \in Nat /\ Byte > 2
ASSUME KeyAssumption ==
  MapKey \subseteq Seq(0..(Byte - 1)) \ {<<>>} /\ IsFiniteSet(MapKey)

End == <<>>
Position == MapKey \cup {End}

VARIABLES
  kind,     \* iterator_t or reverse_iterator_t
  store,    \* the keys of the rows
  obj,      \* the iterator objects, each with the node's iterator it owns
  read,     \* the key of the row an iterator was last dereferenced to, or End
  aborted   \* a check, of the library or the node, has failed

vars == <<kind, store, obj, read, aborted>>

Forward(i) == kind[i] = "forward"

Object(life, pos, stat) ==
  [life |-> life, pos |-> pos, erased |-> FALSE, stat |-> stat]

(* The object exists: it is "new" until it is first sought or moved, when  *)
(* its status is not yet that of the node's iterator, and "moved" when it  *)
(* has given that one away.                                                *)
Exists(i) == ~aborted /\ obj[i].life # "none"
OwnsNone(i) == obj[i].life = "moved"

Init ==
  /\ kind \in [Iterator -> {"forward", "reverse"}]
  /\ store \in SUBSET MapKey
  /\ obj = [i \in Iterator |-> Object("none", End, "end")]
  /\ read = End
  /\ aborted = FALSE

Fail ==
  /\ aborted' = TRUE
  /\ obj' = [i \in Iterator |-> Object("none", End, "end")]
  /\ read' = End
  /\ UNCHANGED <<kind, store>>

-----------------------------------------------------------------------------
(* The node's iterators, over keys in the order of their bytes.            *)

Less(k, l) ==
  \E n \in 1..Len(l) :
    /\ n <= Len(k) + 1
    /\ \A m \in 1..(n - 1) : k[m] = l[m]
    /\ n <= Len(k) => k[n] < l[n]

First(S) == IF S = {} THEN End ELSE CHOOSE k \in S : \A l \in S : ~Less(l, k)
Last(S) == IF S = {} THEN End ELSE CHOOSE k \in S : \A l \in S : ~Less(k, l)

kv_it_lower_bound(k) == First({l \in store : ~Less(l, k)})

(* Past the end, next wraps to the first key and prev to the last one.     *)
kv_it_next(p) ==
  IF p = End THEN First(store) ELSE First({l \in store : Less(p, l)})
kv_it_prev(p) ==
  IF p = End THEN Last(store) ELSE Last({l \in store : Less(l, p)})

StatusOf(p) == IF p = End THEN "end" ELSE "ok"

-----------------------------------------------------------------------------
(* increment_bytes adds 1 to a signed char and takes a result that is not  *)
(* in 0..255 for a carry: the upper half of the bytes is negative, and so  *)
(* are their sums, except for the last one, which becomes 0.               *)
Carries(x) == x >= Byte \div 2 /\ x < Byte - 1

(* The byte at which the loop stops; 0 if the carry enters the prefix.     *)
Stop(k) ==
  CHOOSE n \in 0..Len(k) :
    /\ n > 0 => ~Carries(k[n])
    /\ \A m \in (n + 1)..Len(k) : Carries(k[m])

increment_bytes(k) ==
  [n \in 1..Len(k) |-> IF n < Stop(k) THEN k[n] ELSE (k[n] + 1) % Byte]

(* Mutant: the bound is the key itself.                                    *)
UpperBoundOfKey(k) == kv_it_lower_bound(k)

(* Where upper_bound(k) stands: a key whose prefix was incremented is      *)
(* beyond the rows of the map.                                             *)
UpperBound(k) ==
  IF Stop(k) = 0 THEN End ELSE kv_it_lower_bound(increment_bytes(k))

-----------------------------------------------------------------------------
(* Iterators begin and end.                                                *)

(* The constructor, which is public: status ok, though the node's iterator *)
(* begins past the end.                                                    *)
construct(i) ==
  /\ ~aborted /\ obj[i].life = "none"
  /\ obj' = [obj EXCEPT ![i] = Object("new", End, "ok")]
  /\ read' = End
  /\ UNCHANGED <<kind, store, aborted>>

destroy(i) ==
  /\ Exists(i)
  /\ obj' = [obj EXCEPT ![i] = Object("none", End, "end")]
  /\ read' = End
  /\ UNCHANGED <<kind, store, aborted>>

(* i = std::move(j), or i made from it, between the two kinds too.  The    *)
(* object moved from keeps its status.  An object assigned to itself       *)
(* destroys the node's iterator and keeps its number: left out.            *)
MoveAssign(i, j) ==
  /\ i # j /\ Exists(j)
  /\ obj' = [obj EXCEPT ![i] = obj[j], ![j] = Object("moved", End, obj[j].stat)]
  /\ read' = End
  /\ UNCHANGED <<kind, store, aborted>>

-----------------------------------------------------------------------------
(* Member functions of the map that return an iterator.                    *)

Assign(i, p) ==
  /\ ~aborted
  /\ obj' = [obj EXCEPT ![i] = Object("live", p, StatusOf(p))]
  /\ read' = End
  /\ UNCHANGED <<kind, store, aborted>>

begin(i) == Forward(i) /\ Assign(i, kv_it_lower_bound(End))
rbegin(i) == ~Forward(i) /\ Assign(i, kv_it_prev(End))

(* end(), and rend(), which converts it.                                   *)
end(i) == Assign(i, End)

lower_bound(i, k) == Forward(i) /\ Assign(i, kv_it_lower_bound(k))
upper_bound(i, k) == Forward(i) /\ Assign(i, UpperBound(k))

Find(k) == IF kv_it_lower_bound(k) = k THEN k ELSE End
find(i, k) == Forward(i) /\ Assign(i, Find(k))

-----------------------------------------------------------------------------
(* Moving and reading an iterator.                                         *)

MoveTo(i, p) ==
  /\ obj' = [obj EXCEPT ![i] = Object("live", p, StatusOf(p))]
  /\ read' = End
  /\ UNCHANGED <<kind, store, aborted>>

(* The node refuses an object that has no iterator of its.                 *)
Seek(i, p) == Exists(i) /\ IF OwnsNone(i) THEN Fail ELSE MoveTo(i, p)

seek_to_begin(i) == Seek(i, kv_it_lower_bound(End))
seek_to_last(i) == Seek(i, kv_it_prev(End))
seek_to_end(i) == Seek(i, End)
seek_lower_bound(i, k) == Seek(i, kv_it_lower_bound(k))
seek_find(i, k) == Seek(i, Find(k))

(* A step towards larger keys checks the status before it moves ...        *)
UpFails(i) == obj[i].stat # "ok" \/ obj[i].erased \/ OwnsNone(i)

(* ... and one towards smaller keys checks the status it arrives with.     *)
DownFails(i) == obj[i].erased \/ OwnsNone(i) \/ kv_it_prev(obj[i].pos) = End

Up(i) == IF UpFails(i) THEN Fail ELSE MoveTo(i, kv_it_next(obj[i].pos))
Down(i) == IF DownFails(i) THEN Fail ELSE MoveTo(i, kv_it_prev(obj[i].pos))

(* "incrementing past end or an erased iterator"                           *)
Increment(i) == Exists(i) /\ IF Forward(i) THEN Up(i) ELSE Down(i)

(* "decrementing past end or an erased iterator"                           *)
Decrement(i) == Exists(i) /\ IF Forward(i) THEN Down(i) ELSE Up(i)

(* Mutant: the element read before is taken for the present one.           *)
DereferenceCached(i) ==
  /\ Exists(i)
  /\ IF obj[i].pos = End THEN Fail
     ELSE /\ read' = obj[i].pos
          /\ UNCHANGED <<kind, store, obj, aborted>>

(* materialize: "failure getting key"                                      *)
Dereference(i) ==
  /\ Exists(i)
  /\ IF obj[i].pos = End \/ obj[i].erased THEN Fail
     ELSE /\ read' = obj[i].pos
          /\ UNCHANGED <<kind, store, obj, aborted>>

-----------------------------------------------------------------------------
(* Changing the map.                                                       *)

(* set: assignment to what operator[] or at returned, the constructors     *)
(* with rows, raw_write, and operator[] itself, which stores a default     *)
(* value for a key without a row.                                          *)
set(k) ==
  /\ ~aborted
  /\ store' = store \cup {k}
  /\ read' = End
  /\ UNCHANGED <<kind, obj, aborted>>

(* at: "key not found"                                                     *)
at(k) == ~aborted /\ k \notin store /\ Fail

erase(k) ==
  /\ ~aborted
  /\ store' = store \ {k}
  /\ obj' = [i \in Iterator |->
               IF obj[i].pos = k THEN [obj[i] EXCEPT !.erased = TRUE] ELSE obj[i]]
  /\ read' = End
  /\ UNCHANGED <<kind, aborted>>

Next ==
  \/ \E i \in Iterator :
       construct(i) \/ destroy(i)
       \/ begin(i) \/ rbegin(i) \/ end(i)
       \/ seek_to_begin(i) \/ seek_to_last(i) \/ seek_to_end(i)
       \/ Increment(i) \/ Decrement(i) \/ Dereference(i)
  \/ \E i \in Iterator, k \in MapKey :
       lower_bound(i, k) \/ upper_bound(i, k) \/ find(i, k)
       \/ seek_lower_bound(i, k) \/ seek_find(i, k)
  \/ \E i, j \in Iterator : MoveAssign(i, j)
  \/ \E k \in MapKey : set(k) \/ at(k) \/ erase(k)

Spec == Init /\ [][Next]_vars

-----------------------------------------------------------------------------
(* Mutant: the loop ends when its iterator is past the limit's key.        *)
SliceToLimit(l, h) ==
  LET Rows[p \in Position] ==
        IF p = End \/ Less(h, p) THEN <<>> ELSE <<p>> \o Rows[kv_it_next(p)]
  IN Rows[kv_it_lower_bound(l)]

(* The rows ranged_slice collects while its iterator is not equal to       *)
(* lower_bound(h).  One that is past the end, and not equal, is            *)
(* dereferenced, which fails: End stands for that.                         *)
ranged_slice(l, h) ==
  LET Rows[p \in Position] ==
        IF p = kv_it_lower_bound(h) THEN <<>>
        ELSE IF p = End THEN <<End>>
        ELSE <<p>> \o Rows[kv_it_next(p)]
  IN Rows[kv_it_lower_bound(l)]

-----------------------------------------------------------------------------
(* Properties.                                                             *)

(* Type invariant, and what the checks rely on: the cached status of an    *)
(* iterator that was ever sought or moved, also by an assignment, agrees   *)
(* with the node's iterator it owns, after every move, failed find and     *)
(* conversion; one just constructed says ok at the end; and one moved from *)
(* has no position to agree with (map.hpp:169-392).                        *)
TypeOK ==
  /\ kind \in [Iterator -> {"forward", "reverse"}]
  /\ store \in SUBSET MapKey
  /\ obj \in [Iterator -> [life : {"none", "new", "live", "moved"}, pos : Position,
                           erased : BOOLEAN, stat : {"ok", "end"}]]
  /\ read \in Position
  /\ aborted \in BOOLEAN
  /\ \A i \in Iterator :
       /\ obj[i].life = "live" => (obj[i].stat = "end" <=> obj[i].pos = End)
       /\ obj[i].life = "new" => obj[i].stat = "ok"
       /\ obj[i].life # "live" => obj[i].pos = End /\ ~obj[i].erased

(* What is read through an iterator is a row of the map at that moment,    *)
(* also after rows were erased and stored again under the iterator         *)
(* (map.hpp:375-387).                                                      *)
ReadsAreCurrent == read # End => read \in store

(* ranged_slice returns exactly the rows from l up to but excluding h; it  *)
(* fails, and never returns anything else, when the bounds are reversed    *)
(* with rows in between (map.hpp:580-588).                                 *)
SliceIsExact ==
  \A l, h \in MapKey :
    LET got == ranged_slice(l, h)
        keys == {got[n] : n \in DOMAIN got}
    IN
    IF \E k \in store : ~Less(k, h) /\ Less(k, l) THEN End \in keys
    ELSE /\ keys = {k \in store : ~Less(k, l) /\ Less(k, h)}
         /\ \A n \in 2..Len(got) : Less(got[n - 1], got[n])

UpperBoundIs(k) == UpperBound(k) = First({l \in store : Less(k, l)})

(* For keys of one length whose last byte is in the lower half of its      *)
(* values upper_bound stands on the first larger key (map.hpp:570-576).    *)
PlainUpperBoundIsNext ==
  \A k \in MapKey :
    k[Len(k)] < Byte \div 2 /\ (\A l \in store : Len(l) = Len(k))
      => UpperBoundIs(k)

(* The documentation of upper_bound promises it for every key: "the value  *)
(* that is strictly greater than that key" (map.hpp:566).                  *)
UpperBoundIsNext == \A k \in MapKey : UpperBoundIs(k)

(* The documentation of ++ promises that an iterator incremented past its  *)
(* last element becomes the end (map.hpp:321), in either direction.        *)
WalksReachTheEnd ==
  \A i \in Iterator :
    obj[i].life = "live" /\ obj[i].stat = "ok" /\ ~obj[i].erased =>
      IF Forward(i) THEN ~UpFails(i) ELSE ~DownFails(i)
=============================================================================
