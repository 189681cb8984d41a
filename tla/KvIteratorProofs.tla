--------------------------- MODULE KvIteratorProofs ---------------------------
(***************************************************************************)
(* Theorems about the iterators of eosio::kv::table for any number of keys *)
(* and any finite set of iterator objects, with the table changing under   *)
(* them.                                                                   *)
(*                                                                         *)
(* The invariants of KvIterator are not inductive alone: that a loop met   *)
(* every key follows from what each position still has ahead (WalkSound),  *)
(* that a read is current from where the node's iterators may stand        *)
(* (HostSound), and that a new handle is free from who owns the others.    *)
(***************************************************************************)
EXTENDS KvIterator, TLAPS, FiniteSetTheorems, WellFoundedInduction

-----------------------------------------------------------------------------
(* The inductive invariant.                                                *)

(* A node's iterator stands on a key of the table, past its end, or on a   *)
(* key that was erased under it.                                           *)
HostSound ==
  \A h \in DOMAIN host :
    IF host[h].erased THEN host[h].pos # End
    ELSE host[h].pos \in store \cup {End}

(* An object without life has neither a handle nor a loop.                 *)
LifeSound ==
  \A i \in Iterator : ~IsLive(i) => obj[i].itr = 0 /\ ~walk[i].on

Passed(i, k) ==
  Pos(i) = End \/ IF Forward(i) THEN k <= Pos(i) ELSE Pos(i) <= k

(* What a loop has not met is still ahead, what it has met is not.         *)
WalkSound(i) ==
  walk[i].on =>
    /\ walk[i].due \subseteq store
    /\ \A k \in walk[i].due : Passed(i, k) => k \in walk[i].seen
    /\ \A k \in walk[i].seen : Passed(i, k)

IInv ==
  /\ TypeOK
  /\ HandlesAreOwned
  /\ HostSound
  /\ LifeSound
  /\ ReadsAreCurrent
  /\ \A i \in Iterator : WalkSound(i)

-----------------------------------------------------------------------------
(* Lookups of the node.                                                    *)

LEMMA LeastExists ==
  ASSUME NEW T \in SUBSET Nat, T # {}
  PROVE  Least(T) \in T /\ \A k \in T : Least(T) <= k
<1>1. PICK n \in T : \A k \in T : ~(<<k, n>> \in OpToRel(<, Nat))
  BY NatLessThanWellFounded, WFMin
<1>2. \A k \in T : ~(k < n)
  BY <1>1 DEF OpToRel
<1>3. \A k \in T : n <= k
  BY <1>2
<1> QED
  BY <1>3 DEF Least

LEMMA GreatestExists ==
  ASSUME NEW S \in SUBSET Key, S # {}
  PROVE  Greatest(S) \in S /\ \A k \in S : k <= Greatest(S)
<1> DEFINE T == {MaxKey - k : k \in S}
<1>1. T \in SUBSET Nat /\ T # {}
  BY MaxKeyAssumption DEF Key
<1>2. PICK n \in T : \A m \in T : n <= m
  BY <1>1, LeastExists
<1>3. PICK k \in S : n = MaxKey - k
  BY <1>2
<1>4. \A l \in S : l <= k
  <2> TAKE l \in S
  <2>1. MaxKey - l \in T
    OBVIOUS
  <2> QED
    BY <1>2, <1>3, <2>1, MaxKeyAssumption DEF Key
<1> QED
  BY <1>4 DEF Greatest

LEMMA LowerBoundIs ==
  ASSUME NEW k \in Nat, store \in SUBSET Key, k <= End
  PROVE  /\ kv_it_lower_bound(k) \in store \cup {End}
         /\ k <= kv_it_lower_bound(k)
         /\ \A l \in store : k <= l => kv_it_lower_bound(k) <= l
<1> DEFINE S == {l \in store : k <= l} \cup {End}
<1>0. store \subseteq Nat /\ End \in Nat
  BY MaxKeyAssumption DEF Key, End
<1>1. S \in SUBSET Nat /\ S # {}
  BY <1>0
<1>2. Least(S) \in S /\ \A l \in S : Least(S) <= l
  BY <1>1, LeastExists
<1> QED
  BY <1>2 DEF kv_it_lower_bound

LEMMA NextIs ==
  ASSUME NEW p \in Key, store \in SUBSET Key
  PROVE  /\ kv_it_next(p) \in store \cup {End}
         /\ p < kv_it_next(p)
         /\ \A l \in store : p < l => kv_it_next(p) <= l
<1>1. p + 1 \in Nat /\ p + 1 <= End /\ p # End
  BY MaxKeyAssumption DEF Key, End
<1>2. kv_it_next(p) = kv_it_lower_bound(p + 1)
  BY <1>1 DEF kv_it_next
<1>3. /\ kv_it_lower_bound(p + 1) \in store \cup {End}
      /\ p + 1 <= kv_it_lower_bound(p + 1)
      /\ \A l \in store : p + 1 <= l => kv_it_lower_bound(p + 1) <= l
  BY <1>1, LowerBoundIs
<1>4. store \cup {End} \subseteq Nat
  BY MaxKeyAssumption DEF Key, End
<1> QED
  BY <1>2, <1>3, <1>4 DEF Key

LEMMA PrevIs ==
  ASSUME NEW p \in Position, store \in SUBSET Key
  PROVE  /\ kv_it_prev(p) \in store \cup {End}
         /\ kv_it_prev(p) # End => kv_it_prev(p) < p
         /\ \A l \in store : l < p => kv_it_prev(p) # End /\ l <= kv_it_prev(p)
<1> DEFINE S == {l \in store : l < p}
<1>1. End \notin store
  BY MaxKeyAssumption DEF Key, End
<1>2. CASE S = {}
  BY <1>2 DEF kv_it_prev
<1>3. CASE S # {}
  <2>1. Greatest(S) \in S /\ \A k \in S : k <= Greatest(S)
    BY <1>3, GreatestExists
  <2>2. kv_it_prev(p) = Greatest(S)
    BY <1>3 DEF kv_it_prev
  <2> QED
    BY <1>1, <2>1, <2>2
<1> QED
  BY <1>2, <1>3

LEMMA SuccessorIs ==
  ASSUME NEW i \in Iterator, IInv, Pos(i) \in Key
  PROVE  /\ Successor(i) \in store \cup {End}
         /\ Successor(i) # End =>
              IF Forward(i) THEN Pos(i) < Successor(i)
                            ELSE Successor(i) < Pos(i)
         /\ \A l \in store :
              (IF Forward(i) THEN Pos(i) < l ELSE l < Pos(i)) =>
                \/ l = Successor(i)
                \/ /\ Successor(i) # End
                   /\ IF Forward(i) THEN Successor(i) < l ELSE l < Successor(i)
<1> DEFINE p == Pos(i)
           q == Successor(i)
<1>1. store \in SUBSET Key /\ p \in Key /\ p \in Position
  BY DEF IInv, TypeOK, Position
<1>2. End \in Nat /\ \A l \in store : l \in Nat /\ l < End
  BY <1>1, MaxKeyAssumption DEF Key, End
<1>3. p \in Nat
  BY <1>1 DEF Key
<1>4. CASE Forward(i)
  <2>1. q = kv_it_next(p)
    BY <1>4 DEF Successor
  <2>2. q \in store \cup {End} /\ p < q /\ \A l \in store : p < l => q <= l
    BY <1>1, <2>1, NextIs
  <2>3. q \in Nat
    BY <1>2, <2>2
  <2>4. \A l \in store : p < l => l = q \/ (q # End /\ q < l)
    BY <1>2, <2>2, <2>3
  <2> QED
    BY <1>4, <2>2, <2>4
<1>5. CASE ~Forward(i)
  <2>1. q = kv_it_prev(p)
    BY <1>5 DEF Successor
  <2>2. /\ q \in store \cup {End}
        /\ q # End => q < p
        /\ \A l \in store : l < p => q # End /\ l <= q
    BY <1>1, <2>1, PrevIs
  <2>3. q \in Nat
    BY <1>2, <2>2
  <2>4. \A l \in store : l < p => l = q \/ (q # End /\ l < q)
    BY <1>2, <2>2, <2>3
  <2> QED
    BY <1>5, <2>2, <2>4
<1> QED
  BY <1>4, <1>5

LEMMA PredecessorIs ==
  ASSUME NEW i \in Iterator, IInv, Pos(i) \in Position
  PROVE  Predecessor(i) \in store \cup {End}
<1>1. store \in SUBSET Key /\ \A k \in store \cup {End} : k \in Position
  BY DEF IInv, TypeOK, Position
<1>2. kv_it_lower_bound(1) \in store \cup {End}
  BY <1>1, LowerBoundIs, MaxKeyAssumption DEF End
<1>3. \A p \in Position : kv_it_prev(p) \in store \cup {End}
  BY <1>1, PrevIs
<1>4. \A p \in Position : kv_it_next(p) \in store \cup {End}
  BY <1>1, <1>2, NextIs DEF Position, kv_it_next
<1> QED
  BY <1>1, <1>2, <1>3, <1>4 DEF Predecessor

-----------------------------------------------------------------------------
(* Handles.                                                                *)

LEMMA HandleIsFree ==
  ASSUME IInv
  PROVE  FreeHandle \in Handle \ DOMAIN host
<1> DEFINE n == Cardinality(Iterator)
<1>1. n \in Nat
  BY IteratorAssumption, FS_CardinalityType
<1>2. IsFiniteSet(Handle) /\ Cardinality(Handle) = n + 1
  BY <1>1, FS_Interval DEF Handle
<1>3. Handle \ DOMAIN host # {}
  <2> SUFFICES ASSUME Handle \subseteq DOMAIN host PROVE FALSE
    OBVIOUS
  <2>1. \A h \in Handle : \E i \in Iterator : obj[i].itr = h
    BY DEF IInv, HandlesAreOwned
  <2> DEFINE owner == [h \in Handle |-> CHOOSE i \in Iterator : obj[i].itr = h]
  <2>2. \A h \in Handle : owner[h] \in Iterator /\ obj[owner[h]].itr = h
    BY <2>1
  <2>3. owner \in [Handle -> Iterator]
    BY <2>2
  <2>4. n < n + 1
    BY <1>1
  <2> HIDE DEF owner
  <2>5. \E g, h \in Handle : g # h /\ owner[g] = owner[h]
    BY <1>2, <2>3, <2>4, IteratorAssumption, FS_PigeonHole
  <2> QED
    BY <2>2, <2>5
<1>4. Handle \ DOMAIN host \in SUBSET Nat
  BY DEF Handle
<1> QED
  BY <1>3, <1>4, LeastExists DEF FreeHandle

-----------------------------------------------------------------------------
(* Putting one object somewhere.                                           *)

HostTyped ==
  /\ DOMAIN host \in SUBSET Handle
  /\ \A h \in DOMAIN host : host[h] \in [pos : Position, erased : BOOLEAN]
ObjTyped ==
  obj \in [Iterator -> [life : {"none", "live", "moved"},
                        itr : Handle \cup {0}, stat : {"ok", "end"}]]

Kept(j) == obj'[j] = obj[j] /\ Pos(j)' = Pos(j)

(* Object i now stands at p, everything else is as it was.                 *)
Placed(i, p) ==
  /\ HostTyped' /\ ObjTyped' /\ HandlesAreOwned'
  /\ \A h \in DOMAIN host' :
       host'[h] = At(p) \/ (h \in DOMAIN host /\ host'[h] = host[h])
  /\ obj'[i].life = "live"
  /\ Pos(i)' = p
  /\ obj'[i].stat = "end" <=> p = End
  /\ \A j \in Iterator \ {i} : Kept(j)

LEMMA ZeroIsNoHandle == 0 \notin Handle
  BY DEF Handle

LEMMA PosTyped ==
  ASSUME IInv, NEW i \in Iterator
  PROVE  /\ Pos(i) \in Position
         /\ obj[i].itr # 0 => obj[i].itr \in DOMAIN host
<1>1. obj[i].itr # 0 => obj[i].itr \in DOMAIN host
  BY DEF IInv, HandlesAreOwned
<1>2. \A h \in DOMAIN host : host[h].pos \in Position
  BY DEF IInv, TypeOK
<1> QED
  BY <1>1, <1>2 DEF Pos, Position

LEMMA AssignPlaces ==
  ASSUME IInv, NEW i \in Iterator, NEW p \in Position, Assign(i, p)
  PROVE  /\ Placed(i, p)
         /\ obj'[i].itr # obj[i].itr
<1> DEFINE f == FreeHandle
           o == Object("live", f, StatusOf(p))
<1>1. f \in Handle /\ f \notin DOMAIN host /\ f # 0
  BY HandleIsFree, ZeroIsNoHandle
<1>2. HostTyped /\ ObjTyped
  BY DEF IInv, TypeOK, HostTyped, ObjTyped
<1>3. \A j \in Iterator : obj[j].itr # f /\ (obj[j].itr # 0 => obj[j].itr \in DOMAIN host)
  BY <1>1, PosTyped
<1>4. DOMAIN host' = (DOMAIN host \cup {f}) \ {obj[i].itr}
  BY DEF Assign
<1>5. host'[f] = At(p) /\ \A h \in DOMAIN host' \ {f} : h \in DOMAIN host /\ host'[h] = host[h]
  BY <1>1, <1>3, <1>4 DEF Assign
<1>6. At(p) \in [pos : Position, erased : BOOLEAN] /\ At(p).pos = p
  BY DEF At
<1>7. o \in [life : {"none", "live", "moved"}, itr : Handle \cup {0}, stat : {"ok", "end"}]
  BY <1>1 DEF Object, StatusOf
<1>8. o.life = "live" /\ o.itr = f /\ (o.stat = "end" <=> p = End)
  BY DEF Object, StatusOf
<1>9. obj' = [obj EXCEPT ![i] = o]
  BY DEF Assign
<1> HIDE DEF f, o
<1>10. HostTyped'
  BY <1>1, <1>2, <1>4, <1>5, <1>6 DEF HostTyped
<1>11. ObjTyped' /\ obj'[i] = o /\ \A j \in Iterator \ {i} : obj'[j] = obj[j]
  BY <1>2, <1>7, <1>9 DEF ObjTyped
<1>12. Pos(i)' = p
  BY <1>1, <1>5, <1>6, <1>8, <1>11 DEF Pos
<1>13. HandlesAreOwned'
  <2>1. \A j, k \in Iterator : j # k /\ obj[j].itr # 0 => obj[j].itr # obj[k].itr
    BY DEF IInv, HandlesAreOwned
  <2>2. \A j, k \in Iterator : j # k /\ obj'[j].itr # 0 => obj'[j].itr # obj'[k].itr
    BY <1>1, <1>3, <1>8, <1>11, <2>1
  <2>3. {obj[j].itr : j \in Iterator} \ {0} = DOMAIN host
    BY DEF IInv, HandlesAreOwned
  <2>4. {obj'[j].itr : j \in Iterator} \ {0} \subseteq DOMAIN host'
    BY <1>1, <1>3, <1>4, <1>8, <1>11, <2>1
  <2>5. ASSUME NEW h \in DOMAIN host' PROVE h \in {obj'[j].itr : j \in Iterator} \ {0}
    <3>1. CASE h = f
      BY <3>1, <1>1, <1>8, <1>11
    <3>2. CASE h # f
      <4>1. PICK j \in Iterator : obj[j].itr = h /\ h # 0
        BY <3>2, <1>4, <2>3, <2>5
      <4>2. j # i
        BY <4>1, <1>4, <2>5
      <4> QED
        BY <4>1, <4>2, <1>11
    <3> QED
      BY <3>1, <3>2
  <2> QED
    BY <2>2, <2>4, <2>5 DEF HandlesAreOwned
<1>14. \A j \in Iterator \ {i} : Kept(j)
  <2> TAKE j \in Iterator \ {i}
  <2>1. obj[j].itr # 0 => obj[j].itr \in DOMAIN host' \ {f}
    BY <1>3, <1>4 DEF IInv, HandlesAreOwned
  <2> QED
    BY <1>5, <1>11, <2>1 DEF Kept, Pos
<1> QED
  BY <1>1, <1>3, <1>5, <1>8, <1>10, <1>11, <1>12, <1>13, <1>14 DEF Placed

(* Taking away the handle of i, whatever becomes of the object.            *)
LEMMA WithoutKeeps ==
  ASSUME IInv, NEW i \in Iterator, host' = Without(obj[i].itr),
         ObjTyped', obj'[i].itr = 0,
         \A j \in Iterator \ {i} : obj'[j] = obj[j]
  PROVE  /\ HostTyped' /\ HandlesAreOwned'
         /\ \A h \in DOMAIN host' : h \in DOMAIN host /\ host'[h] = host[h]
         /\ \A j \in Iterator \ {i} : Kept(j)
<1>1. DOMAIN host' = DOMAIN host \ {obj[i].itr}
  BY DEF Without
<1>2. \A h \in DOMAIN host' : h \in DOMAIN host /\ host'[h] = host[h]
  BY DEF Without
<1>3. HostTyped
  BY DEF IInv, TypeOK, HostTyped
<1>4. HostTyped'
  BY <1>2, <1>3 DEF HostTyped
<1>5. /\ {obj[j].itr : j \in Iterator} \ {0} = DOMAIN host
      /\ \A j, k \in Iterator : j # k /\ obj[j].itr # 0 => obj[j].itr # obj[k].itr
  BY DEF IInv, HandlesAreOwned
<1>6. \A j \in Iterator \ {i} : obj[j].itr # 0 => obj[j].itr \in DOMAIN host'
  BY <1>1, <1>5
<1>7. HandlesAreOwned'
  <2>1. \A j, k \in Iterator : j # k /\ obj'[j].itr # 0 => obj'[j].itr # obj'[k].itr
    BY <1>5
  <2>2. {obj'[j].itr : j \in Iterator} \ {0} \subseteq DOMAIN host'
    BY <1>6
  <2>3. ASSUME NEW h \in DOMAIN host' PROVE h \in {obj'[j].itr : j \in Iterator} \ {0}
    <3>1. PICK j \in Iterator : obj[j].itr = h /\ h # 0
      BY <1>2, <1>5, <2>3
    <3>2. j # i
      BY <3>1, <1>1, <2>3
    <3> QED
      BY <3>1, <3>2
  <2> QED
    BY <2>1, <2>2, <2>3 DEF HandlesAreOwned
<1>8. \A j \in Iterator \ {i} : Kept(j)
  BY <1>2, <1>6 DEF Kept, Pos
<1> QED
  BY <1>2, <1>4, <1>7, <1>8

LEMMA EndPlaces ==
  ASSUME IInv, NEW i \in Iterator, AssignEnd(i)
  PROVE  /\ Placed(i, End)
         /\ obj'[i].itr = 0
<1> DEFINE o == Object("live", 0, "end")
<1>1. /\ o \in [life : {"none", "live", "moved"}, itr : Handle \cup {0}, stat : {"ok", "end"}]
      /\ o.life = "live" /\ o.itr = 0 /\ o.stat = "end"
  BY DEF Object
<1>2. obj' = [obj EXCEPT ![i] = o] /\ host' = Without(obj[i].itr)
  BY DEF AssignEnd
<1> HIDE DEF o
<1>3. ObjTyped' /\ obj'[i] = o /\ \A j \in Iterator \ {i} : obj'[j] = obj[j]
  BY <1>1, <1>2 DEF IInv, TypeOK, ObjTyped
<1>4. /\ HostTyped' /\ HandlesAreOwned'
      /\ \A h \in DOMAIN host' : h \in DOMAIN host /\ host'[h] = host[h]
      /\ \A j \in Iterator \ {i} : Kept(j)
  BY <1>1, <1>2, <1>3, WithoutKeeps
<1> QED
  BY <1>1, <1>3, <1>4 DEF Placed, Pos

LEMMA MovePlaces ==
  ASSUME IInv, NEW i \in Iterator, NEW p \in Position, MoveTo(i, p),
         obj[i].itr # 0
  PROVE  /\ Placed(i, p)
         /\ obj'[i].itr = obj[i].itr
<1> DEFINE h == obj[i].itr
<1>1. h \in DOMAIN host /\ h # 0
  BY PosTyped
<1>2. HostTyped /\ ObjTyped
  BY DEF IInv, TypeOK, HostTyped, ObjTyped
<1>3. /\ DOMAIN host' = DOMAIN host /\ host'[h] = At(p)
      /\ \A g \in DOMAIN host \ {h} : host'[g] = host[g]
  BY <1>1 DEF MoveTo
<1>4. At(p) \in [pos : Position, erased : BOOLEAN] /\ At(p).pos = p
  BY DEF At
<1>5. HostTyped'
  BY <1>2, <1>3, <1>4 DEF HostTyped
<1>6. /\ ObjTyped' /\ \A j \in Iterator \ {i} : obj'[j] = obj[j]
      /\ obj'[i].itr = h /\ obj'[i].stat = StatusOf(p) /\ obj'[i].life = obj[i].life
  BY <1>2 DEF ObjTyped, MoveTo, StatusOf
<1>7. obj[i].life = "live"
  BY <1>1 DEF IInv, LifeSound, IsLive
<1>8. Pos(i)' = p
  BY <1>1, <1>3, <1>4, <1>6 DEF Pos
<1>9. /\ {obj[j].itr : j \in Iterator} \ {0} = DOMAIN host
      /\ \A j, k \in Iterator : j # k /\ obj[j].itr # 0 => obj[j].itr # obj[k].itr
  BY DEF IInv, HandlesAreOwned
<1>10. \A j \in Iterator : obj'[j].itr = obj[j].itr
  BY <1>6
<1>11. HandlesAreOwned'
  <2>1. {obj'[j].itr : j \in Iterator} = {obj[j].itr : j \in Iterator}
    BY <1>10
  <2>2. \A j, k \in Iterator : j # k /\ obj'[j].itr # 0 => obj'[j].itr # obj'[k].itr
    BY <1>9, <1>10
  <2> QED
    BY <1>3, <1>9, <2>1, <2>2 DEF HandlesAreOwned
<1>12. \A j \in Iterator \ {i} : Kept(j)
  BY <1>1, <1>3, <1>6, <1>9 DEF Kept, Pos
<1> QED
  BY <1>3, <1>5, <1>6, <1>7, <1>8, <1>11, <1>12 DEF Placed, StatusOf

-----------------------------------------------------------------------------
(* Loops.                                                                  *)

WalkTyped ==
  walk \in [Iterator -> [on : BOOLEAN, seen : SUBSET Key, due : SUBSET Key]]

(* What remains to be shown of an action that puts i somewhere.            *)
LEMMA PlacedSafe ==
  ASSUME IInv, NEW i \in Iterator, NEW p \in store \cup {End}, Placed(i, p),
         UNCHANGED <<kind, store, read, aborted>>,
         WalkTyped', WalkSound(i)',
         \A j \in Iterator \ {i} : walk'[j] = walk[j]
  PROVE  IInv'
<1>1. HostSound'
  <2>1. At(p).pos = p /\ At(p).erased = FALSE
    BY DEF At
  <2> QED
    BY <2>1 DEF IInv, HostSound, Placed
<1>2. LifeSound'
  BY DEF IInv, LifeSound, IsLive, Placed, Kept
<1>3. ReadsAreCurrent'
  BY DEF IInv, ReadsAreCurrent
<1>4. \A j \in Iterator : WalkSound(j)'
  <2> SUFFICES ASSUME NEW j \in Iterator \ {i} PROVE WalkSound(j)'
    OBVIOUS
  <2>1. WalkSound(j) /\ walk'[j] = walk[j] /\ Pos(j)' = Pos(j)
    BY DEF IInv, Placed, Kept
  <2> QED
    BY <2>1 DEF WalkSound, Passed, Forward
<1>5. \A j \in Iterator : IsLive(j)' => (obj'[j].stat = "end" <=> Pos(j)' = End)
  BY DEF IInv, TypeOK, IsLive, Placed, Kept
<1>6. TypeOK'
  BY <1>5, Zenon DEF IInv, TypeOK, Placed, HostTyped, ObjTyped, WalkTyped
<1> QED
  BY <1>1, <1>2, <1>3, <1>4, <1>6, Zenon DEF IInv, Placed

LEMMA EndWalkIs ==
  ASSUME IInv, NEW i \in Iterator, EndWalk(i)
  PROVE  /\ WalkTyped' /\ ~walk'[i].on
         /\ \A j \in Iterator \ {i} : walk'[j] = walk[j]
<1>1. NoWalk \in [on : BOOLEAN, seen : SUBSET Key, due : SUBSET Key] /\ ~NoWalk.on
  BY DEF NoWalk
<1> QED
  BY <1>1 DEF IInv, TypeOK, EndWalk, WalkTyped

LEMMA StartWalkIs ==
  ASSUME IInv, NEW i \in Iterator, NEW p \in store \cup {End}, StartWalk(i, p)
  PROVE  /\ WalkTyped' /\ walk'[i].on
         /\ walk'[i].seen = {p} \ {End} /\ walk'[i].due = store
         /\ \A j \in Iterator \ {i} : walk'[j] = walk[j]
<1> DEFINE w == [on |-> TRUE, seen |-> {p} \ {End}, due |-> store]
<1>1. /\ w \in [on : BOOLEAN, seen : SUBSET Key, due : SUBSET Key]
      /\ w.on /\ w.seen = {p} \ {End} /\ w.due = store
  BY DEF IInv, TypeOK
<1>2. walk' = [walk EXCEPT ![i] = w]
  BY DEF StartWalk
<1> HIDE DEF w
<1> QED
  BY <1>1, <1>2 DEF IInv, TypeOK, WalkTyped

(* The same for an iterator that is not assigned from begin or rbegin.     *)
LEMMA EndedSafe ==
  ASSUME IInv, NEW i \in Iterator, NEW p \in store \cup {End}, Placed(i, p),
         EndWalk(i), UNCHANGED <<kind, store, read, aborted>>
  PROVE  IInv'
<1>1. /\ WalkTyped' /\ ~walk'[i].on
      /\ \A j \in Iterator \ {i} : walk'[j] = walk[j]
  BY EndWalkIs
<1>2. WalkSound(i)'
  BY <1>1 DEF WalkSound
<1> QED
  BY <1>1, <1>2, PlacedSafe

(* begin and rbegin stand on the first row, so that nothing is missed.     *)
LEMMA StartedSafe ==
  ASSUME IInv, NEW i \in Iterator, NEW p \in store \cup {End}, Placed(i, p),
         StartWalk(i, p), UNCHANGED <<kind, store, read, aborted>>,
         \A l \in store : p # End /\ IF Forward(i) THEN p <= l ELSE l <= p
  PROVE  IInv'
<1>1. /\ WalkTyped' /\ walk'[i].on
      /\ walk'[i].seen = {p} \ {End} /\ walk'[i].due = store
      /\ \A j \in Iterator \ {i} : walk'[j] = walk[j]
  BY StartWalkIs
<1>2. p \in Nat /\ \A l \in store : l \in Nat
  BY MaxKeyAssumption DEF IInv, TypeOK, Key, End
<1>3. Pos(i)' = p
  BY DEF Placed
<1>4. WalkSound(i)'
  BY <1>1, <1>2, <1>3 DEF WalkSound, Passed, Forward
<1> QED
  BY <1>1, <1>4, PlacedSafe

-----------------------------------------------------------------------------
(* The actions.                                                            *)

LEMMA PositionIs ==
  ASSUME IInv
  PROVE  /\ store \in SUBSET Key /\ store \cup {End} \subseteq Position
         /\ End \notin store
  BY MaxKeyAssumption DEF IInv, TypeOK, Position, Key, End

LEMMA FailSafe ==
  ASSUME IInv, Fail
  PROVE  IInv'
<1> DEFINE o == Object("none", 0, "end")
<1>1. /\ o \in [life : {"none", "live", "moved"}, itr : Handle \cup {0}, stat : {"ok", "end"}]
      /\ o.life = "none" /\ o.itr = 0
  BY DEF Object
<1>2. NoWalk \in [on : BOOLEAN, seen : SUBSET Key, due : SUBSET Key] /\ ~NoWalk.on
  BY DEF NoWalk
<1>3. /\ obj' = [j \in Iterator |-> o] /\ walk' = [j \in Iterator |-> NoWalk]
      /\ read' = 0 /\ aborted' = TRUE /\ kind' = kind /\ store' = store
      /\ DOMAIN host' = {}
  BY DEF Fail
<1> HIDE DEF o
<1>4. TypeOK'
  BY <1>1, <1>2, <1>3 DEF IInv, TypeOK, IsLive
<1>5. HandlesAreOwned'
  BY <1>1, <1>3 DEF HandlesAreOwned
<1>6. HostSound' /\ LifeSound' /\ ReadsAreCurrent' /\ \A j \in Iterator : WalkSound(j)'
  BY <1>1, <1>2, <1>3 DEF HostSound, LifeSound, IsLive, ReadsAreCurrent, WalkSound
<1> QED
  BY <1>4, <1>5, <1>6 DEF IInv

LEMMA BeginSafe ==
  ASSUME IInv, NEW i \in Iterator, begin(i) \/ rbegin(i)
  PROVE  IInv'
<1>1. CASE begin(i)
  <2> DEFINE p == kv_it_lower_bound(1)
  <2>1. p \in store \cup {End} /\ p \in Position /\ \A l \in store : p <= l
    BY PositionIs, LowerBoundIs, MaxKeyAssumption DEF Key, End
  <2>2. Placed(i, p)
    BY <1>1, <2>1, AssignPlaces DEF begin
  <2>3. \A l \in store : p # End
    BY <2>1, PositionIs, MaxKeyAssumption DEF Key, End
  <2> QED
    BY <1>1, <2>1, <2>2, <2>3, StartedSafe DEF begin
<1>2. CASE rbegin(i)
  <2> DEFINE p == kv_it_prev(End)
  <2>1. End \in Position /\ \A l \in store : l < End
    BY PositionIs, MaxKeyAssumption DEF Position, Key, End
  <2>2. p \in store \cup {End} /\ p \in Position /\ \A l \in store : p # End /\ l <= p
    BY <2>1, PositionIs, PrevIs
  <2>3. Placed(i, p)
    BY <1>2, <2>2, AssignPlaces DEF rbegin
  <2> QED
    BY <1>2, <2>2, <2>3, StartedSafe DEF rbegin
<1> QED
  BY <1>1, <1>2

LEMMA EndSafe ==
  ASSUME IInv, NEW i \in Iterator, end(i)
  PROVE  IInv'
  BY EndPlaces, EndedSafe DEF end

LEMMA FindSafe ==
  ASSUME IInv, NEW i \in Iterator, NEW k \in Key, find(i, k)
  PROVE  IInv'
<1>1. kv_it_lower_bound(k) \in store \cup {End} /\ k # End
  BY PositionIs, LowerBoundIs, MaxKeyAssumption DEF Key, End
<1>2. CASE kv_it_lower_bound(k) = k
  <2>1. k \in Position /\ Assign(i, k)
    BY <1>1, <1>2, PositionIs DEF find
  <2> QED
    BY <1>1, <1>2, <2>1, AssignPlaces, EndedSafe DEF find
<1>3. CASE kv_it_lower_bound(k) # k
  BY <1>3, EndPlaces, EndedSafe DEF find
<1> QED
  BY <1>2, <1>3

LEMMA BoundSafe ==
  ASSUME IInv, NEW i \in Iterator, NEW k \in Key,
         lower_bound(i, k) \/ upper_bound(i, k)
  PROVE  IInv'
<1>1. kv_it_lower_bound(k) \in store \cup {End}
  BY PositionIs, LowerBoundIs, MaxKeyAssumption DEF Key, End
<1>2. kv_it_next(k) \in store \cup {End}
  BY PositionIs, NextIs
<1>3. UpperBound(k) \in store \cup {End}
  BY <1>1, <1>2 DEF UpperBound
<1>4. \A p \in store \cup {End} : p \in Position
  BY PositionIs
<1>5. CASE lower_bound(i, k)
  BY <1>1, <1>4, <1>5, AssignPlaces, EndedSafe DEF lower_bound
<1>6. CASE upper_bound(i, k)
  BY <1>3, <1>4, <1>6, AssignPlaces, EndedSafe DEF upper_bound
<1> QED
  BY <1>5, <1>6

LEMMA DecrementSafe ==
  ASSUME IInv, NEW i \in Iterator, Decrement(i)
  PROVE  IInv'
<1>1. Predecessor(i) \in store \cup {End} /\ Predecessor(i) \in Position
  BY PosTyped, PredecessorIs, PositionIs
<1>2. CASE Fail
  BY <1>2, FailSafe
<1>3. CASE ~Fail
  <2>1. /\ EndWalk(i) /\ UNCHANGED <<kind, store, read, aborted>>
        /\ obj[i].itr = 0 => Assign(i, Predecessor(i))
        /\ obj[i].itr # 0 => MoveTo(i, Predecessor(i))
    BY <1>3 DEF Decrement
  <2>2. Placed(i, Predecessor(i))
    BY <1>1, <2>1, AssignPlaces, MovePlaces
  <2> QED
    BY <1>1, <2>1, <2>2, EndedSafe
<1> QED
  BY <1>2, <1>3

(* One step of a loop meets the next key that is due and skips none.       *)
LEMMA IncrementSafe ==
  ASSUME IInv, NEW i \in Iterator, Increment(i)
  PROVE  IInv'
<1> DEFINE q == Successor(i)
<1>1. CASE obj[i].stat = "end" \/ Erased(i)
  BY <1>1, FailSafe DEF Increment
<1>2. CASE ~(obj[i].stat = "end" \/ Erased(i))
  <2>1. Pos(i) \in Key /\ Pos(i) # End /\ obj[i].itr # 0
    BY <1>2, PosTyped DEF IInv, TypeOK, Increment, Live, Position, Pos
  <2>2. /\ q \in store \cup {End} /\ q \in Position
        /\ q # End => IF Forward(i) THEN Pos(i) < q ELSE q < Pos(i)
        /\ \A l \in store : (IF Forward(i) THEN Pos(i) < l ELSE l < Pos(i)) =>
             l = q \/ (q # End /\ IF Forward(i) THEN q < l ELSE l < q)
    BY <2>1, SuccessorIs, PositionIs
  <2>3. MoveTo(i, q) /\ UNCHANGED <<kind, store, read, aborted>>
    BY <1>2 DEF Increment
  <2>4. Placed(i, q)
    BY <2>1, <2>2, <2>3, MovePlaces
  <2> DEFINE s == IF walk[i].on THEN walk[i].seen \cup ({q} \ {End}) ELSE walk[i].seen
  <2>5. walk' = [walk EXCEPT ![i].seen = s]
    BY <1>2 DEF Increment
  <2>6. walk \in [Iterator -> [on : BOOLEAN, seen : SUBSET Key, due : SUBSET Key]]
    BY DEF IInv, TypeOK
  <2>7. s \in SUBSET Key
    BY <2>2, <2>6, PositionIs
  <2> HIDE DEF s
  <2>8. /\ WalkTyped' /\ walk'[i].seen = s
        /\ walk'[i].on = walk[i].on /\ walk'[i].due = walk[i].due
        /\ \A j \in Iterator \ {i} : walk'[j] = walk[j]
    BY <2>5, <2>6, <2>7 DEF WalkTyped
  <2>9. WalkSound(i)'
    <3> SUFFICES ASSUME walk[i].on PROVE WalkSound(i)'
      BY <2>8 DEF WalkSound
    <3>1. /\ walk[i].due \subseteq store
          /\ \A k \in walk[i].due : Passed(i, k) => k \in walk[i].seen
          /\ \A k \in walk[i].seen : Passed(i, k)
      BY DEF IInv, WalkSound
    <3>2. s = walk[i].seen \cup ({q} \ {End})
      BY DEF s
    <3>3. Pos(i)' = q /\ kind' = kind
      BY <2>3, <2>4 DEF Placed
    <3>4. walk[i].seen \subseteq Key /\ q \in Nat /\ Key \subseteq Nat /\ store \subseteq Key
      BY <2>2, <2>6, PositionIs, MaxKeyAssumption DEF Position, Key, End
    <3>5. ASSUME NEW k \in walk[i].due, Passed(i, k)' PROVE k \in s
      <4>1. k \in Key /\ k \in store
        BY <3>1, <3>4
      <4>2. CASE Passed(i, k)
        BY <4>2, <3>1, <3>2
      <4>3. CASE ~Passed(i, k)
        <5>0. Pos(i) \in Nat /\ k \in Nat
          BY <4>1, <2>1, <3>4
        <5>1. IF Forward(i) THEN Pos(i) < k ELSE k < Pos(i)
          <6> HIDE DEF q
          <6>1. ~(IF Forward(i) THEN k <= Pos(i) ELSE Pos(i) <= k)
            BY <4>3 DEF Passed
          <6> QED
            BY <5>0, <6>1
        <5>2. k = q \/ (q # End /\ IF Forward(i) THEN q < k ELSE k < q)
          BY <2>2, <4>1, <5>1
        <5>3. q = End \/ IF Forward(i) THEN k <= q ELSE q <= k
          BY <3>3, <3>5 DEF Passed, Forward
        <5>4. k = q
          BY <5>2, <5>3, <4>1, <3>4
        <5> QED
          BY <5>4, <3>2, <4>1, PositionIs
      <4> QED
        BY <4>2, <4>3
    <3>6. ASSUME NEW k \in s PROVE Passed(i, k)'
      <4>1. CASE k = q \/ q = End
        BY <4>1, <3>3, <3>4 DEF Passed
      <4>2. CASE k # q /\ q # End
        <5>1. k \in walk[i].seen /\ k \in Nat
          BY <4>2, <3>2, <3>4
        <5>2. IF Forward(i) THEN k <= Pos(i) ELSE Pos(i) <= k
          BY <5>1, <3>1, <2>1 DEF Passed
        <5>3. IF Forward(i) THEN k <= q ELSE q <= k
          <6>1. Pos(i) \in Nat
            BY <2>1, <3>4
          <6>2. IF Forward(i) THEN Pos(i) < q ELSE q < Pos(i)
            BY <2>2, <4>2
          <6> HIDE DEF q
          <6>3. CASE Forward(i)
            BY <6>1, <6>2, <6>3, <5>1, <5>2, <3>4
          <6>4. CASE ~Forward(i)
            BY <6>1, <6>2, <6>4, <5>1, <5>2, <3>4
          <6> QED
            BY <6>3, <6>4
        <5> QED
          BY <5>3, <3>3 DEF Passed, Forward
      <4> QED
        BY <4>1, <4>2
    <3> QED
      BY <2>8, <2>3, <3>1, <3>5, <3>6 DEF WalkSound
  <2> QED
    BY <2>2, <2>3, <2>4, <2>8, <2>9, PlacedSafe
<1> QED
  BY <1>1, <1>2

(* A live iterator whose status is ok and whose element was not erased     *)
(* stands on a row.                                                        *)
LEMMA ValueSafe ==
  ASSUME IInv, NEW i \in Iterator, value(i)
  PROVE  IInv'
<1>1. CASE obj[i].stat = "end" \/ Erased(i)
  BY <1>1, FailSafe DEF value
<1>2. CASE ~(obj[i].stat = "end" \/ Erased(i))
  <2>1. /\ read' = Pos(i)
        /\ UNCHANGED <<kind, store, host, obj, walk, aborted>>
    BY <1>2 DEF value
  <2>2. Pos(i) # End /\ obj[i].itr # 0 /\ obj[i].itr \in DOMAIN host
    BY <1>2, PosTyped DEF IInv, TypeOK, value, Live, Pos
  <2>3. Pos(i) \in store
    BY <1>2, <2>2 DEF IInv, HostSound, Erased, Pos
  <2>4. TypeOK'
    BY <2>1, <2>3, PositionIs DEF IInv, TypeOK, IsLive, Pos
  <2>5. HandlesAreOwned' /\ HostSound' /\ LifeSound' /\ ReadsAreCurrent'
    BY <2>1, <2>3 DEF IInv, HandlesAreOwned, HostSound, LifeSound, IsLive, ReadsAreCurrent
  <2>6. \A j \in Iterator : WalkSound(j)'
    BY <2>1 DEF IInv, WalkSound, Passed, Forward, Pos
  <2> QED
    BY <2>4, <2>5, <2>6 DEF IInv
<1> QED
  BY <1>1, <1>2

LEMMA MoveAssignSafe ==
  ASSUME IInv, NEW i \in Iterator, NEW j \in Iterator, MoveAssign(i, j)
  PROVE  IInv'
<1> DEFINE o == Object("moved", 0, obj[j].stat)
<1>1. /\ i # j /\ kind[i] = kind[j] /\ IsLive(j)
      /\ host' = Without(obj[i].itr)
      /\ obj' = [obj EXCEPT ![i] = obj[j], ![j] = o]
      /\ walk' = [walk EXCEPT ![i] = walk[j], ![j] = NoWalk]
      /\ UNCHANGED <<kind, store, read, aborted>>
  BY DEF MoveAssign, Live
<1>2. HostTyped /\ ObjTyped /\ WalkTyped
  BY DEF IInv, TypeOK, HostTyped, ObjTyped, WalkTyped
<1>3. /\ o \in [life : {"none", "live", "moved"}, itr : Handle \cup {0}, stat : {"ok", "end"}]
      /\ o.life = "moved" /\ o.itr = 0
  BY <1>2 DEF Object, ObjTyped
<1>4. NoWalk \in [on : BOOLEAN, seen : SUBSET Key, due : SUBSET Key] /\ ~NoWalk.on
  BY DEF NoWalk
<1> HIDE DEF o
<1>5. /\ ObjTyped' /\ obj'[i] = obj[j] /\ obj'[j] = o
      /\ \A k \in Iterator \ {i, j} : obj'[k] = obj[k]
  BY <1>1, <1>2, <1>3 DEF ObjTyped
<1>6. /\ WalkTyped' /\ walk'[i] = walk[j] /\ walk'[j] = NoWalk
      /\ \A k \in Iterator \ {i, j} : walk'[k] = walk[k]
  BY <1>1, <1>2, <1>4 DEF WalkTyped
<1>7. /\ DOMAIN host' = DOMAIN host \ {obj[i].itr}
      /\ \A h \in DOMAIN host' : host'[h] = host[h]
  BY <1>1 DEF Without
<1>8. HostTyped'
  BY <1>2, <1>7 DEF HostTyped
<1>9. /\ {obj[k].itr : k \in Iterator} \ {0} = DOMAIN host
      /\ \A k, l \in Iterator : k # l /\ obj[k].itr # 0 => obj[k].itr # obj[l].itr
  BY DEF IInv, HandlesAreOwned
<1>10. HandlesAreOwned'
  <2>0. /\ obj'[i].itr = obj[j].itr /\ obj'[j].itr = 0
        /\ \A k \in Iterator \ {i, j} : obj'[k].itr = obj[k].itr
    BY <1>3, <1>5
  <2>1. ASSUME NEW k \in Iterator, NEW l \in Iterator, k # l, obj'[k].itr # 0
        PROVE  obj'[k].itr # obj'[l].itr
    <3>0. k # j
      BY <2>0, <2>1
    <3>1. CASE l = j
      BY <2>0, <2>1, <3>1
    <3>2. CASE k = i /\ l # j
      <4>1. obj[j].itr # 0 /\ obj[j].itr # obj[l].itr
        BY <1>9, <2>0, <2>1, <3>2
      <4>2. obj'[l].itr = obj[l].itr
        BY <2>0, <2>1, <3>2
      <4> QED
        BY <2>0, <3>2, <4>1, <4>2
    <3>3. CASE k # i /\ l = i
      <4>1. obj'[k].itr = obj[k].itr
        BY <2>0, <3>0, <3>3
      <4>2. obj[k].itr # obj[j].itr
        BY <1>9, <2>1, <3>0, <4>1
      <4> QED
        BY <2>0, <3>3, <4>1, <4>2
    <3>4. CASE k # i /\ l # i /\ l # j
      <4>1. obj'[k].itr = obj[k].itr /\ obj'[l].itr = obj[l].itr
        BY <2>0, <3>0, <3>4
      <4> QED
        BY <1>9, <2>1, <4>1
    <3> QED
      BY <3>1, <3>2, <3>3, <3>4
  <2>2. {obj'[k].itr : k \in Iterator} \ {0} \subseteq DOMAIN host'
    <3>1. ASSUME NEW k \in Iterator, obj'[k].itr # 0 PROVE obj'[k].itr \in DOMAIN host'
      <4>1. CASE k = i
        BY <1>1, <1>7, <1>9, <2>0, <3>1, <4>1
      <4>2. CASE k # i
        <5>1. k # j /\ obj[k].itr = obj'[k].itr
          BY <2>0, <3>1, <4>2
        <5>2. obj[k].itr \in DOMAIN host /\ obj[k].itr # obj[i].itr
          BY <1>9, <3>1, <4>2, <5>1
        <5> QED
          BY <1>7, <5>1, <5>2
      <4> QED
        BY <4>1, <4>2
    <3> QED
      BY <3>1
  <2>3. ASSUME NEW h \in DOMAIN host' PROVE h \in {obj'[k].itr : k \in Iterator} \ {0}
    <3>1. PICK k \in Iterator : obj[k].itr = h /\ h # 0
      BY <1>7, <1>9, <2>3
    <3>2. k # i
      BY <3>1, <1>7, <2>3
    <3> QED
      BY <3>1, <3>2, <1>1, <2>0
  <2> QED
    BY <2>1, <2>2, <2>3 DEF HandlesAreOwned
<1>11. Pos(i)' = Pos(j) /\ \A k \in Iterator \ {i, j} : Pos(k)' = Pos(k)
  <2>1. \A k \in Iterator \ {i} : obj[k].itr # 0 => obj[k].itr \in DOMAIN host'
    BY <1>7, <1>9
  <2>2. obj'[i].itr = obj[j].itr /\ \A k \in Iterator \ {i, j} : obj'[k].itr = obj[k].itr
    BY <1>5
  <2>3. Pos(i)' = Pos(j)
    BY <1>1, <1>7, <2>1, <2>2 DEF Pos
  <2>4. \A k \in Iterator \ {i, j} : Pos(k)' = Pos(k)
    BY <1>7, <2>1, <2>2 DEF Pos
  <2> QED
    BY <2>3, <2>4
<1>12. TypeOK'
  <2>1. \A k \in Iterator : IsLive(k)' => (obj'[k].stat = "end" <=> Pos(k)' = End)
    BY <1>1, <1>3, <1>5, <1>11 DEF IInv, TypeOK, IsLive
  <2> QED
    BY <1>1, <1>5, <1>6, <1>8, <2>1, Zenon DEF IInv, TypeOK, HostTyped, ObjTyped, WalkTyped
<1>13. HostSound' /\ LifeSound' /\ ReadsAreCurrent'
  BY <1>1, <1>3, <1>4, <1>5, <1>6, <1>7
  DEF IInv, HostSound, LifeSound, IsLive, ReadsAreCurrent
<1>14. \A k \in Iterator : WalkSound(k)'
  <2>1. WalkSound(i)'
    <3>1. WalkSound(j)
      BY DEF IInv
    <3> QED
      BY <1>1, <1>6, <1>11, <3>1 DEF WalkSound, Passed, Forward
  <2>2. WalkSound(j)'
    BY <1>4, <1>6 DEF WalkSound
  <2>3. ASSUME NEW k \in Iterator \ {i, j} PROVE WalkSound(k)'
    <3>1. WalkSound(k) /\ Pos(k)' = Pos(k) /\ walk'[k] = walk[k]
      BY <1>6, <1>11 DEF IInv
    <3> QED
      BY <1>1, <3>1 DEF WalkSound, Passed, Forward
  <2> QED
    BY <2>1, <2>2, <2>3
<1> QED
  BY <1>10, <1>12, <1>13, <1>14 DEF IInv

LEMMA DestroySafe ==
  ASSUME IInv, NEW i \in Iterator, Destroy(i)
  PROVE  IInv'
<1> DEFINE o == Object("none", 0, "end")
<1>1. /\ o \in [life : {"none", "live", "moved"}, itr : Handle \cup {0}, stat : {"ok", "end"}]
      /\ o.life = "none" /\ o.itr = 0
  BY DEF Object
<1>2. /\ obj' = [obj EXCEPT ![i] = o] /\ host' = Without(obj[i].itr)
      /\ EndWalk(i) /\ UNCHANGED <<kind, store, read, aborted>>
  BY DEF Destroy
<1> HIDE DEF o
<1>3. ObjTyped' /\ obj'[i] = o /\ \A j \in Iterator \ {i} : obj'[j] = obj[j]
  BY <1>1, <1>2 DEF IInv, TypeOK, ObjTyped
<1>4. /\ HostTyped' /\ HandlesAreOwned'
      /\ \A h \in DOMAIN host' : h \in DOMAIN host /\ host'[h] = host[h]
      /\ \A j \in Iterator \ {i} : Kept(j)
  BY <1>1, <1>2, <1>3, WithoutKeeps
<1>5. /\ WalkTyped' /\ ~walk'[i].on
      /\ \A j \in Iterator \ {i} : walk'[j] = walk[j]
  BY <1>2, EndWalkIs
<1>6. TypeOK'
  <2>1. \A k \in Iterator : IsLive(k)' => (obj'[k].stat = "end" <=> Pos(k)' = End)
    BY <1>1, <1>3, <1>4 DEF IInv, TypeOK, IsLive, Kept
  <2> QED
    BY <1>2, <1>3, <1>4, <1>5, <2>1, Zenon DEF IInv, TypeOK, HostTyped, ObjTyped, WalkTyped
<1>7. HostSound' /\ LifeSound' /\ ReadsAreCurrent'
  BY <1>1, <1>2, <1>3, <1>4, <1>5
  DEF IInv, HostSound, LifeSound, IsLive, ReadsAreCurrent
<1>8. \A k \in Iterator : WalkSound(k)'
  <2> SUFFICES ASSUME NEW k \in Iterator \ {i} PROVE WalkSound(k)'
    BY <1>5 DEF WalkSound
  <2>1. WalkSound(k) /\ Pos(k)' = Pos(k) /\ walk'[k] = walk[k]
    BY <1>4, <1>5 DEF IInv, Kept
  <2> QED
    BY <1>2, <2>1 DEF WalkSound, Passed, Forward
<1> QED
  BY <1>4, <1>6, <1>7, <1>8 DEF IInv

LEMMA TablePutSafe ==
  ASSUME IInv, NEW k \in Key, TablePut(k)
  PROVE  IInv'
<1>1. /\ store' = store \cup {k} /\ read' = 0
      /\ UNCHANGED <<kind, host, obj, walk, aborted>>
  BY DEF TablePut
<1>2. TypeOK'
  BY <1>1 DEF IInv, TypeOK, IsLive, Pos
<1>3. HandlesAreOwned' /\ HostSound' /\ LifeSound' /\ ReadsAreCurrent'
  BY <1>1 DEF IInv, HandlesAreOwned, HostSound, LifeSound, IsLive, ReadsAreCurrent
<1>4. \A j \in Iterator : WalkSound(j)'
  BY <1>1 DEF IInv, WalkSound, Passed, Forward, Pos
<1> QED
  BY <1>2, <1>3, <1>4 DEF IInv

LEMMA TableEraseSafe ==
  ASSUME IInv, NEW k \in Key, TableErase(k)
  PROVE  IInv'
<1>1. /\ store' = store \ {k} /\ read' = 0
      /\ UNCHANGED <<kind, obj, aborted>>
  BY DEF TableErase
<1>2. HostTyped /\ WalkTyped /\ k # End
  BY MaxKeyAssumption DEF IInv, TypeOK, HostTyped, WalkTyped, Key, End
<1>3. ASSUME NEW r \in [pos : Position, erased : BOOLEAN]
      PROVE  LET e == [r EXCEPT !.erased = TRUE]
             IN  e \in [pos : Position, erased : BOOLEAN] /\ e.pos = r.pos /\ e.erased = TRUE
  OBVIOUS
<1>4. /\ DOMAIN host' = DOMAIN host
      /\ \A h \in DOMAIN host :
           /\ host'[h] \in [pos : Position, erased : BOOLEAN]
           /\ host'[h].pos = host[h].pos
           /\ host[h].pos = k => host'[h].erased = TRUE
           /\ host[h].pos # k => host'[h] = host[h]
  <2>1. host' = [h \in DOMAIN host |->
                   IF host[h].pos = k THEN [host[h] EXCEPT !.erased = TRUE] ELSE host[h]]
    BY DEF TableErase
  <2>2. DOMAIN host' = DOMAIN host
    BY <2>1
  <2>3. ASSUME NEW h \in DOMAIN host
        PROVE  /\ host'[h] \in [pos : Position, erased : BOOLEAN]
               /\ host'[h].pos = host[h].pos
               /\ host[h].pos = k => host'[h].erased = TRUE
               /\ host[h].pos # k => host'[h] = host[h]
    <3>1. host[h] \in [pos : Position, erased : BOOLEAN]
      BY <1>2 DEF HostTyped
    <3>2. CASE host[h].pos = k
      <4>1. host'[h] = [host[h] EXCEPT !.erased = TRUE]
        BY <2>1, <3>2, Zenon
      <4> QED
        BY <1>3, <3>1, <3>2, <4>1, Zenon
    <3>3. CASE host[h].pos # k
      <4>1. host'[h] = host[h]
        BY <2>1, <3>3, Zenon
      <4> QED
        BY <3>1, <3>3, <4>1
    <3> QED
      BY <3>2, <3>3
  <2> QED
    BY <2>2, <2>3
<1>5. ASSUME NEW w \in [on : BOOLEAN, seen : SUBSET Key, due : SUBSET Key]
      PROVE  LET e == [w EXCEPT !.due = @ \ {k}]
             IN  /\ e \in [on : BOOLEAN, seen : SUBSET Key, due : SUBSET Key]
                 /\ e.on = w.on /\ e.seen = w.seen /\ e.due = w.due \ {k}
  OBVIOUS
<1>6. /\ WalkTyped'
      /\ \A j \in Iterator :
           /\ walk'[j].on = walk[j].on /\ walk'[j].seen = walk[j].seen
           /\ walk'[j].due = walk[j].due \ {k}
  <2>1. walk' = [j \in Iterator |-> [walk[j] EXCEPT !.due = @ \ {k}]]
    BY DEF TableErase
  <2>2. ASSUME NEW j \in Iterator
        PROVE  /\ walk'[j] \in [on : BOOLEAN, seen : SUBSET Key, due : SUBSET Key]
               /\ walk'[j].on = walk[j].on /\ walk'[j].seen = walk[j].seen
               /\ walk'[j].due = walk[j].due \ {k}
    <3>1. walk'[j] = [walk[j] EXCEPT !.due = @ \ {k}]
      BY <2>1, Zenon
    <3>2. walk[j] \in [on : BOOLEAN, seen : SUBSET Key, due : SUBSET Key]
      BY <1>2 DEF WalkTyped
    <3> QED
      BY <1>5, <3>1, <3>2, Zenon
  <2>3. walk' \in [Iterator -> [on : BOOLEAN, seen : SUBSET Key, due : SUBSET Key]]
    <3>1. \A j \in Iterator : walk'[j] \in [on : BOOLEAN, seen : SUBSET Key, due : SUBSET Key]
      BY <2>2
    <3> HIDE <1>5
    <3> QED
      BY <2>1, <3>1, Zenon
  <2> QED
    BY <2>2, <2>3 DEF WalkTyped
<1>7. \A j \in Iterator : Pos(j)' = Pos(j)
  BY <1>1, <1>4 DEF IInv, HandlesAreOwned, Pos
<1>8. TypeOK'
  <2>1. \A j \in Iterator : IsLive(j)' => (obj'[j].stat = "end" <=> Pos(j)' = End)
    BY <1>1, <1>7 DEF IInv, TypeOK, IsLive
  <2>2. store' \in SUBSET Key /\ read' \in Key \cup {0}
    BY <1>1 DEF IInv, TypeOK
  <2>3. HostTyped'
    BY <1>2, <1>4 DEF HostTyped
  <2> QED
    BY <1>1, <1>6, <2>1, <2>2, <2>3, Zenon DEF IInv, TypeOK, HostTyped, WalkTyped
<1>9. HandlesAreOwned'
  BY <1>1, <1>4 DEF IInv, HandlesAreOwned
<1>10. HostSound'
  BY <1>1, <1>2, <1>4 DEF IInv, HostSound
<1>11. LifeSound' /\ ReadsAreCurrent'
  BY <1>1, <1>6 DEF IInv, LifeSound, IsLive, ReadsAreCurrent
<1>12. \A j \in Iterator : WalkSound(j)'
  BY <1>1, <1>6, <1>7 DEF IInv, WalkSound, Passed, Forward
<1> QED
  BY <1>8, <1>9, <1>10, <1>11, <1>12 DEF IInv

-----------------------------------------------------------------------------
LEMMA InitSafe == Init => IInv
<1> SUFFICES ASSUME Init PROVE IInv
  OBVIOUS
<1> DEFINE o == Object("none", 0, "end")
<1>1. /\ o \in [life : {"none", "live", "moved"}, itr : Handle \cup {0}, stat : {"ok", "end"}]
      /\ o.life = "none" /\ o.itr = 0
  BY DEF Object
<1>2. NoWalk \in [on : BOOLEAN, seen : SUBSET Key, due : SUBSET Key] /\ ~NoWalk.on
  BY DEF NoWalk
<1>3. /\ obj = [j \in Iterator |-> o] /\ walk = [j \in Iterator |-> NoWalk]
      /\ read = 0 /\ aborted = FALSE /\ store \in SUBSET Key
      /\ kind \in [Iterator -> {"forward", "reverse"}]
      /\ DOMAIN host = {}
  BY DEF Init
<1> HIDE DEF o
<1>4. TypeOK
  BY <1>1, <1>2, <1>3 DEF TypeOK, IsLive
<1>5. HandlesAreOwned
  BY <1>1, <1>3 DEF HandlesAreOwned
<1>6. HostSound /\ LifeSound /\ ReadsAreCurrent /\ \A j \in Iterator : WalkSound(j)
  BY <1>1, <1>2, <1>3 DEF HostSound, LifeSound, IsLive, ReadsAreCurrent, WalkSound
<1> QED
  BY <1>4, <1>5, <1>6 DEF IInv

LEMMA NextSafe == IInv /\ [Next]_vars => IInv'
<1> SUFFICES ASSUME IInv, [Next]_vars PROVE IInv'
  OBVIOUS
<1>1. ASSUME NEW i \in Iterator,
             begin(i) \/ rbegin(i) \/ end(i) \/ Increment(i) \/ Decrement(i)
               \/ value(i) \/ Destroy(i)
      PROVE  IInv'
  BY <1>1, BeginSafe, EndSafe, IncrementSafe, DecrementSafe, ValueSafe, DestroySafe
<1>2. ASSUME NEW i \in Iterator, NEW k \in Key,
             find(i, k) \/ lower_bound(i, k) \/ upper_bound(i, k)
      PROVE  IInv'
  BY <1>2, FindSafe, BoundSafe
<1>3. ASSUME NEW i \in Iterator, NEW j \in Iterator, MoveAssign(i, j)
      PROVE  IInv'
  BY <1>3, MoveAssignSafe
<1>4. ASSUME NEW k \in Key, TablePut(k) \/ TableErase(k)
      PROVE  IInv'
  BY <1>4, TablePutSafe, TableEraseSafe
<1>5. CASE UNCHANGED vars
  <2>1. UNCHANGED <<kind, store, host, obj, walk, read, aborted>>
    BY <1>5 DEF vars
  <2>2. TypeOK' /\ HandlesAreOwned' /\ HostSound'
    BY <2>1 DEF IInv, TypeOK, IsLive, Pos, HandlesAreOwned, HostSound
  <2>3. LifeSound' /\ ReadsAreCurrent' /\ \A i \in Iterator : WalkSound(i)'
    BY <2>1 DEF IInv, LifeSound, IsLive, ReadsAreCurrent, WalkSound, Passed, Forward, Pos
  <2> QED
    BY <2>2, <2>3 DEF IInv
<1> QED
  BY <1>1, <1>2, <1>3, <1>4, <1>5 DEF Next

THEOREM Invariance == Spec => []IInv
  BY InitSafe, NextSafe, PTL DEF Spec

(* The cached status of a live iterator says "end" exactly when the node's *)
(* iterator is there (kv.hpp:178-292).                                     *)
THEOREM TypeCorrect == Spec => []TypeOK
<1>1. IInv => TypeOK
  BY DEF IInv
<1> QED
  BY <1>1, Invariance, PTL

(* Whatever is assigned, moved, destroyed or not found, handles neither    *)
(* leak nor are shared (kv.hpp:190-210, 518).                              *)
THEOREM HandlesCorrect == Spec => []HandlesAreOwned
<1>1. IInv => HandlesAreOwned
  BY DEF IInv
<1> QED
  BY <1>1, Invariance, PTL

(* value() never returns a row that was erased under the iterator          *)
(* (kv.hpp:220-254).                                                       *)
THEOREM ReadsCorrect == Spec => []ReadsAreCurrent
<1>1. IInv => ReadsAreCurrent
  BY DEF IInv
<1> QED
  BY <1>1, Invariance, PTL

(* A loop that has reached its end has met every key that stayed           *)
(* (kv.hpp:353-357, 425-429).                                              *)
THEOREM WalksCorrect == Spec => []WalksAreComplete
<1>1. IInv => WalksAreComplete
  <2> SUFFICES ASSUME IInv, NEW i \in Iterator, walk[i].on, obj[i].stat = "end"
               PROVE  walk[i].due \subseteq walk[i].seen
    BY DEF WalksAreComplete
  <2>1. IsLive(i)
    BY DEF IInv, LifeSound
  <2>2. Pos(i) = End
    BY <2>1 DEF IInv, TypeOK
  <2> QED
    BY <2>2 DEF IInv, WalkSound, Passed
<1> QED
  BY <1>1, Invariance, PTL

(* Forward iterators that compare equal step back to the same element,     *)
(* however they got there (kv.hpp:359-366).                                *)
THEOREM StepsBackCorrect == Spec => []EqualIteratorsStepBackAlike
<1>1. IInv => EqualIteratorsStepBackAlike
  <2> SUFFICES ASSUME IInv, NEW i \in Iterator, NEW j \in Iterator, Forward(i),
                      IsLive(i), IsLive(j), kind[i] = kind[j], Compare(i, j) = 0
               PROVE  Predecessor(i) = Predecessor(j)
    BY DEF EqualIteratorsStepBackAlike, StepBackAlike
  <2>1. Forward(j)
    BY DEF Forward
  <2>2. IsEnd(i) <=> Pos(i) = End
    BY DEF IInv, TypeOK, IsEnd, Pos
  <2>3. IsEnd(j) <=> Pos(j) = End
    BY DEF IInv, TypeOK, IsEnd, Pos
  <2>4. Pos(i) \in Nat /\ Pos(j) \in Nat
    BY PosTyped, MaxKeyAssumption DEF Position, Key, End
  <2>5. Pos(i) = Pos(j)
    BY <2>2, <2>3, <2>4 DEF Compare
  <2> QED
    BY <2>1, <2>5 DEF Predecessor
<1> QED
  BY <1>1, Invariance, PTL

-----------------------------------------------------------------------------
(* The step of a loop.                                                     *)

MeetsNew(i) ==
  /\ walk[i].on /\ walk'[i].on
  /\ obj[i].itr # 0 /\ obj'[i].itr = obj[i].itr
  /\ Pos(i)' # Pos(i)
  => Pos(i)' \notin walk[i].seen

(* Nothing but ++ moves a handle and goes on with its loop.                *)
LEMMA AssignedMeetsNew ==
  ASSUME IInv, NEW j \in Iterator, NEW p \in Position,
         Assign(j, p) \/ AssignEnd(j), NEW i \in Iterator
  PROVE  MeetsNew(i)
<1>1. CASE i = j
  BY <1>1, AssignPlaces, EndPlaces DEF MeetsNew
<1>2. CASE i # j
  <2>1. \E q \in Position : Placed(j, q)
    BY AssignPlaces, EndPlaces DEF Position
  <2> QED
    BY <1>2, <2>1 DEF Placed, Kept, MeetsNew
<1> QED
  BY <1>1, <1>2

LEMMA IncrementMeetsNew ==
  ASSUME IInv, NEW j \in Iterator, Increment(j), NEW i \in Iterator
  PROVE  MeetsNew(i)
<1> DEFINE q == Successor(j)
<1>1. CASE obj[j].stat = "end" \/ Erased(j)
  BY <1>1 DEF Increment, Fail, MeetsNew, NoWalk
<1>2. CASE ~(obj[j].stat = "end" \/ Erased(j))
  <2>1. Pos(j) \in Key /\ Pos(j) # End /\ obj[j].itr # 0
    BY <1>2, PosTyped DEF IInv, TypeOK, Increment, Live, Position, Pos
  <2>2. /\ q \in store \cup {End} /\ q \in Position
        /\ q # End => IF Forward(j) THEN Pos(j) < q ELSE q < Pos(j)
    BY <2>1, SuccessorIs, PositionIs
  <2>3. Placed(j, q)
    BY <1>2, <2>1, <2>2, MovePlaces DEF Increment
  <2>4. CASE i # j
    BY <2>3, <2>4 DEF Placed, Kept, MeetsNew
  <2>5. CASE i = j
    <3> SUFFICES ASSUME walk[j].on, q \in walk[j].seen PROVE FALSE
      BY <2>3, <2>5 DEF Placed, MeetsNew
    <3>1. Passed(j, q) /\ q \in Key
      BY DEF IInv, TypeOK, WalkSound
    <3>2. q # End /\ q \in Nat /\ Pos(j) \in Nat
      BY <2>1, <3>1, MaxKeyAssumption DEF Key, End
    <3>3. IF Forward(j) THEN q <= Pos(j) ELSE Pos(j) <= q
      BY <2>1, <3>1 DEF Passed
    <3>4. IF Forward(j) THEN Pos(j) < q ELSE q < Pos(j)
      BY <2>2, <3>2
    <3> HIDE DEF q
    <3> QED
      BY <3>2, <3>3, <3>4
  <2> QED
    BY <2>4, <2>5
<1> QED
  BY <1>1, <1>2

LEMMA DecrementMeetsNew ==
  ASSUME IInv, NEW j \in Iterator, Decrement(j), NEW i \in Iterator
  PROVE  MeetsNew(i)
<1>1. CASE Fail
  BY <1>1 DEF Fail, MeetsNew, NoWalk
<1>2. CASE ~Fail
  <2>1. Predecessor(j) \in Position
    BY PosTyped, PredecessorIs, PositionIs
  <2>2. /\ EndWalk(j)
        /\ obj[j].itr = 0 => Assign(j, Predecessor(j))
        /\ obj[j].itr # 0 => MoveTo(j, Predecessor(j))
    BY <1>2 DEF Decrement
  <2>3. Placed(j, Predecessor(j))
    BY <2>1, <2>2, AssignPlaces, MovePlaces
  <2>4. ~walk'[j].on
    BY <2>2, EndWalkIs
  <2> QED
    BY <2>3, <2>4 DEF Placed, Kept, MeetsNew
<1> QED
  BY <1>1, <1>2

LEMMA MovedMeetsNew ==
  ASSUME IInv, NEW i \in Iterator, NEW j \in Iterator, MoveAssign(i, j),
         NEW k \in Iterator
  PROVE  MeetsNew(k)
<1>1. i # j /\ obj' = [obj EXCEPT ![i] = obj[j], ![j] = Object("moved", 0, obj[j].stat)]
  BY DEF MoveAssign
<1>2. /\ obj'[i] = obj[j] /\ obj'[j] = Object("moved", 0, obj[j].stat)
      /\ \A l \in Iterator \ {i, j} : obj'[l] = obj[l]
  BY <1>1 DEF IInv, TypeOK
<1>3. Object("moved", 0, obj[j].stat).itr = 0
  BY DEF Object
<1>4. \A l \in Iterator : l # i /\ obj[l].itr # 0 =>
        obj[l].itr # obj[i].itr /\ obj[l].itr \in DOMAIN host
  BY PosTyped DEF IInv, HandlesAreOwned
<1>5. CASE k = i
  BY <1>1, <1>2, <1>4, <1>5 DEF MeetsNew
<1>6. CASE k = j
  BY <1>2, <1>3, <1>6 DEF MeetsNew
<1>7. CASE k \notin {i, j}
  <2>1. obj'[k] = obj[k]
    BY <1>2, <1>7
  <2>2. host' = Without(obj[i].itr)
    BY DEF MoveAssign
  <2>3. obj[k].itr # 0 => host'[obj[k].itr] = host[obj[k].itr]
    BY <1>4, <1>7, <2>2 DEF Without
  <2> QED
    BY <2>1, <2>3 DEF MeetsNew, Pos
<1> QED
  BY <1>5, <1>6, <1>7

LEMMA DestroyMeetsNew ==
  ASSUME IInv, NEW j \in Iterator, Destroy(j), NEW i \in Iterator
  PROVE  MeetsNew(i)
<1>1. CASE i = j
  BY <1>1, EndWalkIs DEF Destroy, MeetsNew
<1>2. CASE i # j
  <2>1. obj'[i] = obj[i] /\ host' = Without(obj[j].itr)
    BY <1>2 DEF IInv, TypeOK, Destroy
  <2>2. obj[i].itr # 0 => obj[i].itr # obj[j].itr /\ obj[i].itr \in DOMAIN host
    BY <1>2, PosTyped DEF IInv, HandlesAreOwned
  <2> QED
    BY <2>1, <2>2 DEF MeetsNew, Pos, Without
<1> QED
  BY <1>1, <1>2

LEMMA TableMeetsNew ==
  ASSUME IInv, NEW k \in Key, TablePut(k) \/ TableErase(k), NEW i \in Iterator
  PROVE  MeetsNew(i)
<1>1. CASE TablePut(k)
  BY <1>1 DEF TablePut, MeetsNew, Pos
<1>2. CASE TableErase(k)
  <2>1. ASSUME NEW h \in DOMAIN host PROVE host'[h].pos = host[h].pos
    <3>1. host'[h] = IF host[h].pos = k THEN [host[h] EXCEPT !.erased = TRUE] ELSE host[h]
      BY <1>2, Zenon DEF TableErase
    <3>2. ASSUME NEW r \in [pos : Position, erased : BOOLEAN]
          PROVE  [r EXCEPT !.erased = TRUE].pos = r.pos
      OBVIOUS
    <3>3. host[h] \in [pos : Position, erased : BOOLEAN]
      BY DEF IInv, TypeOK
    <3> QED
      BY <3>1, <3>2, <3>3, Zenon
  <2>2. obj' = obj
    BY <1>2 DEF TableErase
  <2> QED
    BY <2>1, <2>2, PosTyped DEF MeetsNew, Pos
<1> QED
  BY <1>1, <1>2

(* No loop meets a key twice, whatever happens between two of its steps:   *)
(* ++ does not wrap around the end, where the node's iterator would        *)
(* (kv.hpp:353-357, 425-429).                                              *)
THEOREM NoneMetTwice == Spec => NoKeyIsMetTwice
<1>1. ASSUME IInv, [Next]_vars PROVE [\A i \in Iterator : MeetsNew(i)]_vars
  <2> SUFFICES ASSUME Next, NEW i \in Iterator PROVE MeetsNew(i)
    BY <1>1
  <2>1. \A p \in store \cup {End} : p \in Position
    BY <1>1, PositionIs
  <2>2. ASSUME NEW j \in Iterator, begin(j) \/ rbegin(j) \/ end(j) PROVE MeetsNew(i)
    <3>1. kv_it_lower_bound(1) \in Position /\ kv_it_prev(End) \in Position
      BY <1>1, <2>1, PositionIs, LowerBoundIs, PrevIs, MaxKeyAssumption DEF Position, Key, End
    <3>2. \E p \in Position : Assign(j, p) \/ AssignEnd(j)
      BY <2>2, <3>1 DEF begin, rbegin, end, Position
    <3> QED
      BY <1>1, <3>2, AssignedMeetsNew
  <2>3. ASSUME NEW j \in Iterator, NEW k \in Key,
               find(j, k) \/ lower_bound(j, k) \/ upper_bound(j, k)
        PROVE  MeetsNew(i)
    <3>1. k \in Position /\ kv_it_lower_bound(k) \in Position /\ kv_it_next(k) \in Position
      BY <1>1, <2>1, PositionIs, LowerBoundIs, NextIs, MaxKeyAssumption DEF Position, Key, End
    <3>2. \E p \in Position : Assign(j, p) \/ AssignEnd(j)
      BY <2>3, <3>1 DEF find, lower_bound, upper_bound, UpperBound
    <3> QED
      BY <1>1, <3>2, AssignedMeetsNew
  <2>4. ASSUME NEW j \in Iterator, Increment(j) \/ Decrement(j) \/ Destroy(j) PROVE MeetsNew(i)
    BY <1>1, <2>4, IncrementMeetsNew, DecrementMeetsNew, DestroyMeetsNew
  <2>5. ASSUME NEW j \in Iterator, value(j) PROVE MeetsNew(i)
    BY <2>5 DEF value, Fail, NoWalk, MeetsNew, Pos
  <2>6. ASSUME NEW j \in Iterator, NEW k \in Iterator, MoveAssign(j, k) PROVE MeetsNew(i)
    BY <1>1, <2>6, MovedMeetsNew
  <2>7. ASSUME NEW k \in Key, TablePut(k) \/ TableErase(k) PROVE MeetsNew(i)
    BY <1>1, <2>7, TableMeetsNew
  <2> QED
    BY <2>2, <2>3, <2>4, <2>5, <2>6, <2>7 DEF Next
<1>2. IInv /\ [Next]_vars =>
        [\A i \in Iterator :
           /\ walk[i].on /\ walk'[i].on
           /\ obj[i].itr # 0 /\ obj'[i].itr = obj[i].itr
           /\ Pos(i)' # Pos(i)
           => Pos(i)' \notin walk[i].seen]_vars
  BY <1>1 DEF MeetsNew
<1> QED
  BY <1>2, Invariance, PTL DEF Spec, NoKeyIsMetTwice

-----------------------------------------------------------------------------
(***************************************************************************)
(* The loop of range.  It goes up, so what holds of a position whenever it *)
(* holds of all larger ones holds of every position: the rows collected    *)
(* from a position on exist as a function, and are the ones ahead of it.   *)
(***************************************************************************)

LEMMA DownwardInduction ==
  ASSUME NEW S,
         \A p \in Position : (\A q \in Position : p < q => q \in S) => p \in S
  PROVE  Position \subseteq S
<1>1. End \in S
  BY MaxKeyAssumption DEF Position, Key, End
<1>2. Key \subseteq S
  <2> SUFFICES ASSUME Key \ S # {} PROVE FALSE
    OBVIOUS
  <2>1. PICK k \in Key \ S : \A l \in Key \ S : l <= k
    BY GreatestExists
  <2>2. \A q \in Position : k < q => q \in S
    BY <1>1, <2>1, MaxKeyAssumption DEF Position, Key
  <2> QED
    BY <2>1, <2>2 DEF Position
<1> QED
  BY <1>1, <1>2 DEF Position

(* The rows from each of the positions in P on, up to the limit.           *)
Collects(Rows, P, limit) ==
  Rows = [p \in P |-> IF p < limit THEN <<p>> \o Rows[kv_it_next(p)] ELSE <<>>]

LEMMA NextPosition ==
  ASSUME store \in SUBSET Key, NEW p \in Position, NEW limit \in Position, p < limit
  PROVE  /\ p \in Key /\ kv_it_next(p) \in Position /\ p < kv_it_next(p)
         /\ kv_it_next(p) \in store \cup {End}
         /\ \A l \in store : p < l => kv_it_next(p) <= l
<1>1. p \in Key
  BY MaxKeyAssumption DEF Position, Key, End
<1> QED
  BY <1>1, NextIs DEF Position

LEMMA LoopExists ==
  ASSUME store \in SUBSET Key, NEW limit \in Position
  PROVE  \E Rows : Collects(Rows, Position, limit)
<1> DEFINE From(n) == {p \in Position : n <= p}
           S == {n \in Position : \E Rows : Collects(Rows, From(n), limit)}
<1>1. ASSUME NEW n \in Position, \A q \in Position : n < q => q \in S
      PROVE  n \in S
  <2>1. CASE n = End
    <3>1. \A p \in From(n) : ~(p < limit)
      BY <2>1, MaxKeyAssumption DEF Position, Key, End
    <3>2. Collects([p \in From(n) |-> <<>>], From(n), limit)
      BY <3>1 DEF Collects
    <3> QED
      BY <3>2
  <2>2. CASE n # End
    <3>1. n + 1 \in Position /\ n < n + 1 /\ n \in Nat
      BY <2>2, MaxKeyAssumption DEF Position, Key, End
    <3>2. PICK f : Collects(f, From(n + 1), limit)
      BY <1>1, <3>1
    <3> DEFINE g == [p \in From(n) |->
                 IF p = n THEN IF p < limit THEN <<p>> \o f[kv_it_next(p)] ELSE <<>>
                 ELSE f[p]]
    <3>3. \A p \in From(n) : p \in Position /\ (p # n => p \in From(n + 1))
      BY <3>1, MaxKeyAssumption DEF Position, Key, End
    <3>4. \A p \in From(n) : p < limit =>
            kv_it_next(p) \in From(n) /\ kv_it_next(p) # n
      <4> SUFFICES ASSUME NEW p \in From(n), p < limit
                   PROVE  kv_it_next(p) \in From(n) /\ kv_it_next(p) # n
        OBVIOUS
      <4>1. kv_it_next(p) \in Position /\ p < kv_it_next(p) /\ p \in Position /\ n <= p
        BY NextPosition
      <4> QED
        BY <4>1, MaxKeyAssumption DEF Position, Key, End
    <3> HIDE DEF From
    <3>5. \A p \in From(n) :
            g[p] = IF p < limit THEN <<p>> \o g[kv_it_next(p)] ELSE <<>>
      BY <3>2, <3>3, <3>4 DEF Collects
    <3>6. Collects(g, From(n), limit)
      BY <3>5 DEF Collects
    <3> HIDE DEF g
    <3> QED
      BY <3>6
  <2> QED
    BY <2>1, <2>2
<1>2. Position \subseteq S
  <2> HIDE DEF S
  <2> QED
    BY <1>1, DownwardInduction
<1>3. 1 \in Position /\ From(1) = Position
  BY MaxKeyAssumption DEF Position, Key, End
<1> QED
  BY <1>2, <1>3

LEMMA RangeCollects ==
  ASSUME store \in SUBSET Key, NEW b, NEW e, kv_it_lower_bound(e) \in Position
  PROVE  \E Rows : /\ Collects(Rows, Position, kv_it_lower_bound(e))
                   /\ range(b, e) = Rows[kv_it_lower_bound(b)]
<1> DEFINE Rows == CHOOSE Rows : Collects(Rows, Position, kv_it_lower_bound(e))
<1>1. Collects(Rows, Position, kv_it_lower_bound(e))
  BY LoopExists
<1>2. range(b, e) = Rows[kv_it_lower_bound(b)]
  BY DEF range, Collects
<1> QED
  BY <1>1, <1>2


(* What the loop should collect from p on.                                 *)
Exact(rows, p, limit) ==
  /\ rows \in Seq(Key)
  /\ {rows[n] : n \in 1..Len(rows)} = {k \in store : p <= k /\ k < limit}
  /\ \A n \in 2..Len(rows) : rows[n - 1] < rows[n]

(* One turn of the loop.                                                   *)
LEMMA TurnExact ==
  ASSUME store \in SUBSET Key, NEW p \in store, NEW limit \in Position, p < limit,
         NEW rest, Exact(rest, kv_it_next(p), limit)
  PROVE  Exact(<<p>> \o rest, p, limit)
<1> DEFINE rows == <<p>> \o rest
           next == kv_it_next(p)
<1>1. /\ p \in Nat /\ limit \in Nat /\ store \subseteq Nat /\ next \in Nat
      /\ p < next /\ \A l \in store : p < l => next <= l
  BY NextPosition, MaxKeyAssumption DEF Position, Key, End
<1>2. /\ rest \in Seq(Key) /\ Len(rest) \in Nat
      /\ rows \in Seq(Key) /\ Len(rows) = Len(rest) + 1 /\ rows[1] = p
      /\ \A n \in 2..Len(rows) : n - 1 \in 1..Len(rest) /\ rows[n] = rest[n - 1]
      /\ \A n \in 1..Len(rest) : n + 1 \in 2..Len(rows) /\ rest[n] = rows[n + 1]
  BY DEF Exact
<1>3. \A n \in 1..Len(rest) : rest[n] \in store /\ next <= rest[n] /\ rest[n] < limit
  BY DEF Exact
<1> HIDE DEF rows, next
<1>4. {rows[n] : n \in 1..Len(rows)} = {k \in store : p <= k /\ k < limit}
  <2>1. ASSUME NEW n \in 1..Len(rows)
        PROVE  rows[n] \in store /\ p <= rows[n] /\ rows[n] < limit
    <3>1. CASE n = 1
      BY <1>1, <1>2, <3>1
    <3>2. CASE n # 1
      <4>1. n - 1 \in 1..Len(rest) /\ rows[n] = rest[n - 1]
        BY <1>2, <3>2
      <4>2. /\ rest[n - 1] \in store /\ rest[n - 1] \in Nat
            /\ next <= rest[n - 1] /\ rest[n - 1] < limit
        BY <1>1, <1>3, <4>1
      <4>3. p \in Nat /\ next \in Nat /\ p < next
        BY <1>1
      <4> QED
        BY <4>1, <4>2, <4>3
    <3> QED
      BY <3>1, <3>2
  <2>2. ASSUME NEW k \in store, p <= k, k < limit
        PROVE  \E n \in 1..Len(rows) : rows[n] = k
    <3>1. CASE k = p
      BY <1>2, <3>1
    <3>2. CASE k # p
      <4>1. next <= k
        BY <1>1, <2>2, <3>2
      <4>2. PICK n \in 1..Len(rest) : rest[n] = k
        BY <2>2, <4>1 DEF Exact, next
      <4> QED
        BY <1>2, <4>2
    <3> QED
      BY <3>1, <3>2
  <2> QED
    BY <2>1, <2>2
<1>5. ASSUME NEW n \in 2..Len(rows) PROVE rows[n - 1] < rows[n]
  <2>1. CASE n = 2
    <3>1. rows[1] = p /\ 1 \in 1..Len(rest) /\ rows[2] = rest[1]
      BY <1>2, <2>1
    <3>2. rest[1] \in Nat /\ next <= rest[1]
      BY <1>1, <1>3, <3>1
    <3>3. p \in Nat /\ next \in Nat /\ p < next
      BY <1>1
    <3> QED
      BY <2>1, <3>1, <3>2, <3>3
  <2>2. CASE n # 2
    <3>1. n - 1 \in 2..Len(rest) /\ n - 1 \in 2..Len(rows)
      BY <1>2, <2>2
    <3>2. rest[(n - 1) - 1] < rest[n - 1]
      BY <3>1 DEF Exact
    <3> QED
      BY <1>2, <3>1, <3>2
  <2> QED
    BY <2>1, <2>2
<1> QED
  BY <1>2, <1>4, <1>5 DEF Exact, rows

LEMMA LoopExact ==
  ASSUME store \in SUBSET Key, NEW limit \in store \cup {End},
         NEW Rows, Collects(Rows, Position, limit), NEW p \in store \cup {End}
  PROVE  Exact(Rows[p], p, limit)
<1> DEFINE S == {q \in Position : q \in store \cup {End} => Exact(Rows[q], q, limit)}
<1>1. ASSUME NEW q \in Position, \A r \in Position : q < r => r \in S
      PROVE  q \in S
  <2> SUFFICES ASSUME q \in store \cup {End} PROVE Exact(Rows[q], q, limit)
    OBVIOUS
  <2>1. limit \in Position
    BY DEF Position
  <2>2. Rows[q] = IF q < limit THEN <<q>> \o Rows[kv_it_next(q)] ELSE <<>>
    BY DEF Collects
  <2>3. CASE q < limit
    <3>1. /\ q \in store /\ kv_it_next(q) \in store \cup {End}
          /\ kv_it_next(q) \in Position /\ q < kv_it_next(q)
      BY <2>1, <2>3, NextPosition, MaxKeyAssumption DEF Key, End
    <3>2. Exact(Rows[kv_it_next(q)], kv_it_next(q), limit)
      BY <1>1, <3>1
    <3> QED
      BY <2>1, <2>2, <2>3, <3>1, <3>2, TurnExact
  <2>4. CASE ~(q < limit)
    <3>1. Rows[q] = <<>>
      BY <2>2, <2>4
    <3>2. {k \in store : q <= k /\ k < limit} = {}
      <4>1. q \in Nat /\ limit \in Nat /\ \A k \in store : k \in Nat
        BY <2>1, MaxKeyAssumption DEF Position, Key, End
      <4>2. \A k \in store : ~(q <= k /\ k < limit)
        BY <2>4, <4>1
      <4> QED
        BY <4>2
    <3> QED
      BY <3>1, <3>2 DEF Exact
  <2> QED
    BY <2>3, <2>4
<1>2. Position \subseteq S
  <2> HIDE DEF S
  <2> QED
    BY <1>1, DownwardInduction
<1> QED
  BY <1>2 DEF Position

(* The loop of range collects what it should, whatever is in the table.    *)
LEMMA RangeExact == ASSUME store \in SUBSET Key PROVE RangeIsExact
<1> SUFFICES ASSUME NEW b \in Key, NEW e \in Key
             PROVE  /\ {range(b, e)[n] : n \in 1..Len(range(b, e))}
                         = {k \in store : b <= k /\ k < e}
                    /\ \A n \in 2..Len(range(b, e)) :
                         range(b, e)[n - 1] < range(b, e)[n]
  BY DEF RangeIsExact
<1> DEFINE first == kv_it_lower_bound(b)
           limit == kv_it_lower_bound(e)
<1>1. /\ first \in store \cup {End} /\ b <= first
      /\ limit \in store \cup {End} /\ e <= limit
      /\ \A l \in store : (b <= l => first <= l) /\ (e <= l => limit <= l)
  BY LowerBoundIs, MaxKeyAssumption DEF Key, End
<1>2. limit \in Position /\ first \in Nat /\ limit \in Nat /\ store \subseteq Nat
  <2>1. Key \subseteq Nat /\ End \in Nat /\ Position = Key \cup {End}
    BY MaxKeyAssumption DEF Position, Key, End
  <2> HIDE DEF first, limit
  <2> QED
    BY <1>1, <2>1
<1>3. PICK Rows : Collects(Rows, Position, limit) /\ range(b, e) = Rows[first]
  BY <1>2, RangeCollects
<1> HIDE DEF first, limit
<1>4. Exact(range(b, e), first, limit)
  BY <1>1, <1>3, LoopExact
<1>5. {k \in store : first <= k /\ k < limit} = {k \in store : b <= k /\ k < e}
  <2>1. ASSUME NEW k \in store PROVE (first <= k <=> b <= k) /\ (k < limit <=> k < e)
    BY <1>1, <1>2 DEF Key
  <2> QED
    BY <2>1
<1> QED
  BY <1>4, <1>5 DEF Exact

(* range returns the rows from b up to but excluding e, in key order, for  *)
(* any bounds and whatever the table went through (kv.hpp:690-716).        *)
THEOREM RangeCorrect == Spec => []RangeIsExact
<1>1. IInv => RangeIsExact
  BY RangeExact DEF IInv, TypeOK
<1> QED
  BY <1>1, Invariance, PTL
=============================================================================
