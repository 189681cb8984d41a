----------------------------- MODULE KvMapProofs -----------------------------
(***************************************************************************)
(* Theorems about eosio::kv::map for every number of values of a byte, all *)
(* finite sets of keys of any lengths, and any iterator objects.           *)
(*                                                                         *)
(* Everything rests on the order of the keys: it is one, so every set of   *)
(* rows has a first and a last, and the node's iterators stand somewhere.  *)
(***************************************************************************)
EXTENDS KvMap, TLAPS, FiniteSetTheorems, SequenceTheorems,
  WellFoundedInduction

LEMMA KeyIsSequence ==
  ASSUME NEW k \in MapKey
  PROVE  /\ k \in Seq(0..(Byte - 1))
         /\ Len(k) \in Nat /\ Len(k) > 0
         /\ DOMAIN k = 1..Len(k)
         /\ \A n \in 1..Len(k) : k[n] \in 0..(Byte - 1)
<1>1. k \in Seq(0..(Byte - 1)) /\ k # <<>>
  BY KeyAssumption
<1>2. Len(k) # 0 /\ Len(k) \in Nat /\ DOMAIN k = 1..Len(k)
  BY <1>1, EmptySeq, LenProperties
<1>3. \A n \in 1..Len(k) : k[n] \in 0..(Byte - 1)
  BY <1>1, ElementOfSeq
<1> QED
  BY <1>1, <1>2, <1>3

LEMMA EndIsNoKey == End \notin MapKey
  BY KeyAssumption DEF End

LEMMA LessIrreflexive ==
  ASSUME NEW k \in MapKey
  PROVE  ~Less(k, k)
  BY KeyIsSequence, ByteAssumption DEF Less

LEMMA LessTransitive ==
  ASSUME NEW k \in MapKey, NEW l \in MapKey, NEW m \in MapKey,
         Less(k, l), Less(l, m)
  PROVE  Less(k, m)
<1>1. PICK p \in 1..Len(l) :
        /\ p <= Len(k) + 1
        /\ \A n \in 1..(p - 1) : k[n] = l[n]
        /\ p <= Len(k) => k[p] < l[p]
  BY DEF Less
<1>2. PICK q \in 1..Len(m) :
        /\ q <= Len(l) + 1
        /\ \A n \in 1..(q - 1) : l[n] = m[n]
        /\ q <= Len(l) => l[q] < m[q]
  BY DEF Less
<1>3. /\ Len(k) \in Nat /\ Len(l) \in Nat /\ Len(m) \in Nat
      /\ \A n \in 1..Len(k) : k[n] \in Int
      /\ \A n \in 1..Len(l) : l[n] \in Int
      /\ \A n \in 1..Len(m) : m[n] \in Int
  BY KeyIsSequence, ByteAssumption
<1>4. CASE p <= q
  <2>1. /\ p \in 1..Len(m)
        /\ \A n \in 1..(p - 1) : k[n] = m[n]
    BY <1>1, <1>2, <1>3, <1>4
  <2>2. p <= Len(k) => k[p] < m[p]
    <3> SUFFICES ASSUME p <= Len(k) PROVE k[p] < m[p]
      OBVIOUS
    <3>1. k[p] < l[p] /\ k[p] \in Int /\ l[p] \in Int /\ m[p] \in Int
      BY <1>1, <1>3, <2>1
    <3>2. CASE p < q
      BY <1>1, <1>2, <1>3, <3>1, <3>2
    <3>3. CASE p = q
      BY <1>1, <1>2, <1>3, <3>1, <3>3
    <3> QED
      BY <1>4, <3>2, <3>3
  <2> QED
    BY <1>1, <2>1, <2>2 DEF Less
<1>5. CASE q < p
  <2>1. /\ q <= Len(k) + 1
        /\ \A n \in 1..(q - 1) : k[n] = m[n]
    BY <1>1, <1>2, <1>3, <1>5
  <2>2. q <= Len(k) => k[q] < m[q]
    BY <1>1, <1>2, <1>3, <1>5
  <2> QED
    BY <1>2, <2>1, <2>2 DEF Less
<1> QED
  BY <1>3, <1>4, <1>5

(* Different keys are ordered: at the first byte in which they differ, or  *)
(* where the shorter one ends.                                             *)
LEMMA LessTotal ==
  ASSUME NEW k \in MapKey, NEW l \in MapKey, k # l
  PROVE  Less(k, l) \/ Less(l, k)
<1>1. /\ Len(k) \in Nat /\ Len(l) \in Nat
      /\ \A n \in 1..Len(k) : k[n] \in Int
      /\ \A n \in 1..Len(l) : l[n] \in Int
      /\ k \in Seq(0..(Byte - 1)) /\ l \in Seq(0..(Byte - 1))
  BY KeyIsSequence, ByteAssumption
<1> DEFINE differ == {n \in Nat : n > 0 /\ n <= Len(k) /\ n <= Len(l) /\ k[n] # l[n]}
<1>2. CASE differ = {}
  <2>1. \A n \in 1..Len(k) : n <= Len(l) => k[n] = l[n]
    BY <1>1, <1>2
  <2>2. Len(k) # Len(l)
    BY <1>1, <2>1
  <2>3. CASE Len(k) < Len(l)
    <3>1. /\ Len(k) + 1 \in 1..Len(l)
          /\ \A n \in 1..((Len(k) + 1) - 1) : k[n] = l[n]
          /\ ~(Len(k) + 1 <= Len(k))
      BY <1>1, <2>1, <2>3
    <3> QED
      BY <1>1, <3>1 DEF Less
  <2>4. CASE Len(l) < Len(k)
    <3>1. /\ Len(l) + 1 \in 1..Len(k)
          /\ \A n \in 1..((Len(l) + 1) - 1) : l[n] = k[n]
          /\ ~(Len(l) + 1 <= Len(l))
      BY <1>1, <2>1, <2>4
    <3> QED
      BY <1>1, <3>1 DEF Less
  <2> QED
    BY <1>1, <2>2, <2>3, <2>4
<1>3. CASE differ # {}
  <2>1. PICK n \in differ : \A o \in differ : ~(<<o, n>> \in OpToRel(<, Nat))
    <3>1. differ \subseteq Nat
      OBVIOUS
    <3> HIDE DEF differ
    <3> QED
      BY <1>3, <3>1, NatLessThanWellFounded, WFMin
  <2>2. \A o \in differ : ~(o < n)
    BY <2>1 DEF OpToRel
  <2>3. \A o \in 1..(n - 1) : k[o] = l[o]
    BY <1>1, <2>2
  <2>4. k[n] < l[n] \/ l[n] < k[n]
    BY <1>1
  <2>5. n \in 1..Len(k) /\ n \in 1..Len(l)
    BY <1>1
  <2> QED
    BY <1>1, <2>3, <2>4, <2>5 DEF Less
<1> QED
  BY <1>2, <1>3

LEMMA RowsAreFinite ==
  ASSUME NEW S \in SUBSET MapKey
  PROVE  IsFiniteSet(S)
  BY KeyAssumption, FS_Subset

(* Of a set of numbers that is not empty one is the smallest.              *)
LEMMA SmallestNumber ==
  ASSUME NEW T, T \subseteq Nat, T # {}
  PROVE  \E n \in T : \A o \in T : n <= o
<1>1. PICK n \in T : \A o \in T : ~(<<o, n>> \in OpToRel(<, Nat))
  BY NatLessThanWellFounded, WFMin
<1>2. \A o \in T : ~(o < n)
  BY <1>1 DEF OpToRel
<1> QED
  BY <1>2

(* The key with the fewest keys before it is the first.                    *)
LEMMA FirstExists ==
  ASSUME NEW S \in SUBSET MapKey, S # {}
  PROVE  /\ First(S) \in S
         /\ \A l \in S : ~Less(l, First(S))
<1> DEFINE before(k) == {l \in S : Less(l, k)}
<1> DEFINE counts == {Cardinality(before(k)) : k \in S}
<1>1. \A k \in S : IsFiniteSet(before(k)) /\ Cardinality(before(k)) \in Nat
  <2>1. \A k \in S : before(k) \in SUBSET MapKey
    OBVIOUS
  <2> HIDE DEF before
  <2> QED
    BY <2>1, RowsAreFinite, FS_CardinalityType
<1>2. PICK k \in S : \A o \in S : Cardinality(before(k)) <= Cardinality(before(o))
  <2>1. counts \subseteq Nat /\ counts # {}
    BY <1>1
  <2>2. PICK c \in counts : \A d \in counts : c <= d
    <3> HIDE DEF counts
    <3> QED
      BY <2>1, SmallestNumber
  <2> QED
    BY <2>2
<1>3. \A l \in S : ~Less(l, k)
  <2> SUFFICES ASSUME NEW l \in S, Less(l, k) PROVE FALSE
    OBVIOUS
  <2>1. before(l) \in SUBSET before(k)
    BY LessTransitive
  <2>2. l \in before(k) /\ l \notin before(l)
    BY LessIrreflexive
  <2>3. Cardinality(before(l)) <= Cardinality(before(k))
    <3> HIDE DEF before
    <3> QED
      BY <1>1, <2>1, FS_Subset
  <2>4. Cardinality(before(l)) # Cardinality(before(k))
    <3>1. before(l) # before(k)
      BY <2>2
    <3> HIDE DEF before
    <3> QED
      BY <1>1, <2>1, <3>1, FS_Subset
  <2> QED
    BY <1>1, <1>2, <2>3, <2>4
<1> QED
  BY <1>3 DEF First

(* The same for the last.                                                  *)
LEMMA LastExists ==
  ASSUME NEW S \in SUBSET MapKey, S # {}
  PROVE  /\ Last(S) \in S
         /\ \A l \in S : ~Less(Last(S), l)
<1> DEFINE after(k) == {l \in S : Less(k, l)}
<1> DEFINE counts == {Cardinality(after(k)) : k \in S}
<1>1. \A k \in S : IsFiniteSet(after(k)) /\ Cardinality(after(k)) \in Nat
  <2>1. \A k \in S : after(k) \in SUBSET MapKey
    OBVIOUS
  <2> HIDE DEF after
  <2> QED
    BY <2>1, RowsAreFinite, FS_CardinalityType
<1>2. PICK k \in S : \A o \in S : Cardinality(after(k)) <= Cardinality(after(o))
  <2>1. counts \subseteq Nat /\ counts # {}
    BY <1>1
  <2>2. PICK c \in counts : \A d \in counts : c <= d
    <3> HIDE DEF counts
    <3> QED
      BY <2>1, SmallestNumber
  <2> QED
    BY <2>2
<1>3. \A l \in S : ~Less(k, l)
  <2> SUFFICES ASSUME NEW l \in S, Less(k, l) PROVE FALSE
    OBVIOUS
  <2>1. after(l) \in SUBSET after(k)
    BY LessTransitive
  <2>2. l \in after(k) /\ l \notin after(l)
    BY LessIrreflexive
  <2>3. Cardinality(after(l)) <= Cardinality(after(k))
    <3> HIDE DEF after
    <3> QED
      BY <1>1, <2>1, FS_Subset
  <2>4. Cardinality(after(l)) # Cardinality(after(k))
    <3>1. after(l) # after(k)
      BY <2>2
    <3> HIDE DEF after
    <3> QED
      BY <1>1, <2>1, <3>1, FS_Subset
  <2> QED
    BY <1>1, <1>2, <2>3, <2>4
<1> QED
  BY <1>3 DEF Last

(* Where the node puts an iterator is a row, or the end.                   *)
LEMMA FirstIsPosition ==
  ASSUME NEW S \in SUBSET MapKey
  PROVE  First(S) \in S \cup {End} /\ (First(S) = End <=> S = {})
  BY FirstExists, EndIsNoKey DEF First

LEMMA LastIsPosition ==
  ASSUME NEW S \in SUBSET MapKey
  PROVE  Last(S) \in S \cup {End} /\ (Last(S) = End <=> S = {})
  BY LastExists, EndIsNoKey DEF Last

LEMMA LowerBoundIsRow ==
  ASSUME store \in SUBSET MapKey, NEW k
  PROVE  kv_it_lower_bound(k) \in store \cup {End}
<1>1. {l \in store : ~Less(l, k)} \in SUBSET MapKey
  OBVIOUS
<1> QED
  BY <1>1, FirstIsPosition DEF kv_it_lower_bound

LEMMA NextIsRow ==
  ASSUME store \in SUBSET MapKey, NEW p
  PROVE  kv_it_next(p) \in store \cup {End}
<1>1. {l \in store : Less(p, l)} \in SUBSET MapKey
  OBVIOUS
<1> QED
  BY <1>1, FirstIsPosition DEF kv_it_next

LEMMA PrevIsRow ==
  ASSUME store \in SUBSET MapKey, NEW p
  PROVE  kv_it_prev(p) \in store \cup {End}
<1>1. {l \in store : Less(l, p)} \in SUBSET MapKey
  OBVIOUS
<1> QED
  BY <1>1, LastIsPosition DEF kv_it_prev

LEMMA UpperBoundIsRow ==
  ASSUME store \in SUBSET MapKey, NEW k
  PROVE  UpperBound(k) \in store \cup {End}
  BY LowerBoundIsRow DEF UpperBound

-----------------------------------------------------------------------------
(* An iterator that is not marked erased stands on a row.                  *)
StandsOnRow ==
  \A i \in Iterator : obj[i].pos # End /\ ~obj[i].erased => obj[i].pos \in store

IInv == TypeOK /\ StandsOnRow /\ ReadsAreCurrent

Objects == [life : {"none", "new", "live", "moved"}, pos : Position,
            erased : BOOLEAN, stat : {"ok", "end"}]

(* What the type invariant says of the status of one object.               *)
StatusAgrees(o) ==
  /\ o.life = "live" => (o.stat = "end" <=> o.pos = End)
  /\ o.life = "new" => o.stat = "ok"
  /\ o.life # "live" => o.pos = End /\ ~o.erased

LEMMA TypeOKIs ==
  TypeOK <=> /\ kind \in [Iterator -> {"forward", "reverse"}]
             /\ store \in SUBSET MapKey
             /\ obj \in [Iterator -> Objects]
             /\ read \in Position
             /\ aborted \in BOOLEAN
             /\ \A i \in Iterator : StatusAgrees(obj[i])
  BY DEF TypeOK, Objects, StatusAgrees

LEMMA InitSafe == Init => IInv
<1> SUFFICES ASSUME Init PROVE IInv
  OBVIOUS
<1>1. obj = [i \in Iterator |->
               [life |-> "none", pos |-> End, erased |-> FALSE, stat |-> "end"]]
  BY DEF Init, Object
<1>2. TypeOK
  <2>1. End \in Position
    BY DEF Position
  <2>2. /\ kind \in [Iterator -> {"forward", "reverse"}] /\ store \in SUBSET MapKey
        /\ read \in Position /\ aborted \in BOOLEAN
    BY <2>1 DEF Init
  <2>3. obj \in [Iterator -> [life : {"none", "new", "live", "moved"}, pos : Position,
                             erased : BOOLEAN, stat : {"ok", "end"}]]
    BY <1>1, <2>1
  <2>4. \A i \in Iterator : StatusAgrees(obj[i])
    BY <1>1 DEF StatusAgrees
  <2> QED
    BY <2>2, <2>3, <2>4 DEF TypeOK, StatusAgrees
<1> QED
  BY <1>1, <1>2 DEF Init, IInv, StandsOnRow, ReadsAreCurrent

Erased(o) == [o EXCEPT !.erased = TRUE]

LEMMA ErasedObject ==
  ASSUME NEW o \in Objects
  PROVE  /\ Erased(o) \in Objects
         /\ Erased(o).pos = o.pos /\ Erased(o).stat = o.stat /\ Erased(o).erased
         /\ Erased(o).life = o.life
  BY DEF Objects, Erased

LEMMA FailSafe == IInv /\ Fail => IInv'
  BY EndIsNoKey DEF Fail, IInv, TypeOK, StandsOnRow, ReadsAreCurrent, Object, Position

(* One object is replaced by another that is well-formed and, on a row, on *)
(* one of the store.                                                       *)
LEMMA ChangedObjectSafe ==
  ASSUME IInv, NEW i \in Iterator, NEW o \in Objects, StatusAgrees(o),
         o.pos \in store \cup {End},
         obj' = [obj EXCEPT ![i] = o],
         read' = End, UNCHANGED <<kind, store, aborted>>
  PROVE  IInv'
<1>1. /\ kind \in [Iterator -> {"forward", "reverse"}] /\ store \in SUBSET MapKey
      /\ obj \in [Iterator -> Objects] /\ aborted \in BOOLEAN
      /\ \A j \in Iterator : StatusAgrees(obj[j])
  BY TypeOKIs DEF IInv
<1>2. obj' \in [Iterator -> Objects] /\ \A j \in Iterator : obj'[j] = IF j = i THEN o ELSE obj[j]
  BY <1>1
<1>3. \A j \in Iterator : StatusAgrees(obj'[j])
  BY <1>1, <1>2
<1>4. TypeOK'
  BY <1>1, <1>2, <1>3 DEF TypeOK, Objects, StatusAgrees, Position
<1>5. StandsOnRow'
  BY <1>2 DEF IInv, StandsOnRow
<1> QED
  BY <1>4, <1>5 DEF IInv, ReadsAreCurrent

(* An iterator that the node puts on a row or the end.                     *)
LEMMA PlacedSafe ==
  ASSUME IInv, NEW i \in Iterator, NEW p \in store \cup {End},
         obj' = [obj EXCEPT ![i] = Object("live", p, StatusOf(p))],
         read' = End, UNCHANGED <<kind, store, aborted>>
  PROVE  IInv'
<1> DEFINE o == Object("live", p, StatusOf(p))
<1>1. /\ kind \in [Iterator -> {"forward", "reverse"}] /\ store \in SUBSET MapKey
      /\ obj \in [Iterator -> Objects] /\ aborted \in BOOLEAN
      /\ \A j \in Iterator : StatusAgrees(obj[j])
  BY TypeOKIs DEF IInv
<1>2. o \in Objects /\ StatusAgrees(o) /\ o.pos = p
  BY <1>1, EndIsNoKey DEF Objects, StatusAgrees, Object, StatusOf, Position
<1>3. obj' = [obj EXCEPT ![i] = o]
  OBVIOUS
<1> HIDE DEF o
<1> QED
  BY <1>2, <1>3, ChangedObjectSafe

LEMMA AssignSafe ==
  ASSUME IInv, NEW i \in Iterator, NEW p \in store \cup {End}, Assign(i, p)
  PROVE  IInv'
  BY PlacedSafe DEF Assign

LEMMA MoveToSafe ==
  ASSUME IInv, NEW i \in Iterator, NEW p \in store \cup {End}, MoveTo(i, p)
  PROVE  IInv'
  BY PlacedSafe DEF MoveTo

LEMMA UpSafe ==
  ASSUME IInv, NEW i \in Iterator, Up(i)
  PROVE  IInv'
<1>1. store \in SUBSET MapKey
  BY DEF IInv, TypeOK
<1> QED
  BY <1>1, NextIsRow, MoveToSafe, FailSafe DEF Up

LEMMA DownSafe ==
  ASSUME IInv, NEW i \in Iterator, Down(i)
  PROVE  IInv'
<1>1. store \in SUBSET MapKey
  BY DEF IInv, TypeOK
<1> QED
  BY <1>1, PrevIsRow, MoveToSafe, FailSafe DEF Down

LEMMA SeekSafe ==
  ASSUME IInv, NEW i \in Iterator, NEW p \in store \cup {End}, Seek(i, p)
  PROVE  IInv'
  BY MoveToSafe, FailSafe DEF Seek

(* An iterator that was moved from has no position.                        *)
LEMMA MoveAssignSafe ==
  ASSUME IInv, NEW i \in Iterator, NEW j \in Iterator, MoveAssign(i, j)
  PROVE  IInv'
<1> DEFINE gave == Object("moved", End, obj[j].stat)
<1>1. /\ kind \in [Iterator -> {"forward", "reverse"}] /\ store \in SUBSET MapKey
      /\ obj \in [Iterator -> Objects] /\ aborted \in BOOLEAN
      /\ \A k \in Iterator : StatusAgrees(obj[k])
  BY TypeOKIs DEF IInv
<1>2. /\ obj' = [[obj EXCEPT ![i] = obj[j]] EXCEPT ![j] = gave]
      /\ read' = End /\ i # j
      /\ kind' = kind /\ store' = store /\ aborted' = aborted
  BY DEF MoveAssign
<1>3. gave \in Objects /\ StatusAgrees(gave) /\ gave.pos = End
  BY <1>1 DEF Objects, StatusAgrees, Object, Position
<1> HIDE DEF gave
<1>4. /\ obj' \in [Iterator -> Objects]
      /\ \A k \in Iterator :
           obj'[k] = IF k = j THEN gave ELSE IF k = i THEN obj[j] ELSE obj[k]
  BY <1>1, <1>2, <1>3
<1>5. \A k \in Iterator : StatusAgrees(obj'[k])
  BY <1>1, <1>3, <1>4
<1>6. TypeOK'
  BY <1>1, <1>2, <1>4, <1>5 DEF TypeOK, Objects, StatusAgrees, Position
<1>7. StandsOnRow'
  BY <1>2, <1>3, <1>4 DEF IInv, StandsOnRow
<1> QED
  BY <1>2, <1>6, <1>7 DEF IInv, ReadsAreCurrent

(* Nor has one that was just made, or is no more.                          *)
LEMMA BeginsAndEndsSafe ==
  ASSUME IInv, NEW i \in Iterator, construct(i) \/ destroy(i)
  PROVE  IInv'
<1> DEFINE made == Object("new", End, "ok")
           ended == Object("none", End, "end")
<1>1. /\ made \in Objects /\ StatusAgrees(made) /\ made.pos = End
      /\ ended \in Objects /\ StatusAgrees(ended) /\ ended.pos = End
  BY DEF Objects, StatusAgrees, Object, Position
<1>2. /\ obj' = [obj EXCEPT ![i] = made] \/ obj' = [obj EXCEPT ![i] = ended]
      /\ read' = End /\ UNCHANGED <<kind, store, aborted>>
  BY DEF construct, destroy
<1> HIDE DEF made, ended
<1> QED
  BY <1>1, <1>2, ChangedObjectSafe

LEMMA NextSafe == IInv /\ [Next]_vars => IInv'
<1> SUFFICES ASSUME IInv, [Next]_vars PROVE IInv'
  OBVIOUS
<1>1. store \in SUBSET MapKey
  BY DEF IInv, TypeOK
<1>2. ASSUME NEW i \in Iterator, begin(i) \/ rbegin(i) \/ end(i) PROVE IInv'
  BY <1>1, <1>2, LowerBoundIsRow, PrevIsRow, AssignSafe DEF begin, rbegin, end
<1>3. ASSUME NEW i \in Iterator, Increment(i) \/ Decrement(i) PROVE IInv'
  BY <1>3, UpSafe, DownSafe DEF Increment, Decrement
<1>4. ASSUME NEW i \in Iterator, Dereference(i) PROVE IInv'
  <2>1. CASE Fail
    BY <2>1, FailSafe
  <2>2. CASE /\ obj[i].pos # End /\ ~obj[i].erased
             /\ read' = obj[i].pos
             /\ UNCHANGED <<kind, store, obj, aborted>>
    <3>1. obj[i].pos \in Position
      BY DEF IInv, TypeOK
    <3> QED
      BY <2>2, <3>1 DEF IInv, TypeOK, StandsOnRow, ReadsAreCurrent
  <2> QED
    BY <1>4, <2>1, <2>2 DEF Dereference
<1>5. ASSUME NEW i \in Iterator, NEW k \in MapKey,
             lower_bound(i, k) \/ upper_bound(i, k)
      PROVE  IInv'
  BY <1>1, <1>5, LowerBoundIsRow, UpperBoundIsRow, AssignSafe
     DEF lower_bound, upper_bound
<1>6. ASSUME NEW i \in Iterator, NEW k \in MapKey,
             find(i, k) \/ seek_lower_bound(i, k) \/ seek_find(i, k)
      PROVE  IInv'
  <2>1. Find(k) \in store \cup {End} /\ kv_it_lower_bound(k) \in store \cup {End}
    BY <1>1, LowerBoundIsRow DEF Find
  <2> QED
    BY <1>6, <2>1, AssignSafe, SeekSafe DEF find, seek_lower_bound, seek_find
<1>7. ASSUME NEW i \in Iterator, NEW j \in Iterator, MoveAssign(i, j) PROVE IInv'
  BY <1>7, MoveAssignSafe
<1>8. ASSUME NEW k \in MapKey, set(k) PROVE IInv'
  BY <1>8 DEF set, IInv, TypeOK, StandsOnRow, ReadsAreCurrent, Position
<1>9. ASSUME NEW k \in MapKey, at(k) PROVE IInv'
  BY <1>9, FailSafe DEF at
<1>10. ASSUME NEW k \in MapKey, erase(k) PROVE IInv'
  <2>1. /\ kind \in [Iterator -> {"forward", "reverse"}]
        /\ obj \in [Iterator -> Objects]
        /\ \A i \in Iterator : StatusAgrees(obj[i])
        /\ store \in SUBSET MapKey /\ aborted \in BOOLEAN
    BY TypeOKIs DEF IInv
  <2>2. /\ obj' = [i \in Iterator |-> IF obj[i].pos = k THEN Erased(obj[i]) ELSE obj[i]]
        /\ store' = store \ {k} /\ read' = End
        /\ kind' = kind /\ aborted' = aborted
    BY <1>10 DEF erase, Erased
  <2>3. \A i \in Iterator :
          /\ obj'[i] \in Objects
          /\ obj'[i].pos = obj[i].pos /\ obj'[i].stat = obj[i].stat
          /\ obj'[i].life = obj[i].life
          /\ ~obj'[i].erased => ~obj[i].erased /\ obj[i].pos # k
          /\ obj'[i].erased => obj[i].erased \/ obj[i].pos = k
    BY <2>1, <2>2, ErasedObject
  <2>4. \A i \in Iterator : StatusAgrees(obj'[i])
    BY <2>1, <2>3, EndIsNoKey DEF StatusAgrees
  <2>5. TypeOK'
    <3>1. obj' \in [Iterator -> Objects] /\ store' \in SUBSET MapKey /\ read' \in Position
      BY <2>1, <2>2, <2>3 DEF Position
    <3> QED
      BY <2>1, <2>2, <2>4, <3>1 DEF TypeOK, Objects, StatusAgrees
  <2>6. StandsOnRow'
    BY <2>2, <2>3 DEF IInv, StandsOnRow
  <2> QED
    BY <2>2, <2>5, <2>6 DEF IInv, ReadsAreCurrent
<1>11. ASSUME NEW i \in Iterator, construct(i) \/ destroy(i) PROVE IInv'
  BY <1>11, BeginsAndEndsSafe
<1>12. ASSUME NEW i \in Iterator,
              seek_to_begin(i) \/ seek_to_last(i) \/ seek_to_end(i)
       PROVE  IInv'
  BY <1>1, <1>12, LowerBoundIsRow, PrevIsRow, SeekSafe
     DEF seek_to_begin, seek_to_last, seek_to_end
<1>13. CASE UNCHANGED vars
  BY <1>13 DEF vars, IInv, TypeOK, StandsOnRow, ReadsAreCurrent, Position
<1> QED
  BY <1>2, <1>3, <1>4, <1>5, <1>6, <1>7, <1>8, <1>9, <1>10, <1>11, <1>12, <1>13
     DEF Next

LEMMA AlwaysIInv == Spec => []IInv
  BY InitSafe, NextSafe, PTL DEF Spec

(* Whatever is done with any iterators, once one has been sought, moved or *)
(* assigned its cached status says exactly whether the node's iterator it  *)
(* owns is past the end.  One just constructed is at the end with status   *)
(* ok, and one moved from owns no position: the status it keeps says       *)
(* nothing (map.hpp:169-392).                                              *)
THEOREM TypeCorrect == Spec => []TypeOK
<1>1. IInv => TypeOK
  BY DEF IInv
<1> QED
  BY <1>1, AlwaysIInv, PTL

(* What is read through an iterator is a row of the map, whatever was      *)
(* erased and stored under it (map.hpp:375-387).                           *)
THEOREM ReadsCorrect == Spec => []ReadsAreCurrent
<1>1. IInv => ReadsAreCurrent
  BY DEF IInv
<1> QED
  BY <1>1, AlwaysIInv, PTL
-----------------------------------------------------------------------------
(* A last byte in the lower half takes the increment without a carry.      *)
LEMMA IncrementStopsAtLast ==
  ASSUME NEW k \in MapKey, k[Len(k)] < Byte \div 2
  PROVE  /\ Stop(k) = Len(k)
         /\ Len(increment_bytes(k)) = Len(k)
         /\ \A n \in 1..(Len(k) - 1) : increment_bytes(k)[n] = k[n]
         /\ increment_bytes(k)[Len(k)] = k[Len(k)] + 1
<1>1. Len(k) \in Nat /\ Len(k) > 0 /\ \A n \in 1..Len(k) : k[n] \in 0..(Byte - 1)
  BY KeyIsSequence
<1>2. ~Carries(k[Len(k)])
  BY <1>1, ByteAssumption DEF Carries
<1>3. Stop(k) = Len(k)
  <2>1. \A n \in 0..Len(k) :
          (/\ n > 0 => ~Carries(k[n])
           /\ \A m \in (n + 1)..Len(k) : Carries(k[m])) <=> n = Len(k)
    BY <1>1, <1>2
  <2> QED
    BY <1>1, <2>1 DEF Stop
<1>4. (k[Len(k)] + 1) % Byte = k[Len(k)] + 1
  <2>1. k[Len(k)] \in Int /\ k[Len(k)] >= 0 /\ k[Len(k)] + 1 < Byte
    BY <1>1, ByteAssumption
  <2> QED
    BY <2>1, ByteAssumption
<1>5. increment_bytes(k) =
        [n \in 1..Len(k) |-> IF n < Len(k) THEN k[n] ELSE (k[n] + 1) % Byte]
  BY <1>3 DEF increment_bytes
<1>6. \A n \in 1..Len(k) : increment_bytes(k)[n] \in Int
  BY <1>1, <1>5, ByteAssumption
<1>7. increment_bytes(k) \in Seq(Int) /\ Len(increment_bytes(k)) = Len(k)
  BY <1>1, <1>5, <1>6
<1> QED
  BY <1>1, <1>3, <1>4, <1>5, <1>7

(* Between keys of one length, those not before the increment of a key are *)
(* those after the key.                                                    *)
LEMMA BeyondIncrement ==
  ASSUME NEW k \in MapKey, k[Len(k)] < Byte \div 2,
         NEW l \in MapKey, Len(l) = Len(k)
  PROVE  ~Less(l, increment_bytes(k)) <=> Less(k, l)
<1> DEFINE inc == increment_bytes(k)
<1>1. /\ Len(k) \in Nat /\ Len(k) > 0
      /\ \A n \in 1..Len(k) : k[n] \in Int /\ l[n] \in Int
  BY KeyIsSequence, ByteAssumption
<1>2. /\ Len(inc) = Len(k)
      /\ \A n \in 1..(Len(k) - 1) : inc[n] = k[n]
      /\ inc[Len(k)] = k[Len(k)] + 1
  BY IncrementStopsAtLast
<1> HIDE DEF inc
<1>3. \A n \in 1..Len(k) : inc[n] = IF n < Len(k) THEN k[n] ELSE k[n] + 1
  BY <1>1, <1>2
<1>4. ASSUME Less(k, l), Less(l, inc) PROVE FALSE
  <2>1. PICK n \in 1..Len(k) : (\A m \in 1..(n - 1) : k[m] = l[m]) /\ k[n] < l[n]
    <3>1. PICK n \in 1..Len(l) :
            /\ n <= Len(k) + 1
            /\ \A m \in 1..(n - 1) : k[m] = l[m]
            /\ n <= Len(k) => k[n] < l[n]
      BY <1>4 DEF Less
    <3> QED
      BY <1>1, <3>1
  <2>2. PICK p \in 1..Len(k) : (\A m \in 1..(p - 1) : l[m] = inc[m]) /\ l[p] < inc[p]
    <3>1. PICK p \in 1..Len(inc) :
            /\ p <= Len(l) + 1
            /\ \A m \in 1..(p - 1) : l[m] = inc[m]
            /\ p <= Len(l) => l[p] < inc[p]
      BY <1>4 DEF Less
    <3> QED
      BY <1>1, <1>2, <3>1
  <2>3. CASE p < n
    BY <1>1, <1>3, <2>1, <2>2, <2>3
  <2>4. CASE p = n
    BY <1>1, <1>3, <2>1, <2>2, <2>4
  <2>5. CASE n < p
    BY <1>1, <1>3, <2>1, <2>2, <2>5
  <2> QED
    BY <2>3, <2>4, <2>5
<1>5. ASSUME ~Less(k, l), k = l PROVE Less(l, inc)
  <2>1. /\ Len(k) \in 1..Len(inc)
        /\ \A m \in 1..(Len(k) - 1) : l[m] = inc[m]
        /\ l[Len(k)] < inc[Len(k)]
    BY <1>1, <1>2, <1>5
  <2> QED
    BY <1>1, <1>5, <2>1 DEF Less
<1>6. ASSUME Less(l, k) PROVE Less(l, inc)
  <2>1. PICK n \in 1..Len(k) : (\A m \in 1..(n - 1) : l[m] = k[m]) /\ l[n] < k[n]
    BY <1>1, <1>6 DEF Less
  <2>2. (\A m \in 1..(n - 1) : l[m] = inc[m]) /\ l[n] < inc[n]
    BY <1>1, <1>3, <2>1
  <2> QED
    BY <1>1, <1>2, <2>2 DEF Less
<1>7. Less(k, l) \/ Less(l, k) \/ k = l
  BY LessTotal
<1>8. (~Less(l, inc)) <=> Less(k, l)
  BY <1>4, <1>5, <1>6, <1>7
<1> QED
  BY <1>8 DEF inc

(* upper_bound stands on the first larger key, for keys of one length with *)
(* a last byte that is not negative as a char (map.hpp:570-576).           *)
THEOREM UpperBoundCorrect == Spec => []PlainUpperBoundIsNext
<1>1. IInv => PlainUpperBoundIsNext
  <2> SUFFICES ASSUME IInv, NEW k \in MapKey,
                      k[Len(k)] < Byte \div 2, \A l \in store : Len(l) = Len(k)
               PROVE  UpperBoundIs(k)
    BY DEF PlainUpperBoundIsNext
  <2>1. store \in SUBSET MapKey
    BY DEF IInv, TypeOK
  <2>2. Stop(k) # 0
    BY IncrementStopsAtLast, KeyIsSequence
  <2>3. {l \in store : ~Less(l, increment_bytes(k))} = {l \in store : Less(k, l)}
    BY <2>1, BeyondIncrement
  <2> QED
    BY <2>2, <2>3 DEF UpperBoundIs, UpperBound, kv_it_lower_bound
<1> QED
  BY <1>1, AlwaysIInv, PTL

-----------------------------------------------------------------------------
(***************************************************************************)
(* The loop of ranged_slice.  It goes up, and the end comes after all      *)
(* keys: what holds of a position whenever it holds of all later ones      *)
(* holds of every position.  So the rows collected from a position on      *)
(* exist as a function, and are the ones up to the limit, or run into the  *)
(* end if the limit is behind.                                             *)
(***************************************************************************)

Before(p, q) == p # End /\ (q = End \/ Less(p, q))

LEMMA KeysAreOrdered ==
  \A k, l, m \in MapKey :
    /\ ~Less(k, k)
    /\ Less(k, l) /\ Less(l, m) => Less(k, m)
    /\ k # l => Less(k, l) \/ Less(l, k)
  BY LessIrreflexive, LessTransitive, LessTotal

LEMMA PositionsAreOrdered ==
  \A p, q, r \in Position :
    /\ ~Before(p, p)
    /\ Before(p, q) /\ Before(q, r) => Before(p, r)
    /\ p # q => Before(p, q) \/ Before(q, p)
  BY KeysAreOrdered, EndIsNoKey DEF Before, Position

LEMMA UpwardInduction ==
  ASSUME NEW S,
         \A p \in Position : (\A q \in Position : Before(p, q) => q \in S) => p \in S
  PROVE  Position \subseteq S
<1>1. End \in S
  BY DEF Position, Before
<1>2. MapKey \subseteq S
  <2> SUFFICES ASSUME MapKey \ S # {} PROVE FALSE
    OBVIOUS
  <2>1. PICK k \in MapKey \ S : \A l \in MapKey \ S : ~Less(k, l)
    BY LastExists
  <2>2. \A q \in Position : Before(k, q) => q \in S
    BY <1>1, <2>1 DEF Position, Before
  <2> QED
    BY <2>1, <2>2 DEF Position
<1> QED
  BY <1>1, <1>2 DEF Position

(* The first of the keys after one, or the end.                            *)
LEMMA FirstAfter ==
  ASSUME NEW S \in SUBSET MapKey, NEW p \in MapKey
  PROVE  /\ First({l \in S : Less(p, l)}) \in S \cup {End}
         /\ Before(p, First({l \in S : Less(p, l)}))
         /\ \A l \in S : Less(p, l) =>
              /\ First({m \in S : Less(p, m)}) # End
              /\ ~Less(l, First({m \in S : Less(p, m)}))
<1> DEFINE T == {l \in S : Less(p, l)}
<1>1. T \in SUBSET MapKey /\ p # End
  BY EndIsNoKey
<1>2. CASE T = {}
  <2>1. First(T) = End
    BY <1>2 DEF First
  <2> QED
    BY <1>1, <1>2, <2>1 DEF Before
<1>3. CASE T # {}
  <2>1. First(T) \in T /\ \A l \in T : ~Less(l, First(T))
    BY <1>1, <1>3, FirstExists
  <2> QED
    BY <1>1, <2>1, EndIsNoKey DEF Before
<1> QED
  BY <1>2, <1>3

LEMMA NextIs ==
  ASSUME store \in SUBSET MapKey, NEW p \in MapKey
  PROVE  /\ kv_it_next(p) \in store \cup {End} /\ kv_it_next(p) \in Position
         /\ Before(p, kv_it_next(p))
         /\ \A l \in store : Less(p, l) => kv_it_next(p) # End /\ ~Less(l, kv_it_next(p))
<1>1. kv_it_next(p) = First({l \in store : Less(p, l)})
  BY EndIsNoKey DEF kv_it_next
<1> QED
  BY <1>1, FirstAfter DEF Position

LEMMA LowerBoundIs ==
  ASSUME store \in SUBSET MapKey, NEW k \in MapKey
  PROVE  /\ kv_it_lower_bound(k) \in store \cup {End} /\ kv_it_lower_bound(k) \in Position
         /\ ~Less(kv_it_lower_bound(k), k) \/ kv_it_lower_bound(k) = End
         /\ \A l \in store : ~Less(l, k) =>
              kv_it_lower_bound(k) # End /\ ~Less(l, kv_it_lower_bound(k))
<1> DEFINE T == {l \in store : ~Less(l, k)}
<1>1. T \in SUBSET MapKey /\ kv_it_lower_bound(k) = First(T)
  BY DEF kv_it_lower_bound
<1>2. CASE T = {}
  BY <1>1, <1>2 DEF First, Position
<1>3. CASE T # {}
  <2>1. First(T) \in T /\ \A l \in T : ~Less(l, First(T))
    BY <1>1, <1>3, FirstExists
  <2> QED
    BY <1>1, <2>1, EndIsNoKey DEF Position
<1> QED
  BY <1>2, <1>3

(* The rows from each of the positions in P on.                            *)
Collected(Rows, p, limit) ==
  IF p = limit THEN <<>>
  ELSE IF p = End THEN <<End>>
  ELSE <<p>> \o Rows[kv_it_next(p)]

Collects(Rows, P, limit) == Rows = [p \in P |-> Collected(Rows, p, limit)]

LEMMA LoopExists ==
  ASSUME store \in SUBSET MapKey, NEW limit
  PROVE  \E Rows : Collects(Rows, Position, limit)
<1> DEFINE From(n) == {p \in Position : p = n \/ Before(n, p)}
           S == {n \in Position : \E Rows : Collects(Rows, From(n), limit)}
<1>1. ASSUME NEW n \in Position, \A q \in Position : Before(n, q) => q \in S
      PROVE  n \in S
  <2>1. CASE n = End
    <3> DEFINE g == [p \in From(n) |-> IF p = limit THEN <<>> ELSE <<End>>]
    <3>1. \A p \in From(n) : p = End
      BY <2>1 DEF Before
    <3>2. \A p \in From(n) : g[p] = Collected(g, p, limit)
      BY <3>1 DEF Collected
    <3>3. Collects(g, From(n), limit)
      BY <3>2 DEF Collects
    <3> HIDE DEF g
    <3> QED
      BY <3>3
  <2>2. CASE n # End
    <3> DEFINE r == First({l \in MapKey : Less(n, l)})
    <3>1. n \in MapKey
      BY <2>2 DEF Position
    <3>2. /\ r \in Position /\ Before(n, r)
          /\ \A l \in MapKey : Less(n, l) => r # End /\ ~Less(l, r)
      BY <3>1, FirstAfter DEF Position
    <3>3. \A p \in From(n) : p # n => p \in From(r)
      <4> SUFFICES ASSUME NEW p \in Position, Before(n, p), p # r PROVE Before(r, p)
        OBVIOUS
      <4> HIDE DEF r
      <4>1. r # End
        BY <3>2, <2>2 DEF Position, Before
      <4>2. CASE p = End
        BY <4>1, <4>2 DEF Before
      <4>3. CASE p # End
        <5>1. p \in MapKey /\ r \in MapKey /\ Less(n, p)
          BY <3>2, <4>1, <4>3 DEF Position, Before
        <5> QED
          BY <3>2, <4>1, <5>1, KeysAreOrdered DEF Before
      <4> QED
        BY <4>2, <4>3
    <3>4. PICK f : Collects(f, From(r), limit)
      BY <1>1, <3>2
    <3> DEFINE g == [p \in From(n) |-> IF p = n THEN Collected(f, p, limit) ELSE f[p]]
    <3>5. \A p \in From(n) : p # End => kv_it_next(p) \in From(n) /\ kv_it_next(p) # n
      <4> SUFFICES ASSUME NEW p \in From(n), p # End
                   PROVE  kv_it_next(p) \in From(n) /\ kv_it_next(p) # n
        OBVIOUS
      <4>1. kv_it_next(p) \in Position /\ Before(p, kv_it_next(p))
        BY NextIs DEF Position
      <4> QED
        BY <4>1, PositionsAreOrdered
    <3> HIDE DEF From, r
    <3>6. \A p \in From(n) : p # n => f[p] = Collected(f, p, limit)
      BY <3>3, <3>4 DEF Collects
    <3>7. \A p \in From(n) : g[p] = Collected(f, p, limit)
      BY <3>6
    <3>8. \A p \in From(n) : Collected(f, p, limit) = Collected(g, p, limit)
      BY <3>5 DEF Collected
    <3>9. Collects(g, From(n), limit)
      BY <3>7, <3>8 DEF Collects
    <3> HIDE DEF g
    <3> QED
      BY <3>9
  <2> QED
    BY <2>1, <2>2
<1>2. Position \subseteq S
  <2> HIDE DEF S
  <2> QED
    BY <1>1, UpwardInduction
<1>3. PICK first \in Position : From(first) = Position
  <2>1. CASE MapKey = {}
    <3>1. Position = {End}
      BY <2>1 DEF Position
    <3> QED
      BY <3>1
  <2>2. CASE MapKey # {}
    <3>1. First(MapKey) \in MapKey /\ \A l \in MapKey : ~Less(l, First(MapKey))
      BY <2>2, FirstExists
    <3>2. From(First(MapKey)) = Position
      BY <3>1, KeysAreOrdered, EndIsNoKey DEF Before, Position
    <3> QED
      BY <3>1, <3>2 DEF Position
  <2> QED
    BY <2>1, <2>2
<1> QED
  BY <1>2, <1>3

LEMMA SliceCollects ==
  ASSUME store \in SUBSET MapKey, NEW l, NEW h
  PROVE  \E Rows : /\ Collects(Rows, Position, kv_it_lower_bound(h))
                   /\ ranged_slice(l, h) = Rows[kv_it_lower_bound(l)]
<1> DEFINE Rows == CHOOSE Rows : Collects(Rows, Position, kv_it_lower_bound(h))
<1>1. Collects(Rows, Position, kv_it_lower_bound(h))
  BY LoopExists
<1>2. ranged_slice(l, h) = Rows[kv_it_lower_bound(l)]
  BY DEF ranged_slice, Collects, Collected
<1> QED
  BY <1>1, <1>2

(* What the loop should collect from p on.                                 *)
Ahead(p, limit) == {k \in store : (k = p \/ Before(p, k)) /\ Before(k, limit)}

Exact(rows, p, limit) ==
  IF p = limit \/ Before(p, limit)
  THEN /\ rows \in Seq(MapKey)
       /\ {rows[n] : n \in 1..Len(rows)} = Ahead(p, limit)
       /\ \A n \in 2..Len(rows) : Less(rows[n - 1], rows[n])
  ELSE rows \in Seq(Position) /\ End \in {rows[n] : n \in 1..Len(rows)}

(* A row before all others is put in front of them.                        *)
LEMMA InFront ==
  ASSUME NEW S, NEW p \in S, NEW rest \in Seq(S)
  PROVE  /\ <<p>> \o rest \in Seq(S) /\ Len(rest) \in Nat
         /\ Len(<<p>> \o rest) = Len(rest) + 1 /\ (<<p>> \o rest)[1] = p
         /\ \A n \in 2..(Len(rest) + 1) :
              n - 1 \in 1..Len(rest) /\ (<<p>> \o rest)[n] = rest[n - 1]
         /\ \A n \in 1..Len(rest) :
              n + 1 \in 2..(Len(rest) + 1) /\ (<<p>> \o rest)[n + 1] = rest[n]
  OBVIOUS

(* Nothing lies between a row and the next.                                *)
LEMMA AheadOfNext ==
  ASSUME store \in SUBSET MapKey, NEW p \in store, NEW limit \in store \cup {End},
         Before(p, limit)
  PROVE  /\ kv_it_next(p) = limit \/ Before(kv_it_next(p), limit)
         /\ Ahead(p, limit) = {p} \cup Ahead(kv_it_next(p), limit)
<1> DEFINE next == kv_it_next(p)
<1>1. /\ next \in store \cup {End} /\ next \in Position /\ Before(p, next)
      /\ \A l \in store : Less(p, l) => next # End /\ ~Less(l, next)
  BY NextIs
<1>2. /\ p \in Position /\ p # End /\ limit \in Position
      /\ \A k \in store : k \in Position /\ k \in MapKey /\ k # End
  BY EndIsNoKey DEF Position
<1> HIDE DEF next
<1>3. \A l \in store : Before(p, l) => l = next \/ Before(next, l)
  <2> SUFFICES ASSUME NEW l \in store, Before(p, l), l # next PROVE Before(next, l)
    OBVIOUS
  <2>1. Less(p, l) /\ l # End
    BY <1>2 DEF Before
  <2>2. next # End /\ ~Less(l, next)
    BY <1>1, <2>1
  <2>3. ~Before(l, next)
    BY <2>2 DEF Before
  <2> QED
    BY <1>1, <1>2, <2>3, PositionsAreOrdered
<1>4. next = limit \/ Before(next, limit)
  <2>1. CASE limit = End
    BY <2>1 DEF Before
  <2>2. CASE limit # End
    BY <1>3, <2>2
  <2> QED
    BY <2>1, <2>2
<1>5. ASSUME NEW k \in store
      PROVE  (k = p \/ Before(p, k)) <=> (k = p \/ k = next \/ Before(next, k))
  BY <1>1, <1>2, <1>3, PositionsAreOrdered
<1>6. Ahead(p, limit) = {p} \cup Ahead(next, limit)
  BY <1>5 DEF Ahead
<1> QED
  BY <1>4, <1>6 DEF next

(* One turn of the loop.                                                   *)
LEMMA TurnExact ==
  ASSUME store \in SUBSET MapKey, NEW p \in store, NEW limit \in store \cup {End},
         p # limit, NEW rest, Exact(rest, kv_it_next(p), limit)
  PROVE  Exact(<<p>> \o rest, p, limit)
<1> DEFINE rows == <<p>> \o rest
           next == kv_it_next(p)
<1>1. /\ next \in Position /\ Before(p, next)
  BY NextIs
<1>2. /\ p \in Position /\ p \in MapKey /\ p # End /\ limit \in Position
      /\ \A k \in store : k \in Position /\ k \in MapKey /\ k # End
  BY EndIsNoKey DEF Position
<1>3. CASE Before(p, limit)
  <2>1. /\ next = limit \/ Before(next, limit)
        /\ Ahead(p, limit) = {p} \cup Ahead(next, limit)
    BY <1>3, AheadOfNext
  <2>2. /\ rest \in Seq(MapKey) /\ {rest[n] : n \in 1..Len(rest)} = Ahead(next, limit)
        /\ \A n \in 2..Len(rest) : Less(rest[n - 1], rest[n])
    BY <2>1 DEF Exact
  <2>3. /\ rows \in Seq(MapKey) /\ Len(rest) \in Nat
        /\ Len(rows) = Len(rest) + 1 /\ rows[1] = p
        /\ \A n \in 2..(Len(rest) + 1) : n - 1 \in 1..Len(rest) /\ rows[n] = rest[n - 1]
        /\ \A n \in 1..Len(rest) : n + 1 \in 2..(Len(rest) + 1) /\ rows[n + 1] = rest[n]
    BY <1>2, <2>2, InFront
  <2> HIDE DEF rows, next
  <2>4. {rows[n] : n \in 1..Len(rows)} = {p} \cup {rest[n] : n \in 1..Len(rest)}
    <3>1. ASSUME NEW n \in 1..Len(rows)
          PROVE  rows[n] = p \/ \E m \in 1..Len(rest) : rows[n] = rest[m]
      <4>1. n = 1 \/ n \in 2..(Len(rest) + 1)
        BY <2>3
      <4> QED
        BY <2>3, <4>1
    <3>2. ASSUME NEW m \in 1..Len(rest) PROVE \E n \in 1..Len(rows) : rows[n] = rest[m]
      BY <2>3
    <3>3. \E n \in 1..Len(rows) : rows[n] = p
      BY <2>3
    <3> QED
      BY <3>1, <3>2, <3>3
  <2>5. ASSUME NEW n \in 2..Len(rows) PROVE Less(rows[n - 1], rows[n])
    <3>1. CASE n = 2
      <4>1. 1 \in 1..Len(rest) /\ rows[2] = rest[1]
        BY <2>3, <3>1
      <4>2. rest[1] \in Ahead(next, limit)
        BY <2>2, <4>1
      <4>3. Less(p, rest[1])
        BY <1>1, <1>2, <4>2, PositionsAreOrdered DEF Ahead, Before
      <4> QED
        BY <2>3, <3>1, <4>1, <4>3
    <3>2. CASE n # 2
      <4>1. /\ n - 1 \in 2..Len(rest) /\ n - 1 \in 2..(Len(rest) + 1)
            /\ n \in 2..(Len(rest) + 1)
        BY <2>3, <3>2
      <4>2. Less(rest[(n - 1) - 1], rest[n - 1])
        BY <2>2, <4>1
      <4> QED
        BY <2>3, <4>1, <4>2
    <3> QED
      BY <3>1, <3>2
  <2> QED
    BY <1>3, <2>1, <2>2, <2>3, <2>4, <2>5 DEF Exact, rows
<1>4. CASE ~Before(p, limit)
  <2>1. ~(next = limit \/ Before(next, limit)) /\ ~(p = limit \/ Before(p, limit))
    BY <1>1, <1>2, <1>4, PositionsAreOrdered
  <2>2. rest \in Seq(Position) /\ \E n \in 1..Len(rest) : rest[n] = End
    BY <2>1 DEF Exact
  <2>3. /\ rows \in Seq(Position) /\ Len(rest) \in Nat /\ Len(rows) = Len(rest) + 1
        /\ \A n \in 1..Len(rest) : n + 1 \in 2..(Len(rest) + 1) /\ rows[n + 1] = rest[n]
    BY <1>2, <2>2, InFront
  <2> HIDE DEF rows
  <2>4. \E n \in 1..Len(rows) : rows[n] = End
    BY <2>2, <2>3
  <2> QED
    BY <2>1, <2>3, <2>4 DEF Exact, rows
<1> QED
  BY <1>3, <1>4

LEMMA LoopExact ==
  ASSUME store \in SUBSET MapKey, NEW limit \in store \cup {End},
         NEW Rows, Collects(Rows, Position, limit), NEW p \in store \cup {End}
  PROVE  Exact(Rows[p], p, limit)
<1> DEFINE S == {q \in Position : q \in store \cup {End} => Exact(Rows[q], q, limit)}
<1>0. limit \in Position
  BY DEF Position
<1>1. ASSUME NEW q \in Position, \A r \in Position : Before(q, r) => r \in S
      PROVE  q \in S
  <2> SUFFICES ASSUME q \in store \cup {End} PROVE Exact(Rows[q], q, limit)
    OBVIOUS
  <2>1. Rows[q] = Collected(Rows, q, limit)
    BY DEF Collects
  <2>2. CASE q = limit
    <3>1. Rows[q] = <<>>
      BY <2>1, <2>2 DEF Collected
    <3>2. Ahead(q, limit) = {}
      <4>1. \A k \in store : k \in Position
        BY DEF Position
      <4> QED
        BY <1>0, <2>2, <4>1, PositionsAreOrdered DEF Ahead
    <3> QED
      BY <2>2, <3>1, <3>2 DEF Exact
  <2>3. CASE q # limit /\ q = End
    <3>1. Rows[q] = <<End>> /\ End \in Position
      BY <2>1, <2>3 DEF Collected, Position
    <3>2. ~(q = limit \/ Before(q, limit))
      BY <2>3 DEF Before
    <3>3. <<End>> \in Seq(Position) /\ Len(<<End>>) = 1 /\ <<End>>[1] = End
      BY <3>1
    <3> QED
      BY <3>1, <3>2, <3>3 DEF Exact
  <2>4. CASE q # limit /\ q # End
    <3>1. q \in store /\ q \in MapKey
      BY <2>4
    <3>2. Exact(Rows[kv_it_next(q)], kv_it_next(q), limit)
      BY <1>1, <3>1, NextIs
    <3>3. Rows[q] = <<q>> \o Rows[kv_it_next(q)]
      BY <2>1, <2>4 DEF Collected
    <3> QED
      BY <2>4, <3>1, <3>2, <3>3, TurnExact
  <2> QED
    BY <2>2, <2>3, <2>4
<1>2. Position \subseteq S
  <2> HIDE DEF S
  <2> QED
    BY <1>1, UpwardInduction
<1> QED
  BY <1>2 DEF Position

(* A row is before where the node finds k exactly if it is less than k.    *)
LEMMA LowerBoundDivides ==
  ASSUME store \in SUBSET MapKey, NEW k \in MapKey, NEW l \in store
  PROVE  Less(l, k) <=> Before(l, kv_it_lower_bound(k))
<1> DEFINE p == kv_it_lower_bound(k)
<1>1. /\ p \in store \cup {End} /\ (~Less(p, k) \/ p = End)
      /\ \A m \in store : ~Less(m, k) => p # End /\ ~Less(m, p)
  BY LowerBoundIs
<1>2. l \in MapKey /\ l # End /\ (p # End => p \in MapKey)
  BY <1>1, EndIsNoKey
<1> HIDE DEF p
<1>3. ASSUME Less(l, k) PROVE Before(l, p)
  <2>1. CASE p = End
    BY <1>2, <2>1 DEF Before
  <2>2. CASE p # End
    <3>1. p \in MapKey /\ ~Less(p, k)
      BY <1>1, <1>2, <2>2
    <3>2. l # p /\ ~Less(p, l)
      BY <1>2, <1>3, <3>1, KeysAreOrdered
    <3> QED
      BY <1>2, <3>1, <3>2, KeysAreOrdered DEF Before
  <2> QED
    BY <2>1, <2>2
<1>4. ASSUME ~Less(l, k) PROVE ~Before(l, p)
  BY <1>1, <1>4 DEF Before
<1> QED
  BY <1>3, <1>4 DEF p

(* ranged_slice collects what it should, or runs into the end.             *)
LEMMA SliceExact == ASSUME store \in SUBSET MapKey PROVE SliceIsExact
<1> SUFFICES ASSUME NEW l \in MapKey, NEW h \in MapKey
             PROVE  LET got == ranged_slice(l, h)
                        keys == {got[n] : n \in DOMAIN got}
                    IN
                    IF \E k \in store : ~Less(k, h) /\ Less(k, l) THEN End \in keys
                    ELSE /\ keys = {k \in store : ~Less(k, l) /\ Less(k, h)}
                         /\ \A n \in 2..Len(got) : Less(got[n - 1], got[n])
  BY DEF SliceIsExact
<1> DEFINE first == kv_it_lower_bound(l)
           limit == kv_it_lower_bound(h)
           got == ranged_slice(l, h)
           keys == {got[n] : n \in 1..Len(got)}
<1>1. /\ first \in store \cup {End} /\ first \in Position
      /\ limit \in store \cup {End} /\ limit \in Position
  BY LowerBoundIs
<1>2. \A k \in store : (Less(k, l) <=> Before(k, first)) /\ (Less(k, h) <=> Before(k, limit))
  BY LowerBoundDivides
<1>3. PICK Rows : Collects(Rows, Position, limit) /\ got = Rows[first]
  BY SliceCollects
<1>4. Exact(got, first, limit)
  BY <1>1, <1>3, LoopExact
<1>5. \A k \in store : k \in Position
  BY DEF Position
<1> HIDE DEF first, limit, got
<1>6. (\E k \in store : ~Less(k, h) /\ Less(k, l)) <=> ~(first = limit \/ Before(first, limit))
  <2>1. ASSUME NEW k \in store, ~Less(k, h), Less(k, l)
        PROVE  ~(first = limit \/ Before(first, limit))
    <3>1. ~Before(k, limit) /\ Before(k, first)
      BY <1>2, <2>1
    <3> QED
      BY <1>1, <1>5, <3>1, PositionsAreOrdered
  <2>2. ASSUME ~(first = limit \/ Before(first, limit))
        PROVE  \E k \in store : ~Less(k, h) /\ Less(k, l)
    <3>1. Before(limit, first) /\ ~Before(limit, limit)
      BY <1>1, <2>2, PositionsAreOrdered
    <3>2. limit \in store
      BY <1>1, <3>1 DEF Before
    <3> QED
      BY <1>2, <3>1, <3>2
  <2> QED
    BY <2>1, <2>2
<1>7. got \in Seq(Position) /\ DOMAIN got = 1..Len(got)
  <2>1. MapKey \subseteq Position
    BY DEF Position
  <2>2. got \in Seq(MapKey) \/ got \in Seq(Position)
    BY <1>4 DEF Exact
  <2> QED
    BY <2>1, <2>2
<1>8. Ahead(first, limit) = {k \in store : ~Less(k, l) /\ Less(k, h)}
  <2>1. ASSUME NEW k \in store
        PROVE  (k = first \/ Before(first, k)) <=> ~Before(k, first)
    BY <1>1, <1>5, PositionsAreOrdered
  <2> QED
    BY <1>2, <2>1 DEF Ahead
<1>9. IF \E k \in store : ~Less(k, h) /\ Less(k, l) THEN End \in keys
      ELSE /\ keys = {k \in store : ~Less(k, l) /\ Less(k, h)}
           /\ \A n \in 2..Len(got) : Less(got[n - 1], got[n])
  BY <1>4, <1>6, <1>8 DEF Exact
<1> QED
  BY <1>7, <1>9 DEF got

(* ranged_slice returns exactly the rows from l up to but excluding h, or  *)
(* fails, for any set of keys (map.hpp:580-588).                           *)
THEOREM SliceCorrect == Spec => []SliceIsExact
<1>1. IInv => SliceIsExact
  BY SliceExact DEF IInv, TypeOK
<1> QED
  BY <1>1, AlwaysIInv, PTL
=============================================================================
