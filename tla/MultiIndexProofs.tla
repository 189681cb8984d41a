--------------------------- MODULE MultiIndexProofs ---------------------------
(***************************************************************************)
(* Theorems about a table that is used through a single multi_index        *)
(* object, for any width of the primary key, any number of secondary keys  *)
(* and any depth of updaters within updaters.                              *)
(*                                                                         *)
(* The invariant ties the three copies of a row together: the node's rows, *)
(* the entries of the index, and the items of the cache, which may differ  *)
(* from their rows only while an updater is at work on them.               *)
(***************************************************************************)
EXTENDS MultiIndex, TLAPS, SequenceTheorems, WellFoundedInduction

(* The table is used through one object.                                   *)
OneInstance == \A i, j \in Instance : i = j

ItemSet == [val : Sec, sec : 0..MaxStores]
JobSet == [inst : Instance, itr : Itr, old : Sec]

RunningIn(t) == \E n \in DOMAIN jobs : jobs[n].itr = t

(* A cache that shows the rows as they are, and still has the objects that *)
(* updaters are working on.                                                *)
GoodCache(f) ==
  /\ f \in [DOMAIN f -> ItemSet]
  /\ DOMAIN f \subseteq Itr
  /\ \A t \in DOMAIN f :
       /\ Valid(t)
       /\ f[t].val # row[t[1]] => RunningIn(t)
       /\ f[t].sec \in {0, stores[t[1]]}
  /\ \A n \in DOMAIN jobs : jobs[n].itr \in DOMAIN f

(* An updater's row is in the table with the key that was remembered, and  *)
(* no other updater works on it.                                           *)
JobsSound ==
  /\ jobs \in Seq(JobSet)
  /\ \A n \in DOMAIN jobs :
       Valid(jobs[n].itr) /\ row[jobs[n].itr[1]] = jobs[n].old
  /\ \A n, o \in DOMAIN jobs : n # o => jobs[n].itr # jobs[o].itr

(* No row is at or behind the next primary key, once it has been set.      *)
NextIsFree ==
  \A i \in Instance :
    next_pk[i] < no_available_primary_key => \A pk \in Rows : pk < next_pk[i]

Typed ==
  /\ row \in [Pk -> Sec \cup {None}]
  /\ stores \in [Pk -> 0..MaxStores]
  /\ \A pk \in Rows : stores[pk] > 0
  /\ next_pk \in [Instance -> Pk]
  /\ available \in {-1} \cup 0..(no_available_primary_key - 1)
  /\ aborted \in BOOLEAN

IInv ==
  /\ Typed
  /\ IndexMirrorsRows
  /\ items = [i \in Instance |-> items[i]]
  /\ \A i \in Instance : GoodCache(items[i])
  /\ JobsSound
  /\ NextIsFree
  /\ AvailableKeyIsFree

-----------------------------------------------------------------------------
(* First and last rows and entries.                                        *)

LEMMA LeastExists ==
  ASSUME NEW T \in SUBSET Nat, T # {}
  PROVE  Least(T) \in T /\ \A k \in T : Least(T) <= k
<1>1. PICK n \in T : \A k \in T : ~(<<k, n>> \in OpToRel(<, Nat))
  BY NatLessThanWellFounded, WFMin
<1>2. \A k \in T : ~(k < n)
  BY <1>1 DEF OpToRel
<1>3. \A k \in T : n <= k
  BY <1>2
<1> QED
  BY <1>3 DEF Least

LEMMA GreatestExists ==
  ASSUME NEW m \in Nat, NEW S \in SUBSET (0..m), S # {}
  PROVE  Greatest(S) \in S /\ \A k \in S : k <= Greatest(S)
<1> DEFINE T == {m - k : k \in S}
<1>0. \A k \in S : k \in Nat /\ k <= m /\ m - k \in Nat
  OBVIOUS
<1>1. T \in SUBSET Nat /\ T # {}
  BY <1>0
<1>2. PICK n \in T : \A o \in T : n <= o
  BY <1>1, LeastExists
<1>3. PICK k \in S : n = m - k
  BY <1>2
<1>4. \A l \in S : l <= k
  <2> TAKE l \in S
  <2>1. m - l \in T
    OBVIOUS
  <2> QED
    <3>1. n <= m - l /\ n = m - k /\ l \in Nat /\ k \in Nat
      BY <1>0, <1>2, <1>3, <2>1
    <3> HIDE DEF T
    <3> QED
      BY <3>1
<1> QED
  BY <1>4 DEF Greatest

LEMMA GreatestPk ==
  ASSUME NEW S \in SUBSET Pk, S # {}
  PROVE  Greatest(S) \in S /\ \A k \in S : k <= Greatest(S)
<1>1. Word - 1 \in Nat /\ S \in SUBSET (0..(Word - 1))
  BY WordAssumption DEF Pk
<1> QED
  BY <1>1, GreatestExists

LEMMA FirstExists ==
  ASSUME index \in [Pk -> Sec \cup {None}], NEW S \in SUBSET Entries, S # {}
  PROVE  First(S) \in S
<1>1. S \subseteq Pk /\ Pk \subseteq Nat /\ \A p \in S : index[p] \in Nat
  BY WordAssumption, BoundsAssumption DEF Entries, Pk, Sec, None
<1> DEFINE K == {index[p] : p \in S}
<1>2. PICK s \in K : \A u \in K : s <= u
  <2>1. K \in SUBSET Nat /\ K # {}
    BY <1>1
  <2> QED
    BY <2>1, LeastExists
<1> DEFINE R == {p \in S : index[p] = s}
<1>3. PICK p \in R : \A q \in R : p <= q
  <2>1. R \in SUBSET Nat /\ R # {}
    BY <1>1, <1>2
  <2> QED
    BY <2>1, LeastExists
<1>4. p \in S /\ index[p] = s
  BY <1>3
<1>5. ASSUME NEW q \in S \ {p} PROVE Before(p, q)
  <2>1. s <= index[q] /\ s \in Nat /\ index[q] \in Nat
    BY <1>1, <1>2
  <2>2. CASE index[q] = s
    <3>1. p <= q /\ p \in Nat /\ q \in Nat /\ p # q
      BY <1>1, <1>3, <1>4, <2>2
    <3> QED
      BY <1>4, <2>2, <3>1 DEF Before
  <2>3. CASE index[q] # s
    BY <1>4, <2>1, <2>3 DEF Before
  <2> QED
    BY <2>2, <2>3
<1> QED
  BY <1>4, <1>5 DEF First

LEMMA LastExists ==
  ASSUME index \in [Pk -> Sec \cup {None}], NEW S \in SUBSET Entries, S # {}
  PROVE  Last(S) \in S
<1>1. S \subseteq Pk /\ Pk \subseteq Nat /\ \A p \in S : index[p] \in 0..MaxSec
  BY WordAssumption, BoundsAssumption DEF Entries, Pk, Sec, None
<1> DEFINE K == {index[p] : p \in S}
<1>2. PICK s \in K : \A u \in K : u <= s
  <2>1. K \in SUBSET (0..MaxSec) /\ K # {}
    BY <1>1
  <2> QED
    BY <2>1, BoundsAssumption, GreatestExists
<1> DEFINE R == {p \in S : index[p] = s}
<1>3. PICK p \in R : \A q \in R : q <= p
  <2>1. R \in SUBSET Pk /\ R # {}
    BY <1>1, <1>2
  <2> QED
    BY <2>1, GreatestPk
<1>4. p \in S /\ index[p] = s
  BY <1>3
<1>5. ASSUME NEW q \in S \ {p} PROVE Before(q, p)
  <2>1. index[q] <= s /\ s \in Nat /\ index[q] \in Nat
    BY <1>1, <1>2
  <2>2. CASE index[q] = s
    <3>1. q <= p /\ p \in Nat /\ q \in Nat /\ p # q
      BY <1>1, <1>3, <1>4, <2>2
    <3> QED
      BY <1>4, <2>2, <3>1 DEF Before
  <2>3. CASE index[q] # s
    BY <1>4, <2>1, <2>3 DEF Before
  <2> QED
    BY <2>2, <2>3
<1> QED
  BY <1>4, <1>5 DEF Last

-----------------------------------------------------------------------------
(* Loading rows into the cache.                                            *)

LEMMA ItrOfRow ==
  ASSUME Typed, NEW pk \in Rows
  PROVE  /\ ItrOf(pk) \in Itr /\ Valid(ItrOf(pk)) /\ ItrOf(pk)[1] = pk
         /\ pk \in Pk /\ row[pk] \in Sec
<1>1. pk \in Pk /\ row[pk] # None /\ row[pk] \in Sec /\ stores[pk] \in 1..MaxStores
  BY BoundsAssumption DEF Typed, Rows
<1> QED
  BY <1>1 DEF ItrOf, Itr, Valid

LEMMA LoadGood ==
  ASSUME Typed, NEW f, GoodCache(f), NEW pk \in Rows
  PROVE  /\ GoodCache(Load(f, ItrOf(pk)))
         /\ DOMAIN Load(f, ItrOf(pk)) = DOMAIN f \cup {ItrOf(pk)}
<1> DEFINE t == ItrOf(pk)
           item == Item(row[pk], 0)
           g == Store(f, t, item)
<1>1. t \in Itr /\ Valid(t) /\ t[1] = pk /\ row[pk] \in Sec
  BY ItrOfRow
<1>2. item \in ItemSet /\ item.val = row[pk] /\ item.sec = 0
  BY <1>1, BoundsAssumption DEF Item, ItemSet
<1>3. CASE t \in DOMAIN f
  <2>1. Load(f, t) = f
    BY <1>3 DEF Load
  <2> QED
    BY <1>3, <2>1
<1>4. CASE t \notin DOMAIN f
  <2>1. Load(f, t) = g
    BY <1>1, <1>4 DEF Load
  <2> HIDE DEF item, t
  <2>2. /\ DOMAIN g = DOMAIN f \cup {t}
        /\ g[t] = item /\ \A u \in DOMAIN f : g[u] = f[u]
    BY <1>4 DEF Store
  <2>3. g \in [DOMAIN g -> ItemSet]
    BY <1>2, <2>2 DEF GoodCache, Store
  <2> HIDE DEF g
  <2>4. GoodCache(g)
    BY <1>1, <1>2, <2>2, <2>3 DEF GoodCache
  <2> QED
    BY <2>1, <2>2, <2>4 DEF t
<1> QED
  BY <1>3, <1>4

(* Every item with a key of the table is the one of the row.               *)
LEMMA CachedIsRow ==
  ASSUME Typed, NEW f, GoodCache(f), NEW t \in DOMAIN f
  PROVE  /\ t \in Itr /\ t[1] \in Rows /\ t = ItrOf(t[1])
         /\ Cached(f, t[1]) = {t} /\ Latest(f, t[1]) = t
<1>1. t \in Itr /\ Valid(t)
  BY DEF GoodCache
<1>2. t = <<t[1], t[2]>> /\ t[1] \in Pk /\ t[2] \in 1..MaxStores
  BY <1>1 DEF Itr
<1>3. t[1] \in Rows /\ t = ItrOf(t[1])
  BY <1>1, <1>2 DEF Valid, Rows, ItrOf
<1>4. Cached(f, t[1]) = {t}
  <2> SUFFICES ASSUME NEW u \in DOMAIN f, u[1] = t[1] PROVE u = t
    BY DEF Cached
  <2>1. u \in Itr /\ Valid(u)
    BY DEF GoodCache
  <2> QED
    BY <1>1, <1>2, <2>1 DEF Itr, Valid
<1>5. Latest(f, t[1]) = t
  <2>1. {u[2] : u \in Cached(f, t[1])} = {t[2]}
    BY <1>4
  <2>2. Greatest({t[2]}) = t[2]
    BY <1>2, BoundsAssumption DEF Greatest
  <2> QED
    BY <1>2, <2>1, <2>2 DEF Latest
<1> QED
  BY <1>1, <1>3, <1>4, <1>5

LEMMA FindGood ==
  ASSUME Typed, NEW f, GoodCache(f), NEW pk
  PROVE  /\ GoodCache(Find(f, pk))
         /\ DOMAIN f \subseteq DOMAIN Find(f, pk)
         /\ pk \in Rows => ItrOf(pk) \in DOMAIN Find(f, pk)
<1>1. CASE pk \in Rows /\ Cached(f, pk) = {}
  <2>1. Find(f, pk) = Load(f, ItrOf(pk))
    BY <1>1 DEF Find
  <2> QED
    BY <1>1, <2>1, LoadGood
<1>2. CASE pk \notin Rows
  BY <1>2 DEF Find
<1>3. CASE pk \in Rows /\ Cached(f, pk) # {}
  <2>1. Find(f, pk) = f
    BY <1>3 DEF Find
  <2>2. PICK t \in DOMAIN f : t[1] = pk
    BY <1>3 DEF Cached
  <2>3. ItrOf(pk) = t
    BY <2>2, CachedIsRow
  <2> QED
    BY <2>1, <2>2, <2>3
<1> QED
  BY <1>1, <1>2, <1>3

(* Giving an item the iterator of its entry.                               *)
LEMMA WithEntry ==
  ASSUME Typed, NEW f, GoodCache(f), NEW t \in DOMAIN f, NEW n \in {0, stores[t[1]]}
  PROVE  /\ GoodCache([f EXCEPT ![t].sec = n])
         /\ DOMAIN [f EXCEPT ![t].sec = n] = DOMAIN f
<1> DEFINE g == [f EXCEPT ![t].sec = n]
           e == [f[t] EXCEPT !.sec = n]
<1>1. f[t] \in ItemSet /\ n \in 0..MaxStores
  BY CachedIsRow, BoundsAssumption DEF GoodCache, Typed, Rows
<1>2. ASSUME NEW r \in ItemSet
      PROVE  LET x == [r EXCEPT !.sec = n] IN x \in ItemSet /\ x.val = r.val /\ x.sec = n
  BY <1>1 DEF ItemSet
<1>3. e \in ItemSet /\ e.val = f[t].val /\ e.sec = n
  BY <1>1, <1>2, Zenon
<1>4. g = [f EXCEPT ![t] = e]
  BY Zenon
<1> HIDE DEF g, e
<1>5. /\ DOMAIN g = DOMAIN f /\ g[t] = e
      /\ \A u \in DOMAIN f \ {t} : g[u] = f[u]
  BY <1>4
<1>6. g \in [DOMAIN g -> ItemSet]
  BY <1>3, <1>4 DEF GoodCache
<1>7. GoodCache(g)
  BY <1>3, <1>5, <1>6 DEF GoodCache
<1> QED
  BY <1>5, <1>7 DEF g

LEMMA FindEntryGood ==
  ASSUME Typed, NEW f, GoodCache(f), NEW pk \in Rows
  PROVE  /\ GoodCache(FindEntry(f, pk))
         /\ DOMAIN f \subseteq DOMAIN FindEntry(f, pk)
<1> DEFINE g == Find(f, pk)
           t == ItrOf(pk)
<1>1. GoodCache(g) /\ DOMAIN f \subseteq DOMAIN g /\ t \in DOMAIN g
  BY FindGood
<1>2. t[1] = pk /\ Latest(g, pk) = t
  BY <1>1, ItrOfRow, CachedIsRow
<1>3. FindEntry(f, pk) = [g EXCEPT ![t].sec = stores[pk]]
  BY <1>2 DEF FindEntry
<1> HIDE DEF g, t
<1> DEFINE h == [g EXCEPT ![t].sec = stores[pk]]
<1>4. stores[pk] \in {0, stores[t[1]]}
  BY <1>2
<1>5. GoodCache(h) /\ DOMAIN h = DOMAIN g
  BY <1>1, <1>4, WithEntry
<1> HIDE DEF h
<1>6. FindEntry(f, pk) = h
  BY <1>3 DEF h
<1> QED
  BY <1>1, <1>5, <1>6

LEMMA LoadFromGood ==
  ASSUME Typed, NEW f, GoodCache(f), NEW pk
  PROVE  /\ GoodCache(LoadFrom(f, pk))
         /\ DOMAIN f \subseteq DOMAIN LoadFrom(f, pk)
<1> DEFINE after == {k \in Rows : pk <= k}
<1>1. CASE after = {}
  BY <1>1 DEF LoadFrom
<1>2. CASE after # {}
  <2>1. after \in SUBSET Nat
    BY WordAssumption DEF Rows, Pk
  <2>2. Least(after) \in Rows
    BY <1>2, <2>1, LeastExists
  <2>3. LoadFrom(f, pk) = Load(f, ItrOf(Least(after)))
    BY <1>2 DEF LoadFrom
  <2> HIDE DEF after
  <2> QED
    BY <2>2, <2>3, LoadGood
<1> QED
  BY <1>1, <1>2

LEMMA FindFirstGood ==
  ASSUME Typed, IndexMirrorsRows, NEW f, GoodCache(f), NEW S \in SUBSET Entries
  PROVE  /\ GoodCache(FindFirst(f, S))
         /\ DOMAIN f \subseteq DOMAIN FindFirst(f, S)
<1>1. CASE S = {}
  BY <1>1 DEF FindFirst
<1>2. CASE S # {}
  <2>1. First(S) \in Rows
    BY <1>2, FirstExists DEF Typed, IndexMirrorsRows, Entries, Rows
  <2>2. FindFirst(f, S) = FindEntry(f, First(S))
    BY <1>2 DEF FindFirst
  <2> QED
    BY <2>1, <2>2, FindEntryGood
<1> QED
  BY <1>1, <1>2

LEMMA EntriesAreRows ==
  ASSUME IndexMirrorsRows PROVE Entries = Rows
  BY DEF IndexMirrorsRows, Entries, Rows

LEMMA SecItrIs ==
  ASSUME Typed, IndexMirrorsRows, NEW i \in Instance, GoodCache(items[i]),
         NEW t \in DOMAIN items[i]
  PROVE  /\ SecItr(i, t) = stores[t[1]] /\ SecItr(i, t) # 0
         /\ SecValid(t, SecItr(i, t)) /\ ~SecFail(i, t)
         /\ GoodCache(WithSec(i, t)) /\ DOMAIN WithSec(i, t) = DOMAIN items[i]
<1>1. t[1] \in Rows /\ t[1] \in Entries /\ items[i][t].sec \in {0, stores[t[1]]}
  BY CachedIsRow, EntriesAreRows DEF GoodCache
<1>2. stores[t[1]] # 0
  BY <1>1 DEF Typed
<1>3. SecItr(i, t) = stores[t[1]]
  BY <1>1, <1>2 DEF SecItr
<1>4. SecItr(i, t) \in {0, stores[t[1]]}
  BY <1>3
<1>5. GoodCache(WithSec(i, t)) /\ DOMAIN WithSec(i, t) = DOMAIN items[i]
  BY <1>4, WithEntry DEF WithSec
<1> QED
  BY <1>1, <1>2, <1>3, <1>5 DEF SecValid, SecFail

-----------------------------------------------------------------------------
(* Calls that load rows, and failing ones.                                 *)

LEMMA LoadsSafe ==
  ASSUME IInv, NEW i \in Instance, NEW f, GoodCache(f), Loads(i, f)
  PROVE  IInv'
<1>1. /\ items' = [items EXCEPT ![i] = f] /\ available' = -1
      /\ UNCHANGED <<row, index, stores, next_pk, jobs, aborted>>
  BY DEF Loads
<1>2. Typed' /\ IndexMirrorsRows' /\ JobsSound' /\ NextIsFree'
  BY <1>1 DEF IInv, Typed, IndexMirrorsRows, JobsSound, NextIsFree, Rows, Valid
<1>3. items' = [j \in Instance |-> items'[j]] /\ items'[i] = f
      /\ \A j \in Instance \ {i} : items'[j] = items[j]
  BY <1>1 DEF IInv
<1>4. \A j \in Instance : GoodCache(items[j])'
  <2> TAKE j \in Instance
  <2> DEFINE g == items'[j]
  <2>1. GoodCache(g)
    BY <1>3 DEF IInv
  <2> QED
    BY <1>1, <2>1 DEF GoodCache, Valid, RunningIn
<1>5. AvailableKeyIsFree'
  BY <1>1, WordAssumption DEF AvailableKeyIsFree, Rows, Pk
<1> QED
  BY <1>2, <1>3, <1>4, <1>5 DEF IInv

LEMMA FailSafe ==
  ASSUME IInv, Fail
  PROVE  IInv'
<1>1. /\ aborted' = TRUE /\ available' = -1
      /\ UNCHANGED <<row, index, stores, items, next_pk, jobs>>
  BY DEF Fail
<1>2. Typed' /\ IndexMirrorsRows' /\ JobsSound' /\ NextIsFree'
  BY <1>1 DEF IInv, Typed, IndexMirrorsRows, JobsSound, NextIsFree, Rows, Valid
<1>3. items' = [j \in Instance |-> items'[j]]
  BY <1>1 DEF IInv
<1>4. \A j \in Instance : GoodCache(items[j])'
  BY <1>1 DEF IInv, GoodCache, Valid, RunningIn
<1>5. AvailableKeyIsFree'
  BY <1>1, WordAssumption DEF AvailableKeyIsFree, Rows, Pk
<1> QED
  BY <1>2, <1>3, <1>4, <1>5 DEF IInv

LEMMA PrimarySafe ==
  ASSUME IInv, NEW i \in Instance, NEW pk \in Pk,
         find(i, pk) \/ require_find(i, pk) \/ lower_bound(i, pk)
  PROVE  IInv'
<1>1. GoodCache(Find(items[i], pk)) /\ GoodCache(LoadFrom(items[i], pk))
  BY FindGood, LoadFromGood DEF IInv
<1> QED
  BY <1>1, LoadsSafe, FailSafe DEF find, require_find, lower_bound

LEMMA StepSafe ==
  ASSUME IInv, NEW i \in Instance, NEW t \in DOMAIN items[i],
         Increment(i, t) \/ Decrement(i, t)
  PROVE  IInv'
<1>1. GoodCache(items[i]) /\ Typed
  BY DEF IInv
<1>2. CASE Increment(i, t)
  BY <1>1, <1>2, LoadFromGood, LoadsSafe, FailSafe DEF Increment
<1>3. CASE Decrement(i, t)
  <2> DEFINE before == {k \in Rows : k < t[1]}
  <2>1. CASE Fail
    BY <2>1, FailSafe
  <2>2. CASE ~Fail
    <3>1. before # {} /\ Loads(i, Load(items[i], ItrOf(Greatest(before))))
      BY <1>3, <2>2 DEF Decrement
    <3>2. before \in SUBSET Pk
      BY DEF Rows
    <3>3. Greatest(before) \in Rows
      BY <3>1, <3>2, GreatestPk
    <3> HIDE DEF before
    <3> QED
      BY <1>1, <3>1, <3>3, LoadGood, LoadsSafe
  <2> QED
    BY <2>1, <2>2
<1> QED
  BY <1>2, <1>3

LEMMA LastRowIs ==
  ASSUME Rows # {}
  PROVE  Greatest(Rows) \in Rows /\ \A k \in Rows : k <= Greatest(Rows)
<1>1. Rows \in SUBSET Pk
  BY DEF Rows
<1> QED
  BY <1>1, GreatestPk

LEMMA EndStepSafe ==
  ASSUME IInv, NEW i \in Instance, DecrementEnd(i) \/ SecDecrementEnd(i)
  PROVE  IInv'
<1>1. GoodCache(items[i]) /\ Typed /\ IndexMirrorsRows /\ Entries = Rows
  BY EntriesAreRows DEF IInv
<1>2. CASE DecrementEnd(i)
  BY <1>1, <1>2, LastRowIs, LoadGood, LoadsSafe, FailSafe DEF DecrementEnd
<1>3. CASE SecDecrementEnd(i)
  <2>1. Entries # {} => Last(Entries) \in Rows
    BY <1>1, LastExists DEF Typed, IndexMirrorsRows
  <2> QED
    BY <1>1, <1>3, <2>1, FindEntryGood, LoadsSafe, FailSafe DEF SecDecrementEnd
<1> QED
  BY <1>2, <1>3

LEMMA SecBoundSafe ==
  ASSUME IInv, NEW i \in Instance, NEW s \in Sec, SecLowerBound(i, s)
  PROVE  IInv'
<1> DEFINE S == {p \in Entries : s <= index[p]}
<1>1. S \in SUBSET Entries /\ Loads(i, FindFirst(items[i], S))
  BY DEF SecLowerBound
<1>2. GoodCache(FindFirst(items[i], S))
  BY <1>1, FindFirstGood DEF IInv
<1> QED
  BY <1>1, <1>2, LoadsSafe

LEMMA SecStepSafe ==
  ASSUME IInv, NEW i \in Instance, NEW t \in DOMAIN items[i],
         SecIncrement(i, t) \/ SecDecrement(i, t) \/ SecIteratorTo(i, t)
  PROVE  IInv'
<1>1. GoodCache(items[i]) /\ Typed /\ IndexMirrorsRows /\ Entries = Rows
  BY EntriesAreRows DEF IInv
<1>2. GoodCache(WithSec(i, t)) /\ ~SecFail(i, t)
  BY <1>1, SecItrIs
<1>3. CASE SecIncrement(i, t)
  <2>1. SecSuccessors(i, t) \in SUBSET Entries
    BY DEF SecSuccessors
  <2>2. GoodCache(FindFirst(WithSec(i, t), SecSuccessors(i, t)))
    BY <1>1, <1>2, <2>1, FindFirstGood
  <2> QED
    BY <1>2, <1>3, <2>2, LoadsSafe DEF SecIncrement
<1>4. CASE SecDecrement(i, t)
  <2> DEFINE before == {p \in Entries : Before(p, t[1])}
  <2>1. CASE Fail
    BY <2>1, FailSafe
  <2>2. CASE ~Fail
    <3>1. before # {} /\ Loads(i, FindEntry(WithSec(i, t), Last(before)))
      BY <1>4, <2>2 DEF SecDecrement
    <3>2. before \in SUBSET Entries
      OBVIOUS
    <3>3. Last(before) \in Rows
      BY <1>1, <3>1, <3>2, LastExists DEF Typed, IndexMirrorsRows
    <3> HIDE DEF before
    <3> QED
      BY <1>1, <1>2, <3>1, <3>3, FindEntryGood, LoadsSafe
  <2> QED
    BY <2>1, <2>2
<1>5. CASE SecIteratorTo(i, t)
  BY <1>2, <1>5, LoadsSafe DEF SecIteratorTo
<1> QED
  BY <1>3, <1>4, <1>5

-----------------------------------------------------------------------------
(* Changing rows.                                                          *)

LEMMA SeenIs ==
  ASSUME IInv, NEW i \in Instance, NEW pk \in Pk,
         next_pk' = [next_pk EXCEPT ![i] = Seen(i, pk)],
         Rows' \subseteq Rows \cup {pk}
  PROVE  /\ next_pk' \in [Instance -> Pk]
         /\ OneInstance => NextIsFree'
<1>1. next_pk \in [Instance -> Pk] /\ pk \in Nat /\ Rows \subseteq Nat
  BY WordAssumption DEF IInv, Typed, Rows, Pk
<1>2. Seen(i, pk) \in Pk
  BY <1>1, WordAssumption DEF Seen, Pk, no_available_primary_key
<1>3. next_pk' \in [Instance -> Pk] /\ next_pk'[i] = Seen(i, pk)
  BY <1>1, <1>2
<1>4. ASSUME OneInstance, NEW j \in Instance,
             next_pk'[j] < no_available_primary_key, NEW k \in Rows'
      PROVE  k < next_pk'[j]
  <2>1. j = i /\ next_pk'[j] = Seen(i, pk)
    BY <1>3, <1>4 DEF OneInstance
  <2>2. k \in Rows \/ k = pk
    BY <1>4
  <2>3. next_pk[i] < no_available_primary_key => \A l \in Rows : l < next_pk[i]
    BY DEF IInv, NextIsFree
  <2>4. next_pk[i] \in Nat /\ no_available_primary_key \in Nat /\ k \in Nat
    BY <1>1, <2>2, WordAssumption DEF Pk, no_available_primary_key
  <2>5. CASE pk < next_pk[i]
    BY <1>1, <1>4, <2>1, <2>2, <2>3, <2>4, <2>5 DEF Seen
  <2>6. CASE ~(pk < next_pk[i])
    <3>1. pk < no_available_primary_key /\ Seen(i, pk) = pk + 1
      BY <1>1, <1>4, <2>1, <2>4, <2>6 DEF Seen
    <3> QED
      BY <1>1, <2>1, <2>2, <2>3, <2>4, <2>6, <3>1
  <2> QED
    BY <2>5, <2>6
<1> QED
  BY <1>3, <1>4 DEF NextIsFree

LEMMA JobsAreItems ==
  ASSUME IInv, NEW i \in Instance, NEW n \in DOMAIN jobs
  PROVE  /\ jobs[n] \in JobSet /\ jobs[n].itr \in DOMAIN items[i]
         /\ jobs[n].itr[1] \in Rows /\ jobs[n].itr = ItrOf(jobs[n].itr[1])
<1>1. GoodCache(items[i]) /\ Typed
  BY DEF IInv
<1>2. jobs[n].itr \in DOMAIN items[i]
  BY <1>1 DEF GoodCache
<1>3. jobs[n] \in JobSet
  BY ElementOfSeq DEF IInv, JobsSound
<1> QED
  BY <1>1, <1>2, <1>3, CachedIsRow

LEMMA EmplaceSafe ==
  ASSUME IInv, OneInstance, NEW i \in Instance, NEW pk \in Pk, NEW s \in Sec,
         emplace(i, pk, s)
  PROVE  IInv'
<1> DEFINE u == <<pk, stores[pk] + 1>>
           item == Item(s, stores[pk] + 1)
           f == items[i]
           g == Store(f, u, item)
<1>1. CASE pk \in Rows
  BY <1>1, FailSafe DEF emplace
<1>2. CASE pk \notin Rows
  <2>1. /\ row' = [row EXCEPT ![pk] = s] /\ index' = [index EXCEPT ![pk] = s]
        /\ stores' = [stores EXCEPT ![pk] = @ + 1]
        /\ next_pk' = [next_pk EXCEPT ![i] = Seen(i, pk)]
        /\ available' = -1 /\ jobs' = jobs /\ aborted' = aborted
        /\ stores[pk] < MaxStores
        /\ items' = [items EXCEPT ![i] = g]
    BY <1>2 DEF emplace
  <2>2. Typed /\ IndexMirrorsRows /\ GoodCache(f) /\ JobsSound
    BY DEF IInv
  <2>3. /\ s # None /\ stores[pk] + 1 \in 1..MaxStores /\ s \in Sec \cup {None}
    BY <2>1, <2>2, BoundsAssumption DEF Typed, Sec, None
  <2>4. /\ row' \in [Pk -> Sec \cup {None}] /\ row'[pk] = s
        /\ \A k \in Pk \ {pk} : row'[k] = row[k] /\ stores'[k] = stores[k]
        /\ stores' \in [Pk -> 0..MaxStores] /\ stores'[pk] = stores[pk] + 1
    BY <2>1, <2>2, <2>3, BoundsAssumption DEF Typed
  <2>5. Rows' = Rows \cup {pk}
    BY <2>3, <2>4 DEF Rows
  <2>6. next_pk' \in [Instance -> Pk] /\ NextIsFree'
    BY <2>1, <2>5, SeenIs
  <2>7. Typed'
    <3>1. \A k \in Rows' : stores'[k] > 0
      BY <2>2, <2>3, <2>4, <2>5 DEF Typed, Rows
    <3> QED
      BY <2>1, <2>2, <2>4, <2>6, <3>1 DEF Typed
  <2>8. IndexMirrorsRows'
    BY <2>1, <2>2 DEF IndexMirrorsRows
  <2>9. u \in Itr /\ u[1] = pk /\ row'[pk] # None /\ stores'[pk] = u[2]
    BY <2>3, <2>4 DEF Itr
  <2>10. item \in ItemSet /\ item.val = s /\ item.sec = stores'[pk]
    BY <2>3, <2>4 DEF Item, ItemSet
  <2> HIDE DEF u, item
  <2>11. /\ DOMAIN g = DOMAIN f \cup {u} /\ g[u] = item
         /\ \A t \in DOMAIN f \ {u} : g[t] = f[t]
         /\ g = [t \in DOMAIN g |-> g[t]]
    BY DEF Store
  <2>12. \A t \in DOMAIN f : t[1] \in Pk \ {pk} /\ t # u
    BY <1>2, <2>2, <2>9, CachedIsRow DEF Rows
  <2> HIDE DEF g
  <2>13. g \in [DOMAIN g -> ItemSet]
    BY <2>2, <2>10, <2>11 DEF GoodCache
  <2>14. items'[i] = g /\ items' = [j \in Instance |-> items'[j]]
    BY <2>1 DEF IInv
  <2>15. ASSUME NEW t \in DOMAIN g
         PROVE  /\ Valid(t)'
                /\ g[t].val # row'[t[1]] => RunningIn(t)'
                /\ g[t].sec \in {0, stores'[t[1]]}
    <3>1. CASE t = u
      BY <2>4, <2>9, <2>10, <2>11, <3>1 DEF Valid
    <3>2. CASE t # u
      <4>1. t \in DOMAIN f /\ g[t] = f[t] /\ t[1] \in Pk \ {pk}
        BY <2>11, <2>12, <3>2
      <4>2. row'[t[1]] = row[t[1]] /\ stores'[t[1]] = stores[t[1]]
        BY <2>4, <4>1
      <4>3. Valid(t) /\ (f[t].val # row[t[1]] => RunningIn(t)) /\ f[t].sec \in {0, stores[t[1]]}
        BY <2>2, <4>1 DEF GoodCache
      <4> QED
        BY <2>1, <4>1, <4>2, <4>3 DEF Valid, RunningIn
    <3> QED
      BY <3>1, <3>2
  <2>16. GoodCache(items[i])'
    <3>1. \A n \in DOMAIN jobs' : jobs'[n].itr \in DOMAIN g
      BY <2>1, <2>2, <2>11 DEF GoodCache
    <3>2. DOMAIN g \subseteq Itr
      BY <2>2, <2>9, <2>11 DEF GoodCache
    <3> QED
      BY <2>13, <2>14, <2>15, <3>1, <3>2 DEF GoodCache, Valid, RunningIn
  <2>17. \A j \in Instance : GoodCache(items[j])'
    BY <2>16 DEF OneInstance
  <2>18. JobsSound'
    <3>1. \A n \in DOMAIN jobs : jobs[n].itr[1] \in Pk \ {pk}
      BY <1>2, JobsAreItems DEF Rows
    <3> QED
      BY <2>1, <2>2, <2>4, <3>1 DEF JobsSound, Valid
  <2>19. AvailableKeyIsFree'
    BY <2>1, WordAssumption DEF AvailableKeyIsFree, Rows, Pk
  <2> QED
    BY <2>6, <2>7, <2>8, <2>14, <2>17, <2>18, <2>19 DEF IInv
<1> QED
  BY <1>1, <1>2

(* The stack of updaters.                                                  *)
LEMMA PushIs ==
  ASSUME NEW j \in JobSet, jobs \in Seq(JobSet)
  PROVE  /\ <<j>> \o jobs \in Seq(JobSet)
         /\ DOMAIN (<<j>> \o jobs) = 1..(Len(jobs) + 1)
         /\ (<<j>> \o jobs)[1] = j
         /\ \A n \in 2..(Len(jobs) + 1) :
              n - 1 \in DOMAIN jobs /\ (<<j>> \o jobs)[n] = jobs[n - 1]
  OBVIOUS

LEMMA PopIs ==
  ASSUME jobs \in Seq(JobSet), jobs # <<>>
  PROVE  /\ Tail(jobs) \in Seq(JobSet)
         /\ 1 \in DOMAIN jobs /\ Head(jobs) = jobs[1]
         /\ \A n \in DOMAIN Tail(jobs) :
              n + 1 \in DOMAIN jobs /\ n + 1 # 1 /\ Tail(jobs)[n] = jobs[n + 1]
         /\ \A n \in DOMAIN jobs \ {1} :
              n - 1 \in DOMAIN Tail(jobs) /\ Tail(jobs)[n - 1] = jobs[n]
  OBVIOUS

LEMMA ModifyBeginSafe ==
  ASSUME IInv, OneInstance, NEW i \in Instance, NEW t \in DOMAIN items[i],
         ModifyBegin(i, t)
  PROVE  IInv'
<1> DEFINE j == [inst |-> i, itr |-> t, old |-> items[i][t].val]
<1>1. /\ jobs' = <<j>> \o jobs /\ ~Running(i, t) /\ available' = -1
      /\ UNCHANGED <<row, index, stores, items, next_pk, aborted>>
  BY DEF ModifyBegin
<1>2. /\ Typed /\ IndexMirrorsRows /\ JobsSound /\ NextIsFree
      /\ GoodCache(items[i]) /\ items = [k \in Instance |-> items[k]]
  BY DEF IInv
<1>3. t \in Itr /\ Valid(t) /\ items[i][t] \in ItemSet
  BY <1>2, CachedIsRow DEF GoodCache
<1>4. j \in JobSet /\ j.itr = t /\ j.old = items[i][t].val
  BY <1>3 DEF JobSet, ItemSet
<1>5. \A n \in DOMAIN jobs : jobs[n].itr # t
  <2>1. \A n \in DOMAIN jobs : jobs[n].inst = i
    BY JobsAreItems DEF OneInstance, JobSet
  <2> QED
    BY <1>1, <2>1 DEF Running
<1>6. items[i][t].val = row[t[1]]
  BY <1>2, <1>5 DEF GoodCache, RunningIn
<1> HIDE DEF j
<1>7. /\ jobs' \in Seq(JobSet) /\ DOMAIN jobs' = 1..(Len(jobs) + 1) /\ jobs'[1] = j
      /\ \A n \in 2..(Len(jobs) + 1) : n - 1 \in DOMAIN jobs /\ jobs'[n] = jobs[n - 1]
      /\ Len(jobs) \in Nat /\ DOMAIN jobs = 1..Len(jobs)
  <2>1. Len(jobs) \in Nat /\ DOMAIN jobs = 1..Len(jobs)
    BY <1>2, LenProperties DEF JobsSound
  <2> QED
    BY <1>1, <1>2, <1>4, <2>1, PushIs DEF JobsSound
<1>8. \A n \in DOMAIN jobs' :
        \/ n = 1 /\ jobs'[n] = j
        \/ n # 1 /\ n - 1 \in DOMAIN jobs /\ jobs'[n] = jobs[n - 1]
  BY <1>7
<1>9. \A n \in DOMAIN jobs : n + 1 \in DOMAIN jobs' /\ jobs'[n + 1] = jobs[n]
  BY <1>7
<1>10. Typed' /\ IndexMirrorsRows' /\ NextIsFree'
  BY <1>1, <1>2 DEF Typed, IndexMirrorsRows, NextIsFree, Rows
<1>11. JobsSound'
  <2>1. \A n \in DOMAIN jobs' : Valid(jobs'[n].itr) /\ row[jobs'[n].itr[1]] = jobs'[n].old
    BY <1>2, <1>3, <1>4, <1>6, <1>8 DEF JobsSound
  <2>2. \A n, o \in DOMAIN jobs' : n # o => jobs'[n].itr # jobs'[o].itr
    <3> SUFFICES ASSUME NEW n \in DOMAIN jobs', NEW o \in DOMAIN jobs', n # o
                 PROVE  jobs'[n].itr # jobs'[o].itr
      OBVIOUS
    <3>1. CASE n # 1 /\ o # 1
      <4>1. n - 1 # o - 1
        BY <1>7
      <4> QED
        BY <1>2, <1>8, <3>1, <4>1 DEF JobsSound
    <3>2. CASE n = 1 \/ o = 1
      BY <1>4, <1>5, <1>8, <3>2
    <3> QED
      BY <3>1, <3>2
  <2> QED
    BY <1>1, <1>7, <2>1, <2>2 DEF JobsSound, Valid
<1>12. \A k \in Instance : GoodCache(items[k])'
  <2> SUFFICES GoodCache(items[i])'
    BY DEF OneInstance
  <2>1. \A u : RunningIn(u) => RunningIn(u)'
    BY <1>9 DEF RunningIn
  <2>2. \A n \in DOMAIN jobs' : jobs'[n].itr \in DOMAIN items[i]
    BY <1>2, <1>4, <1>8 DEF GoodCache
  <2> QED
    BY <1>1, <1>2, <2>1, <2>2 DEF GoodCache, Valid
<1>13. AvailableKeyIsFree'
  BY <1>1, WordAssumption DEF AvailableKeyIsFree, Rows, Pk
<1> QED
  BY <1>1, <1>2, <1>10, <1>11, <1>12, <1>13 DEF IInv

LEMMA UpdateSafe ==
  ASSUME IInv, OneInstance, NEW s \in Sec, Update(s)
  PROVE  IInv'
<1> DEFINE i == Head(jobs).inst
           t == Head(jobs).itr
           f == items[i]
           e == [f[t] EXCEPT !.val = s]
           g == [f EXCEPT ![t] = e]
<1>1. /\ jobs # <<>> /\ available' = -1
      /\ UNCHANGED <<row, index, stores, next_pk, jobs, aborted>>
  BY DEF Update
<1>2. /\ Typed /\ IndexMirrorsRows /\ JobsSound /\ NextIsFree
      /\ items = [k \in Instance |-> items[k]]
  BY DEF IInv
<1>3. 1 \in DOMAIN jobs /\ Head(jobs) = jobs[1] /\ i \in Instance /\ RunningIn(t)
  BY <1>1, <1>2, PopIs, JobsAreItems DEF JobsSound, JobSet, RunningIn
<1>4. GoodCache(f) /\ t \in DOMAIN f
  BY <1>3, JobsAreItems DEF IInv
<1>5. ASSUME NEW r \in ItemSet
      PROVE  LET x == [r EXCEPT !.val = s] IN x \in ItemSet /\ x.sec = r.sec
  BY DEF ItemSet
<1>6. f[t] \in ItemSet
  BY <1>4 DEF GoodCache
<1>7. e \in ItemSet /\ e.sec = f[t].sec
  BY <1>5, <1>6, Zenon
<1>8. items' = [items EXCEPT ![i] = g]
  BY Zenon DEF Update
<1> HIDE DEF i, t, e
<1>9. /\ DOMAIN g = DOMAIN f /\ g[t] = e
      /\ \A u \in DOMAIN f \ {t} : g[u] = f[u]
  BY <1>4
<1>10. g \in [DOMAIN g -> ItemSet]
  BY <1>4, <1>7 DEF GoodCache
<1> HIDE DEF g
<1>11. items'[i] = g /\ items' = [k \in Instance |-> items'[k]]
  BY <1>2, <1>3, <1>8
<1>12. \A u \in DOMAIN g :
         /\ Valid(u)
         /\ g[u].val # row[u[1]] => RunningIn(u)
         /\ g[u].sec \in {0, stores[u[1]]}
  BY <1>3, <1>4, <1>7, <1>9 DEF GoodCache
<1>13. ASSUME NEW k \in Instance PROVE GoodCache(items[k])'
  <2>1. items'[k] = g
    BY <1>3, <1>11 DEF OneInstance
  <2>2. DOMAIN g \subseteq Itr /\ \A n \in DOMAIN jobs : jobs[n].itr \in DOMAIN g
    BY <1>4, <1>9 DEF GoodCache
  <2> QED
    BY <1>1, <1>10, <1>12, <2>1, <2>2 DEF GoodCache, Valid, RunningIn
<1>14. Typed' /\ IndexMirrorsRows' /\ NextIsFree' /\ JobsSound'
  BY <1>1, <1>2 DEF Typed, IndexMirrorsRows, NextIsFree, JobsSound, Rows, Valid
<1>15. AvailableKeyIsFree'
  BY <1>1, WordAssumption DEF AvailableKeyIsFree, Rows, Pk
<1> QED
  BY <1>11, <1>13, <1>14, <1>15 DEF IInv

(* The row and its entry get the key the updater left in the object.       *)
LEMMA ModifyFinishSafe ==
  ASSUME IInv, OneInstance, ModifyFinish
  PROVE  IInv'
<1> DEFINE i == Head(jobs).inst
           t == Head(jobs).itr
           val == items[i][t].val
           rekey == val # Head(jobs).old
<1>1. CASE Fail
  BY <1>1, FailSafe
<1>2. CASE ~Fail
  <2>1. /\ jobs # <<>>
        /\ row' = [row EXCEPT ![t[1]] = val]
        /\ next_pk' = [next_pk EXCEPT ![i] = Seen(i, t[1])]
        /\ index' = IF rekey THEN [index EXCEPT ![t[1]] = val] ELSE index
        /\ items' = IF rekey THEN [items EXCEPT ![i] = WithSec(i, t)] ELSE items
        /\ jobs' = Tail(jobs) /\ available' = -1
        /\ UNCHANGED <<stores, aborted>>
    BY <1>2 DEF ModifyFinish
  <2>2. /\ Typed /\ IndexMirrorsRows /\ JobsSound /\ NextIsFree
        /\ items = [k \in Instance |-> items[k]]
    BY DEF IInv
  <2>3. 1 \in DOMAIN jobs /\ Head(jobs) = jobs[1] /\ i \in Instance
    BY <2>1, <2>2, PopIs, JobsAreItems DEF JobsSound, JobSet
  <2>4. GoodCache(items[i]) /\ t \in DOMAIN items[i]
    BY <2>3, JobsAreItems DEF IInv
  <2>5. t[1] \in Rows /\ t = ItrOf(t[1]) /\ row[t[1]] = Head(jobs).old
    BY <2>2, <2>3, <2>4, CachedIsRow DEF JobsSound
  <2>6. GoodCache(WithSec(i, t)) /\ DOMAIN WithSec(i, t) = DOMAIN items[i]
    BY <2>2, <2>3, <2>4, SecItrIs
  <2>7. WithSec(i, t)[t].val = val
    <3>1. ASSUME NEW r \in ItemSet, NEW n PROVE [r EXCEPT !.sec = n].val = r.val
      BY DEF ItemSet
    <3>2. WithSec(i, t)[t] = [items[i][t] EXCEPT !.sec = SecItr(i, t)]
      BY <2>4, Zenon DEF WithSec
    <3>3. items[i][t] \in ItemSet
      BY <2>4 DEF GoodCache
    <3> QED
      BY <3>1, <3>2, <3>3, Zenon
  <2>8. \A u \in DOMAIN items[i] \ {t} : WithSec(i, t)[u] = items[i][u]
    BY <2>4 DEF WithSec
  <2>9. val \in Sec /\ val # None
    BY <2>4, BoundsAssumption DEF GoodCache, ItemSet, Sec, None
  <2>10. index' = row'
    <3>1. CASE rekey
      BY <2>1, <2>2, <3>1 DEF IndexMirrorsRows
    <3>2. CASE ~rekey
      <4>1. row' = row
        BY <2>1, <2>2, <2>5, <3>2 DEF Typed
      <4> QED
        BY <2>1, <2>2, <3>2, <4>1 DEF IndexMirrorsRows
    <3> QED
      BY <3>1, <3>2
  <2> DEFINE g == items'[i]
  <2>11. /\ GoodCache(g) /\ DOMAIN g = DOMAIN items[i] /\ g[t].val = val
         /\ items' = [k \in Instance |-> items'[k]]
    BY <2>1, <2>2, <2>3, <2>4, <2>6, <2>7
  <2>12. t[1] \in Pk
    BY <2>5 DEF Rows
  <2> HIDE DEF i, t, val, rekey
  <2>13. /\ row' \in [Pk -> Sec \cup {None}] /\ row'[t[1]] = val
         /\ \A k \in Pk \ {t[1]} : row'[k] = row[k]
    BY <2>1, <2>2, <2>9, <2>12 DEF Typed
  <2>14. Rows' = Rows
    BY <2>5, <2>9, <2>12, <2>13 DEF Rows
  <2>15. next_pk' \in [Instance -> Pk] /\ NextIsFree'
    BY <2>1, <2>3, <2>12, <2>14, SeenIs
  <2>16. Typed'
    BY <2>1, <2>2, <2>13, <2>14, <2>15 DEF Typed
  <2>17. /\ jobs' \in Seq(JobSet)
         /\ \A n \in DOMAIN jobs' :
              n + 1 \in DOMAIN jobs /\ n + 1 # 1 /\ jobs'[n] = jobs[n + 1]
         /\ \A n \in DOMAIN jobs \ {1} :
              n - 1 \in DOMAIN jobs' /\ jobs'[n - 1] = jobs[n]
    BY <2>1, <2>2, PopIs DEF JobsSound
  <2>18. \A u \in DOMAIN items[i] \ {t} : u[1] \in Pk \ {t[1]}
    BY <2>2, <2>4, <2>5, CachedIsRow DEF Rows
  <2>19. t = jobs[1].itr
    BY <2>3 DEF t
  <2>20. \A n \in DOMAIN jobs' : jobs'[n].itr \in DOMAIN items[i] \ {t}
    BY <2>2, <2>3, <2>4, <2>17, <2>19 DEF JobsSound, GoodCache
  <2>21. JobsSound'
    <3>1. \A n \in DOMAIN jobs' :
            Valid(jobs[n].itr)' /\ row'[jobs'[n].itr[1]] = jobs'[n].old
      <4> TAKE n \in DOMAIN jobs'
      <4>1. /\ n + 1 \in DOMAIN jobs /\ jobs'[n] = jobs[n + 1]
            /\ jobs'[n].itr[1] \in Pk \ {t[1]}
        BY <2>17, <2>18, <2>20
      <4>2. row'[jobs'[n].itr[1]] = row[jobs'[n].itr[1]] /\ stores' = stores
        BY <2>1, <2>13, <4>1
      <4>3. row[jobs'[n].itr[1]] = jobs'[n].old /\ Valid(jobs[n + 1].itr)
        BY <2>2, <4>1 DEF JobsSound
      <4> QED
        BY <4>1, <4>2, <4>3 DEF Valid
    <3>2. \A n, o \in DOMAIN jobs' : n # o => jobs'[n].itr # jobs'[o].itr
      <4> SUFFICES ASSUME NEW n \in DOMAIN jobs', NEW o \in DOMAIN jobs', n # o
                   PROVE  jobs'[n].itr # jobs'[o].itr
        OBVIOUS
      <4>1. n \in Int /\ o \in Int
        BY <2>17, LenProperties
      <4>2. n + 1 # o + 1
        BY <4>1
      <4> QED
        BY <2>2, <2>17, <4>2 DEF JobsSound
    <3> QED
      BY <2>17, <3>1, <3>2 DEF JobsSound
  <2> HIDE DEF g
  <2>22. \A u \in DOMAIN g :
           /\ Valid(u)'
           /\ g[u].val # row'[u[1]] => RunningIn(u)'
           /\ g[u].sec \in {0, stores'[u[1]]}
    <3> TAKE u \in DOMAIN g
    <3>1. /\ Valid(u) /\ (g[u].val # row[u[1]] => RunningIn(u))
          /\ g[u].sec \in {0, stores[u[1]]} /\ u \in DOMAIN items[i]
      BY <2>11 DEF GoodCache
    <3>2. CASE u = t
      BY <2>1, <2>9, <2>11, <2>13, <3>1, <3>2 DEF Valid
    <3>3. CASE u # t
      <4>1. row'[u[1]] = row[u[1]] /\ stores' = stores
        BY <2>1, <2>13, <2>18, <3>1, <3>3
      <4>2. RunningIn(u) => RunningIn(u)'
        BY <2>17, <2>19, <3>3 DEF RunningIn
      <4> QED
        BY <3>1, <4>1, <4>2 DEF Valid
    <3> QED
      BY <3>2, <3>3
  <2>23. ASSUME NEW k \in Instance PROVE GoodCache(items[k])'
    <3>1. items'[k] = g
      BY <2>3 DEF OneInstance, g
    <3>2. /\ g \in [DOMAIN g -> ItemSet] /\ DOMAIN g \subseteq Itr
          /\ \A n \in DOMAIN jobs' : jobs'[n].itr \in DOMAIN g
      BY <2>11, <2>20 DEF GoodCache
    <3> QED
      BY <2>22, <3>1, <3>2 DEF GoodCache, Valid, RunningIn
  <2>24. AvailableKeyIsFree'
    BY <2>1, WordAssumption DEF AvailableKeyIsFree, Rows, Pk
  <2> QED
    BY <2>10, <2>11, <2>15, <2>16, <2>21, <2>23, <2>24 DEF IInv, IndexMirrorsRows
<1> QED
  BY <1>1, <1>2

LEMMA DropIs ==
  ASSUME Typed, NEW f, GoodCache(f), NEW t \in DOMAIN f
  PROVE  /\ DOMAIN Drop(f, t[1]) = DOMAIN f \ {t}
         /\ \A u \in DOMAIN f \ {t} : Drop(f, t[1])[u] = f[u]
         /\ Drop(f, t[1]) \in [DOMAIN Drop(f, t[1]) -> ItemSet]
<1>1. Latest(f, t[1]) = t
  BY CachedIsRow
<1>2. Drop(f, t[1]) = [u \in DOMAIN f \ {t} |-> f[u]]
  BY <1>1 DEF Drop
<1> QED
  BY <1>2 DEF GoodCache

(* erase, given the cache after the step of the iterator.                  *)
LEMMA EraseFromSafe ==
  ASSUME IInv, OneInstance, NEW i \in Instance, NEW t \in DOMAIN items[i],
         ~Running(i, t), NEW f, GoodCache(f), DOMAIN items[i] \subseteq DOMAIN f,
         EraseFrom(i, t, f)
  PROVE  IInv'
<1> DEFINE g == Drop(f, t[1])
<1>1. /\ Typed /\ IndexMirrorsRows /\ JobsSound /\ NextIsFree
      /\ GoodCache(items[i]) /\ items = [k \in Instance |-> items[k]]
  BY DEF IInv
<1>2. t[1] \in Rows /\ t[1] \in Pk
  BY <1>1, CachedIsRow DEF Rows
<1>3. CASE Fail
  BY <1>3, FailSafe
<1>4. CASE ~Fail
  <2>1. SecItr(i, t) # 0
    BY <1>1, SecItrIs
  <2>2. /\ row' = [row EXCEPT ![t[1]] = None]
        /\ index' = [index EXCEPT ![t[1]] = None]
        /\ items' = [items EXCEPT ![i] = g] /\ available' = -1
        /\ UNCHANGED <<stores, next_pk, jobs, aborted>>
    BY <1>4, <2>1 DEF EraseFrom
  <2>3. /\ row' \in [Pk -> Sec \cup {None}] /\ row'[t[1]] = None
        /\ \A k \in Pk \ {t[1]} : row'[k] = row[k]
        /\ index' = row'
    BY <1>1, <1>2, <2>2 DEF Typed, IndexMirrorsRows
  <2>4. Rows' = Rows \ {t[1]}
    BY <2>3 DEF Rows
  <2>5. Typed' /\ NextIsFree'
    BY <1>1, <2>2, <2>3, <2>4 DEF Typed, NextIsFree
  <2>6. /\ DOMAIN g = DOMAIN f \ {t} /\ g \in [DOMAIN g -> ItemSet]
        /\ \A u \in DOMAIN f \ {t} : g[u] = f[u]
    BY <1>1, DropIs
  <2> HIDE DEF g
  <2>7. items'[i] = g /\ items' = [k \in Instance |-> items'[k]]
    BY <1>1, <2>2
  <2>8. \A n \in DOMAIN jobs : jobs[n].itr # t
    <3>1. \A n \in DOMAIN jobs : jobs[n].inst = i
      BY JobsAreItems DEF OneInstance, JobSet
    <3> QED
      BY <3>1 DEF Running
  <2>9. \A u \in DOMAIN f \ {t} : u[1] \in Pk \ {t[1]}
    BY <1>1, CachedIsRow DEF Rows
  <2>10. \A n \in DOMAIN jobs : jobs[n].itr \in DOMAIN g
    BY <2>6, <2>8 DEF GoodCache
  <2>11. ASSUME NEW u \in DOMAIN g
         PROVE  /\ Valid(u)'
                /\ g[u].val # row'[u[1]] => RunningIn(u)'
                /\ g[u].sec \in {0, stores'[u[1]]}
    <3>1. /\ Valid(u)
          /\ f[u].val # row[u[1]] => RunningIn(u)
          /\ f[u].sec \in {0, stores[u[1]]}
      BY <2>6 DEF GoodCache
    <3>2. row'[u[1]] = row[u[1]] /\ g[u] = f[u]
      BY <2>3, <2>6, <2>9
    <3> QED
      BY <2>2, <3>1, <3>2 DEF Valid, RunningIn
  <2>12. ASSUME NEW k \in Instance PROVE GoodCache(items[k])'
    <3>1. items'[k] = g
      BY <2>7 DEF OneInstance
    <3>2. DOMAIN g \subseteq Itr /\ \A n \in DOMAIN jobs' : jobs'[n].itr \in DOMAIN g
      BY <2>2, <2>6, <2>10 DEF GoodCache
    <3> QED
      BY <2>6, <2>11, <3>1, <3>2 DEF GoodCache
  <2>13. JobsSound'
    <3>1. \A n \in DOMAIN jobs : jobs[n].itr[1] \in Pk \ {t[1]}
      BY <2>6, <2>9, <2>10
    <3> QED
      BY <1>1, <2>2, <2>3, <3>1 DEF JobsSound, Valid
  <2>14. AvailableKeyIsFree'
    BY <2>2, WordAssumption DEF AvailableKeyIsFree, Rows, Pk
  <2> QED
    BY <2>3, <2>5, <2>7, <2>12, <2>13, <2>14 DEF IInv, IndexMirrorsRows
<1> QED
  BY <1>3, <1>4

LEMMA EraseSafe ==
  ASSUME IInv, OneInstance, NEW i \in Instance, NEW t \in DOMAIN items[i],
         erase(i, t) \/ EraseIterator(i, t) \/ SecEraseIterator(i, t)
  PROVE  IInv'
<1>1. GoodCache(items[i]) /\ Typed /\ IndexMirrorsRows
  BY DEF IInv
<1>2. CASE erase(i, t)
  BY <1>1, <1>2, EraseFromSafe DEF erase
<1>3. CASE EraseIterator(i, t)
  <2> DEFINE f == LoadFrom(items[i], t[1] + 1)
  <2>1. GoodCache(f) /\ DOMAIN items[i] \subseteq DOMAIN f
    BY <1>1, LoadFromGood
  <2>2. ~Running(i, t) /\ EraseFrom(i, t, f)
    BY <1>3 DEF EraseIterator
  <2> HIDE DEF f
  <2> QED
    BY <2>1, <2>2, EraseFromSafe
<1>4. CASE SecEraseIterator(i, t)
  <2> DEFINE g == WithSec(i, t)
             f == FindFirst(g, SecSuccessors(i, t))
  <2>1. GoodCache(g) /\ DOMAIN g = DOMAIN items[i]
    BY <1>1, SecItrIs
  <2>2. SecSuccessors(i, t) \in SUBSET Entries
    BY DEF SecSuccessors
  <2>3. ~Running(i, t) /\ EraseFrom(i, t, f)
    BY <1>4 DEF SecEraseIterator
  <2> HIDE DEF g
  <2>4. GoodCache(f) /\ DOMAIN items[i] \subseteq DOMAIN f
    BY <1>1, <2>1, <2>2, FindFirstGood
  <2> HIDE DEF f
  <2> QED
    BY <2>3, <2>4, EraseFromSafe
<1> QED
  BY <1>2, <1>3, <1>4

-----------------------------------------------------------------------------
(* The key that is handed out.                                             *)

LEMMA AvailableSafe ==
  ASSUME IInv, OneInstance, NEW i \in Instance, available_primary_key(i)
  PROVE  IInv'
<1> DEFINE n == NextPk(i)
           f == IF next_pk[i] = unset_next_primary_key THEN LoadEnds(items[i]) ELSE items[i]
<1>1. /\ Typed /\ IndexMirrorsRows /\ JobsSound /\ NextIsFree
      /\ GoodCache(items[i]) /\ items = [k \in Instance |-> items[k]]
  BY DEF IInv
<1>2. CASE Fail
  BY <1>2, FailSafe
<1>3. CASE ~Fail
  <2>0. /\ ~(NextPk(i) >= no_available_primary_key)
        /\ next_pk' = [next_pk EXCEPT ![i] = NextPk(i)] /\ available' = NextPk(i)
        /\ items' = [items EXCEPT ![i] =
             IF next_pk[i] = unset_next_primary_key THEN LoadEnds(@) ELSE @]
        /\ UNCHANGED <<row, index, stores, jobs, aborted>>
    BY <1>3, available_primary_key(i) DEF available_primary_key
  <2>a. NextPk(i) \in Nat /\ no_available_primary_key \in Nat
    <3>1. next_pk[i] \in Nat /\ Rows \in SUBSET Pk /\ Pk \subseteq Nat
      BY <1>1, WordAssumption DEF Typed, Rows, Pk
    <3>2. no_available_primary_key \in Nat
      BY WordAssumption DEF no_available_primary_key
    <3>3. CASE next_pk[i] # unset_next_primary_key
      BY <3>1, <3>2, <3>3 DEF NextPk
    <3>4. CASE next_pk[i] = unset_next_primary_key /\ Rows = {}
      BY <3>2, <3>4 DEF NextPk
    <3>5. CASE next_pk[i] = unset_next_primary_key /\ Rows # {}
      <4>1. Greatest(Rows) \in Nat
        BY <3>1, <3>5, GreatestPk
      <4>2. NextPk(i) \in {no_available_primary_key, Greatest(Rows) + 1}
        BY <3>5 DEF NextPk
      <4> QED
        BY <3>2, <4>1, <4>2
    <3> QED
      BY <3>3, <3>4, <3>5
  <2>1. /\ n < no_available_primary_key
        /\ next_pk' = [next_pk EXCEPT ![i] = n] /\ available' = n
        /\ items' = [items EXCEPT ![i] = f]
        /\ UNCHANGED <<row, index, stores, jobs, aborted>>
    <3>1. n < no_available_primary_key
      BY <2>0, <2>a
    <3> QED
      BY <2>0, <3>1
  <2>2. n \in Nat /\ n \in Pk /\ \A k \in Rows : k < n
    <3>1. Rows \subseteq Nat /\ next_pk[i] \in Nat /\ no_available_primary_key \in Nat
      BY <1>1, WordAssumption DEF Typed, Rows, Pk, no_available_primary_key
    <3>2. CASE next_pk[i] # unset_next_primary_key
      BY <1>1, <2>1, <3>1, <3>2, WordAssumption
      DEF NextPk, NextIsFree, Pk, no_available_primary_key
    <3>3. CASE next_pk[i] = unset_next_primary_key /\ Rows = {}
      BY <3>3, WordAssumption DEF NextPk, Pk
    <3>4. CASE next_pk[i] = unset_next_primary_key /\ Rows # {}
      <4>1. Greatest(Rows) \in Nat /\ \A k \in Rows : k <= Greatest(Rows)
        BY <3>1, <3>4, LastRowIs
      <4>2. n = Greatest(Rows) + 1 /\ Greatest(Rows) < no_available_primary_key
        BY <2>1, <3>1, <3>4, <4>1 DEF NextPk
      <4> QED
        BY <3>1, <4>1, <4>2, WordAssumption DEF Pk, no_available_primary_key
    <3> QED
      BY <3>2, <3>3, <3>4
  <2>3. GoodCache(f)
    <3>1. CASE Rows = {}
      BY <1>1, <3>1 DEF LoadEnds
    <3>2. CASE Rows # {}
      <4>1. Rows \in SUBSET Nat
        BY WordAssumption DEF Rows, Pk
      <4>2. Least(Rows) \in Rows /\ Greatest(Rows) \in Rows
        BY <3>2, <4>1, LeastExists, LastRowIs
      <4> DEFINE g == Load(items[i], ItrOf(Least(Rows)))
      <4>3. GoodCache(g)
        BY <1>1, <4>2, LoadGood
      <4>4. LoadEnds(items[i]) = Load(g, ItrOf(Greatest(Rows)))
        BY <3>2 DEF LoadEnds
      <4> HIDE DEF g
      <4> QED
        BY <1>1, <4>2, <4>3, <4>4, LoadGood
    <3> QED
      BY <3>1, <3>2
  <2> HIDE DEF n, f
  <2>4. items'[i] = f /\ items' = [k \in Instance |-> items'[k]]
    BY <1>1, <2>1
  <2>5. ASSUME NEW k \in Instance PROVE GoodCache(items[k])'
    <3>1. items'[k] = f
      BY <2>4 DEF OneInstance
    <3> QED
      BY <2>1, <2>3, <3>1 DEF GoodCache, Valid, RunningIn
  <2>6. next_pk' \in [Instance -> Pk] /\ next_pk'[i] = n /\ Rows' = Rows
    BY <1>1, <2>1, <2>2 DEF Typed, Rows
  <2>7. NextIsFree'
    BY <2>2, <2>6 DEF NextIsFree, OneInstance
  <2>8. Typed'
    BY <1>1, <2>1, <2>2, <2>6, WordAssumption DEF Typed, no_available_primary_key
  <2>9. IndexMirrorsRows' /\ JobsSound'
    BY <1>1, <2>1 DEF IndexMirrorsRows, JobsSound, Valid
  <2>10. AvailableKeyIsFree'
    BY <2>1, <2>2, <2>6 DEF AvailableKeyIsFree
  <2> QED
    BY <2>4, <2>5, <2>7, <2>8, <2>9, <2>10 DEF IInv
<1> QED
  BY <1>2, <1>3

-----------------------------------------------------------------------------
LEMMA InitSafe == Init => IInv
<1> SUFFICES ASSUME Init PROVE IInv
  OBVIOUS
<1>1. /\ row \in [Pk -> Sec \cup {None}] /\ index = row
      /\ stores = [pk \in Pk |-> IF row[pk] = None THEN 0 ELSE 1]
      /\ items = [i \in Instance |-> [t \in {} |-> Item(None, 0)]]
      /\ next_pk = [i \in Instance |-> unset_next_primary_key]
      /\ jobs = <<>> /\ available = -1 /\ aborted = FALSE
  BY DEF Init
<1>2. Typed
  <2>1. Word - 2 \in Nat /\ Word - 1 \in Nat /\ Word - 1 \in Pk
    BY WordAssumption DEF Pk
  <2>2. \A pk \in Pk : stores[pk] = IF row[pk] = None THEN 0 ELSE 1
    BY <1>1
  <2>3. stores \in [Pk -> 0..MaxStores]
    <3>1. 0 \in 0..MaxStores /\ 1 \in 0..MaxStores
      BY BoundsAssumption
    <3>2. \A pk \in Pk : (IF row[pk] = None THEN 0 ELSE 1) \in 0..MaxStores
      BY <3>1
    <3> QED
      BY <1>1, <3>2
  <2>4. \A pk \in Rows : stores[pk] > 0
    BY <2>2 DEF Rows
  <2>5. next_pk \in [Instance -> Pk]
    BY <1>1, <2>1 DEF unset_next_primary_key
  <2>6. available \in {-1} \cup 0..(no_available_primary_key - 1)
    BY <1>1
  <2> QED
    BY <1>1, <2>3, <2>4, <2>5, <2>6 DEF Typed
<1>3. \A i \in Instance : GoodCache(items[i])
  <2> TAKE i \in Instance
  <2> DEFINE e == [t \in {} |-> Item(None, 0)]
  <2>1. items[i] = e
    BY <1>1
  <2>2. DOMAIN e = {} /\ e = [t \in DOMAIN e |-> e[t]]
    OBVIOUS
  <2>3. e \in [DOMAIN e -> ItemSet]
    BY <2>2
  <2>4. DOMAIN jobs = {}
    BY <1>1
  <2> HIDE DEF e
  <2>5. GoodCache(e)
    BY <2>2, <2>3, <2>4 DEF GoodCache
  <2> QED
    BY <2>1, <2>5
<1>4. JobsSound
  BY <1>1 DEF JobsSound
<1>5. NextIsFree
  BY <1>1, WordAssumption DEF NextIsFree, unset_next_primary_key, no_available_primary_key
<1>6. AvailableKeyIsFree /\ IndexMirrorsRows
  BY <1>1, WordAssumption DEF AvailableKeyIsFree, IndexMirrorsRows, Rows, Pk
<1> QED
  BY <1>1, <1>2, <1>3, <1>4, <1>5, <1>6 DEF IInv

LEMMA NextSafe == OneInstance /\ IInv /\ [Next]_vars => IInv'
<1> SUFFICES ASSUME OneInstance, IInv, [Next]_vars PROVE IInv'
  OBVIOUS
<1>1. ASSUME NEW i \in Instance, NEW pk \in Pk,
             find(i, pk) \/ require_find(i, pk) \/ lower_bound(i, pk)
      PROVE  IInv'
  BY <1>1, PrimarySafe
<1>2. ASSUME NEW i \in Instance, NEW t \in DOMAIN items[i],
             Increment(i, t) \/ Decrement(i, t)
      PROVE  IInv'
  BY <1>2, StepSafe
<1>3. ASSUME NEW i \in Instance, NEW t \in DOMAIN items[i],
             SecIncrement(i, t) \/ SecDecrement(i, t) \/ SecIteratorTo(i, t)
      PROVE  IInv'
  BY <1>3, SecStepSafe
<1>4. ASSUME NEW i \in Instance, NEW t \in DOMAIN items[i],
             ModifyBegin(i, t)
      PROVE  IInv'
  BY <1>4, ModifyBeginSafe
<1>5. ASSUME NEW i \in Instance, NEW t \in DOMAIN items[i],
             erase(i, t) \/ EraseIterator(i, t) \/ SecEraseIterator(i, t)
      PROVE  IInv'
  BY <1>5, EraseSafe
<1>6. ASSUME NEW i \in Instance,
             DecrementEnd(i) \/ SecDecrementEnd(i) \/ available_primary_key(i)
      PROVE  IInv'
  BY <1>6, EndStepSafe, AvailableSafe
<1>7. ASSUME NEW i \in Instance, NEW s \in Sec, SecLowerBound(i, s)
      PROVE  IInv'
  BY <1>7, SecBoundSafe
<1>8. ASSUME NEW i \in Instance, NEW pk \in Pk, NEW s \in Sec, emplace(i, pk, s)
      PROVE  IInv'
  BY <1>8, EmplaceSafe
<1>9. ASSUME NEW s \in Sec, Update(s) PROVE IInv'
  BY <1>9, UpdateSafe
<1>10. CASE UpdateKey
  BY <1>10, FailSafe DEF UpdateKey
<1>11. CASE ModifyFinish
  BY <1>11, ModifyFinishSafe
<1>12. CASE UNCHANGED vars
  <2>1. UNCHANGED <<row, index, stores, items, next_pk, jobs, available, aborted>>
    BY <1>12 DEF vars
  <2>2. Typed' /\ IndexMirrorsRows' /\ JobsSound' /\ NextIsFree' /\ AvailableKeyIsFree'
    BY <2>1
    DEF IInv, Typed, IndexMirrorsRows, JobsSound, NextIsFree, AvailableKeyIsFree,
        Rows, Valid
  <2>3. items' = [i \in Instance |-> items'[i]]
    BY <2>1 DEF IInv
  <2>4. \A i \in Instance : GoodCache(items[i])'
    BY <2>1 DEF IInv, GoodCache, Valid, RunningIn
  <2> QED
    BY <2>2, <2>3, <2>4 DEF IInv
<1> QED
  BY <1>1, <1>2, <1>3, <1>4, <1>5, <1>6, <1>7, <1>8, <1>9, <1>10, <1>11, <1>12
  DEF Next

THEOREM Invariance == OneInstance => (Spec => []IInv)
<1> SUFFICES ASSUME OneInstance PROVE Spec => []IInv
  OBVIOUS
<1>1. Init => IInv
  BY InitSafe
<1>2. IInv /\ [Next]_vars => IInv'
  BY NextSafe
<1> QED
  BY <1>1, <1>2, PTL DEF Spec

(* A cached iterator is one the node gave out, the next primary key is a   *)
(* key or a tag, and modify works on objects that exist                    *)
(* (multi_index.hpp:409-412, 749-788).                                     *)
THEOREM TypeCorrect == OneInstance => (Spec => []TypeOK)
<1> SUFFICES ASSUME OneInstance PROVE Spec => []TypeOK
  OBVIOUS
<1>1. IInv => TypeOK
  <2> SUFFICES ASSUME IInv PROVE TypeOK
    OBVIOUS
  <2>1. \A n \in DOMAIN jobs : jobs[n].itr \in DOMAIN items[jobs[n].inst]
    <3> TAKE n \in DOMAIN jobs
    <3>1. jobs[n] \in JobSet
      BY ElementOfSeq DEF IInv, JobsSound
    <3>2. jobs[n].inst \in Instance
      BY <3>1 DEF JobSet
    <3> QED
      BY <3>2, JobsAreItems
  <2>2. \A i \in Instance : /\ DOMAIN items[i] \subseteq Itr
                           /\ \A t \in DOMAIN items[i] : items[i][t] \in ItemSet
    BY DEF IInv, GoodCache
  <2> QED
    BY <2>1, <2>2, Zenon DEF IInv, Typed, TypeOK, IndexMirrorsRows, ItemSet
<1> QED
  BY <1>1, Invariance, PTL

(* The secondary index has for every row the key the row was last written  *)
(* with, whatever updaters do (multi_index.hpp:1683-1698).                 *)
THEOREM IndexCorrect == OneInstance => (Spec => []IndexMirrorsRows)
<1>1. IInv => IndexMirrorsRows
  BY DEF IInv
<1> QED
  BY <1>1, Invariance, PTL

(* The object shows no row that is gone or changed, other than those its   *)
(* updaters are at work on, and keeps no iterator the node would refuse    *)
(* (multi_index.hpp:749-788, 1762-1774, 1907).                             *)
THEOREM CacheCorrect == OneInstance => (Spec => []CacheIsCurrent)
<1> SUFFICES ASSUME OneInstance PROVE Spec => []CacheIsCurrent
  OBVIOUS
<1>1. IInv => CacheIsCurrent
  <2> SUFFICES ASSUME IInv, NEW i \in Instance, NEW t \in DOMAIN items[i]
               PROVE  /\ Valid(t)
                      /\ items[i][t].val # row[t[1]] => Running(i, t)
                      /\ items[i][t].sec \in {0, stores[t[1]]}
    BY DEF CacheIsCurrent
  <2>1. /\ Valid(t)
        /\ items[i][t].val # row[t[1]] => RunningIn(t)
        /\ items[i][t].sec \in {0, stores[t[1]]}
    BY DEF IInv, GoodCache
  <2>2. \A n \in DOMAIN jobs : jobs[n].inst = i
    BY JobsAreItems DEF OneInstance, JobSet
  <2> QED
    BY <2>1, <2>2 DEF Running, RunningIn
<1> QED
  BY <1>1, Invariance, PTL

(* The key available_primary_key returned is taken by no row               *)
(* (multi_index.hpp:1286-1288).                                            *)
THEOREM AvailableCorrect == OneInstance => (Spec => []AvailableKeyIsFree)
<1>1. IInv => AvailableKeyIsFree
  BY DEF IInv
<1> QED
  BY <1>1, Invariance, PTL
=============================================================================
