---------------------------- MODULE KvTableProofs ----------------------------
(***************************************************************************)
(* Proofs about KvTable for any sets of keys, indices and payloads: the    *)
(* type invariant, the invariant of the loops of put and erase, and that   *)
(* the table implements TableSpec.                                         *)
(***************************************************************************)
EXTENDS KvTable, TLAPS

(* A row is a record with its three fields in their sets.                  *)
LEMMA RowFields ==
  ASSUME NEW v \in Row
  PROVE  /\ v.pk \in PrimaryKey
         /\ v.sec \in [Index -> SecondaryKey]
         /\ v # NoRow
BY NoRowAssumption DEF Row

(* The initial state is well typed.                                        *)
LEMMA TypeInit == Init => TypeOK
BY DEF Init, TypeOK, RowMap, EntryMap

(* A rollback restores well-typed rows and entries and ends the call.      *)
LEMMA TypeRollback ==
  ASSUME TypeOK, NEW a, Rollback(a)
  PROVE  TypeOK'
BY DEF TypeOK, Rollback, Return

(* Every action of the table and of the transaction around it keeps the    *)
(* state well typed.                                                       *)
LEMMA TypeNext == TypeOK /\ [Next]_vars => TypeOK'
<1> SUFFICES ASSUME TypeOK, [Next]_vars
             PROVE  TypeOK'
  OBVIOUS
<1>1. ASSUME NEW v \in Row, PutBegin(v)
      PROVE  TypeOK'
  BY <1>1, RowFields DEF PutBegin, TypeOK, RowMap, kv_get
<1>2. ASSUME NEW v \in Row, EraseAbsent(v)
      PROVE  TypeOK'
  BY <1>2 DEF EraseAbsent, Return, TypeOK
<1>3. ASSUME NEW i \in Index, PutIndex(i)
      PROVE  TypeOK'
  <2>1. arg \in Row /\ arg.pk \in PrimaryKey
    BY <1>3, RowFields DEF PutIndex, TypeOK
  <2>2. entries' \in EntryMap
    BY <1>3, <2>1 DEF PutIndex, PutStoresEntry, PutKeepsEntry, PutMovesEntry,
                      TypeOK, EntryMap, kv_set, kv_erase
  <2>3. QED
    BY <1>3, <2>2 DEF PutIndex, TypeOK
<1>4. ASSUME NEW i \in Index, PutDuplicate(i)
      PROVE  TypeOK'
  BY <1>4, TypeRollback DEF PutDuplicate
<1>5. ASSUME NEW i \in Index, EraseIndex(i)
      PROVE  TypeOK'
  <2>1. entries' \in EntryMap
    BY <1>5 DEF EraseIndex, TypeOK, EntryMap, kv_erase
  <2>2. QED
    BY <1>5, <2>1 DEF EraseIndex, TypeOK
<1>6. CASE PutFinish
  <2>1. arg \in Row /\ arg.pk \in PrimaryKey
    BY <1>6, RowFields DEF PutFinish, TypeOK
  <2>2. rows' \in RowMap
    BY <1>6, <2>1 DEF PutFinish, TypeOK, RowMap, kv_set
  <2>3. QED
    BY <1>6, <2>2 DEF PutFinish, Return, TypeOK
<1>7. CASE EraseFinish
  <2>1. rows' \in RowMap
    BY <1>7 DEF EraseFinish, TypeOK, RowMap, kv_erase
  <2>2. QED
    BY <1>7, <2>1 DEF EraseFinish, Return, TypeOK
<1>8. ASSUME NEW p \in PrimaryKey, Get(p)
      PROVE  TypeOK'
  BY <1>8 DEF Get, TypeOK
<1>9. ASSUME NEW i \in Index, NEW k \in SecondaryKey, GetBy(i, k)
      PROVE  TypeOK'
  <2>1. CASE UNCHANGED <<rows, entries, saved, op, arg, old, todo>>
    BY <2>1 DEF TypeOK
  <2>2. CASE Rollback(Answer("failure getting primary key", NoRow))
    BY <2>2, TypeRollback
  <2>3. QED
    BY <1>9, <2>1, <2>2 DEF GetBy
<1>10. CASE Commit
  BY <1>10 DEF Commit, TypeOK
<1>11. CASE Abort
  BY <1>11, TypeRollback DEF Abort
<1>12. ASSUME NEW v \in Row, EraseBegin(v)
       PROVE  TypeOK'
  BY <1>12 DEF EraseBegin, TypeOK
<1>13. CASE UNCHANGED vars
  BY <1>13 DEF vars, TypeOK
<1>14. QED
  BY <1>1, <1>2, <1>3, <1>4, <1>5, <1>6, <1>7, <1>8, <1>9, <1>10, <1>11,
     <1>12, <1>13 DEF Next, Step

(* Rows sit under their own primary key and the locals of put and erase    *)
(* are cleared between calls (kv.hpp:75-147).                              *)
THEOREM TypeCorrect == Spec => []TypeOK
BY TypeInit, TypeNext, PTL DEF Spec

-----------------------------------------------------------------------------
(* An index without any row has no entry.                                  *)
LEMMA WalkInit == Init => WalkInvariant
BY NoKeyAssumption DEF Init, WalkInvariant, Mirrors, Expected

(* The restored state is consistent because the saved one is.              *)
LEMMA WalkRollback ==
  ASSUME WalkInvariant, NEW a, Rollback(a)
  PROVE  WalkInvariant'
BY DEF WalkInvariant, Mirrors, Expected, Rollback, Return

(* A put that does not find the key of index i taken leaves index i as it  *)
(* has to be once the row is stored.                                       *)
LEMMA PutWritesEntry ==
  ASSUME TypeOK, WalkInvariant, NEW i \in Index, PutIndex(i)
  PROVE  Mirrors(i, entries', [rows EXCEPT ![arg.pk] = arg])
<1>1. /\ arg \in Row /\ arg.pk \in PrimaryKey /\ arg # NoRow
      /\ arg.sec[i] \in SecondaryKey
      /\ old = rows[arg.pk]
  BY RowFields DEF PutIndex, TypeOK, WalkInvariant
<1>2. Mirrors(i, entries, rows)
  BY DEF PutIndex, WalkInvariant, Expected
<1>3. /\ entries \in EntryMap
      /\ rows \in [PrimaryKey -> Row \cup {NoRow}]
  BY DEF TypeOK, RowMap
<1>4. CASE PutStoresEntry(i)
  <2>1. /\ entries[i][arg.sec[i]] = NoKey /\ rows[arg.pk] = NoRow
        /\ entries'[i] = [entries[i] EXCEPT ![arg.sec[i]] = arg.pk]
    BY <1>1, <1>3, <1>4
    DEF PutStoresEntry, Holder, kv_get, kv_set, EntryMap
  <2>2. entries[i] \in [SecondaryKey -> PrimaryKey \cup {NoKey}]
    BY <1>3 DEF EntryMap
  <2>3. QED
    BY <1>1, <1>2, <1>3, <2>1, <2>2, NoKeyAssumption DEF Mirrors
<1>5. CASE PutKeepsEntry(i)
  BY <1>1, <1>2, <1>3, <1>5, NoKeyAssumption
  DEF PutKeepsEntry, Mirrors, Holder, kv_get, EntryMap
<1>6. CASE PutMovesEntry(i)
  <2>1. old \in Row /\ old.sec[i] \in SecondaryKey
    BY <1>1, <1>3, <1>6, RowFields DEF PutMovesEntry
  <2>2. QED
    BY <1>1, <1>2, <1>3, <1>6, <2>1, NoKeyAssumption
    DEF PutMovesEntry, Mirrors, Holder, kv_get, kv_set, kv_erase, EntryMap
<1>7. QED
  BY <1>4, <1>5, <1>6 DEF PutIndex

(* Visiting index i changes no other index.                                *)
LEMMA PutLeavesOthers ==
  ASSUME TypeOK, NEW i \in Index, PutIndex(i), NEW j \in Index \ {i}
  PROVE  entries'[j] = entries[j]
BY DEF TypeOK, EntryMap, PutIndex, PutStoresEntry, PutKeepsEntry,
       PutMovesEntry

(* Erasing the stored row's key from index i leaves index i as it has to   *)
(* be once the row is gone.                                                *)
LEMMA EraseWritesEntry ==
  ASSUME TypeOK, WalkInvariant, NEW i \in Index, EraseIndex(i)
  PROVE  /\ Mirrors(i, entries', [rows EXCEPT ![arg.pk] = NoRow])
         /\ \A j \in Index \ {i} : entries'[j] = entries[j]
<1>1. /\ arg \in Row /\ arg.pk \in PrimaryKey /\ arg # NoRow
      /\ arg.sec[i] \in SecondaryKey
      /\ arg = rows[arg.pk]
  BY RowFields DEF EraseIndex, TypeOK, WalkInvariant
<1>2. Mirrors(i, entries, rows)
  BY DEF EraseIndex, WalkInvariant, Expected
<1>3. /\ entries \in EntryMap
      /\ rows \in [PrimaryKey -> Row \cup {NoRow}]
  BY DEF TypeOK, RowMap
<1>4. QED
  BY <1>1, <1>2, <1>3, NoKeyAssumption
  DEF EraseIndex, Mirrors, kv_erase, EntryMap

(* Every step keeps each index wholly before or wholly after the call.     *)
LEMMA WalkNext == TypeOK /\ WalkInvariant /\ [Next]_vars => WalkInvariant'
<1> SUFFICES ASSUME TypeOK, WalkInvariant, [Next]_vars
             PROVE  WalkInvariant'
  OBVIOUS
<1>1. ASSUME NEW v \in Row, PutBegin(v)
      PROVE  WalkInvariant'
  BY <1>1 DEF PutBegin, WalkInvariant, Mirrors, Expected, kv_get
<1>2. ASSUME NEW v \in Row, EraseAbsent(v)
      PROVE  WalkInvariant'
  BY <1>2 DEF EraseAbsent, Return, WalkInvariant, Mirrors, Expected
<1>3. ASSUME NEW i \in Index, PutIndex(i)
      PROVE  WalkInvariant'
  <2>1. /\ op = "put" /\ op' = "put" /\ todo' = todo \ {i}
        /\ UNCHANGED <<rows, saved, arg, old>>
    BY <1>3 DEF PutIndex
  <2>2. ASSUME NEW j \in Index
        PROVE  Mirrors(j, entries', Expected(j)')
    <3>1. CASE j = i
      BY <1>3, <2>1, <3>1, PutWritesEntry DEF Expected
    <3>2. CASE j # i
      <4>1. Expected(j)' = Expected(j) /\ entries'[j] = entries[j]
        BY <1>3, <2>1, <3>2, PutLeavesOthers DEF Expected
      <4>2. QED
        BY <4>1 DEF WalkInvariant, Mirrors
    <3>3. QED
      BY <3>1, <3>2
  <2>3. QED
    BY <2>1, <2>2 DEF WalkInvariant, Mirrors
<1>4. ASSUME NEW i \in Index, PutDuplicate(i)
      PROVE  WalkInvariant'
  BY <1>4, WalkRollback DEF PutDuplicate
<1>5. ASSUME NEW i \in Index, EraseIndex(i)
      PROVE  WalkInvariant'
  <2>1. /\ op = "erase" /\ op' = "erase" /\ todo' = todo \ {i}
        /\ UNCHANGED <<rows, saved, arg, old>>
    BY <1>5 DEF EraseIndex
  <2>2. ASSUME NEW j \in Index
        PROVE  Mirrors(j, entries', Expected(j)')
    <3>1. CASE j = i
      BY <1>5, <2>1, <3>1, EraseWritesEntry DEF Expected
    <3>2. CASE j # i
      <4>1. Expected(j)' = Expected(j) /\ entries'[j] = entries[j]
        BY <1>5, <2>1, <3>2, EraseWritesEntry DEF Expected
      <4>2. QED
        BY <4>1 DEF WalkInvariant, Mirrors
    <3>3. QED
      BY <3>1, <3>2
  <2>3. QED
    BY <2>1, <2>2 DEF WalkInvariant, Mirrors
<1>6. CASE PutFinish
  <2>1. \A i \in Index : Expected(i) = rows'
    BY <1>6 DEF PutFinish, Expected, kv_set
  <2>2. \A i \in Index : Mirrors(i, entries, rows')
    BY <2>1 DEF WalkInvariant
  <2>3. op' = "none" /\ UNCHANGED <<entries, saved>>
    BY <1>6 DEF PutFinish, Return
  <2>4. QED
    BY <2>2, <2>3 DEF WalkInvariant, Mirrors, Expected
<1>7. CASE EraseFinish
  <2>1. \A i \in Index : Expected(i) = rows'
    BY <1>7 DEF EraseFinish, Expected, kv_erase
  <2>2. \A i \in Index : Mirrors(i, entries, rows')
    BY <2>1 DEF WalkInvariant
  <2>3. op' = "none" /\ UNCHANGED <<entries, saved>>
    BY <1>7 DEF EraseFinish, Return
  <2>4. QED
    BY <2>2, <2>3 DEF WalkInvariant, Mirrors, Expected
<1>8. ASSUME NEW p \in PrimaryKey, Get(p)
      PROVE  WalkInvariant'
  BY <1>8 DEF Get, WalkInvariant, Mirrors, Expected
<1>9. ASSUME NEW i \in Index, NEW k \in SecondaryKey, GetBy(i, k)
      PROVE  WalkInvariant'
  <2>1. CASE UNCHANGED <<rows, entries, saved, op, arg, old, todo>>
    BY <2>1 DEF WalkInvariant, Mirrors, Expected
  <2>2. CASE Rollback(Answer("failure getting primary key", NoRow))
    BY <2>2, WalkRollback
  <2>3. QED
    BY <1>9, <2>1, <2>2 DEF GetBy
<1>10. CASE Commit
  BY <1>10 DEF Commit, WalkInvariant, Mirrors, Expected
<1>11. CASE Abort
  BY <1>11, WalkRollback DEF Abort
<1>12. ASSUME NEW v \in Row, v = rows[v.pk], EraseBegin(v)
       PROVE  WalkInvariant'
  BY <1>12 DEF EraseBegin, WalkInvariant, Mirrors, Expected
<1>13. CASE UNCHANGED vars
  BY <1>13 DEF vars, WalkInvariant, Mirrors, Expected
<1>14. QED
  BY <1>1, <1>2, <1>3, <1>4, <1>5, <1>6, <1>7, <1>8, <1>9, <1>10, <1>11,
     <1>12, <1>13 DEF Next, Step

(* At every write of put and erase each secondary index is wholly before   *)
(* or wholly after the call, and a rollback at that moment restores a      *)
(* consistent state (kv.hpp:95-119, 141-146).                              *)
THEOREM WalkCorrect == Spec => []WalkInvariant
<1>1. TypeOK /\ [Next]_vars => TypeOK'
  BY TypeNext
<1>2. QED
  BY TypeInit, WalkInit, <1>1, WalkNext, PTL DEF Spec

(* Between two calls every secondary index mirrors the table, for any      *)
(* number of rows, indices and keys (kv.hpp:75-147).                       *)
THEOREM IndicesCorrect == Spec => []IndicesMirrorRows
<1>1. WalkInvariant => IndicesMirrorRows
  BY DEF WalkInvariant, IndicesMirrorRows, Expected
<1>2. QED
  BY WalkCorrect, <1>1, PTL

-----------------------------------------------------------------------------
(* A put that fails its check really collides with another row.            *)
LEMMA DuplicateIsConflict ==
  ASSUME TypeOK, WalkInvariant, NEW i \in Index, PutDuplicate(i)
  PROVE  arg \in Row /\ Promised!Reject(arg)
<1> DEFINE p == Holder(i)
<1>1. /\ arg \in Row /\ arg.pk \in PrimaryKey
      /\ arg.sec[i] \in SecondaryKey
      /\ old = rows[arg.pk]
  BY RowFields DEF PutDuplicate, TypeOK, WalkInvariant
<1>2. p \in PrimaryKey /\ p = entries[i][arg.sec[i]]
  BY <1>1 DEF PutDuplicate, Holder, kv_get, TypeOK, EntryMap
<1>3. rows[p] # NoRow /\ rows[p].sec[i] = arg.sec[i]
  <2>1. Mirrors(i, entries, rows)
    BY DEF PutDuplicate, WalkInvariant, Expected
  <2>2. QED
    BY <1>1, <1>2, <2>1 DEF Mirrors
<1>4. p # arg.pk
  BY <1>1, <1>3 DEF PutDuplicate
<1>5. Promised!Conflicts(arg)
  BY <1>2, <1>3, <1>4 DEF Promised!Conflicts, Promised!Stored
<1>6. QED
  BY <1>1, <1>5
  DEF PutDuplicate, Rollback, Return, Answer, Promised!Reject,
      Promised!Answer

(* A put that gets as far as storing the row collides with no other row.   *)
LEMMA FinishedPutIsUnique ==
  ASSUME TypeOK, WalkInvariant, PutFinish
  PROVE  arg \in Row /\ Promised!Put(arg)
<1>1. arg \in Row /\ arg.pk \in PrimaryKey /\ arg # NoRow
  BY RowFields DEF PutFinish, TypeOK
<1>2. ~Promised!Conflicts(arg)
  <2> SUFFICES ASSUME NEW p \in PrimaryKey \ {arg.pk}, NEW i \in Index,
                      rows[p] # NoRow, rows[p].sec[i] = arg.sec[i]
               PROVE  FALSE
    BY DEF Promised!Conflicts, Promised!Stored
  <2> DEFINE after == [rows EXCEPT ![arg.pk] = arg]
  <2>1. Mirrors(i, entries, after)
    BY DEF PutFinish, WalkInvariant, Expected
  <2>2. rows \in [PrimaryKey -> Row \cup {NoRow}]
    BY DEF TypeOK, RowMap
  <2>3. after[p] = rows[p] /\ after[arg.pk] = arg
    BY <1>1, <2>2
  <2>4. arg.sec[i] \in SecondaryKey
    BY <1>1, RowFields
  <2> HIDE DEF after
  <2>5. entries[i][arg.sec[i]] = p /\ entries[i][arg.sec[i]] = arg.pk
    BY <1>1, <2>1, <2>3, <2>4 DEF Mirrors
  <2>6. QED
    BY <2>5
<1>3. QED
  BY <1>1, <1>2
  DEF PutFinish, Return, Answer, kv_set, Promised!Put, Promised!Answer

(* A lookup by secondary key answers what the table promises and never     *)
(* meets an entry without a row.                                           *)
LEMMA LookupIsExact ==
  ASSUME TypeOK, WalkInvariant,
         NEW i \in Index, NEW k \in SecondaryKey, GetBy(i, k)
  PROVE  Promised!FindBy(i, k)
<1> DEFINE p == entries[i][k]
<1>1. op = "none" /\ p \in PrimaryKey \cup {NoKey}
  BY DEF GetBy, TypeOK, EntryMap
<1>2. Mirrors(i, entries, rows)
  BY <1>1 DEF WalkInvariant, Expected
<1>3. CASE p = NoKey
  <2>1. \A q \in PrimaryKey : rows[q] # NoRow => rows[q].sec[i] # k
    BY <1>2, <1>3, NoKeyAssumption DEF Mirrors
  <2>2. reply' = Answer("found", NoRow) /\ UNCHANGED <<rows, saved>>
    BY <1>3 DEF GetBy, kv_get
  <2>3. QED
    BY <2>1, <2>2 DEF Promised!FindBy, Promised!Stored, Answer,
                      Promised!Answer
<1>4. CASE p # NoKey
  <2>1. p \in PrimaryKey /\ rows[p] # NoRow /\ rows[p].sec[i] = k
    BY <1>1, <1>2, <1>4 DEF Mirrors
  <2>2. reply' = Answer("found", rows[p]) /\ UNCHANGED <<rows, saved>>
    BY <1>4, <2>1 DEF GetBy, kv_get
  <2>3. QED
    BY <2>1, <2>2 DEF Promised!FindBy, Promised!Stored, Answer,
                      Promised!Answer
<1>5. QED
  BY <1>3, <1>4

(* Every step of the table is a step of TableSpec or invisible to it.      *)
LEMMA StepSimulation ==
  TypeOK /\ WalkInvariant /\ [Next]_vars => [Promised!Next]_(Promised!vars)
<1> SUFFICES ASSUME TypeOK, WalkInvariant, [Next]_vars
             PROVE  Promised!Next \/ UNCHANGED Promised!vars
  OBVIOUS
<1>0. rows \in [PrimaryKey -> Row \cup {NoRow}] /\ Promised!Row = Row
  BY DEF TypeOK, RowMap, Promised!Row, Row
<1>1. ASSUME NEW v \in Row, PutBegin(v)
      PROVE  UNCHANGED Promised!vars
  BY <1>1 DEF PutBegin, Promised!vars
<1>2. ASSUME NEW v \in Row, EraseAbsent(v)
      PROVE  Promised!Next
  <2>1. Promised!Erase(v.pk)
    BY <1>0, <1>2, RowFields
    DEF EraseAbsent, Return, kv_get, Answer, Promised!Erase, Promised!Answer
  <2>2. QED
    BY <2>1, RowFields DEF Promised!Next
<1>3. ASSUME NEW i \in Index, PutIndex(i)
      PROVE  UNCHANGED Promised!vars
  BY <1>3 DEF PutIndex, Promised!vars
<1>4. ASSUME NEW i \in Index, PutDuplicate(i)
      PROVE  Promised!Next
  BY <1>0, <1>4, DuplicateIsConflict DEF Promised!Next
<1>5. ASSUME NEW i \in Index, EraseIndex(i)
      PROVE  UNCHANGED Promised!vars
  BY <1>5 DEF EraseIndex, Promised!vars
<1>6. CASE PutFinish
  BY <1>0, <1>6, FinishedPutIsUnique DEF Promised!Next
<1>7. CASE EraseFinish
  <2>1. arg.pk \in PrimaryKey
    BY <1>7, RowFields DEF EraseFinish, TypeOK
  <2>2. Promised!Erase(arg.pk)
    BY <1>7 DEF EraseFinish, Return, kv_erase, Answer, Promised!Erase,
                Promised!Answer
  <2>3. QED
    BY <2>1, <2>2 DEF Promised!Next
<1>8. ASSUME NEW p \in PrimaryKey, Get(p)
      PROVE  Promised!Next
  <2>1. Promised!Find(p)
    BY <1>8 DEF Get, kv_get, Answer, Promised!Find, Promised!Answer
  <2>2. QED
    BY <2>1 DEF Promised!Next
<1>9. ASSUME NEW i \in Index, NEW k \in SecondaryKey, GetBy(i, k)
      PROVE  Promised!Next
  BY <1>9, LookupIsExact DEF Promised!Next
<1>10. CASE Commit
  BY <1>10 DEF Commit, Silent, Answer, Promised!Commit, Promised!Silent,
               Promised!Answer, Promised!Next
<1>11. CASE Abort
  BY <1>11 DEF Abort, Rollback, Return, Silent, Answer, Promised!Abort,
               Promised!Silent, Promised!Answer, Promised!Next
<1>12. ASSUME NEW v \in Row, EraseBegin(v)
       PROVE  UNCHANGED Promised!vars
  BY <1>12 DEF EraseBegin, Promised!vars
<1>13. CASE UNCHANGED vars
  BY <1>13 DEF vars, Promised!vars
<1>14. QED
  BY <1>1, <1>2, <1>3, <1>4, <1>5, <1>6, <1>7, <1>8, <1>9, <1>10, <1>11,
     <1>12, <1>13 DEF Next, Step

(* The table implements TableSpec: put is atomic and refused exactly for a *)
(* secondary key owned by another row, lookups by secondary key answer     *)
(* exactly the row that has it, rollback restores the committed rows       *)
(* (kv.hpp:75-176).                                                        *)
THEOREM Refinement == Spec => ImplementsTableSpec
<1>1. Init => Promised!Init
  BY DEF Init, Silent, Answer, Promised!Init, Promised!Silent,
         Promised!Answer
<1>2. QED
  BY <1>1, TypeCorrect, WalkCorrect, StepSimulation, PTL
  DEF Spec, ImplementsTableSpec, Promised!Spec
=============================================================================
