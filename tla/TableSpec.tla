------------------------------ MODULE TableSpec ------------------------------
(***************************************************************************)
(* What eosio::kv::table promises a contract: a dictionary of rows keyed   *)
(* by the primary key in which no two rows share a secondary key, changed  *)
(* by put and erase, read by primary or secondary key, inside transactions *)
(* that either commit or leave no trace.                                   *)
(*                                                                         *)
(* Nothing here knows that secondary indices are stored as separate        *)
(* entries of the key-value database: KvTable is shown to implement this   *)
(* module.                                                                 *)
(***************************************************************************)
CONSTANTS
  PrimaryKey,    \* keys of the primary index
  Index,         \* names of the secondary indices
  SecondaryKey,  \* keys of a secondary index
  Payload,       \* the part of a row that no index looks at
  NoRow          \* stands for the absence of a row

VARIABLES
  table,         \* the rows as the running transaction sees them
  committed,     \* the rows as of the last committed transaction
  reply          \* what the last operation answered its caller

vars == <<table, committed, reply>>

Row == [pk : PrimaryKey, sec : [Index -> SecondaryKey], data : Payload]

Answer(kind, row) == [kind |-> kind, row |-> row]
Silent == Answer("none", NoRow)

Stored(p) == table[p] # NoRow

(* Another row than v already owns one of v's secondary keys.              *)
Conflicts(v) ==
  \E p \in PrimaryKey \ {v.pk}, i \in Index :
    Stored(p) /\ table[p].sec[i] = v.sec[i]

Init ==
  /\ table = [p \in PrimaryKey |-> NoRow]
  /\ committed = [p \in PrimaryKey |-> NoRow]
  /\ reply = Silent

Put(v) ==
  /\ ~Conflicts(v)
  /\ table' = [table EXCEPT ![v.pk] = v]
  /\ reply' = Answer("stored", NoRow)
  /\ UNCHANGED committed

(* A put that would break the uniqueness of a secondary key aborts the     *)
(* whole transaction.                                                      *)
Reject(v) ==
  /\ Conflicts(v)
  /\ table' = committed
  /\ reply' = Answer("duplicate", NoRow)
  /\ UNCHANGED committed

Erase(p) ==
  /\ table' = [table EXCEPT ![p] = NoRow]
  /\ reply' = Answer("erased", NoRow)
  /\ UNCHANGED committed

(* A lookup by primary key answers the row stored under it, if any.        *)
Find(p) ==
  /\ reply' = Answer("found", table[p])
  /\ UNCHANGED <<table, committed>>

(* A lookup by secondary key answers the row that has this key.            *)
FindBy(i, k) ==
  /\ \/ \E p \in PrimaryKey :
          /\ Stored(p)
          /\ table[p].sec[i] = k
          /\ reply' = Answer("found", table[p])
     \/ /\ \A p \in PrimaryKey : Stored(p) => table[p].sec[i] # k
        /\ reply' = Answer("found", NoRow)
  /\ UNCHANGED <<table, committed>>

Commit ==
  /\ committed' = table
  /\ reply' = Silent
  /\ UNCHANGED table

Abort ==
  /\ table' = committed
  /\ reply' = Silent
  /\ UNCHANGED committed

Next ==
  \/ \E v \in Row : Put(v) \/ Reject(v)
  \/ \E p \in PrimaryKey : Erase(p) \/ Find(p)
  \/ \E i \in Index, k \in SecondaryKey : FindBy(i, k)
  \/ Commit
  \/ Abort

Spec == Init /\ [][Next]_vars
=============================================================================
