------------------------------ MODULE AbiMerge ------------------------------
(***************************************************************************)
(* Merging the ABIs of two translation units                               *)
(* (tools/include/eosio/abimerge.hpp).  An ABI is a record of sets of      *)
(* definitions, one for each kind, in which no two definitions have the    *)
(* same name, and its version, in tenths.  Ricardian clauses are left out. *)
(***************************************************************************)
EXTENDS Integers, Sequences, FiniteSets

(* A field of a struct, with the name it has there.                        *)
FieldsOf(s) == {<<s.labels[i], s.fields[i]>> : i \in DOMAIN s.fields}

(* Mutant: the number of fields is not compared.                           *)
struct_is_samePrefix(a, b) ==
  a.name = b.name /\ a.base = b.base /\ FieldsOf(a) \subseteq FieldsOf(b)

(* Fields are compared in any order.                                       *)
struct_is_same(a, b) ==
  /\ a.name = b.name /\ a.base = b.base
  /\ Len(a.fields) = Len(b.fields)
  /\ FieldsOf(a) \subseteq FieldsOf(b)

(* Every type of the first is one of the second.                           *)
variant_is_same(a, b) ==
  /\ a.name = b.name
  /\ {a.types[i] : i \in DOMAIN a.types} \subseteq {b.types[i] : i \in DOMAIN b.types}

type_is_same(a, b) == a.name = b.name /\ a.type = b.type
kv_table_is_same(a, b) == type_is_same(a, b) /\ a.indices = b.indices

action_is_same(a, b) ==
  type_is_same(a, b) /\ a.ricardian_contract = b.ricardian_contract
table_is_same(a, b) ==
  /\ type_is_same(a, b) /\ a.index_type = b.index_type
  /\ a.key_names = b.key_names /\ a.key_types = b.key_types

(* action_result_is_same compares a type, like type_is_same.               *)
is_same(kind, a, b) ==
  CASE kind = "structs" -> struct_is_same(a, b)
    [] kind = "variants" -> variant_is_same(a, b)
    [] kind = "actions" -> action_is_same(a, b)
    [] kind = "tables" -> table_is_same(a, b)
    [] kind = "kv_tables" -> kv_table_is_same(a, b)
    [] OTHER -> type_is_same(a, b)

(* add_object_to_array, add_object_to_object: what has the name of another *)
(* definition must be the same, and is left out.                           *)
Malformed(kind, A, B) ==
  \E a \in A, b \in B : a.name = b.name /\ ~is_same(kind, a, b)

add_object(A, B) == A \cup {b \in B : \A a \in A : a.name # b.name}

merge_version(abi, other) ==
  IF abi.version < other.version THEN other.version ELSE abi.version

(* Tables of keys and values, and results, are merged since version 1.2.   *)
Merged(abi, other) ==
  {kind \in DOMAIN other \ {"version"} :
     kind \in {"kv_tables", "results"} => merge_version(abi, other) >= 12}

merge(abi, other) ==
  [kind \in DOMAIN other |->
     IF kind = "version" THEN merge_version(abi, other)
     ELSE IF kind \in Merged(abi, other) THEN add_object(abi[kind], other[kind])
     ELSE {}]

MergeFails(abi, other) ==
  \E kind \in Merged(abi, other) : Malformed(kind, abi[kind], other[kind])
=============================================================================
