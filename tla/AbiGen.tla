------------------------------- MODULE AbiGen -------------------------------
(***************************************************************************)
(* The ABI generator of one translation unit (plugins/eosio/abigen.hpp):   *)
(* the walk over the declarations of a unit, the walk over the types they  *)
(* mention, which skips what was evaluated before, and the description     *)
(* that is written in the end, without the definitions nothing refers to.  *)
(*                                                                         *)
(* A step visits one declaration, or takes one entry of the stack of       *)
(* recursive calls: a type to add, or a definition to insert once the      *)
(* types it mentions have been added.                                      *)
(***************************************************************************)
EXTENDS AbiTypes, FiniteSets

CONSTANTS
  Fields,     \* the types of the fields of each record
  Labels,     \* the names of the fields of each record
  Base,       \* for each record its base, a type, or NoBase
  Underlying, \* the integer type of each enumeration
  Contracts,  \* the ricardian contract of each action that has one
  Reserved,   \* the contract's names with two underscores side by side
  MaxStack    \* the calls of add_type the compiler's stack has room for

(* The version the tool asks for, 1.3, is 1.2 when it has gone through a   *)
(* float: 0.3 * 10 is cut off to 2.                                        *)
version == 12

NoBase == <<"builtin", "">>
Void == <<"builtin", "void">>

VARIABLES
  source,     \* the declarations of the unit
  decls,      \* the declarations still to visit
  stack,      \* the recursion of add_type: what is still to be done
  evaluated,  \* the types add_type has seen
  parsed,     \* the records whose get_type_name was visited
  abi,        \* the definitions collected
  ctables,    \* the tables declared by an attribute only
  walk        \* "idle", "on", "exit" on an error, "crash", "off" at the end

genVars == <<source, decls, stack, evaluated, parsed, abi, ctables, walk>>

Kinds == {"structs", "typedefs", "variants", "actions", "results", "tables",
          "kv_tables"}
EmptyAbi == [kind \in Kinds |-> {}]

(* The sets are ordered by name: what has the name of another element is   *)
(* not inserted.                                                           *)
InsertInto(S, d) == IF \E e \in S : e.name = d.name THEN S ELSE S \cup {d}

TypeTask(t) == [kind |-> "type", type |-> t]
TypeTasks(ts) == [i \in DOMAIN ts |-> TypeTask(ts[i])]
Define(kind, def) == [kind |-> kind, def |-> def]

Typedef(name, type) == Define("typedefs", [name |-> name, type |-> type])
Struct(name, base, labels, fields) ==
  Define("structs", [name |-> name, base |-> base, labels |-> labels,
                     fields |-> fields])

Names(ts) == [i \in DOMAIN ts |-> get_type(parsed, ts[i])]
Translated(ts) == [i \in DOMAIN ts |-> translate_type(parsed, ts[i])]

-----------------------------------------------------------------------------
(* add_type: what is to be done for a type that was not evaluated yet.     *)

(* A container gets an alias for its element if that has a name with       *)
(* special characters, and one for itself if its name does not end in one: *)
(* what is in two ignores gets an alias of itself.                         *)
add_contained(t, name) ==
  LET names == get_type_strings(parsed, t[2]) IN
  (IF names[1] # names[2] THEN <<Typedef(names[2], names[1])>> ELSE <<>>)
  \o <<TypeTask(t[2])>>
  \o (IF EndsInSuffix(name) THEN <<>>
      ELSE <<Typedef(name, get_type_strings(parsed, t)[1])>>)

add_struct(r, name) ==
  (IF Base[r] = NoBase THEN <<>> ELSE <<TypeTask(Base[r])>>)
  \o TypeTasks(Fields[r])
  \o <<Struct(name, IF Base[r] = NoBase THEN NoBase ELSE get_type(parsed, Base[r]),
              Labels[r], Names(Fields[r]))>>

(* add_pair, add_map and add_tuple.                                        *)
add_pair(t, name) ==
  TypeTasks(Tail(t))
  \o <<Struct(name, NoBase, [i \in 1..Len(Tail(t)) |-> i], Translated(Tail(t)))>>

add_variant(t, name) ==
  TypeTasks(Tail(t))
  \o <<Define("variants", [name |-> name, types |-> Translated(Tail(t))])>>

add_typedef(t) ==
  LET aliased == Aliased[t[2]]
      type == translate_type(parsed, aliased)
  IN (IF is_builtin_type(type) THEN <<>> ELSE <<TypeTask(aliased)>>)
     \o <<Typedef(translate_type(parsed, t), type)>>

(* add_enum                                                                *)
add_enum(t) ==
  <<Typedef(get_base_type_name(t[2]),
            translate_type(parsed, Underlying[Canonical(t)[2]]))>>

(* What is neither a class template nor an alias with a name of its own.   *)
add_plain(t, name) ==
  CASE Canonical(t)[1] = "record" -> add_struct(Canonical(t)[2], name)
    [] Canonical(t)[1] = "enum" -> add_enum(t)
    [] OTHER -> <<>>

add_type(t) ==
  LET n == translate_type(parsed, t) IN
  CASE is_builtin_type(n) -> <<>>
    [] ~is_builtin_type(n) /\ t[1] \in OneArg -> add_contained(t, n)
    [] t[1] = "map" -> add_pair(t, n[2])
    [] t[1] \in {"pair", "tuple"} -> add_pair(t, n)
    [] t[1] = "variant" -> add_variant(t, n)
    [] t[1] = "box" -> <<TypeTask(t[2]), Struct(n, NoBase, <<1>>, Names(Tail(t)))>>
    [] t[1] = "alias" /\ is_aliasing(parsed, t) -> add_typedef(t)
    [] t[1] = "alias" /\ ~is_aliasing(parsed, t) -> add_plain(t, n)
    [] t[1] \in {"record", "enum"} -> add_plain(t, n)
    [] t[1] = "pb" -> <<>>

-----------------------------------------------------------------------------
(* What a declaration asks for.                                            *)

(* get_action_type: an action with one argument of a protobuf type.        *)
get_action_type(d) ==
  IF Len(d.params) = 1 /\ d.params[1][1] = "pb"
  THEN <<"protobuf::", d.params[1][2]>> ELSE <<"name", d.name>>

rcs(action) == IF action \in DOMAIN Contracts THEN Contracts[action] ELSE ""
abi_action(name, type) ==
  Define("actions", [name |-> name, type |-> type, ricardian_contract |-> rcs(name)])

add_action(d) ==
  <<abi_action(d.action, get_action_type(d))>>
  \o (IF d.result = Void THEN <<>>
      ELSE <<TypeTask(d.result),
             Define("results", [name |-> d.action,
                                type |-> translate_type(parsed, d.result)])>>)

(* VisitCXXMethodDecl, of an action of this contract.                      *)
VisitMethod(d) ==
  TypeTasks(d.params)
  \o <<Struct(<<"name", d.name>>, NoBase, d.labels, Names(d.params))>>
  \o add_action(d) \o TypeTasks(d.params)

(* VisitCXXRecordDecl, of a record that is an action or a table.           *)
VisitRecord(d) ==
  add_struct(d.record, get_base_type_name(d.record))
  \o (IF d.action = "" THEN <<>>
      ELSE <<abi_action(d.action, get_base_type_name(d.record))>>)
  \o TypeTasks(Fields[d.record])

(* add_kv_table, and add_kv_caching_singleton, which has no indices.       *)
VisitKv(d) ==
  <<TypeTask(<<"record", d.record>>)>> \o TypeTasks(d.keys)
  \o <<Define("kv_tables", [name |-> d.table, type |-> get_base_type_name(d.record),
                            indices |-> Names(d.keys)])>>

(* The table's name must not be in use with another type.                  *)
KvClash(d) ==
  /\ d.kind = "kv"
  /\ \E k \in abi.kv_tables :
       k.name = d.table /\ k.type # get_base_type_name(d.record)

(* add_kv_map: only the value's type is added, not the key's.              *)
VisitKvMap(d) ==
  <<TypeTask(d.value),
    Define("kv_tables", [name |-> d.table, type |-> translate_type(parsed, d.value),
                         indices |-> Translated(d.keys)])>>

-----------------------------------------------------------------------------
(* to_json: the tables of both kinds, and the definitions referred to.     *)

(* A multi_index wins over the attribute of its record.                    *)
SetOfTables ==
  abi.tables \cup {t \in ctables :
                    \A u \in abi.tables : u.type # t.type /\ u.name # t.name}

AllTables == SetOfTables \cup abi.kv_tables

FieldTypes(S) == UNION {{s.fields[i] : i \in DOMAIN s.fields} : s \in S}
VariantTypes == UNION {{v.types[i] : i \in DOMAIN v.types} : v \in abi.variants}
IndexTypes ==
  UNION {{k.indices[i] : i \in DOMAIN k.indices} : k \in abi.kv_tables}
TypesOf(S) == {d.type : d \in S}
Plain(S) == {remove_suffix(n) : n \in S}

AliasOf(n) == {d \in abi.typedefs : d.name = remove_suffix(n)}

(* get_root_name: what an alias in the end stands for.  The search does    *)
(* not end for a record that is an alias of itself.                        *)
RECURSIVE get_root_name(_)
get_root_name(n) ==
  LET types == {d.type : d \in AliasOf(n)} IN
  IF types = {} \/ n \in types THEN n
  ELSE get_root_name(CHOOSE type \in types : TRUE)

RootLoops(r) == [name |-> get_root_name(r.base), type |-> get_root_name(r.base)]
                  \in abi.typedefs

(* A name with two underscores side by side, that of a template with such  *)
(* an argument, too.  Names that begin or end with one, which would meet   *)
(* the one that joins it to another, are left out.                         *)
RECURSIVE is_reserved(_)
is_reserved(n) ==
  IF n[1] \in {"builtin", "protobuf::"} THEN FALSE
  ELSE IF n[1] = "name" THEN n[2] \in Reserved
  ELSE \E i \in 2..Len(n) : is_reserved(n[i])

(* Mutant: bases are not looked at.                                        *)
validate_structNoBase(s) ==
  /\ ~is_builtin_type(s.name) /\ ~is_reserved(s.name)
  /\ s.name \in Plain(FieldTypes(abi.structs)) \cup Plain(VariantTypes)
            \cup TypesOf(abi.actions) \cup TypesOf(AllTables)
            \cup Plain(TypesOf(abi.typedefs)) \cup TypesOf(abi.results)
            \cup IndexTypes

(* A struct that something refers to, if its name is the contract's own.   *)
validate_struct(s) ==
  /\ ~is_builtin_type(s.name) /\ ~is_reserved(s.name)
  /\ s.name \in Plain(FieldTypes(abi.structs)) \cup Plain(VariantTypes)
            \cup {get_root_name(r.base) : r \in abi.structs}
            \cup TypesOf(abi.actions) \cup TypesOf(AllTables)
            \cup Plain(TypesOf(abi.typedefs)) \cup TypesOf(abi.results)
            \cup IndexTypes

Structs == {s \in abi.structs : validate_struct(s)}

(* An alias that something refers to; tables by attribute are not asked.   *)
validate_types(d) ==
  /\ d.name # d.type
  /\ d.name \in Plain(FieldTypes(Structs)) \cup {s.base : s \in Structs}
               \cup Plain(VariantTypes) \cup TypesOf(abi.tables)
               \cup TypesOf(abi.actions) \cup Plain(TypesOf(abi.typedefs))
               \cup TypesOf(abi.results) \cup TypesOf(abi.kv_tables)
               \cup IndexTypes

(* is_empty: nothing is written then, whatever else was collected.         *)
is_empty ==
  /\ abi.structs = {} /\ abi.typedefs = {} /\ abi.actions = {}
  /\ SetOfTables = {} /\ abi.variants = {}

table_to_json(t) ==
  [name |-> t.name, type |-> t.type,
   index_type |-> "i64", key_names |-> <<>>, key_types |-> <<>>]

to_json ==
  [version |-> version,
   structs |-> Structs, typedefs |-> {d \in abi.typedefs : validate_types(d)},
   variants |-> abi.variants, actions |-> abi.actions,
   tables |-> {table_to_json(t) : t \in SetOfTables},
   kv_tables |-> IF version >= 12 THEN abi.kv_tables ELSE {},
   results |-> IF version >= 12 THEN abi.results ELSE {}]

-----------------------------------------------------------------------------
Idle ==
  /\ source = <<>> /\ decls = <<>> /\ stack = <<>>
  /\ evaluated = {} /\ parsed = {}
  /\ abi = EmptyAbi /\ ctables = {}
  /\ walk = "idle"

(* Every unit is a run of the compiler of its own.                         *)
Start(unit) ==
  /\ source' = unit /\ decls' = unit /\ stack' = <<>>
  /\ evaluated' = {} /\ parsed' = {}
  /\ abi' = EmptyAbi /\ ctables' = {}
  /\ walk' = "on"

(* The visitor goes on to the next declaration.                            *)
Visit ==
  LET d == Head(decls) IN
  /\ walk = "on" /\ stack = <<>> /\ decls # <<>>
  /\ decls' = Tail(decls)
  /\ stack' = CASE d.kind = "method" -> VisitMethod(d)
                [] d.kind = "record" -> VisitRecord(d)
                [] d.kind = "kv" -> VisitKv(d)
                [] d.kind = "kv_map" -> VisitKvMap(d)
                [] OTHER -> <<>>
  /\ parsed' = IF d.kind = "get_type_name" THEN parsed \cup {d.record} ELSE parsed
  /\ ctables' = IF d.kind = "record" /\ d.table # ""
                THEN InsertInto(ctables, [name |-> d.table, type |-> get_base_type_name(d.record)])
                ELSE ctables
  /\ abi' = IF d.kind = "multi_index"
            THEN [abi EXCEPT !.tables =
                    InsertInto(@, [name |-> d.table, type |-> get_base_type_name(d.record)])]
            ELSE abi
  /\ walk' = IF KvClash(d) THEN "exit" ELSE "on"
  /\ UNCHANGED <<source, evaluated>>

(* Mutant: a type is looked at again whenever it is met.                   *)
EvaluatedNever(t) == FALSE

(* A type is looked at once.                                               *)
Evaluated(t) == t \in evaluated

(* One call of add_type.                                                   *)
AddType ==
  LET t == Head(stack).type IN
  /\ walk = "on" /\ stack # <<>> /\ Head(stack).kind = "type"
  /\ evaluated' = evaluated \cup {t}
  /\ stack' = (IF Evaluated(t) THEN <<>> ELSE add_type(get_ignored_type(t)))
              \o Tail(stack)
  /\ walk' = IF Len(stack) > MaxStack THEN "crash" ELSE "on"
  /\ UNCHANGED <<source, decls, parsed, abi, ctables>>

(* One definition inserted.                                                *)
Insert ==
  LET kind == Head(stack).kind IN
  /\ walk = "on" /\ stack # <<>> /\ kind # "type"
  /\ abi' = [abi EXCEPT ![kind] = InsertInto(@, Head(stack).def)]
  /\ stack' = Tail(stack)
  /\ UNCHANGED <<source, decls, evaluated, parsed, ctables, walk>>

(* The end of the unit.  The structs are validated, and with each of them  *)
(* the base of every other, before anything is written.                    *)
Finish ==
  /\ walk = "on" /\ stack = <<>> /\ decls = <<>>
  /\ walk' = IF \E r \in abi.structs : RootLoops(r) THEN "crash" ELSE "off"
  /\ UNCHANGED <<source, decls, stack, evaluated, parsed, abi, ctables>>

Walk == Visit \/ AddType \/ Insert \/ Finish

-----------------------------------------------------------------------------
(* What the ABI must say: the bytes of a value, to a depth.                *)

Depths == 0..4
Deeper == <<"...">>

(* A record with a reserved name, its like, and one that stands for the    *)
(* arguments of an action are nowhere defined: what refers to them is left *)
(* without a meaning, and the property only asks for the rest.             *)
IsReserved(t) ==
  /\ t[1] \in {"record", "pair", "tuple", "box"}
  /\ is_reserved(get_type_strings(parsed, t)[1])

(* The fields of a record, those of its bases first.                       *)
RECURSIVE AllFields(_)
AllFields(r) ==
  (IF Base[r] = NoBase THEN <<>>
   ELSE IF IsReserved(Canonical(Base[r])) THEN <<Canonical(Base[r])>>
   ELSE AllFields(Canonical(Base[r])[2])) \o Fields[r]

(* How the contract packs a value of type t.                               *)
RECURSIVE Packed(_, _)
PackedAll(ts, k) == [i \in DOMAIN ts |-> Packed(ts[i], k)]
Packed(t, k) ==
  IF t[1] = "builtin" THEN t
  ELSE IF t[1] = "alias" THEN Packed(Aliased[t[2]], k)
  ELSE IF t[1] = "enum" THEN Underlying[t[2]]
  ELSE IF t[1] = "ignore" THEN Packed(t[2], k)
  ELSE IF k = 0 THEN Deeper
  ELSE CASE IsReserved(t) -> <<"undefined">>
         [] t[1] = "record" -> <<"fields">> \o PackedAll(AllFields(t[2]), k - 1)
         [] t[1] \in {"pair", "tuple", "box"} ->
              <<"fields">> \o PackedAll(Tail(t), k - 1)
         [] t[1] = "map" -> <<"list", Packed(<<"pair", t[2], t[3]>>, k - 1)>>
         [] t[1] = "vector" -> <<"list", Packed(t[2], k - 1)>>
         [] t[1] = "variant" -> <<"one of">> \o PackedAll(Tail(t), k - 1)
         [] t[1] = "pb" -> t
         [] OTHER -> <<t[1], Packed(t[2], k - 1)>>

(* How a client packs a value of the type that has this name in the ABI.   *)
Named(S, n) == {d \in S : d.name = n}
RECURSIVE Described(_, _, _)
RECURSIVE DescribedFields(_, _, _)
DescribedAll(out, ns, k) == [i \in DOMAIN ns |-> Described(out, ns[i], k)]
DescribedFields(out, s, k) ==
  LET base == IF Named(out.typedefs, s.base) = {} THEN s.base
              ELSE (CHOOSE d \in Named(out.typedefs, s.base) : TRUE).type
  IN (IF base = NoBase THEN <<>>
      ELSE IF Named(out.structs, base) = {} THEN <<<<"undefined">>>>
      ELSE DescribedFields(out, CHOOSE b \in Named(out.structs, base) : TRUE, k))
     \o DescribedAll(out, s.fields, k)
Described(out, n, k) ==
  IF is_builtin_type(n) /\ n # Builtin("bytes") THEN n
  ELSE IF Named(out.typedefs, n) # {}
       THEN Described(out, (CHOOSE d \in Named(out.typedefs, n) : TRUE).type, k)
  ELSE IF k = 0 THEN Deeper
  ELSE CASE n = Builtin("bytes") -> <<"list", Builtin(Byte)>>
         [] n[1] = "[]" -> <<"list", Described(out, n[2], k - 1)>>
         [] n[1] = "[n]" -> <<"array", Described(out, n[2], k - 1)>>
         [] n[1] = "?" -> <<"optional", Described(out, n[2], k - 1)>>
         [] n[1] = "$" -> <<"extension", Described(out, n[2], k - 1)>>
         [] n[1] = "protobuf::" -> <<"pb", n[2]>>
         [] OTHER ->
              IF Named(out.structs, n) # {}
              THEN <<"fields">> \o DescribedFields(out,
                                  CHOOSE s \in Named(out.structs, n) : TRUE, k - 1)
              ELSE IF Named(out.variants, n) # {}
              THEN <<"one of">> \o DescribedAll(out,
                       (CHOOSE v \in Named(out.variants, n) : TRUE).types, k - 1)
              ELSE <<"undefined">>

Says(n, t) ==
  \A k \in Depths : Described(to_json, n, k) = Packed(t, k)

(* How the contract packs the arguments of an action, likewise.            *)
Arguments(d, k) ==
  IF Len(d.params) = 1 /\ d.params[1][1] = "pb" THEN d.params[1]
  ELSE IF d.name \in Reserved THEN <<"undefined">>
  ELSE <<"fields">> \o PackedAll(d.params, k - 1)

Unit(kind) == {d \in {source[i] : i \in DOMAIN source} : d.kind = kind}
TypeNamed(S, name) == CHOOSE n \in TypesOf(S) : \E d \in Named(S, name) : d.type = n

(* Whoever packs the arguments of an action, or unpacks a row of a table,  *)
(* by the ABI alone does it as the contract does: every type the ABI       *)
(* mentions is defined in it, and as it is in the program, unless its name *)
(* is reserved (abigen.hpp:161-234, 481-529, 767-843, 885-887, 1071-1249). *)
ArgumentsAndRowsAreDescribed ==
  walk = "off" =>
    /\ \A d \in Unit("method") :
         Described(to_json, TypeNamed(abi.actions, d.action), 4) = Arguments(d, 4)
    /\ \A d \in Unit("multi_index") :
         Says(TypeNamed(to_json.tables, d.table), <<"record", d.record>>)
    /\ \A d \in Unit("record") :
         \/ d.table = ""
         \/ \E m \in Unit("multi_index") : m.record = d.record
         \/ Says(TypeNamed(to_json.tables, d.table), <<"record", d.record>>)
    /\ \A d \in Unit("kv") :
         Says(TypeNamed(abi.kv_tables, d.table), <<"record", d.record>>)

(* So does whoever unpacks what an action returns                          *)
(* (abigen.hpp:155-158, 1150-1153).                                        *)
ResultsAreDescribed ==
  walk = "off" =>
    \A d \in Unit("method") :
      d.result # Void => Says(TypeNamed(abi.results, d.action), d.result)

(* Arguments, rows and results: the description of a unit is all one needs *)
(* to talk to what is in it.                                               *)
AbiDescribesUnit == ArgumentsAndRowsAreDescribed /\ ResultsAreDescribed

=============================================================================
