------------------------------ MODULE AbiTypes ------------------------------
(***************************************************************************)
(* How the ABI generator names the C++ types it meets                      *)
(* (plugins/eosio/abigen.hpp).                                             *)
(*                                                                         *)
(* A C++ type is a tuple that starts with its kind: <<"builtin", b>>,      *)
(* <<"record", r>>, <<"alias", a>>, <<"enum", e>>, <<"vector", t>> (any    *)
(* sequence or set), <<"array", t>>, <<"optional", t>>, <<"extension", t>>,*)
(* <<"ignore", t>>, <<"pair", t, u>>, <<"map", t, u>>, <<"tuple", ...>>,   *)
(* <<"variant", ...>>, <<"box", t>> (a class template of the contract),    *)
(* <<"pb", m>>.  The string that names a type in the ABI is a tuple, too:  *)
(* the text around the names it is put together from is its first element. *)
(***************************************************************************)
EXTENDS Integers, Sequences

CONSTANTS
  Aliased,  \* the type each alias of the contract stands for
  BaseName, \* the names of records, aliases and enumerations without namespace
  Byte      \* the builtin type whose sequences are called bytes

Builtin(b) == <<"builtin", b>>
OneArg == {"vector", "array", "optional", "extension", "ignore"}

(* The ABI's own types; a name given by the contract is none of them.      *)
is_builtin_type(n) == n[1] = "builtin"

(* get_base_type_name cuts off the namespaces: two records may share it.   *)
get_base_type_name(r) == <<"name", BaseName[r]>>

(* get_ignored_type: ignore<T> stands for T.                               *)
get_ignored_type(t) == IF t[1] = "ignore" THEN t[2] ELSE t

(* The type an alias ends in.                                              *)
RECURSIVE Canonical(_)
Canonical(t) == IF t[1] = "alias" THEN Canonical(Aliased[t[2]]) ELSE t

(* The last character of a name is one of ] ? $.                           *)
EndsInSuffix(n) == n[1] \in {"[]", "[n]", "?", "$"}

(* remove_suffix cuts off [, ], ? and $: the size of an array stops it.    *)
RECURSIVE remove_suffix(_)
remove_suffix(n) ==
  IF n[1] \in {"[]", "?", "$"} THEN remove_suffix(n[2]) ELSE n

(* parsed holds the records whose get_type_name function was visited: they *)
(* and their aliases go by the name it returns, the name of the record.    *)
Parsed(parsed, t) == Canonical(t)[1] = "record" /\ Canonical(t)[2] \in parsed

RECURSIVE get_type_strings(_, _)

(* get_template_arg_name                                                   *)
Arg(parsed, t, form) ==
  IF Parsed(parsed, t) THEN get_base_type_name(Canonical(t)[2])
  ELSE get_type_strings(parsed, t)[form]

translate_type(parsed, t) == Arg(parsed, t, 1)

(* An element of the name of a tuple or a variant.                         *)
Element(parsed, t) ==
  IF EndsInSuffix(translate_type(parsed, t))
  THEN get_type_strings(parsed, t)[2] ELSE translate_type(parsed, t)

Elements(parsed, t) ==
  [i \in 1..(Len(t) - 1) |-> Element(parsed, t[i + 1])]

(* The name of a type, and the name to embed in other names, which has no  *)
(* special characters.                                                     *)
get_type_strings(parsed, t) ==
  LET arg(i) == Arg(parsed, t[i + 1], 2)
      both(n) == <<n, n>>
  IN CASE t[1] = "builtin" -> both(t)
       [] t[1] \in {"record", "alias", "enum"} -> both(get_base_type_name(t[2]))
       [] t[1] = "ignore" -> both(Arg(parsed, t[2], 1))
       [] t[1] = "vector" /\ arg(1) = Builtin(Byte) -> both(Builtin("bytes"))
       [] t[1] = "vector" /\ arg(1) # Builtin(Byte) ->
            <<<<"[]", arg(1)>>, <<"_array", arg(1)>>>>
       [] t[1] = "array" -> <<<<"[n]", arg(1)>>, <<"_arrayn", arg(1)>>>>
       [] t[1] = "optional" -> <<<<"?", arg(1)>>, <<"optional_", arg(1)>>>>
       [] t[1] = "extension" -> <<<<"$", arg(1)>>, <<"_S", arg(1)>>>>
       [] t[1] = "pair" -> both(<<"pair_", arg(1), arg(2)>>)
       [] t[1] = "map" ->
            <<<<"[]", <<"pair_", arg(1), arg(2)>>>>, <<"map_", arg(1), arg(2)>>>>
       [] t[1] \in {"tuple", "variant"} ->
            LET n == <<t[1]>> \o Elements(parsed, t) IN <<n, <<"_E", n>>>>
       [] t[1] = "box" -> both(<<"box_", arg(1)>>)
       [] t[1] = "pb" -> both(<<"protobuf::", t[2]>>)

get_type(parsed, t) == translate_type(parsed, get_ignored_type(t))

(* An alias whose own name differs from the name of what it stands for.    *)
is_aliasing(parsed, t) ==
  t[1] = "alias" /\ get_base_type_name(t[2]) # get_type(parsed, Aliased[t[2]])
=============================================================================
