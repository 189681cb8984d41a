----------------------------- MODULE MCLibrary -----------------------------
(***************************************************************************)
(* kv::map together with the parts of the libraries and tools that keep    *)
(* little or no state: a behaviour is one of the part chosen at its start, *)
(* while the others rest.                                                  *)
(*                                                                         *)
(* kv::map: bytes of four values, 2 and 3 with the sign bit set; keys that *)
(* end in each of them, that differ in the first byte, and one that        *)
(* another one extends.  Int128: digits of two bits, so integers of eight  *)
(* bits, all of them; floats of eight bits.  write_decimal: three digits   *)
(* of base 3.  Words of eight values for the stream.  Ropes of at most six *)
(* nodes, which may use one of them twice.  Blocks with and without time   *)
(* skipped, also by less than a slot.  Four messages side by side, or two  *)
(* of them nested in the third.  Two extensions.  A first heap of six      *)
(* units, pages of eight.  Bodies of two statements, two deep.  Three      *)
(* actions of two contracts, one of them with the dispatcher for both.     *)
(* Ricardian files of up to four pieces, and pairs of longer ones.         *)
(* Fields of every type, alone, and three that may point to the message    *)
(* they are in; two files of enumerations.  Names of two bytes of three    *)
(* values.  Two wrappers of elements of two maps.  Keys of numbers of up   *)
(* to three bytes, names of two full characters.                           *)
(***************************************************************************)
EXTENDS KvMap, Library

MCKey == {<<0, 1>>, <<0, 2>>, <<0, 3>>, <<1, 0>>, <<1>>}

CONSTANTS NaN, PublicKey, Letters

MCText == {<<l>> : l \in Letters}

VARIABLES
  call, answer,
  request, outcome,
  parent, uses, oneof, next, dependencies, messages, error,
  level, body, redecls, todo, check_points, output,
  files, abi, directory, exported, imported,
  protos, epilogue, headers, broken,
  pem, parsed,
  spelled, named

Integer == 0..255
Nested == {<<0, 0, 0, 0>>, <<3, 3, 0, 0>>}

-----------------------------------------------------------------------------
(* Bodies of functions to trace, and their declarations.                   *)
Statement(k) == [k |-> k, lam |-> <<>>, hid |-> <<>>]
Plain == Statement("plain")
ByMacro == [k |-> "plain", lam |-> <<>>, hid |-> <<>>, macro |-> TRUE]
Block(q) == [k |-> "block", body |-> q]
Lambda(b) == [k |-> "plain", lam |-> <<b>>, hid |-> <<>>]
HiddenLambda(b) == [k |-> "return", lam |-> <<>>, hid |-> <<b>>]
NoElse == [k |-> "none", at |-> <<>>]
If(t, e) == [k |-> "if", then |-> t, else |-> e]
Of(k, s) == [k |-> k, sub |-> s]

Leaves == {Plain, Statement("return"), ByMacro}
Blocks == {Block(<<s>>) : s \in Leaves} \cup {Block(<<Plain, Plain>>)}
Compound ==
  {If(t, e) : t \in Leaves \cup Blocks, e \in Leaves \cup Blocks \cup {NoElse}}
  \cup {Of(k, s) : k \in {"loop", "do", "label"}, s \in Leaves \cup Blocks}
  \cup {Lambda(b) : b \in Blocks} \cup {HiddenLambda(b) : b \in Blocks}
  \cup {Of("try", b) : b \in Blocks}
  \cup {Of("switch", Block(<<Of("case", s), Plain, Of("case", Of("case", t))>>)) :
           s, t \in {Plain, Statement("return"), Block(<<Plain>>)}}
Small ==
  {Of("loop", Plain), If(Plain, NoElse), If(Statement("return"), Plain), Of("label", Plain),
   Lambda(Block(<<Plain>>)), Of("switch", Block(<<Of("case", Plain), Plain>>))}
Deeper ==
  {If(s, e) : s \in Small, e \in {NoElse, Plain}}
  \cup {Of(k, s) : k \in {"loop", "do", "label"}, s \in Small \cup {Block(<<s>>) : s \in Small}}
MCBody == {Block(<<>>)} \cup {Block(<<s, Plain>>) : s \in Compound \cup Deeper}

Declaration(defines, main, loc, params) ==
  [defines |-> defines, main |-> main, loc |-> loc, params |-> params]
MCRedecl ==
  {Declaration(TRUE, TRUE, 8, <<"a", "unnamed", "b">>),
   Declaration(FALSE, TRUE, 3, <<"unnamed", "c", "d">>),
   Declaration(FALSE, FALSE, 9, <<"d", "pack", "a">>),
   Declaration(FALSE, TRUE, 12, <<"e", "f", "g">>),
   Declaration(TRUE, TRUE, 8, <<>>)}

-----------------------------------------------------------------------------
(* Actions and who receives them; arguments of every convertible type.     *)
MCHandlers ==
  {[account |-> "a", name |-> "pay", params |-> <<"uint8", "bool">>, ignored |-> 0],
   [account |-> "a", name |-> "memo", params |-> <<"string", "uint8">>, ignored |-> 1],
   [account |-> "b", name |-> "pay", params |-> <<"uint8", "bool">>, ignored |-> 0]}
MCLegacy == [account |-> "b", takes |-> {<<"a", "memo">>, <<"b", "pay">>}]
MCUsers == {[by |-> "levels", of |-> <<>>], [by |-> "name", of |-> "u"]}
Lvalue(t, v) == [type |-> t, value |-> v, lvalue |-> TRUE]
Rvalue(t, v) == [type |-> t, value |-> v, lvalue |-> FALSE]
MCArguments ==
  {<<Lvalue("int", 5), Rvalue("int", 2)>>, <<Rvalue("bool", 1), Rvalue("int", 2)>>,
   <<Lvalue("chars", 9), Lvalue("bool", 1)>>, <<Rvalue("int", 1), Lvalue("chars", 9)>>}

-----------------------------------------------------------------------------
(* Ricardian files: tags with and without white space, names, texts.       *)
Tag == <<"<", "h", "1", "w", "c", "l", "=", "q", "t", "q", ">">>
TagWithSpace ==
  <<"<", "w", "h", "1", "c", "l", "w", "=", "w", "q", "t", "q", "w", "w", ">", "w">>
EndTag == <<"<", "/", "h", "1", ">">>
EndTagWithSpace == <<"<", "w", "/", "h", "1", "w", ">">>
Name == <<"a">>
OtherName == <<"b">>
Pieces == {Tag, TagWithSpace, EndTag, EndTagWithSpace, <<"w">>, Name, <<"<">>}
OneText == <<Tag, Name, EndTag, <<"w", "a">>>>
TwoTexts == OneText \o <<TagWithSpace, <<"a", "w">>, EndTagWithSpace, <<"w">>>>
MCFiles ==
  {<<<<p, p>>, <<>>>> : p \in UNION {[1..n -> Pieces] : n \in 0..4}} \cup
  {<<<<p, q>>, <<r, s>>>> : p, q, r, s \in {<<>>, OneText, TwoTexts}}

-----------------------------------------------------------------------------
(* Fields of a message that is nested in another one; requests for files.  *)
Message == <<"a", "m">>
Field(k, number, repeated, packed, zpp_type, zpp_optional) ==
  [type |-> k[1], path |-> k[2], key |-> "string", mapped |-> "int32",
   number |-> number, repeated |-> repeated, packed |-> packed,
   zpp_type |-> zpp_type, zpp_optional |-> zpp_optional]
Scalars ==
  {"int32", "int64", "uint32", "uint64", "sint32", "sint64", "fixed32", "fixed64",
   "sfixed32", "sfixed64", "float", "double", "bool", "string", "bytes"}
Paths ==
  {<<"a">>, Message, <<"a", "m", "n">>, <<"class">>, <<"b", "n">>, <<"class", "n">>,
   <<"b", "class">>, <<"a", "m", "class">>}
Kinds ==
  Scalars \X {<<>>} \cup {<<"map", <<>>>>} \cup ({"message", "enum"} \X Paths)
AnyField ==
  {Field(k, n, r, p, z, o) :
     k \in Kinds, n \in 1..2, r, p, o \in BOOLEAN, z \in {"", "name"}}
SimpleField ==
  {Field(k, n, r, TRUE, "", FALSE) : n \in 1..3, r \in BOOLEAN,
     k \in {<<"bool", <<>>>>} \cup ({"message"} \X {<<"a">>, Message, <<"b", "n">>})}
Enumeration(path, values) == [path |-> path, values |-> values]
Enumerations ==
  {Enumeration(<<"e">>, {0, 1}), Enumeration(<<"a", "class">>, {0, 5, 128}),
   Enumeration(<<"f">>, {-129, 0}), Enumeration(<<"a", "e">>, {0, 129}),
   Enumeration(<<"g">>, {0, 300})}
File(proto3, enums, fields) ==
  [proto3 |-> proto3, enums |-> enums, message |-> Message, fields |-> fields]
MCRequest ==
  {<<File(TRUE, <<>>, <<f>>)>> : f \in {f \in AnyField : f.type = "map" => f.repeated}}
  \cup {<<File(TRUE, <<>>, q)>> : q \in
          {q \in [1..3 -> SimpleField] : Cardinality({q[n].number : n \in 1..3}) = 3}}
  \cup {<<File(p, <<e[1], e[2]>>, <<>>), File(TRUE, <<e[3]>>, <<>>)>> : p \in BOOLEAN, e \in
          {e \in [1..3 -> Enumerations] : Cardinality({e[n] : n \in 1..3}) = 3}}

-----------------------------------------------------------------------------
(* Identifiers of RSA keys and of keys on elliptic curves.                 *)
MCAlgorithms ==
  {<<42, 134, 72, 134, 247, 13, 1, 1, 1>>, <<42, 134, 72, 206, 61, 2, 1>>}

(* Elements that a map is constructed from.                                *)
Element(k, value, payer) == [key |-> k, value |-> value, payer |-> payer]
MCElements ==
  {<<Element("k", <<1, 1>>, "self"), Element("l", <<1>>, "user")>>,
   <<Element("k", <<>>, "user"), Element("k", <<1>>, "self")>>}

(* Keys of tables, their types of rows, and values of rows.                *)
MCTableKey == {<<>>, <<0, 255>>, <<159, 10>>} \cup {<<b>> : b \in {9, 15, 16, 160, 171, 250}}
MCRowType == {<<"a">>, <<"b">>, <<"a", "b">>, <<"b", "a">>, <<"a", "b", "a">>}
MCRowBytes == {<<>>, <<0>>, <<1, 2>>}
MCRowValue == {<<>>, <<1>>, <<1, 1>>}
MCRawBytes == {<<1, 5, 5>>, <<2, 1>>}
MCOtherBytes == <<1, 1>>

-----------------------------------------------------------------------------
Int128 == INSTANCE Int128 WITH Digit <- 2, Fraction <- 3, Exponent <- 4, Operand <- Integer
Eosiolib == INSTANCE Eosiolib WITH
  Base <- 3, MaxDigits <- 3, MaxPlaces <- 4, Address <- 9, MaxWeight <- 4,
  Key <- PublicKey, MaxKeys <- 3
ProtocPlugin == INSTANCE ProtocPlugin WITH Shape <- Nested, MaxFields <- 2

TraceGen == INSTANCE TraceGen WITH Body <- MCBody, Redecl <- MCRedecl
Ricardian == INSTANCE Ricardian WITH
  Contract <- {1, 2}, ActionsOf <- <<{Name}, {Name, OtherName}>>, ClauseLike <- {OtherName},
  Opening <- {Tag, TagWithSpace}, Closing <- {EndTag, EndTagWithSpace}, Files <- MCFiles
ProtocFields == INSTANCE ProtocFields WITH
  Request <- MCRequest, Keyword <- {"class"}, request <- protos, failed <- broken
RsaKeys == INSTANCE RsaKeys WITH
  Moduli <- {<<5>>, <<2, 1, 7>>, <<200, 0, 255>>, <<128, 2>>},
  Exponents <- {<<3>>, <<1, 0, 1>>}, Algorithms <- MCAlgorithms,
  LengthBytes <- {1, 4}, LineLength <- 16, request <- pem, outcome <- parsed
NameCodes == INSTANCE NameCodes WITH
  Full <- 2, Character <- {46, 48, 49, 53, 65, 97, 106, 107, 122},
  request <- spelled, outcome <- named

Parts == {"KvMap", "Int128", "Eosiolib", "Rope", "Singleton", "Datastream",
          "TestChain", "ProtocPlugin", "BinaryExtension", "MemoryManager", "TraceGen",
          "Actions", "Ricardian", "ProtocFields", "TableKeys",
          "MapElements", "RsaKeys", "NameCodes"}

int128Vars == <<call, answer>>
eosiolibVars == <<request, outcome>>
protocPluginVars == <<parent, uses, oneof, next, dependencies, messages, error>>
traceGenVars == <<level, body, redecls, todo, check_points, output>>
ricardianVars == <<files, abi, directory, exported, imported>>
protocFieldsVars == <<protos, epilogue, headers, broken>>
rsaKeysVars == <<pem, parsed>>
nameCodesVars == <<spelled, named>>

libraryVars ==
  <<partsVars, vars, int128Vars, eosiolibVars, protocPluginVars,
    traceGenVars, ricardianVars, protocFieldsVars, rsaKeysVars, nameCodesVars>>

(* The states of parts at rest; kv::map, whose properties are not asked of *)
(* the chosen part only, rests in one of its initial states.               *)
Resting ==
  /\ PartsInit
  /\ IF part = "KvMap" THEN Init
     ELSE Init /\ store = {} /\ \A i \in Iterator : Forward(i)
  /\ IF part = "Int128" THEN Int128!Init ELSE call = 0 /\ answer = <<>>
  /\ IF part = "Eosiolib" THEN Eosiolib!Init ELSE request = 0 /\ outcome = <<>>
  /\ IF part = "ProtocPlugin" THEN ProtocPlugin!Init
     ELSE /\ parent = 0 /\ uses = 0 /\ oneof = 0 /\ next = 0
          /\ dependencies = 0 /\ messages = 0 /\ error = 0
  /\ IF part = "TraceGen" THEN TraceGen!Init
     ELSE /\ level = 0 /\ body = 0 /\ redecls = 0 /\ todo = 0
          /\ check_points = 0 /\ output = 0
  /\ IF part = "Ricardian" THEN Ricardian!Init
     ELSE /\ files = 0 /\ abi = 0 /\ directory = 0 /\ exported = 0 /\ imported = 0
  /\ IF part = "ProtocFields" THEN ProtocFields!Init
     ELSE protos = 0 /\ epilogue = 0 /\ headers = 0 /\ broken = 0
  /\ IF part = "RsaKeys" THEN RsaKeys!Init ELSE pem = 0 /\ parsed = 0
  /\ IF part = "NameCodes" THEN NameCodes!Init ELSE spelled = 0 /\ named = 0

LibraryInit == part \in Parts /\ Resting

LibraryNext ==
  /\ PartsNext
  /\ IF part = "KvMap" THEN Next ELSE UNCHANGED vars
  /\ IF part = "Int128" THEN Int128!Evaluate ELSE UNCHANGED int128Vars
  /\ IF part = "Eosiolib" THEN Eosiolib!Return ELSE UNCHANGED eosiolibVars
  /\ IF part = "ProtocPlugin" THEN ProtocPlugin!generate_file
     ELSE UNCHANGED protocPluginVars
  /\ IF part = "TraceGen" THEN TraceGen!Next ELSE UNCHANGED traceGenVars
  /\ IF part = "Ricardian" THEN Ricardian!Next ELSE UNCHANGED ricardianVars
  /\ IF part = "ProtocFields" THEN ProtocFields!generate_file ELSE UNCHANGED protocFieldsVars
  /\ IF part = "RsaKeys" THEN RsaKeys!Return ELSE UNCHANGED rsaKeysVars
  /\ IF part = "NameCodes" THEN NameCodes!Return ELSE UNCHANGED nameCodesVars

LibrarySpec == LibraryInit /\ [][LibraryNext]_libraryVars

(* The properties of these parts: of the numbers of compiler_builtins and  *)
(* of eosiolib.cpp and those of names; of the files that tools read and    *)
(* write, the protobuf plugin's headers, Ricardian texts and public keys;  *)
(* and of traced functions.                                                *)
NumbersAreExact ==
  /\ part = "Int128" => Int128!ArithmeticIsExact
  /\ part = "Eosiolib" => Eosiolib!HelpersAreExact
  /\ part = "NameCodes" => NameCodes!NamesAreFaithful
FilesAreFaithful ==
  /\ part = "ProtocPlugin" => ProtocPlugin!HeaderIsOrdered
  /\ part = "ProtocFields" => ProtocFields!HeadersAreFaithful
  /\ part = "Ricardian" => Ricardian!TextsArrive
  /\ part = "RsaKeys" => RsaKeys!KeysAreParsed
TraceIsTransparent == part = "TraceGen" => TraceGen!TraceIsTransparent
=============================================================================
